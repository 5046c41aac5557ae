CONSTANTS
  s1 = s1
  w1 = w1
  m1 = m1
  m2 = m2
  ts = ts
  tw = tw
  Node = {s1, w1, m1, m2, ts, tw}
  NoNode = NoNode
  Strong = {s1, m2, ts}
  Temp = {ts, tw}
  o1 = o1
  o2 = o2
  Object = {o1, o2}
  NoObject = NoObject
  MemberOf <- MCMemberOf
  Address <- MCAddress
  Resettable = {FALSE}
  Info = {1, 2, 3, 4, 5}
  NoInfo = 0
SPECIFICATION Spec
INVARIANTS
  DeletedOnce
CHECK_DEADLOCK FALSE
