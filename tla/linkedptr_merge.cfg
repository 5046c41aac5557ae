CONSTANTS
  n1 = n1
  n2 = n2
  n3 = n3
  n4 = n4
  n5 = n5
  Temp = Temp
  Node = {n1, n2, n3, n4, n5, Temp}
  NoNode = NoNode
  o1 = o1
  Object = {o1}
  NoObject = NoObject
SPECIFICATION Spec
INVARIANT
  MergeAssertionHolds
CHECK_DEADLOCK FALSE
