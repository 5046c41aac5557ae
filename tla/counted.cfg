CONSTANTS
  n1 = n1
  n2 = n2
  n3 = n3
  n4 = n4
  s1 = s1
  Node = {n1, n2, n3, n4, s1}
  Strict = {s1}
  o1 = o1
  Object = {o1}
  NoObject = NoObject
  c1 = c1
  c2 = c2
  Cell = {c1, c2}
  NoCell = NoCell
SPECIFICATION FairSpec
INVARIANTS
  TypeOK
  CountExact
  ExistsIffOwned
PROPERTIES
  ImplementsCoOwners
  OrphansDie
