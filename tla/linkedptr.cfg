CONSTANTS
  n1 = n1
  n2 = n2
  n3 = n3
  n4 = n4
  n5 = n5
  Temp = Temp
  Node = {n1, n2, n3, n4, n5, Temp}
  NoNode = NoNode
  o1 = o1
  o2 = o2
  Object = {o1, o2}
  NoObject = NoObject
SPECIFICATION Spec
SYMMETRY PtrSymmetry
INVARIANTS
  LinksInverse
  ExistsIffOwned
PROPERTIES
  ImplementsCoOwners
CHECK_DEADLOCK FALSE
