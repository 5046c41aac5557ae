CONSTANTS
  shape = shape
  poly = poly
  rounded = rounded
  round = round
  Class = {shape, poly, rounded, round}
  ParentsOf <- Parents
  NoCallback = NoCallback
  BadCast = BadCast
  m1 = m1
  m2 = m2
  m3 = m3
  Static = {m1, m2, m3}
  ProductCreator = {m1, m2, m3}
  NoStatic = NoStatic
  MaxLongevity = 3
  Longevities <- LongevityChoices
  Locals <- LocalChoices
  MaxCreations = 2
  ClassesOf <- Sets
  CallbackOf <- Callbacks
  MainFunction <- MainCallbacks
  Typelists <- Lists
  MaxOps = 2
SPECIFICATION FairSpec
INVARIANTS
  RegistriesMatchLife
  DispatchSound
PROPERTIES
  OutlivedByNeeds
  StaticsCreated
CHECK_DEADLOCK FALSE
