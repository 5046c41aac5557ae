\* Pools for blocks of 2 and 4 bytes, with 2 and 1 blocks in a chunk; a
\* request of 5 bytes is large.
CONSTANTS
  a1 = a1
  a2 = a2
  a3 = a3
  Addr = {a1, a2, a3}
  MinReserve = 1
  AlignSize = 2
  MaxSmallObjectSize = 4
  PageSize = 4
  MinObjectsPerChunk = 1
  MaxObjectsPerChunk = 2
  Sizes = {2, 3, 5}
  MayClear = TRUE
  \* One chunk, and one overrun.
  N = 3
  MaxOverruns = 1
  \* Fields of two kinds; places for returned values, which no program uses
  \* together with areas, so that one symmetry serves for both.
  f1 = f1
  g1 = g1
  Field = {f1, g1}
  KindOf <- Kinds
  Bool = "bool"
  Slot = {a1, a2, a3}
  Chain = {1}
  Width = 2
SPECIFICATION PartsSpec
SYMMETRY AreaSymmetry
INVARIANTS
  TypeOK
  FreeListsExact
  EmptyChunkExact
  HeapAccounted
  HeldBlockIsFound
  SoundUntilTrimmed
  IsCorruptExact
  AvailableIsUnheld
  FieldsAreSets
  OneCarriesTheDuty
PROPERTIES
  ImplementsBlockPool
  ClearReleasesUnused
CHECK_DEADLOCK FALSE
