CONSTANTS
  a1 = a1
  a2 = a2
  a3 = a3
  Addr = {a1, a2, a3}
  MinReserve = 1
  AlignSize = 2
  MaxSmallObjectSize = 4
  PageSize = 4
  MinObjectsPerChunk = 1
  MaxObjectsPerChunk = 2
  Sizes = {2}
  MayClear = TRUE
SPECIFICATION Spec
INVARIANT
  TrimNeverThrows
CHECK_DEADLOCK FALSE
