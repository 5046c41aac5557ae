CONSTANTS
  t1 = t1
  t2 = t2
  Thread = {t1, t2}
  NoThread = NoThread
  h1 = h1
  Host = {h1}
  Allocator = Allocator
  MaxCalls = 2
SPECIFICATION FairSpec
INVARIANTS
  OneInstance
  AllocatorOneAtATime
  TrackersApart
PROPERTY CallsReturn
CHECK_DEADLOCK FALSE
