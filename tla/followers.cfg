SPECIFICATION FairSpec
CONSTANTS
  log = log
  keyboard = keyboard
  display = display
  allocator = allocator
  object = object
  Default = {}
  Phoenix = {}
  Deletable = {}
  Longevous = {}
  NoDestroy = {}
  Master = {allocator}
  Follower = {object}
  Longevity <- Longevities
  MasterOf <- Masters
  MaxMade = 2
  MaxCalls = 3
INVARIANT
  FollowersDieAfterMasters
CHECK_DEADLOCK FALSE
