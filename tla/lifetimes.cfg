SPECIFICATION FairSpec
CONSTANTS
  log = log
  keyboard = keyboard
  display = display
  allocator = allocator
  object = object
  Default = {d1, d2}
  Phoenix = {phoenix}
  Deletable = {deletable}
  Longevous = {log, keyboard, display}
  NoDestroy = {eternal}
  Master = {allocator}
  Follower = {object}
  Longevity <- Longevities
  MasterOf <- Masters
  MaxMade = 3
  MaxCalls = 3
INVARIANTS
  TypeOK
  DestroysOnlyTheLiving
  OneTurnEach
  UsedOutlivesUser
  FollowersDieFirst
PROPERTIES
  ShorterLivedFirst
  DiesAtExit
CHECK_DEADLOCK FALSE
