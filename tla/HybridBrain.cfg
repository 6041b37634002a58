SPECIFICATION LiveSpec
CONSTANTS
  Ids = {i, j, k}
  Cap = 1
  MaxWrites = 3
  MaxTasks = 2
  MaxAdmin = 1
  MaxFaults = 1
  Overlap = "entries"
INVARIANTS
  MirrorReadable
  StoresAgree
  CacheAgrees
  OvershootBounded
PROPERTIES
  EventuallyInRedis
CHECK_DEADLOCK FALSE
