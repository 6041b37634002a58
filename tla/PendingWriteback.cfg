SPECIFICATION LiveSpec
CONSTANTS
  Ids = {i}
  Patience = "clear"
  MaxBatches = 3
  MaxCrashes = 2
  MaxFaults = 3
INVARIANTS
  BatchApplied
  
PROPERTIES
  NoneLost
  EventuallyTried
CHECK_DEADLOCK FALSE
