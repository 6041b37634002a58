SPECIFICATION Spec
CONSTANTS
  Actors = {a, b}
  Width = 1
  Ids = {i}
  MaxEdits = 2
  MaxSeq = 5
  OpsCap = 3
  MaxFaults = 1
  MissedReads = TRUE
  Turns = TRUE
INVARIANTS
  RecoverableProjection
  UniqueNumbers
PROPERTIES
  MergeKeepsNewer
CHECK_DEADLOCK FALSE
