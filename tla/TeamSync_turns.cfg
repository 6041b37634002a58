SPECIFICATION LiveSpec
CONSTANTS
  Actors = {a, b}
  Width = 1
  Ids = {i, j}
  MaxEdits = 1
  MaxSeq = 9
  OpsCap = 2
  MaxFaults = 0
  MissedReads = FALSE
  Turns = TRUE
INVARIANTS
  NoSkippedOperation
  BrainKeepsDecisions
PROPERTIES
  ImplementsLog
  MembersAgree
CHECK_DEADLOCK FALSE
