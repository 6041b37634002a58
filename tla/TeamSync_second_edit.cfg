SPECIFICATION LiveSpec
CONSTANTS
  Actors = {a, b}
  Width = 1
  Ids = {i}
  MaxEdits = 2
  MaxSeq = 9
  OpsCap = 9
  MaxFaults = 0
  MissedReads = FALSE
  Turns = TRUE
PROPERTIES
  MembersAgree
CHECK_DEADLOCK FALSE
