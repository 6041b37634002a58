SPECIFICATION LiveSpec
CONSTANTS
  Projects = {p, q}
  Initial = p
  Requests = {r, s}
  MaxRequests = 3
  QueueCap = 1
INVARIANTS
  RunsIffRegistered
  ActiveRegistered
PROPERTIES
  RequestsFinish
CHECK_DEADLOCK FALSE
