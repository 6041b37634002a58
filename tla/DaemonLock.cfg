SPECIFICATION Spec
CONSTANTS
  Procs = {1, 2, 3, 4}
  MaxReuse = 1
INVARIANTS
  LockServes
PROPERTIES
  ExitsForDaemon
CHECK_DEADLOCK FALSE
