SPECIFICATION LiveSpec
CONSTANTS
  Files = {mainTs, mainTsx}
  Stem = mainTs
  Extended = mainTsx
  Symbols = {s}
  MaxHot = 2
  HotDependents = 1
  MaxDeleted = 1
  MaxChanges = 3
INVARIANTS
  GraphsAgree
  
  

  
CHECK_DEADLOCK FALSE
