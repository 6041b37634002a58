SPECIFICATION Spec
CONSTANTS
  Nodes = {1, 2, 3, 4}
  MaxFiles = 4
  MaxTokens = 2
INVARIANTS
  MeasuresExact
  CodeFound
  
  BrainAnswers
CHECK_DEADLOCK FALSE
