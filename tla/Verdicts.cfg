SPECIFICATION Spec
CONSTANTS
  Files = {file, importer, other}
  File = file
  Elsewhere = elsewhere
  MaxDepth = 2
  MaxChain = 4
  FeatureKinds <- MCFeatureKinds
  Signature <- MCSignature
  MaxFeatures = 2
  SectionKinds <- MCSectionKinds
  MaxSections = 3
  MaxBudget = 5
  Counts = {0, 1, 5, 10, 11, 20, 21}
INVARIANTS
  ChangeSound
  ChoiceOptimal
  RiskAdds
  ReachExact
CHECK_DEADLOCK FALSE
