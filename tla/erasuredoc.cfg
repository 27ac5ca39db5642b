SPECIFICATION Spec
CONSTANTS
  NumEntropy = 2
  NumCarrier = 2
  MaxSkip = 3
  Serial = FALSE
  Faults <- StaleFaults
  MetaOutcomes <- MetaOk
CHECK_DEADLOCK FALSE
INVARIANT ListedMeansErased
