SPECIFICATION Spec
CONSTANTS
  NumEntropy = 2
  NumCarrier = 2
  MaxSkip = 3
  Serial = FALSE
  Faults <- RaceFaults
  MetaOutcomes <- MetaOk
CHECK_DEADLOCK FALSE
INVARIANT NoPageFreedTwice
