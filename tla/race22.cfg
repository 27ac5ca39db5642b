SPECIFICATION Spec
CONSTANTS
  NumEntropy = 2
  NumCarrier = 2
  MaxSkip = 2
  Serial = FALSE
  Faults <- RacesAndStale
  MetaOutcomes <- MetaAny
CHECK_DEADLOCK FALSE
CONSTRAINT NoRetry
INVARIANTS JoinBarrier LostErrorOnlyInWindow
