SPECIFICATION Spec
CONSTANTS
  NumEntropy = 2
  NumCarrier = 2
  MaxSkip = 3
  Serial = TRUE
  Faults <- AnyFaults
  MetaOutcomes <- MetaErrors
CHECK_DEADLOCK FALSE
INVARIANTS MisuseOnlyAfterFailure AckMeansStored DecodeAlwaysFails ErasuresBounded ReadOkOnlyPastLastProbe
PROPERTIES ReadTerminates
