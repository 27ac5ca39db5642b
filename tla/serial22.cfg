SPECIFICATION Spec
CONSTANTS
  NumEntropy = 2
  NumCarrier = 2
  MaxSkip = 10
  Serial = TRUE
  Faults <- CarrierFaults
  MetaOutcomes <- MetaOk
CHECK_DEADLOCK FALSE
INVARIANTS
  TypeOK
  MemorySafe
  AnsweredMeansReleased
PROPERTIES
  WriteAnswered
  ImplementsBlockRequest
