SPECIFICATION OverlapSpec
CONSTANTS
  Requests = {r1, r2, r3}
  Cpus = {c1, c2, c3}
  K = 2
  M = 2
  BioPages = 2
  PoolSizes = {18, 19, 20, 49, 50}
  nobody = nobody
  nowhere = nowhere
  NumEntropy = 3
  NumCarrier = 3
  MaxSkip = 1
  Serial = FALSE
  Faults <- StaleOnly
  MetaOutcomes <- MetaOk
SYMMETRY Interchangeable
CHECK_DEADLOCK FALSE
CONSTRAINT ToFirstDecode
INVARIANTS PagesConserved StuckExplained ReadOkExplained
