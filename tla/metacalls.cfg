SPECIFICATION UpdatesSpec
CONSTANTS
  Ratios <- SmallRatios
  Memory <- Blocks
  StackFree <- Kernels
  Faults <- AnyFault
  Writes = {w1, w2}
  Cpus = {c1, c2}
  nobody = nobody
  nowhere = nowhere
CHECK_DEADLOCK FALSE
INVARIANTS TypeOK NothingRecovered OneCarrierNeverLoads NoBlockAdded
PROPERTIES UpdateRecordsNothing CallTerminates WritesAnswered
