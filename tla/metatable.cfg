SPECIFICATION Spec
CONSTANTS
  Ratios <- ShippedRatio
  Memory <- Blocks
  StackFree <- Forgiving
  Faults <- NoFault
CHECK_DEADLOCK FALSE
INVARIANT ShippedTableLoads
