SPECIFICATION Spec
CONSTANTS
  Requests = {r1}
  ArgValues <- Ratios0
  Room = 3
  MaxLoads = 2
CHECK_DEADLOCK FALSE
INVARIANTS LiveIsComplete LossesExplained ContextOutlivesUsers
PROPERTY UnloadEnds
