SPECIFICATION Spec
CONSTANTS
  Headers <- SmallHeaders
  Hash <- Hashes
  LogicalSector = 5001
  Starts = {0}
  Earlier <- Clean
  FsClusters <- FsThree
  M = 1
  K = 1
  MaxFailures = 0
CHECK_DEADLOCK FALSE
INVARIANT AnswerForSector
