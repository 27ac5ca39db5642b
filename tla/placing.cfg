SPECIFICATION Spec
CONSTANTS
  Headers <- AllHeaders
  Hash <- Hashes
  LogicalSector = 5001
  Starts <- SomeStarts
  Earlier <- CleanOrNot
  FsClusters <- FsTwo
  M = 2
  K = 2
  MaxFailures = 1
CHECK_DEADLOCK FALSE
INVARIANTS OverwritesExplained ProbesShared LookupInsideFat MetadataNeverPlaced
PROPERTY WriteDecided
