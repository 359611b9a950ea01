SPECIFICATION FairFacadeSpec
CONSTANTS
  MaxGeneration = 2
  MaxSequence = 2
  BackendSources <- MCPlatformSources
  CommandCapacity = 1
  CancellationCapacity = 3
  Preemptive = FALSE
CHECK_DEADLOCK FALSE
INVARIANTS
  DropRequestsCancel
PROPERTIES
  CallIsAnswered
  DropReachesBackend
