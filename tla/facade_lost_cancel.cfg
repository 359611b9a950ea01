SPECIFICATION FacadeSpec
CONSTANTS
  MaxGeneration = 2
  MaxSequence = 2
  BackendSources <- MCPlatformSources
  CommandCapacity = 1
  CancellationCapacity = 3
  Preemptive = TRUE
CHECK_DEADLOCK FALSE
INVARIANT
  DropRequestsCancel
