SPECIFICATION FacadeSpec
CONSTANTS
  MaxGeneration = 1
  MaxSequence = 4
  BackendSources <- MCPlatformSources
  CommandCapacity = 1
  CancellationCapacity = 3
  Preemptive = TRUE
CHECK_DEADLOCK FALSE
INVARIANTS
  FacadeInvariant
  AnswerIsKept
  ScanBufferIsQuiet
