SPECIFICATION FairBlockingSpec
CONSTANTS
  MaxSequence = 5
  CommandCapacity = 1
  CancellationCapacity = 3
  PollError = {e1}
INVARIANTS
  BlockingInvariant
  ScanBufferIsQuiet
PROPERTIES
  DroppedIsNotStarted
  ImplementsService
  CallIsAnswered
