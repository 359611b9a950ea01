SPECIFICATION CountedSpec
CONSTANTS
  MaxGeneration = 2
  MaxSequence = 2
  BackendSources = {"BACKEND"}
  CommandCapacity = 1
  CancellationCapacity = 3
  Preemptive = FALSE
  CounterMax = 5
  MaxWaits = 5
CHECK_DEADLOCK FALSE
INVARIANTS
  DiagnosticsInvariant
  WaitsAreCounted
