SPECIFICATION Spec
CONSTANTS
  MaxGeneration = 2
  MaxSequence = 3
  BackendSources <- MCBackendSources
INVARIANTS
  DriverConsistent
  Accounted
  CancelledOnce
  NoMisdirectedStep
  WaitIntentIsExact
PROPERTIES
  ImplementsService
  StaleReportHarmless
