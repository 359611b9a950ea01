SPECIFICATION PlaneSpec
CONSTANTS
  MaxGeneration = 3
  Preemptive = FALSE
  MaxId = 3
INVARIANTS
  NotStranded
  SignalsAreCurrent
  PlaneInvariant
PROPERTIES
  StopReturns
  CancelledEnds
  OutstandingReturns
  ActsOnHeldResource
