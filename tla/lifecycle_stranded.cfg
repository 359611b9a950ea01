CONSTANTS
  MaxGeneration = 3
  Preemptive = TRUE
SPECIFICATION Spec
INVARIANT NotStranded
