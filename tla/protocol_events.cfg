SPECIFICATION ProtocolSpec
CONSTANTS
  Capacity = 2
  Modulus = 11
  MaxEvent = 16
  Preemption = {TRUE, FALSE}
CHECK_DEADLOCK FALSE
INVARIANTS
  ProtocolInvariant
  SnapshotErrorIsBounded
