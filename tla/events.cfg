SPECIFICATION EventsSpec
CONSTANTS
  Capacity = 2
  CounterMax = 7
  MaxEvent = 8
  Preemption = {TRUE, FALSE}
CHECK_DEADLOCK FALSE
INVARIANTS
  EventsInvariant
  CooperativeCountersExact
  OnlyOverflowLoses
PROPERTIES
  ReceivedInOrder
