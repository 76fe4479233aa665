CONSTANTS
  Messages = {m1}
  Consumers = {c1, c2}
  Producers = {p1}
  Keys = {}
  Null = Null
  TicksPerMs = 2
  Visibility = {1}
  Delays = {0, 1}
  Limits = {1}
  MaxNow = 100
  MaxDeliveries = 2
SPECIFICATION LiveSpec
CHECK_DEADLOCK FALSE
INVARIANTS TableInv LeaseExclusive AcknowledgedOnce
PROPERTIES StaleLeaseIsInert ImplementsContract NoMessageStranded
