CONSTANTS
  Messages = {m1, m2}
  Consumers = {c1, c2}
  Producers = {p1, p2}
  Keys = {k1}
  Null = Null
  TicksPerMs = 1
  Visibility = {1}
  Delays = {0}
  Limits = {1, 2}
  MaxNow = 1
  MaxDeliveries = 1
SPECIFICATION Spec
SYMMETRY Symmetry
CHECK_DEADLOCK FALSE
INVARIANTS OneRowPerKey
