SPECIFICATION Spec
CONSTANTS
  r1 = r1
  monitor = monitor
  Requests = {r1}
  Monitor = monitor
CHECK_DEADLOCK FALSE
PROPERTY NothingHoldsAConnection
