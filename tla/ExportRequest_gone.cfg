SPECIFICATION Spec
CONSTANTS
  c1 = c1
  c2 = c2
  e1 = e1
  e2 = e2
  e3 = e3
  Clients = {c1, c2}
  Exports = {e1}
  ClientOf <- MCClientOf
  Copied = {e1}
  MaxPerClient = 1
  MaxTotal = 1
  PoolSize = 1
CHECK_DEADLOCK FALSE
INVARIANT GoneMeansAborted
