SPECIFICATION MCSpec
CONSTANTS
  unread = unread
  Batches = {b1, b2}
  BatchKeys = {k1, k2}
  Together = {b1}
  Connections = {c1}
  None = none
  Requests = {r1, r2}
  Monitor = monitor
  missing = missing
  Unread = unread
  Catalogs <- MCCatalogs
  Order <- MCOrder
  Explicit = {"a"}
  Configured <- MCConfigured
  Lakes <- MCLakes
  Updated <- MCUpdated
  MaxCommits = 2
  MaxFaults = 1
CHECK_DEADLOCK FALSE
INVARIANT StatesAreTyped
INVARIANT BatchesAreSound
INVARIANT AcceptedAreServed
INVARIANT ServedAsConfigured
PROPERTY UnchangedIsLeftAlone
PROPERTY AllComesToAnEnd
