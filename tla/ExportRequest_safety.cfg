SPECIFICATION FairSpec
CONSTANTS
  c1 = c1
  c2 = c2
  e1 = e1
  e2 = e2
  e3 = e3
  Clients = {c1, c2}
  Exports = {e1, e2, e3}
  ClientOf <- MCClientOf
  Copied = {e1, e3}
  MaxPerClient = 1
  MaxTotal = 2
  PoolSize = 1
CHECK_DEADLOCK FALSE
INVARIANTS TypeOK NothingLeaks ConnectionIsClean CompleteMeansReleased SlotsBoundTheDisk
PROPERTY EveryExportEnds
