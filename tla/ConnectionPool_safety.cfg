SPECIFICATION Spec
CONSTANTS
  c1 = c1
  c2 = c2
  c3 = c3
  c4 = c4
  MaxConnections = 2
  NoConn = NoConn
  NoInst = NoInst
  FirstInst = 1
  Clients <- ThreeClients
  Conns <- FiveConns
  Instances <- ThreeInstances
  CanClose = TRUE
SYMMETRY Symmetry
INVARIANT TypeOK
INVARIANT CapacityRespected
INVARIANT QueuedOnlyWhenSaturated
INVARIANT InUseMeansHeld
INVARIANT SlotsAreOpenings
INVARIANT PoolIsLive
CHECK_DEADLOCK FALSE
