SPECIFICATION FairSpec
CONSTANTS
  c1 = c1
  c2 = c2
  c3 = c3
  c4 = c4
  MaxConnections = 2
  NoConn = NoConn
  NoInst = NoInst
  FirstInst = 1
  Clients <- FourClients
  Conns <- SixConns
  Instances <- TwoInstances
  CanClose = FALSE
PROPERTIES ImplementsServerQueue QueuedIsServed ReloadEnds
