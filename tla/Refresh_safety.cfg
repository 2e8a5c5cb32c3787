SPECIFICATION MCSpec
CONSTANTS
  p1 = p1
  p2 = p2
  l1 = l1
  l2 = l2
  l3 = l3
  Pods <- OnePod
  Loaders <- TwoLoaders
  PodOf <- BothOnOne
  MaxVersion = 3
  LiveReads = FALSE
  AdminReattach = FALSE
INVARIANT TypeOK
INVARIANT NoStaleUnderNewKey
INVARIANT ServedIsShown
INVARIANT LiveReadsStayFresh
PROPERTY UpdatesArrive
