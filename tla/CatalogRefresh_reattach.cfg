SPECIFICATION Spec
CONSTANTS
  p1 = p1
  p2 = p2
  l1 = l1
  l2 = l2
  l3 = l3
  Pods <- OnePod
  Loaders <- OneLoader
  PodOf <- OnlyOne
  MaxVersion = 3
  LiveReads = FALSE
  AdminReattach = TRUE
INVARIANT NoStaleUnderNewKey
