SPECIFICATION MCSpec
CHECK_DEADLOCK FALSE
CONSTANTS
  Callers = {c1, c2}
  MaxRequests = 3
  Window = 7
  MaxBurst = 1
  BurstWindow = 1
  MaxTime = 9
  Requests = {q1, q2, q3}
  Kinds <- ManyKinds
  Addresses = {"desk", "ops", "lan", "ingress"}
  Proxies = {"ingress"}
  Listed = {"ops"}
  Budgets <- MCBudgets
  TooDeep <- MCTooDeep
  TooExpensive <- MCTooExpensive
  q1 = q1
  q2 = q2
  q3 = q3
  Unasked = unasked
  Null = null
  Absent = absent
  A = A
  B = B
  any = any
  Targets <- MCTargets
  Updated <- MCOneSide
  Namespaces <- MCNamespaces
  Loaders = {l1}
  Admins = {a1}
  AnySchema = any
  StartsWith <- MCStartsWith
  MaxVersion = 1
SYMMETRY MCSymmetry
INVARIANT StatesAreTyped
INVARIANT NoStaleAnswer
INVARIANT FlushReachesItsScope
INVARIANT BudgetsAreKept
INVARIANT PriceBoundsTheWork
PROPERTY FlushIsLocal
