SPECIFICATION Spec
CONSTANTS
  A = A
  B = B
  any = any
  Targets <- MCTargets
  Updated <- MCOneSide
  Namespaces <- MCNamespaces
  Loaders = {l1}
  Admins = {a1}
  AnySchema = any
  StartsWith <- MCStartsWith
  MaxVersion = 1
INVARIANT FlushAllReachesEveryEntry
