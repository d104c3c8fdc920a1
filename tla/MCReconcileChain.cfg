SPECIFICATION Spec
CONSTANTS
  a = a  b = b  c = c  d = d  None = None
  Names = {a, b, c, d}
  Order <- ChainOrder
  DependsOn <- ChainDeps
  WhenArg <- ChainWhens
  Namespace <- ChainNS
  ScriptOverrides <- NoCalls
  Sick <- FreshOnly
  UsageAPI = "v2"
  UserTTL = "unset"
  Fresh <- MCFresh
  Healthy <- MCHealthy
INVARIANTS UsageStays CircularNeverApplied
PROPERTIES CreationOrder WithdrawnOnlyIfSkipped UsageScopeStable
