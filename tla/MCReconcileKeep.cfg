SPECIFICATION Spec
CONSTANTS
  a = a  b = b  c = c  d = d  None = None
  Names = {a, b}
  Order <- SkipOrder
  DependsOn <- SkipDeps
  WhenArg <- KeepWhens
  Namespace <- SkipNS
  ScriptOverrides <- NoCalls
  Sick <- FreshOnly
  UsageAPI = "v2"
  UserTTL = "unset"
  Fresh <- MCFresh
  Healthy <- MCHealthy
INVARIANT UsageStays
