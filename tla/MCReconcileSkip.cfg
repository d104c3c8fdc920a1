SPECIFICATION FairSpec
CONSTANTS
  a = a  b = b  c = c  d = d  None = None
  Names = {a, b}
  Order <- SkipOrder
  DependsOn <- SkipDeps
  WhenArg <- SkipWhens
  Namespace <- SkipNS
  ScriptOverrides <- AllCalls
  Sick <- WrappedToo
  UsageAPI = "v2"
  UserTTL = "positive"
  Fresh <- MCFresh
  Healthy <- MCHealthy
INVARIANT IInv
PROPERTIES NotReadyWhileIncomplete ConditionCurrent Converges
