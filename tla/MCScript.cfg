SPECIFICATION Spec
CONSTANTS
  a = a  b = b  c = c   k = k  m = m  v1 = v1  v2 = v2  o1 = o1  o2 = o2
  None = None  NotSet = NotSet
  Names = {a, b}
  MaxCalls = 3
  MaxItems = 1
  CtxKeys = {c}
  DetailKeys = {k}
  Reports = {m}
  Objects = {o1, o2}
  APIs = {v1, v2}
  Seconds <- MCSeconds
  TimeSecond = 3
  maxDuration = 15
  Priors <- MCPriors
  MaxRounds = 2
SYMMETRY Symmetric
CHECK_DEADLOCK FALSE
INVARIANTS RefTargetsExist MissingGates ManifestCurrent PriorKept NothingLost HandleExact TTLHonoured
