SPECIFICATION Spec
CONSTANTS
  a = a  b = b  c = c  d = d
  m = m  n = n
  None = None  Unparsable = Unparsable  NoRegistry = NoRegistry
  Refs = {a, b, c, d}
  Files = {m, n}
  Artifacts <- MCArtifacts
  Scripts <- MCScripts
  maxTransitiveDepth = 2
SYMMETRY Perms
CHECK_DEADLOCK FALSE
INVARIANTS IInv ClosedResult CycleExact DepthExact
