SPECIFICATION Spec
CONSTANTS
  p1 = p1  p2 = p2  tag = tag  pin = pin  d1 = d1  d2 = d2  bad = bad
  None = None
  Procs = {p1, p2}
  Refs = {tag, pin}
  Digests = {d1, d2, bad}
  Pinned <- TagAndPin
  Bad = {bad}
  Policy = "IfNotPresent"
  TTL = 0
  MaxLatency = 0
  MaxMoves = 2
INVARIANT IInv
PROPERTIES PinnedExact ReplacedByRacersOnly
