SPECIFICATION FairSpec
CONSTANTS
  p1 = p1  p2 = p2  tag = tag  pin = pin  d1 = d1  d2 = d2  bad = bad
  None = None
  Procs = {p1, p2}
  Refs = {tag}
  Digests = {d1, d2}
  Pinned <- TagOnly
  Bad = {}
  Policy = "Always"
  TTL = 1
  MaxLatency = 1
  MaxMoves = 2
INVARIANTS CacheCoherent
PROPERTIES StalenessBound ImplementsStore CatchesUp
