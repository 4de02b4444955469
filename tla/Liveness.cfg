SPECIFICATION FairSpec
CONSTANTS
  None = None
  h1 = h1
  h2 = h2
  e1 = e1
  e2 = e2
  e3 = e3
  p1 = p1
  p2 = p2
  s0 = s0
  s1 = s1
  a1 = a1
  a2 = a2
  EntityIDs = {e1, e2}
  Identities = {h1}
  Attributes = {a1}
  TombstoneCap = 2
  TombstoneTTL = 1
  Producers = {p1, p2}
  Scopes = {s0}
  NoScope = s0
  Edges = {}
  Intervals = {1}
  EdgeIntervals = {0}
  MaxPromise = 5
  BufferTTL = 1
  MaxPending = 1
  FailingAppends = {}
  MaxTime = 3
  MaxOps = 1
  MaxQueue = 2
PROPERTIES
  SilentEntityExpires
