SPECIFICATION Spec
CONSTANTS
  None = None
  h1 = h1
  h2 = h2
  e1 = e1
  e2 = e2
  a1 = a1
  a2 = a2
  EntityIDs = {e1, e2}
  Identities = {h1}
  Attributes = {a1, a2}
  TombstoneCap = 2
  TombstoneTTL = 2
  Deployments = {{"snapshot", "coalesce"}, {"prune"}}
  Overlaps = {}
  Retentions = {1}
  MaxSeq = 4
  MaxTime = 3
SYMMETRY MCSymmetry
INVARIANTS
  ProjectionMatchesLog
  
  
