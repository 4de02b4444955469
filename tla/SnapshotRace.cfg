SPECIFICATION Spec
CONSTANTS
  None = None
  h1 = h1
  h2 = h2
  e1 = e1
  e2 = e2
  a1 = a1
  a2 = a2
  EntityIDs = {e1, e2}
  Identities = {h1, h2}
  Attributes = {a1}
  TombstoneCap = 2
  TombstoneTTL = 2
  Deployments = {{"snapshot"}}
  Overlaps = {"snapshot"}
  Retentions = {1}
  MaxSeq = 4
  MaxTime = 2
SYMMETRY MCSymmetry
INVARIANTS
  ProjectionMatchesLog
