SPECIFICATION Spec
CONSTANTS
  Workers = {w1, w2}
  Jobs = {1}
  Leases = {l1, l2}
  NoLease = NoLease
  BatchSize = 1
  Pipeline = FALSE
  NoSnapshot = {}
  Disturbances = {"stall", "stop", "db", "job"}
SYMMETRY Symmetry
INVARIANTS
  FenceErrorExplained
  PlaintextOwned
PROPERTIES
  StaleActorsHarmless
