SPECIFICATION Spec
CONSTANTS
  Workers = {w1, w2}
  Jobs = {1}
  Leases = {l1, l2}
  NoLease = NoLease
  BatchSize = 1
  Pipeline = TRUE
  NoSnapshot = {}
  Disturbances = {"crash", "restart", "stall", "fs", "job"}
SYMMETRY Symmetry
INVARIANTS
  TypeOK
  ExactlyOnce
  NeverStranded
PROPERTIES
  ImplementsLifecycle
