SPECIFICATION FairSpec
CONSTANTS
  Workers = {w1}
  Jobs = {1, 2, 3, 4}
  Leases = {l1, l2}
  NoLease = NoLease
  BatchSize = 2
  Pipeline = TRUE
  NoSnapshot = {1}
  Disturbances = {"crash", "stop"}
ACTION_CONSTRAINT KilledApart
PROPERTIES
  QueueProgress
  ActiveJobsMoveOn
