SPECIFICATION Spec
CONSTANTS
  Workers = {w1, w2}
  Receipts = {1, 2}
  Claims = {c1, c2}
  NoClaim = NoClaim
  MaxAttempts = 2
  MaxPending = 1
  BatchSize = 2
  Poison = {2}
  Disturbances = {"crash", "slow", "transient", "db"}
SYMMETRY Symmetry
INVARIANTS
  TypeOK
  NormalizedOnce
  PendingHasAttempts
  VerdictsJustified
PROPERTIES
  ClaimRespected
