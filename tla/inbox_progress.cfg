SPECIFICATION FairSpec
CONSTANTS
  Workers = {w1}
  Receipts = {1, 2}
  Claims = {c1, c2}
  NoClaim = NoClaim
  MaxAttempts = 2
  MaxPending = 2
  BatchSize = 1
  Poison = {1}
  Disturbances = {"crash", "transient", "stop"}
PROPERTIES
  ReceiptsSettle
