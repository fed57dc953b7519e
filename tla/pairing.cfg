SPECIFICATION Spec
CONSTANTS
  Account = {a}
  Request = {r1, r2}
  Session = {s1, s2}
  Child = {c1, c2}
  Slot = {1, 2}
  MaxSessions = 1
  MaxFaults = 1
  None = None
INVARIANTS
  TypeOK
  ExpiredMeansStopped
  NobodyStranded
SYMMETRY Symmetry
