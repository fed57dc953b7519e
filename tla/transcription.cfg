SPECIFICATION FairSpec
CONSTANTS
    Call = {c1, c2}
    Model = {m1, m2}
    Allowed = {m1}
    Private = {p}
    Public = {x}
    TTL = 1
    MaxNow = 1
    MaxChanges = 1
    MaxFaults = 2
    None = None
INVARIANTS TypeOK NothingLeftBehind ConnectsPrivately CatalogFresh
PROPERTIES EveryCallEnds
CHECK_DEADLOCK FALSE
