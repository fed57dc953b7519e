CONSTANTS
    N = 5
    Limit = 2
    Retain = 3
    Undated = {4}
    Matches <- MCMatches
    Views = {"timeline"}
    Slot = {q1, q2}
    MaxChanges = 1
    MaxAsks = 3
    MaxFaults = 1
SPECIFICATION Spec
SYMMETRY Slots
INVARIANTS
    CursorsFollowable
CHECK_DEADLOCK FALSE
