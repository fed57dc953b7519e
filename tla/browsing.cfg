CONSTANTS
    N = 5
    Limit = 2
    Retain = 3
    Undated = {4}
    Matches <- MCMatches
    Views = {"chats", "people", "search", "timeline", "tools", "conversation"}
    Slot = {q1, q2}
    MaxChanges = 1
    MaxAsks = 3
    MaxFaults = 1
SPECIFICATION Spec
SYMMETRY Slots
INVARIANTS
    TypeOK
    ListExact
    TimelineContiguous
CHECK_DEADLOCK FALSE
