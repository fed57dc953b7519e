SPECIFICATION Spec
CONSTANTS
    Conversation = {c1, c2}
    Request = {r1, r2}
    GroupKey = {k1, k2}
    DeleteKey = {d1, d2}
    MaxPolicies = 1
    Mixes <- SeparateMixes
    None = None
INVARIANTS TypeOK LogExplainsState ChatsWhereDecided
PROPERTIES RetriedDeletionAnswered
SYMMETRY Symmetry
