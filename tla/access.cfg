SPECIFICATION Spec
CONSTANTS
    Subject = {u1, u2}
    Session = {s1}
    Challenge = {c1, c2}
    Slot = {q1, q2}
    MaxRestarts = 1
    None = None
INVARIANTS TypeOK OneAdministrator ChallengeUsedOnce ShutStaysShut
SYMMETRY Symmetry
