SPECIFICATION Spec
CONSTANTS
    e1 = e1
    e2 = e2
    p1 = p1
    r1 = r1
    r2 = r2
    Event = {e1, e2}
    Poison = {p1}
    Run = {r1, r2}
    ClaimLimit = 2
    MaxAttempts = 2
SYMMETRY Interchangeable
INVARIANT ReadyIsDone
CHECK_DEADLOCK FALSE
