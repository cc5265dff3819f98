\* Two overlapping runs, two events and a poison message, a retry and a give-up;
\* no symmetry, which is unsound for liveness.
SPECIFICATION FairSpec
CONSTANTS
    e1 = e1
    e2 = e2
    p1 = p1
    r1 = r1
    r2 = r2
    Event = {e1, e2}
    Poison = {p1}
    Run = {r1, r2}
    ClaimLimit = 2
    MaxAttempts = 2
INVARIANTS
    TypeOK
    ProofLinked
    SaidIsProved
    ExclusiveHold
    RetryBudget
PROPERTIES
    ProofsFinal
    EveryMessageEnds
CHECK_DEADLOCK FALSE
