SPECIFICATION FairSpec
CONSTANTS
    w1 = w1
    v1 = v1
    v2 = v2
    r1 = r1
    r2 = r2
    Endpoint = {w1}
    Event = {v1, v2}
    Run = {r1, r2}
    None = None
    Answer <- Answers
    ClaimLimit = 2
    MaxAttempts = 2
    MaxSecret = 2
INVARIANTS
    TypeOK
    HeldExclusively
    AttemptsCounted
    OutcomeIsDeserved
    FreshSecret
PROPERTIES
    NotRepostedOnceAcknowledged
    SettledIsFinal
    Settles
CHECK_DEADLOCK FALSE
