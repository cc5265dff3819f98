\* One session, two submits of it that may overlap, one consent recorded by the
\* backend, two policy versions; no symmetry, which is unsound for liveness.
SPECIFICATION FairSpec
CONSTANTS
    Timeline = {t1}
    Policy = {p1, p2}
    Moment = {m1}
    Session = {s1}
    ApiKey = {k1}
    Call = {c1, c2}
    None = None
INVARIANTS
    TypeOK
    ConsentMatchesSession
    ConsumedNamesConsent
    SubmitsAgree
    AnnouncedIsConsumed
PROPERTIES
    ConsumedIsFinal
    RecordedIsConsumed
CHECK_DEADLOCK FALSE
