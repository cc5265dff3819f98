\* A session closed while a submit of it is under way.
SPECIFICATION Spec
CONSTANTS
    Timeline = {t1}
    Policy = {p1}
    Moment = {m1}
    Session = {s1}
    ApiKey = {k1}
    Call = {c1, c2}
    None = None
PROPERTY
    TerminalIsFinal
CHECK_DEADLOCK FALSE
