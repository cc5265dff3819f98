\* Two calls, two attempts each, two publish calls of a version.
SPECIFICATION Spec
CONSTANTS
    Version = {v1}
    Content = {x, y}
    Publisher = {p1, p2}
    c1 = c1
    c2 = c2
    Call = {c1, c2}
    Methods <- MCMethods
    MaxAttempts = 2
INVARIANTS
    TypeOK
    AnswersAreTrue
    EffectsAccounted
PROPERTY EveryCallReturns
CHECK_DEADLOCK FALSE
