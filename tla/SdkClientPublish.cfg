\* As SdkClientSafety.  The loser of two publish calls is answered DRAFT: expected to fail.
SPECIFICATION Spec
CONSTANTS
    Version = {v1}
    Content = {x, y}
    Publisher = {p1, p2}
    c1 = c1
    c2 = c2
    Call = {c1, c2}
    Methods <- MCMethods
    MaxAttempts = 2
INVARIANT PublishSaysPublished
CHECK_DEADLOCK FALSE
