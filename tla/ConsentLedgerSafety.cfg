\* Two overlapping calls on one timeline, with three keys: histories such as
\* GRANT, REVOKE, GRANT, with every retry, duplicate and key reuse.  No symmetry,
\* which is unsound for liveness.
SPECIFICATION FairSpec
CONSTANTS
    Timeline = {t1}
    Details = {d1}
    Call = {c1, c2}
    Key = {k1, k2, k3}
    None = None
ACTION_CONSTRAINT FreshKeysAlike
INVARIANTS
    TypeOK
    TimelineIntact
    OneEntryPerKey
    OutboxMatchesEvents
    RepliesAreStored
    AnnouncementsAreTrue
    LockedRowIsCurrent
PROPERTIES
    ImplementsTimeline
    EveryCallEnds
