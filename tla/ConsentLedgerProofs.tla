------------------------- MODULE ConsentLedgerProofs --------------------------
(***************************************************************************)
(* Proofs about ConsentLedger for any sets of calls, keys and timelines.   *)
(***************************************************************************)
EXTENDS ConsentLedger, TLAPS

\* The proofs about the specification that the ledger implements.
Abstract == INSTANCE ConsentTimelineProofs

-------------------------------------------------------------------------------
(* The inductive invariant.                                                *)

\* The call has inserted its key and not yet committed it.
OwnsKey(c) ==
    \/ pc[c] \in {"load", "insertConsent", "reload", "write"}
    \/ pc[c] = "commit" /\ row[c] # None

KeyHeld(c) ==
    OwnsKey(c) => keyLock[KeyOf(c)] = c /\ idem[KeyOf(c)] = None

RowHeld(c) ==
    /\ pc[c] = "write" => row[c] # None
    /\ row[c] # None =>
          /\ pc[c] \in {"write", "commit"}
          /\ rowLock[TimelineOf(c)] = c
          /\ row[c] = consents[TimelineOf(c)]

Written(c) ==
    pc[c] = "commit" /\ row[c] # None =>
        /\ Allowed(row[c].status, BodyOf(c).action)
        /\ result[c] = NextEntry(row[c], BodyOf(c))

\* The call holds a response that is stored: it replays, or has committed.
Answered(c) ==
    /\ reply[c] = "ok" => pc[c] = "idle"
    /\ \/ pc[c] = "commit" /\ row[c] = None
       \/ pc[c] = "announce"
       \/ reply[c] = "ok"
       => idem[KeyOf(c)] = [body |-> BodyOf(c), entry |-> result[c]]
          /\ idem[KeyOf(c)] # None /\ req[c] \in Request

CallInv == \A c \in Call : KeyHeld(c) /\ RowHeld(c) /\ Written(c) /\ Answered(c)

\* What concerns one side of the tables only; what the tables say of each other
\* is inherited from the abstract specification.
LedgerInv ==
    /\ TimelineIntact
    /\ OneEntryPerKey
    /\ OutboxMatchesEvents
    /\ AnnouncementsAreTrue

IInv == TypeOK /\ CallInv /\ LedgerInv

-------------------------------------------------------------------------------
(* Type correctness.                                                       *)

LEMMA NextEntryType ==
    ASSUME NEW r \in Row, NEW b \in Body
    PROVE  /\ NextEntry(r, b) \in Entry
           /\ RowAfter(NextEntry(r, b)) \in Row
           /\ EventId(NextEntry(r, b)) \in Timeline \X Nat
BY DEF NextEntry, RowAfter, EventId, Row, Body, Entry, NextStatus, Status

LEMMA EntryType ==
    ASSUME NEW e \in Entry
    PROVE  RowAfter(e) \in Row /\ EventId(e) \in Timeline \X Nat
BY DEF RowAfter, EventId, Row, Entry

\* The end of a transaction leaves the locks well-typed.
LEMMA ReleaseLocksType ==
    ASSUME NEW c \in Call, TypeOK, ReleaseLocks(c)
    PROVE  /\ keyLock' \in [Key -> Call \cup {None}]
           /\ rowLock' \in [Timeline -> Call \cup {None}]
BY DEF ReleaseLocks, TypeOK

LEMMA RollbackType ==
    ASSUME NEW c \in Call, NEW o \in Outcome, TypeOK, Rollback(c, o)
    PROVE  TypeOK'
BY ReleaseLocksType DEF Rollback, Goto, TypeOK, Step

LEMMA InitType == Init => TypeOK
BY DEF Init, Tables!TimelineInit, Tables!NoRow, TypeOK, Row, Status, Step, Outcome

LEMMA StepType == TypeOK /\ [Next]_vars => TypeOK'
<1> SUFFICES ASSUME TypeOK, [Next]_vars PROVE TypeOK'
  OBVIOUS
<1> USE DEF tables, locks
<1>1. ASSUME NEW c \in Call, NEW r \in Request, Begin(c, r) PROVE TypeOK'
  BY <1>1 DEF Begin, Goto, TypeOK, Step, Outcome
<1>2. ASSUME NEW c \in Call, Proceed(c) PROVE TypeOK'
  <2>0. pc[c] # "idle" => req[c] \in Request /\ KeyOf(c) \in Key /\ BodyOf(c) \in Body
                          /\ TimelineOf(c) \in Timeline
    BY DEF TypeOK, KeyOf, BodyOf, TimelineOf, Request, Body
  <2>1. CASE ReserveMiss(c)
    BY <2>1 DEF ReserveMiss, Goto, TypeOK, Step
  <2>2. CASE ReserveConflict(c)
    BY <2>2, RollbackType DEF ReserveConflict, Outcome
  <2>3. CASE ReserveReplay(c)
    <3>1. idem[KeyOf(c)].entry \in Entry
      BY <2>0, <2>3 DEF ReserveReplay, TypeOK, Answer
    <3>2. QED
      BY <2>0, <2>3, <3>1 DEF ReserveReplay, LockKey, Goto, TypeOK, Step
  <2>4. CASE InsertKey(c)
    BY <2>0, <2>4 DEF InsertKey, LockKey, Goto, TypeOK, Step
  <2>5. CASE InsertKeyViolation(c)
    BY <2>5, RollbackType DEF InsertKeyViolation, Outcome
  <2>6. CASE LoadMissing(c)
    BY <2>6 DEF LoadMissing, Goto, TypeOK, Step
  <2>7. CASE LoadNotFound(c)
    BY <2>7, RollbackType DEF LoadNotFound, Outcome
  <2>8. CASE LockConsent(c)
    BY <2>0, <2>8 DEF LockConsent, LockRow, Goto, TypeOK, Step
  <2>9. CASE InsertConsent(c)
    BY <2>0, <2>9 DEF InsertConsent, LockRow, Goto, TypeOK, Step, Row, NoRow, Status
  <2>10. CASE InsertConsentConflict(c)
    BY <2>10 DEF InsertConsentConflict, Goto, TypeOK, Step
  <2>11. CASE Refuse(c)
    BY <2>11, RollbackType DEF Refuse, Refusal, Outcome
  <2>12. CASE Write(c)
    <3>1. pc[c] # "idle" /\ row[c] \in Row
      BY <2>12 DEF Write, TypeOK
    <3>2. NextEntry(row[c], BodyOf(c)) \in Entry
      BY <2>0, <3>1, NextEntryType
    <3>3. QED
      BY <2>12, <3>2 DEF Write, Goto, TypeOK, Step
  <2>13. CASE CommitWrite(c)
    <3>1. pc[c] # "idle" /\ result[c] \in Entry
      BY <2>13 DEF CommitWrite, TypeOK
    <3>2. RowAfter(result[c]) \in Row /\ EventId(result[c]) \in Timeline \X Nat
      BY <3>1, EntryType
    <3>3. QED
      BY <2>0, <2>13, <3>1, <3>2, ReleaseLocksType
      DEF CommitWrite, Goto, TypeOK, Step, Answer
  <2>14. CASE CommitReplay(c)
    BY <2>14, ReleaseLocksType DEF CommitReplay, Goto, TypeOK, Step
  <2>15. CASE Announce(c)
    BY <2>0, <2>15 DEF Announce, Goto, TypeOK, Step, Outcome, Answer
  <2>16. QED
    BY <1>2, <2>1, <2>2, <2>3, <2>4, <2>5, <2>6, <2>7, <2>8, <2>9, <2>10,
       <2>11, <2>12, <2>13, <2>14, <2>15 DEF Proceed
<1>3. ASSUME NEW c \in Call, Drop(c) PROVE TypeOK'
  BY <1>3, RollbackType DEF Drop, Outcome
<1>4. CASE UNCHANGED vars
  BY <1>4 DEF vars, TypeOK
<1>5. QED
  BY <1>1, <1>2, <1>3, <1>4 DEF Next
-------------------------------------------------------------------------------
(* The invariant of each call.                                             *)

CallStep(c) == (\E r \in Request : Begin(c, r)) \/ Proceed(c) \/ Drop(c)

\* Only the COMMIT of a transaction that wrote changes a table.
LEMMA OnlyCommitWrites ==
    ASSUME NEW c \in Call, CallStep(c)
    PROVE  CommitWrite(c) \/ UNCHANGED tables
BY DEF CallStep, Begin, Proceed, Drop, ReserveMiss, ReserveConflict, ReserveReplay,
       InsertKey, InsertKeyViolation, LoadMissing, LoadNotFound, LockConsent,
       InsertConsent, InsertConsentConflict, Refuse, Write, CommitReplay,
       Announce, Rollback, tables

\* A step of one call touches no other call and takes no lock from it.
LEMMA OthersKeepLocks ==
    ASSUME NEW c \in Call, NEW d \in Call, c # d, TypeOK, CallStep(c)
    PROVE  /\ pc'[d] = pc[d] /\ req'[d] = req[d] /\ row'[d] = row[d]
           /\ result'[d] = result[d] /\ reply'[d] = reply[d]
           /\ \A k \in Key : keyLock[k] = d => keyLock'[k] = d
           /\ \A t \in Timeline : rowLock[t] = d => rowLock'[t] = d
<1> USE NoneIsNoValue DEF tables, locks, TypeOK, Goto, LockKey, LockRow, ReleaseLocks
<1>1. CASE \E r \in Request : Begin(c, r)
  BY <1>1 DEF Begin
<1>2. CASE ReserveMiss(c) \/ LoadMissing(c) \/ InsertConsentConflict(c)
  BY <1>2 DEF ReserveMiss, LoadMissing, InsertConsentConflict
<1>3. CASE ReserveConflict(c) \/ InsertKeyViolation(c) \/ LoadNotFound(c)
           \/ Refuse(c) \/ Drop(c)
  BY <1>3 DEF ReserveConflict, InsertKeyViolation, LoadNotFound, Refuse, Drop, Rollback
<1>4. CASE ReserveReplay(c)
  BY <1>4 DEF ReserveReplay
<1>5. CASE InsertKey(c)
  BY <1>5 DEF InsertKey
<1>6. CASE LockConsent(c)
  BY <1>6 DEF LockConsent
<1>7. CASE InsertConsent(c)
  BY <1>7 DEF InsertConsent
<1>8. CASE Write(c) \/ Announce(c)
  BY <1>8 DEF Write, Announce
<1>9. CASE CommitWrite(c)
  BY <1>9 DEF CommitWrite
<1>10. CASE CommitReplay(c)
  BY <1>10 DEF CommitReplay
<1>11. QED
  BY <1>1, <1>2, <1>3, <1>4, <1>5, <1>6, <1>7, <1>8, <1>9, <1>10 DEF CallStep, Proceed

\* The committing call is in its own transaction: it owns its key and its row.
LEMMA CommitOwns ==
    ASSUME NEW c \in Call, TypeOK, CallInv, CommitWrite(c)
    PROVE  /\ KeyOf(c) \in Key /\ BodyOf(c) \in Body /\ TimelineOf(c) \in Timeline
           /\ BodyOf(c).timeline = TimelineOf(c)
           /\ keyLock[KeyOf(c)] = c /\ idem[KeyOf(c)] = None
           /\ rowLock[TimelineOf(c)] = c
           /\ row[c] = consents[TimelineOf(c)]
           /\ Allowed(consents[TimelineOf(c)].status, BodyOf(c).action)
           /\ result[c] = NextEntry(consents[TimelineOf(c)], BodyOf(c))
           /\ result[c] \in Entry
<1>1. pc[c] = "commit" /\ row[c] # None
  BY DEF CommitWrite
<1>2. KeyHeld(c) /\ RowHeld(c) /\ Written(c)
  BY DEF CallInv
<1>3. req[c] \in Request /\ result[c] \in Entry
  BY <1>1 DEF TypeOK
<1>4. QED
  BY <1>1, <1>2, <1>3 DEF KeyHeld, RowHeld, Written, OwnsKey, KeyOf, BodyOf,
     TimelineOf, Request, Body

\* What another call relies on in the tables survives a step.
LEMMA OthersKeepRows ==
    ASSUME NEW c \in Call, NEW d \in Call, c # d, TypeOK, CallInv, CallStep(c)
    PROVE  /\ \A k \in Key : keyLock[k] = d => idem'[k] = idem[k]
           /\ \A k \in Key : idem[k] # None => idem'[k] = idem[k]
           /\ \A t \in Timeline : rowLock[t] = d => consents'[t] = consents[t]
<1>1. CASE UNCHANGED tables
  BY <1>1 DEF tables
<1>2. CASE CommitWrite(c)
  <2>1. /\ idem' = [idem EXCEPT ![KeyOf(c)] = [body |-> BodyOf(c), entry |-> result[c]]]
        /\ consents' = [consents EXCEPT ![TimelineOf(c)] = RowAfter(result[c])]
    BY <1>2 DEF CommitWrite
  <2>2. QED
    BY <1>2, <2>1, CommitOwns DEF TypeOK
<1>3. QED
  BY <1>1, <1>2, OnlyCommitWrites

LEMMA OthersKeepInv ==
    ASSUME NEW c \in Call, NEW d \in Call, c # d, TypeOK, CallInv, CallStep(c)
    PROVE  (KeyHeld(d) /\ RowHeld(d) /\ Written(d) /\ Answered(d))'
<1>1. KeyHeld(d) /\ RowHeld(d) /\ Written(d) /\ Answered(d)
  BY DEF CallInv
<1>2. /\ pc'[d] = pc[d] /\ req'[d] = req[d] /\ row'[d] = row[d]
      /\ result'[d] = result[d] /\ reply'[d] = reply[d]
  BY OthersKeepLocks
<1>3. req[d] \in Request => KeyOf(d) \in Key /\ TimelineOf(d) \in Timeline
  BY DEF KeyOf, TimelineOf, Request, Body
<1>4. pc[d] # "idle" => KeyOf(d) \in Key /\ TimelineOf(d) \in Timeline
  BY <1>3 DEF TypeOK
<1>5. KeyHeld(d)'
  BY <1>1, <1>2, <1>4, OthersKeepLocks, OthersKeepRows DEF KeyHeld, OwnsKey, KeyOf
<1>6. RowHeld(d)'
  BY <1>1, <1>2, <1>4, OthersKeepLocks, OthersKeepRows DEF RowHeld, TimelineOf
<1>7. Written(d)'
  BY <1>1, <1>2 DEF Written, BodyOf
<1>8. Answered(d)'
  BY <1>1, <1>2, <1>3, OthersKeepRows DEF Answered, KeyOf, BodyOf
<1>9. QED
  BY <1>5, <1>6, <1>7, <1>8

\* Rolling back leaves a call with nothing to account for.
LEMMA RollbackInv ==
    ASSUME NEW c \in Call, NEW o \in Outcome, o # "ok", TypeOK, Rollback(c, o)
    PROVE  (KeyHeld(c) /\ RowHeld(c) /\ Written(c) /\ Answered(c))'
BY DEF Rollback, Goto, TypeOK, KeyHeld, OwnsKey, RowHeld, Written, Answered

\* A step of a call keeps the call's own part of the invariant.
LEMMA OwnStepInv ==
    ASSUME NEW c \in Call, TypeOK, CallInv, CallStep(c)
    PROVE  (KeyHeld(c) /\ RowHeld(c) /\ Written(c) /\ Answered(c))'
<1> USE DEF tables, locks, Goto
<1> DEFINE Mine == KeyHeld(c) /\ RowHeld(c) /\ Written(c) /\ Answered(c)
<1>0. Mine
  BY DEF CallInv
<1>1. pc[c] # "idle" =>
        /\ req[c] \in Request
        /\ KeyOf(c) \in Key /\ BodyOf(c) \in Body /\ TimelineOf(c) \in Timeline
  BY DEF TypeOK, KeyOf, BodyOf, TimelineOf, Request, Body
<1>2. ASSUME NEW r \in Request, Begin(c, r) PROVE Mine'
  BY <1>0, <1>2 DEF Begin, TypeOK, KeyHeld, OwnsKey, RowHeld, Written, Answered
<1>3. CASE ReserveMiss(c)
  BY <1>0, <1>3 DEF ReserveMiss, TypeOK, KeyHeld, OwnsKey, RowHeld, Written, Answered
<1>4. CASE ReserveConflict(c) \/ InsertKeyViolation(c) \/ LoadNotFound(c)
             \/ Refuse(c) \/ Drop(c)
  BY <1>4, RollbackInv
  DEF ReserveConflict, InsertKeyViolation, LoadNotFound, Refuse, Refusal, Drop, Outcome
<1>5. CASE ReserveReplay(c)
  <2>1. idem[KeyOf(c)] \in Answer
    BY <1>1, <1>5 DEF ReserveReplay, TypeOK
  <2>2. idem'[KeyOf(c)] = [body |-> BodyOf(c), entry |-> result'[c]]
    BY <1>5, <2>1 DEF ReserveReplay, Answer, TypeOK
  <2>3. QED
    BY <1>0, <1>1, <1>5, <2>2
    DEF ReserveReplay, TypeOK, KeyHeld, OwnsKey, RowHeld, Written, Answered, KeyOf, BodyOf
<1>6. CASE InsertKey(c)
  BY <1>0, <1>1, <1>6
  DEF InsertKey, LockKey, TypeOK, KeyHeld, OwnsKey, RowHeld, Written, Answered, KeyOf
<1>7. CASE LoadMissing(c) \/ InsertConsentConflict(c)
  BY <1>0, <1>7 DEF LoadMissing, InsertConsentConflict, TypeOK, KeyHeld, OwnsKey,
     RowHeld, Written, Answered, KeyOf
<1>8. CASE LockConsent(c)
  <2>1. consents[TimelineOf(c)] # None
    BY <1>1, <1>8, NoneIsNoValue DEF LockConsent, TypeOK
  <2>2. QED
    BY <1>0, <1>1, <1>8, <2>1 DEF LockConsent, LockRow, TypeOK, KeyHeld, OwnsKey,
       RowHeld, Written, Answered, KeyOf, TimelineOf
<1>9. CASE InsertConsent(c)
  <2>1. NoRow # None
    BY NoneIsNoValue DEF NoRow, Row, Status
  <2>2. QED
    BY <1>0, <1>1, <1>9, <2>1 DEF InsertConsent, LockRow, TypeOK, KeyHeld, OwnsKey,
       RowHeld, Written, Answered, KeyOf, TimelineOf
<1>10. CASE Write(c)
  BY <1>0, <1>1, <1>10 DEF Write, TypeOK, KeyHeld, OwnsKey, RowHeld, Written, Answered,
     KeyOf, BodyOf, TimelineOf
<1>11. CASE CommitWrite(c)
  <2>1. /\ idem'[KeyOf(c)] = [body |-> BodyOf(c), entry |-> result[c]]
        /\ row'[c] = None /\ pc'[c] = "announce" /\ req' = req
        /\ result' = result /\ reply' = reply
    BY <1>11, CommitOwns DEF CommitWrite, TypeOK
  <2>2. [body |-> BodyOf(c), entry |-> result[c]] # None
    BY <1>11, CommitOwns, NoneIsNoValue
  <2>3. req[c] \in Request /\ reply[c] # "ok"
    BY <1>0, <1>1, <1>11 DEF CommitWrite, Answered
  <2>4. QED
    BY <2>1, <2>2, <2>3 DEF KeyHeld, OwnsKey, RowHeld, Written, Answered, KeyOf, BodyOf
<1>12. CASE CommitReplay(c)
  BY <1>0, <1>12 DEF CommitReplay, TypeOK, KeyHeld, OwnsKey, RowHeld, Written, Answered,
     KeyOf, BodyOf
<1>13. CASE Announce(c)
  BY <1>0, <1>13 DEF Announce, TypeOK, KeyHeld, OwnsKey, RowHeld, Written, Answered,
     KeyOf, BodyOf, TimelineOf
<1>14. QED
  BY <1>2, <1>3, <1>4, <1>5, <1>6, <1>7, <1>8, <1>9, <1>10, <1>11, <1>12, <1>13
  DEF CallStep, Proceed

LEMMA StepCallInv == TypeOK /\ CallInv /\ [Next]_vars => CallInv'
<1> SUFFICES ASSUME TypeOK, CallInv, [Next]_vars PROVE CallInv'
  OBVIOUS
<1>1. ASSUME NEW c \in Call, CallStep(c) PROVE CallInv'
  BY <1>1, OthersKeepInv, OwnStepInv DEF CallInv
<1>2. CASE UNCHANGED vars
  BY <1>2 DEF vars, CallInv, KeyHeld, OwnsKey, RowHeld, Written, Answered, KeyOf, BodyOf,
     TimelineOf
<1>3. QED
  BY <1>1, <1>2 DEF Next, CallStep

-------------------------------------------------------------------------------
(* The invariant of the tables.                                            *)

\* What a COMMIT does to the tables, in terms of the tables alone.
LEMMA CommitEffect ==
    ASSUME NEW c \in Call, TypeOK, CallInv, CommitWrite(c)
    PROVE  \E k \in Key, b \in Body, e \in Entry :
              /\ idem[k] = None
              /\ Allowed(consents[b.timeline].status, b.action)
              /\ e = NextEntry(consents[b.timeline], b)
              /\ consents' = [consents EXCEPT ![b.timeline] = RowAfter(e)]
              /\ events' = events \cup {e}
              /\ idem' = [idem EXCEPT ![k] = [body |-> b, entry |-> e]]
              /\ outbox' = outbox \cup {EventId(e)}
              /\ announced' = announced
<1>1. /\ consents' = [consents EXCEPT ![TimelineOf(c)] = RowAfter(result[c])]
      /\ events' = events \cup {result[c]}
      /\ idem' = [idem EXCEPT ![KeyOf(c)] = [body |-> BodyOf(c), entry |-> result[c]]]
      /\ outbox' = outbox \cup {EventId(result[c])}
      /\ announced' = announced
  BY DEF CommitWrite
<1> KeyOf(c) \in Key /\ BodyOf(c) \in Body /\ result[c] \in Entry
  BY CommitOwns
<1> WITNESS KeyOf(c) \in Key, BodyOf(c) \in Body, result[c] \in Entry
<1>2. QED
  BY <1>1, CommitOwns

-------------------------------------------------------------------------------
(* The refinement, and what the ledger inherits by it.                     *)

LEMMA CallInvariance == Spec => [](TypeOK /\ CallInv)
<1>1. Init => TypeOK /\ CallInv
  <2> SUFFICES ASSUME Init PROVE TypeOK /\ CallInv
    OBVIOUS
  <2>1. TypeOK
    BY InitType
  <2>2. CallInv
    BY DEF Init, CallInv, KeyHeld, OwnsKey, RowHeld, Written, Answered
  <2>3. QED
    BY <2>1, <2>2
<1>2. TypeOK /\ CallInv /\ [Next]_vars => (TypeOK /\ CallInv)'
  BY StepType, StepCallInv
<1>3. QED
  BY <1>1, <1>2, PTL DEF Spec

\* The concurrent ledger implements the atomic timeline: the COMMIT of a call
\* that wrote is one Record, any other step of any call changes no table.
THEOREM Refinement == Spec => ImplementsTimeline
<1> USE DEF tables, Tables!tvars
<1>1. Init => Tables!TimelineInit
  BY DEF Init
<1>2. TypeOK /\ CallInv /\ [Next]_vars => [Tables!TimelineNext]_(Tables!tvars)
  <2> SUFFICES ASSUME TypeOK, CallInv, [Next]_vars
               PROVE  Tables!TimelineNext \/ UNCHANGED tables
    OBVIOUS
  <2>1. ASSUME NEW c \in Call, CommitWrite(c) PROVE Tables!TimelineNext
    <3>1. PICK k \in Key, b \in Body, e \in Entry :
             /\ idem[k] = None
             /\ Allowed(consents[b.timeline].status, b.action)
             /\ e = NextEntry(consents[b.timeline], b)
             /\ consents' = [consents EXCEPT ![b.timeline] = RowAfter(e)]
             /\ events' = events \cup {e}
             /\ idem' = [idem EXCEPT ![k] = [body |-> b, entry |-> e]]
      BY <2>1, CommitEffect
    <3>2. e = Tables!NextEntry(consents[b.timeline], b)
      BY <3>1 DEF Tables!NextEntry, NextEntry, Tables!NextStatus, NextStatus
    <3>3. RowAfter(e) = Tables!RowAfter(e)
      BY DEF Tables!RowAfter, RowAfter
    <3>4. Tables!Record(k, b)
      BY <3>1, <3>2, <3>3 DEF Tables!Record, Tables!Allowed, Allowed
    <3>5. QED
      BY <3>4 DEF Tables!TimelineNext, Tables!Body, Body, Tables!Action, Action
  <2>2. QED
    BY <2>1, OnlyCommitWrites DEF Next, CallStep, vars
<1>3. QED
  BY <1>1, <1>2, CallInvariance, PTL DEF Spec, ImplementsTimeline, Tables!TimelineSpec

\* The abstract specification and its proofs speak of the same behaviours.
LEMMA SameTimeline == ImplementsTimeline => Abstract!TimelineSpec
<1>1. Tables!TimelineInit => Abstract!TimelineInit
  BY DEF Tables!TimelineInit, Tables!NoRow, Abstract!TimelineInit, Abstract!NoRow
<1>2. [Tables!TimelineNext]_(Tables!tvars) => [Abstract!TimelineNext]_(Abstract!tvars)
  BY DEF Tables!TimelineNext, Tables!Record, Tables!Allowed, Tables!NextEntry,
     Tables!NextStatus, Tables!RowAfter, Tables!Body, Tables!Action, Tables!tvars,
     Abstract!TimelineNext, Abstract!Record, Abstract!Allowed, Abstract!NextEntry,
     Abstract!NextStatus, Abstract!RowAfter, Abstract!Body, Abstract!Action,
     Abstract!tvars
<1>3. QED
  BY <1>1, <1>2, PTL DEF ImplementsTimeline, Tables!TimelineSpec, Abstract!TimelineSpec

LEMMA NoneIsNoAnswer == None \notin [body: Abstract!Body, entry: Abstract!Entry]
BY NoneIsNoValue DEF Body, Entry, Action, Status, Abstract!Body, Abstract!Entry,
   Abstract!Action, Abstract!Status

LEMMA Inherited == Spec => [](TimelineIntact /\ OneEntryPerKey)
<1>1. Abstract!TimelineSpec => []Abstract!TimelineInv
  BY NoneIsNoAnswer, Abstract!TimelineInvariance
<1>2. Abstract!TimelineInv => TimelineIntact /\ OneEntryPerKey
  BY DEF Abstract!TimelineInv, Abstract!TimelineIntact, Abstract!GapFree,
     Abstract!NoFork, Abstract!PointerIsLatest, Abstract!LegalHistory,
     Abstract!RowAfter, Abstract!NextStatus, Abstract!Allowed,
     Abstract!OneEntryPerKey, TimelineIntact, OneEntryPerKey,
     Tables!TimelineIntact, Tables!GapFree, Tables!NoFork, Tables!PointerIsLatest,
     Tables!LegalHistory, Tables!RowAfter, Tables!NextStatus, Tables!Allowed,
     Tables!OneEntryPerKey
<1>3. QED
  BY <1>1, <1>2, Refinement, SameTimeline, PTL

-------------------------------------------------------------------------------
(* The invariant of the tables.                                            *)

\* Any other step leaves the tables and the announcements alone.
LEMMA OnlyCommitOrAnnounce ==
    ASSUME NEW c \in Call, CallStep(c)
    PROVE  CommitWrite(c) \/ Announce(c) \/ UNCHANGED <<tables, announced>>
BY DEF CallStep, Begin, Proceed, Drop, ReserveMiss, ReserveConflict, ReserveReplay,
       InsertKey, InsertKeyViolation, LoadMissing, LoadNotFound, LockConsent,
       InsertConsent, InsertConsentConflict, Refuse, Write, CommitReplay,
       Rollback, tables


\* An announcement speaks of a stored response.
LEMMA AnnounceIsTrue ==
    ASSUME NEW c \in Call, IInv, Announce(c)
    PROVE  AnnouncementsAreTrue'
<1>1. idem[KeyOf(c)] = [body |-> BodyOf(c), entry |-> result[c]]
      /\ idem[KeyOf(c)] # None /\ KeyOf(c) \in Key
  BY DEF IInv, CallInv, Answered, Announce, KeyOf, Request
<1>2. result[c] \in events /\ result[c].timeline = BodyOf(c).timeline
      /\ result[c].action = BodyOf(c).action /\ result[c].details = BodyOf(c).details
  BY <1>1 DEF IInv, LedgerInv, OneEntryPerKey, Tables!OneEntryPerKey
<1>3. events' = events
      /\ announced' = announced \cup {[body |-> BodyOf(c), entry |-> result[c]]}
  BY DEF Announce, tables
<1>4. QED
  BY <1>2, <1>3 DEF IInv, LedgerInv, AnnouncementsAreTrue

LEMMA StepInv ==
    IInv /\ [Next]_vars => OutboxMatchesEvents' /\ AnnouncementsAreTrue'
<1> SUFFICES ASSUME IInv, [Next]_vars
             PROVE  OutboxMatchesEvents' /\ AnnouncementsAreTrue'
  OBVIOUS
<1>0. OutboxMatchesEvents /\ AnnouncementsAreTrue
  BY DEF IInv, LedgerInv
<1>1. ASSUME UNCHANGED <<tables, announced>>
      PROVE  OutboxMatchesEvents' /\ AnnouncementsAreTrue'
  BY <1>0, <1>1 DEF tables, OutboxMatchesEvents, AnnouncementsAreTrue
<1>2. ASSUME NEW c \in Call, CallStep(c)
      PROVE  OutboxMatchesEvents' /\ AnnouncementsAreTrue'
  <2>1. CASE CommitWrite(c)
    <3>1. \E e \in Entry : /\ events' = events \cup {e}
                           /\ outbox' = outbox \cup {EventId(e)}
                           /\ announced' = announced
      BY <2>1, CommitEffect DEF IInv
    <3>2. QED
      BY <1>0, <3>1 DEF OutboxMatchesEvents, AnnouncementsAreTrue
  <2>2. CASE Announce(c)
    <3>1. events' = events /\ outbox' = outbox
      BY <2>2 DEF Announce, tables
    <3>2. QED
      BY <1>0, <2>2, <3>1, AnnounceIsTrue DEF OutboxMatchesEvents
  <2>3. CASE UNCHANGED <<tables, announced>>
    BY <1>1, <2>3
  <2>4. QED
    BY <1>2, <2>1, <2>2, <2>3, OnlyCommitOrAnnounce
<1>3. CASE UNCHANGED vars
  BY <1>1, <1>3 DEF vars, tables
<1>4. QED
  BY <1>2, <1>3 DEF Next, CallStep

\* The inductive invariant, for any numbers of calls, keys and timelines.
THEOREM Invariance == Spec => []IInv
<1>1. Init => OutboxMatchesEvents /\ AnnouncementsAreTrue
  BY DEF Init, Tables!TimelineInit, OutboxMatchesEvents, AnnouncementsAreTrue
<1>2. IInv /\ [Next]_vars => OutboxMatchesEvents' /\ AnnouncementsAreTrue'
  BY StepInv
<1>3. IInv <=> /\ TypeOK /\ CallInv
               /\ TimelineIntact /\ OneEntryPerKey
               /\ OutboxMatchesEvents /\ AnnouncementsAreTrue
  BY DEF IInv, LedgerInv
<1>4. QED
  BY <1>1, <1>2, <1>3, CallInvariance, Inherited, PTL DEF Spec

-------------------------------------------------------------------------------
(* The theorems.                                                           *)

\* Every variable has its type.
THEOREM TypeCorrect == Spec => []TypeOK
<1>1. IInv => TypeOK
  BY DEF IInv
<1>2. QED
  BY <1>1, Invariance, PTL

\* A consents row read under its lock is current until the call commits, so
\* the status check and the version number rest on committed state.
THEOREM LockedRowCurrent == Spec => []LockedRowIsCurrent
<1>1. IInv => LockedRowIsCurrent
  BY DEF IInv, CallInv, RowHeld, LockedRowIsCurrent
<1>2. QED
  BY <1>1, Invariance, PTL

\* However many calls overlap and fail, each timeline in events and
\* consent_versions is a gap-free, fork-free, legal history and consents
\* points to its end.
THEOREM TimelinesIntact == Spec => []TimelineIntact
<1>1. IInv => TimelineIntact
  BY DEF IInv, LedgerInv
<1>2. QED
  BY <1>1, Invariance, PTL

\* Idempotency keys and recorded entries are in one-to-one correspondence.
THEOREM EffectivelyOnce == Spec => []OneEntryPerKey
<1>1. IInv => OneEntryPerKey
  BY DEF IInv, LedgerInv
<1>2. QED
  BY <1>1, Invariance, PTL

\* The outbox holds one proof.pending message per committed event.
THEOREM OutboxAtomic == Spec => []OutboxMatchesEvents
<1>1. IInv => OutboxMatchesEvents
  BY DEF IInv, LedgerInv
<1>2. QED
  BY <1>1, Invariance, PTL

\* A reply of OK carries the stored response of the call's own key and body.
THEOREM RepliesStored == Spec => []RepliesAreStored
<1>1. IInv => RepliesAreStored
  <2> SUFFICES ASSUME IInv, NEW c \in Call, reply[c] = "ok"
               PROVE  /\ idem[KeyOf(c)] # None
                      /\ idem[KeyOf(c)].entry = result[c]
                      /\ idem[KeyOf(c)].body = BodyOf(c)
    BY DEF RepliesAreStored
  <2>1. idem[KeyOf(c)] = [body |-> BodyOf(c), entry |-> result[c]]
        /\ idem[KeyOf(c)] # None
    BY DEF IInv, CallInv, Answered
  <2>2. QED
    BY <2>1
<1>2. QED
  BY <1>1, Invariance, PTL

\* A webhook describes an entry that is in the ledger, as the ledger has it.
THEOREM AnnouncementsTrue == Spec => []AnnouncementsAreTrue
<1>1. IInv => AnnouncementsAreTrue
  BY DEF IInv, LedgerInv
<1>2. QED
  BY <1>1, Invariance, PTL

-------------------------------------------------------------------------------
(* Deadlock.  PostgreSQL would break a circular wait by failing a call; the *)
(* order in which recordConsent takes its locks makes one impossible.      *)

\* The statement c runs next waits until d has released the lock of c's key.
WaitsForKey(c, d) ==
    /\ \/ pc[c] = "reserve" /\ idem[KeyOf(c)] # None
       \/ pc[c] = "insertKey" /\ idem[KeyOf(c)] = None
    /\ keyLock[KeyOf(c)] = d

\* The statement c runs next waits until d has released the lock of c's row.
WaitsForRow(c, d) ==
    /\ \/ pc[c] \in {"load", "reload"} /\ consents[TimelineOf(c)] # NoRow
       \/ pc[c] = "insertConsent" /\ consents[TimelineOf(c)] = NoRow
    /\ rowLock[TimelineOf(c)] = d

Waits(c, d) == WaitsForKey(c, d) \/ WaitsForRow(c, d)

\* A lock is held by a call in the statements after the one that takes it: a
\* call that holds its key may still wait for its row, one that holds its row
\* waits for nothing.
LocksInOrder ==
    /\ \A k \in Key, d \in Call : keyLock[k] = d =>
          pc[d] \in {"load", "insertConsent", "reload", "write", "commit"}
    /\ \A t \in Timeline, d \in Call : rowLock[t] = d =>
          pc[d] \in {"write", "commit"}

\* Any set of calls has a member that waits for no member of the set.
NoCircularWait ==
    \A S \in SUBSET Call :
        S # {} => \E c \in S : \A d \in S : ~ Waits(c, d)

\* A step of c moves c's own pc and gives and takes c's own locks only.
LEMMA StepKeepsOrder ==
    ASSUME NEW c \in Call, TypeOK, LocksInOrder, CallStep(c)
    PROVE  LocksInOrder'
<1> USE NoneIsNoValue DEF tables, locks, Goto, LockKey, LockRow, ReleaseLocks,
        TypeOK, LocksInOrder
<1>1. CASE \E r \in Request : Begin(c, r)
  BY <1>1 DEF Begin
<1>2. CASE ReserveMiss(c) \/ LoadMissing(c) \/ InsertConsentConflict(c)
  BY <1>2 DEF ReserveMiss, LoadMissing, InsertConsentConflict
<1>3. CASE ReserveConflict(c) \/ InsertKeyViolation(c) \/ LoadNotFound(c)
           \/ Refuse(c) \/ Drop(c)
  BY <1>3 DEF ReserveConflict, InsertKeyViolation, LoadNotFound, Refuse, Drop, Rollback
<1>4. CASE ReserveReplay(c)
  BY <1>4 DEF ReserveReplay
<1>5. CASE InsertKey(c)
  BY <1>5 DEF InsertKey
<1>6. CASE LockConsent(c)
  BY <1>6 DEF LockConsent
<1>7. CASE InsertConsent(c)
  BY <1>7 DEF InsertConsent
<1>8. CASE Write(c) \/ Announce(c)
  BY <1>8 DEF Write, Announce
<1>9. CASE CommitWrite(c)
  BY <1>9 DEF CommitWrite
<1>10. CASE CommitReplay(c)
  BY <1>10 DEF CommitReplay
<1>11. QED
  BY <1>1, <1>2, <1>3, <1>4, <1>5, <1>6, <1>7, <1>8, <1>9, <1>10 DEF CallStep, Proceed

LEMMA OrderInvariance == Spec => []LocksInOrder
<1>1. Init => LocksInOrder
  BY NoneIsNoValue DEF Init, LocksInOrder
<1>2. TypeOK /\ LocksInOrder /\ [Next]_vars => LocksInOrder'
  <2> SUFFICES ASSUME TypeOK, LocksInOrder, [Next]_vars PROVE LocksInOrder'
    OBVIOUS
  <2>1. CASE UNCHANGED vars
    BY <2>1 DEF vars, LocksInOrder
  <2>2. CASE Next
    BY <2>2, StepKeepsOrder DEF Next, CallStep
  <2>3. QED
    BY <2>1, <2>2
<1>3. QED
  BY <1>1, <1>2, TypeCorrect, PTL DEF Spec

\* recordConsent never deadlocks: whatever calls are in flight, on whatever keys
\* and timelines, no group of them waits on each other's key and row locks in a
\* circle, because each takes its key before its row and nothing after its row.
THEOREM NeverDeadlocked == Spec => []NoCircularWait
<1>1. TypeOK /\ LocksInOrder => NoCircularWait
  <2> SUFFICES ASSUME TypeOK, LocksInOrder, NEW S \in SUBSET Call, S # {}
               PROVE  \E c \in S : \A d \in S : ~ Waits(c, d)
    BY DEF NoCircularWait
  <2>0. ASSUME NEW c \in Call, pc[c] # "idle"
        PROVE  KeyOf(c) \in Key /\ TimelineOf(c) \in Timeline
    BY <2>0 DEF TypeOK, KeyOf, TimelineOf, Request, Body
  <2>1. ASSUME NEW c \in Call, NEW d \in Call, WaitsForKey(c, d)
        PROVE  /\ pc[c] \in {"reserve", "insertKey"}
               /\ pc[d] \in {"load", "insertConsent", "reload", "write", "commit"}
    <3>1. pc[c] \in {"reserve", "insertKey"} /\ keyLock[KeyOf(c)] = d
      BY <2>1 DEF WaitsForKey
    <3>2. KeyOf(c) \in Key
      BY <2>0, <3>1
    <3>3. QED
      BY <3>1, <3>2 DEF LocksInOrder
  <2>2. ASSUME NEW c \in Call, NEW d \in Call, WaitsForRow(c, d)
        PROVE  /\ pc[c] \in {"load", "insertConsent", "reload"}
               /\ pc[d] \in {"write", "commit"}
    <3>1. pc[c] \in {"load", "insertConsent", "reload"} /\ rowLock[TimelineOf(c)] = d
      BY <2>2 DEF WaitsForRow
    <3>2. TimelineOf(c) \in Timeline
      BY <2>0, <3>1
    <3>3. QED
      BY <3>1, <3>2 DEF LocksInOrder
  <2>3. CASE \E c \in S : pc[c] \in {"write", "commit"}
    BY <2>1, <2>2, <2>3 DEF Waits
  <2>4. CASE \A c \in S : pc[c] \notin {"write", "commit"}
    <3>1. CASE \E c \in S : pc[c] \in {"load", "insertConsent", "reload"}
      BY <2>1, <2>2, <2>4, <3>1 DEF Waits
    <3>2. CASE \A c \in S : pc[c] \notin {"load", "insertConsent", "reload"}
      BY <2>1, <2>2, <2>4, <3>2 DEF Waits
    <3>3. QED
      BY <3>1, <3>2
  <2>5. QED
    BY <2>3, <2>4
<1>2. QED
  BY <1>1, TypeCorrect, OrderInvariance, PTL

-------------------------------------------------------------------------------
(* What a step may never do to the ledger.                                 *)

\* Whatever is recorded, stored under a key, handed to the proof worker or
\* announced stays as it is, and the ledger grows by one legal successor at a time.
LedgerGrows ==
    [][Tables!Growing /\ outbox \subseteq outbox' /\ announced \subseteq announced']_vars

\* The ledger is append-only through every interleaving, refusal, lost connection
\* and rollback.
THEOREM AppendOnly == Spec => LedgerGrows
<1>1. Abstract!TimelineSpec => [][Abstract!Growing]_(Abstract!tvars)
  BY NoneIsNoAnswer, Abstract!TimelineAppendOnly
<1>2. [Abstract!Growing]_(Abstract!tvars) => Tables!Growing
  BY DEF Abstract!Growing, Abstract!tvars, Abstract!RowAfter, Abstract!Allowed,
     Tables!Growing, Tables!RowAfter, Tables!Allowed
<1>3. IInv /\ IInv' /\ Tables!Growing => outbox \subseteq outbox'
  BY DEF IInv, LedgerInv, OutboxMatchesEvents, Tables!Growing
<1>4. IInv /\ [Next]_vars => announced \subseteq announced'
  <2>1. ASSUME IInv, NEW c \in Call, CallStep(c) PROVE announced \subseteq announced'
    BY <2>1, OnlyCommitOrAnnounce, CommitEffect DEF IInv, Announce
  <2>2. QED
    BY <2>1 DEF Next, CallStep, vars
<1>5. QED
  BY <1>1, <1>2, <1>3, <1>4, Invariance, Refinement, SameTimeline, PTL
  DEF Spec, LedgerGrows

\* A duplicate and its original, told OK in whatever order, hold one answer; calls
\* under different keys never share an entry, even for the same body.
OneAnswerPerKey ==
    \A c, d \in Call :
        reply[c] = "ok" /\ reply[d] = "ok" =>
            /\ KeyOf(c) = KeyOf(d) <=> result[c] = result[d]
            /\ KeyOf(c) = KeyOf(d) => BodyOf(c) = BodyOf(d)

\* Idempotency as the clients see it, for any number of retries in any order.
THEOREM RetriesAgree == Spec => []OneAnswerPerKey
<1>1. IInv => OneAnswerPerKey
  <2> SUFFICES ASSUME IInv, NEW c \in Call, NEW d \in Call,
                      reply[c] = "ok", reply[d] = "ok"
               PROVE  /\ KeyOf(c) = KeyOf(d) <=> result[c] = result[d]
                      /\ KeyOf(c) = KeyOf(d) => BodyOf(c) = BodyOf(d)
    BY DEF OneAnswerPerKey
  <2>1. /\ idem[KeyOf(c)] = [body |-> BodyOf(c), entry |-> result[c]]
        /\ idem[KeyOf(c)] # None /\ KeyOf(c) \in Key
        /\ idem[KeyOf(d)] = [body |-> BodyOf(d), entry |-> result[d]]
        /\ idem[KeyOf(d)] # None /\ KeyOf(d) \in Key
    BY DEF IInv, CallInv, Answered, KeyOf, Request
  <2>2. idem[KeyOf(c)].entry = result[c] /\ idem[KeyOf(d)].entry = result[d]
        /\ idem[KeyOf(c)].body = BodyOf(c) /\ idem[KeyOf(d)].body = BodyOf(d)
    BY <2>1
  <2>3. result[c] = result[d] => KeyOf(c) = KeyOf(d)
    BY <2>1, <2>2 DEF IInv, LedgerInv, OneEntryPerKey, Tables!OneEntryPerKey
  <2>4. QED
    BY <2>2, <2>3
<1>2. QED
  BY <1>1, Invariance, PTL

-------------------------------------------------------------------------------
(* Calls in progress go forward, and not all of them wait.                 *)

\* The statements that a call has before it, at most.
Left(c) ==
    IF pc[c] = "reserve" THEN 8
    ELSE IF pc[c] = "insertKey" THEN 7
    ELSE IF pc[c] = "load" THEN 6
    ELSE IF pc[c] = "insertConsent" THEN 5
    ELSE IF pc[c] = "reload" THEN 4
    ELSE IF pc[c] = "write" THEN 3
    ELSE IF pc[c] = "commit" THEN 2
    ELSE IF pc[c] = "announce" THEN 1 ELSE 0

LocalOf(c) == <<pc[c], req[c], row[c], result[c], reply[c]>>

\* The statement that c runs next finds what it needs, and no lock on it.
Ready(c) ==
    \/ pc[c] = "reserve" /\ (idem[KeyOf(c)] = None \/ keyLock[KeyOf(c)] = None)
    \/ pc[c] = "insertKey" /\ (idem[KeyOf(c)] # None \/ keyLock[KeyOf(c)] = None)
    \/ pc[c] = "load" /\ (consents[TimelineOf(c)] = NoRow \/ rowLock[TimelineOf(c)] = None)
    \/ pc[c] = "insertConsent"
          /\ (consents[TimelineOf(c)] # NoRow \/ rowLock[TimelineOf(c)] = None)
    \/ pc[c] = "reload" /\ consents[TimelineOf(c)] # NoRow /\ rowLock[TimelineOf(c)] = None
    \/ pc[c] \in {"write", "commit", "announce"}

\* While calls are in progress one of them can go on.
SomeReady ==
    (\E c \in Call : pc[c] # "idle") => \E c \in Call : pc[c] # "idle" /\ Ready(c)

\* A step is a step of one call, which is its first or one of the at most eight that
\* follow; the others keep their place, whatever lock or row it takes from under them.
CallsAdvance ==
    [][\E c \in Call :
          /\ \A d \in Call \ {c} : LocalOf(d)' = LocalOf(d)
          /\ \/ pc[c] = "idle" /\ Left(c)' = 8
             \/ Left(c)' < Left(c)]_vars

\* What insertConsent found in the way of its row is there for the reload.
ReloadFinds == \A c \in Call : pc[c] = "reload" => consents[TimelineOf(c)] # NoRow

LEMMA StepAdvances ==
    ASSUME TypeOK, NEW c \in Call, CallStep(c)
    PROVE  (pc[c] = "idle" /\ Left(c)' = 8) \/ Left(c)' < Left(c)
<1> USE DEF Goto, TypeOK
<1>1. CASE \E r \in Request : Begin(c, r)
  BY <1>1 DEF Begin, Left
<1>2. ASSUME pc[c] # "idle", pc'[c] = "idle" PROVE Left(c)' < Left(c)
  <2>1. pc[c] \in Step
    OBVIOUS
  <2>2. QED
    BY <1>2, <2>1 DEF Left, Step
<1>3. CASE ReserveConflict(c) \/ InsertKeyViolation(c) \/ LoadNotFound(c)
           \/ Refuse(c) \/ Drop(c)
  BY <1>2, <1>3 DEF ReserveConflict, InsertKeyViolation, LoadNotFound, Refuse, Drop, Rollback
<1>4. CASE ReserveMiss(c) \/ ReserveReplay(c)
  BY <1>4 DEF ReserveMiss, ReserveReplay, Left
<1>5. CASE InsertKey(c) \/ LoadMissing(c)
  BY <1>5 DEF InsertKey, LoadMissing, Left
<1>6. CASE LockConsent(c) \/ InsertConsent(c) \/ InsertConsentConflict(c)
  BY <1>6 DEF LockConsent, InsertConsent, InsertConsentConflict, Left
<1>7. CASE Write(c) \/ CommitWrite(c) \/ CommitReplay(c)
  BY <1>7 DEF Write, CommitWrite, CommitReplay, Left
<1>8. CASE Announce(c)
  BY <1>2, <1>8 DEF Announce
<1>9. QED
  BY <1>1, <1>3, <1>4, <1>5, <1>6, <1>7, <1>8 DEF CallStep, Proceed

LEMMA ReloadStep ==
    ASSUME IInv, ReloadFinds, NEW c \in Call, CallStep(c)
    PROVE  ReloadFinds'
<1>0. TypeOK /\ CallInv
  BY DEF IInv
<1>1. \A t \in Timeline : consents[t] # NoRow => consents'[t] # NoRow
  <2>1. CASE UNCHANGED tables
    BY <2>1 DEF tables
  <2>2. CASE CommitWrite(c)
    <3>1. consents' = [consents EXCEPT ![TimelineOf(c)] = RowAfter(result[c])]
      BY <2>2 DEF CommitWrite
    <3>2. /\ result[c] = NextEntry(consents[TimelineOf(c)], BodyOf(c))
          /\ TimelineOf(c) \in Timeline /\ result[c] \in Entry
      BY <1>0, <2>2, CommitOwns
    <3>3. RowAfter(result[c]) # NoRow
      BY <1>0, <3>2 DEF RowAfter, NoRow, NextEntry, TypeOK, Row
    <3>4. QED
      BY <1>0, <3>1, <3>3 DEF TypeOK
  <2>3. QED
    BY <2>1, <2>2, OnlyCommitWrites
<1>2. ASSUME NEW d \in Call, pc'[d] = "reload" PROVE consents'[TimelineOf(d)'] # NoRow
  <2>1. CASE d = c
    <3>1. InsertConsentConflict(c)
      BY <1>0, <1>2, <2>1
      DEF CallStep, Proceed, Begin, ReserveMiss, ReserveConflict, ReserveReplay, InsertKey,
          InsertKeyViolation, LoadMissing, LoadNotFound, LockConsent, InsertConsent, Refuse,
          Write, CommitWrite, CommitReplay, Announce, Drop, Rollback, Goto, TypeOK
    <3>2. QED
      BY <2>1, <3>1 DEF InsertConsentConflict, tables, TimelineOf
  <2>2. CASE d # c
    <3>1. pc[d] = "reload" /\ req'[d] = req[d]
      BY <1>0, <1>2, <2>2, OthersKeepLocks
    <3>2. TimelineOf(d) \in Timeline /\ TimelineOf(d)' = TimelineOf(d)
      BY <1>0, <3>1 DEF TypeOK, TimelineOf, Request, Body
    <3>3. QED
      BY <1>1, <3>1, <3>2 DEF ReloadFinds
  <2>3. QED
    BY <2>1, <2>2
<1>3. QED
  BY <1>2 DEF ReloadFinds

LEMMA ReloadInvariance == Spec => []ReloadFinds
<1>1. Init => ReloadFinds
  BY DEF Init, ReloadFinds
<1>2. IInv /\ ReloadFinds /\ [Next]_vars => ReloadFinds'
  <2>1. UNCHANGED vars /\ ReloadFinds => ReloadFinds'
    BY DEF vars, tables, local, ReloadFinds, TimelineOf
  <2>2. QED
    BY <2>1, ReloadStep DEF Next, CallStep
<1>3. QED
  BY <1>1, <1>2, Invariance, PTL DEF Spec

\* A call that waits for nobody is ready.
LEMMA WaitsOrReady ==
    ASSUME TypeOK, ReloadFinds, NEW c \in Call, pc[c] # "idle", ~Ready(c)
    PROVE  \E d \in Call : Waits(c, d)
<1>1. /\ KeyOf(c) \in Key /\ TimelineOf(c) \in Timeline
      /\ pc[c] \in Step
  BY DEF TypeOK, KeyOf, TimelineOf, Request, Body
<1>2. CASE pc[c] \in {"reserve", "insertKey"}
  <2>1. keyLock[KeyOf(c)] # None
    BY <1>2 DEF Ready
  <2>2. keyLock[KeyOf(c)] \in Call
    BY <1>1, <2>1 DEF TypeOK
  <2>3. WaitsForKey(c, keyLock[KeyOf(c)])
    BY <1>2 DEF Ready, WaitsForKey
  <2>4. QED
    BY <2>2, <2>3 DEF Waits
<1>3. CASE pc[c] \in {"load", "insertConsent", "reload"}
  <2>1. pc[c] = "reload" => consents[TimelineOf(c)] # NoRow
    BY DEF ReloadFinds
  <2>2. rowLock[TimelineOf(c)] # None
    BY <1>3, <2>1 DEF Ready
  <2>3. rowLock[TimelineOf(c)] \in Call
    BY <1>1, <2>2 DEF TypeOK
  <2>4. WaitsForRow(c, rowLock[TimelineOf(c)])
    BY <1>3, <2>1 DEF Ready, WaitsForRow
  <2>5. QED
    BY <2>3, <2>4 DEF Waits
<1>4. QED
  BY <1>1, <1>2, <1>3 DEF Ready, Step

\* Nobody waits for a call that is over.
LEMMA HoldersBusy ==
    ASSUME TypeOK, LocksInOrder, NEW c \in Call, NEW d \in Call, pc[c] # "idle", Waits(c, d)
    PROVE  pc[d] # "idle"
<1>1. KeyOf(c) \in Key /\ TimelineOf(c) \in Timeline
  BY DEF TypeOK, KeyOf, TimelineOf, Request, Body
<1>2. keyLock[KeyOf(c)] = d \/ rowLock[TimelineOf(c)] = d
  BY DEF Waits, WaitsForKey, WaitsForRow
<1>3. QED
  BY <1>1, <1>2 DEF LocksInOrder

\* The ledger never stalls, which is what EveryCallEnds rests on besides fairness: of
\* the calls in progress one can always go on, even in the reload after a conflict, and
\* a call has at most eight statements to go through, in whatever order others do theirs.
THEOREM NeverStalls == Spec => []SomeReady /\ CallsAdvance
<1>1. TypeOK /\ LocksInOrder /\ ReloadFinds /\ NoCircularWait => SomeReady
  <2> SUFFICES ASSUME TypeOK, LocksInOrder, ReloadFinds, NoCircularWait,
                      NEW b \in Call, pc[b] # "idle"
               PROVE  \E c \in Call : pc[c] # "idle" /\ Ready(c)
    BY DEF SomeReady
  <2>1. PICK S \in SUBSET Call : S = {c \in Call : pc[c] # "idle"}
    OBVIOUS
  <2>2. S # {}
    BY <2>1
  <2>3. PICK c \in S : \A d \in S : ~ Waits(c, d)
    BY <2>2 DEF NoCircularWait
  <2>4. \A d \in Call : ~ Waits(c, d)
    BY <2>1, <2>3, HoldersBusy
  <2>5. QED
    BY <2>1, <2>4, WaitsOrReady
<1>2. TypeOK /\ [Next]_vars =>
          [\E c \in Call :
              /\ \A d \in Call \ {c} : LocalOf(d)' = LocalOf(d)
              /\ \/ pc[c] = "idle" /\ Left(c)' = 8
                 \/ Left(c)' < Left(c)]_vars
  <2> SUFFICES ASSUME TypeOK, NEW c \in Call, CallStep(c)
               PROVE  /\ \A d \in Call \ {c} : LocalOf(d)' = LocalOf(d)
                      /\ \/ pc[c] = "idle" /\ Left(c)' = 8
                         \/ Left(c)' < Left(c)
    BY DEF Next, CallStep
  <2>1. \A d \in Call \ {c} : LocalOf(d)' = LocalOf(d)
    BY OthersKeepLocks DEF LocalOf
  <2>2. QED
    BY <2>1, StepAdvances
<1>3. QED
  BY <1>1, <1>2, TypeCorrect, OrderInvariance, ReloadInvariance, NeverDeadlocked, PTL
  DEF Spec, CallsAdvance
===============================================================================
