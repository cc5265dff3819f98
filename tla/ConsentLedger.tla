---------------------------- MODULE ConsentLedger -----------------------------
(***************************************************************************)
(* recordConsent (src/services/consentLifecycle) as concurrent callers run *)
(* it: a PostgreSQL READ COMMITTED transaction of several statements with  *)
(* an await between any two of them, then the webhook enqueue in a         *)
(* transaction of its own.                                                 *)
(*                                                                         *)
(* consents, events, idem and outbox hold what is committed.  What an open *)
(* transaction has written so far is in row and result and reaches the     *)
(* tables at COMMIT; a lock on something that is not in its table yet is   *)
(* an uncommitted INSERT.  A statement is one action; the six statements   *)
(* from insertEvent to finalizeIdempotencyCompleted touch only rows the    *)
(* transaction has locked or inserted and are the one action Write.        *)
(***************************************************************************)
EXTENDS ConsentLifecycle

CONSTANTS
    Call,      \* recordConsent calls that may be in flight at once
    Key,       \* idempotency keys, scoped by company
    None       \* "no value"; the lock is free

ASSUME NoneIsNoValue ==
    /\ None \notin Call
    /\ None \notin Row
    /\ None \notin Entry
    /\ None \notin [body: Body, entry: Entry]

VARIABLES
    consents,  \* timeline -> committed row of consents (NoRow if absent)
    events,    \* committed entries of events and consent_versions
    idem,      \* key -> committed row of idempotency_keys
    outbox,    \* aggregate ids of committed proof.pending messages
    keyLock,   \* key -> the call that locked or is inserting its row
    rowLock,   \* timeline -> the call that locked or is inserting its row
    pc,        \* call -> the statement it runs next
    req,       \* call -> the key and body it was made with, unless it failed
    row,       \* call -> the consents row it has read under the lock
    result,    \* call -> the entry it has written or replayed
    reply,     \* call -> what the client was told
    announced  \* consent.recorded payloads enqueued for delivery

tables == <<consents, events, idem, outbox>>
locks == <<keyLock, rowLock>>
local == <<pc, req, row, result, reply>>
vars == <<consents, events, idem, outbox, keyLock, rowLock,
          pc, req, row, result, reply, announced>>

Tables == INSTANCE ConsentTimeline

Step == {"idle", "reserve", "insertKey", "load", "insertConsent", "reload",
         "write", "commit", "announce"}

Request == [key: Key, body: Body]

Outcome == {"none", "ok", "conflict", "notFound", "badRequest",
            "uniqueViolation", "lost"}

\* A row of idempotency_keys, or the payload of a consent.recorded webhook:
\* a body and the entry that answers it.
Answer == [body: Body, entry: Entry]

\* The identity of an event: (consent_id, version_no).
EventId(entry) == <<entry.timeline, entry.version>>

\* The key, body and timeline of a call in progress.
KeyOf(c) == req[c].key
BodyOf(c) == req[c].body
TimelineOf(c) == req[c].body.timeline

Init ==
    /\ Tables!TimelineInit
    /\ outbox = {}
    /\ keyLock = [k \in Key |-> None]
    /\ rowLock = [t \in Timeline |-> None]
    /\ pc = [c \in Call |-> "idle"]
    /\ req = [c \in Call |-> None]
    /\ row = [c \in Call |-> None]
    /\ result = [c \in Call |-> None]
    /\ reply = [c \in Call |-> "none"]
    /\ announced = {}

-------------------------------------------------------------------------------
(* Pieces of the actions.                                                  *)

Goto(c, label) == pc' = [pc EXCEPT ![c] = label]

\* The end of a transaction releases every lock it holds.
ReleaseLocks(c) ==
    /\ keyLock' = [k \in Key |-> IF keyLock[k] = c THEN None ELSE keyLock[k]]
    /\ rowLock' = [t \in Timeline |-> IF rowLock[t] = c THEN None ELSE rowLock[t]]

\* withTx caught an error, or the connection is gone: nothing is kept, of the call
\* neither.
Rollback(c, outcome) ==
    /\ ReleaseLocks(c)
    /\ Goto(c, "idle")
    /\ reply' = [reply EXCEPT ![c] = outcome]
    /\ req' = [req EXCEPT ![c] = None]
    /\ row' = [row EXCEPT ![c] = None]
    /\ result' = [result EXCEPT ![c] = None]
    /\ UNCHANGED <<consents, events, idem, outbox, announced>>

LockKey(c) ==
    /\ keyLock[KeyOf(c)] = None
    /\ keyLock' = [keyLock EXCEPT ![KeyOf(c)] = c]

LockRow(c) ==
    /\ rowLock[TimelineOf(c)] = None
    /\ rowLock' = [rowLock EXCEPT ![TimelineOf(c)] = c]

-------------------------------------------------------------------------------
(* Mutated forms: an action below with a plausible bug in it.  Next uses    *)
(* none of them; each shows that a property can fail.                      *)

\* An INSERT ... ON CONFLICT DO NOTHING of the key whose result is ignored.
InsertKeyIgnored(c) ==
    /\ pc[c] = "insertKey"
    /\ idem[KeyOf(c)] # None
    /\ Goto(c, "load")
    /\ UNCHANGED <<tables, locks, req, row, result, reply, announced>>

\* The request hash is not compared.
ReserveReplayUnchecked(c) ==
    /\ pc[c] = "reserve"
    /\ idem[KeyOf(c)] # None
    /\ LockKey(c)
    /\ result' = [result EXCEPT ![c] = idem[KeyOf(c)].entry]
    /\ Goto(c, "commit")
    /\ UNCHANGED <<tables, rowLock, req, row, reply, announced>>

\* SELECT without FOR UPDATE.
LockConsentUnlocked(c) ==
    /\ pc[c] \in {"load", "reload"}
    /\ consents[TimelineOf(c)] # NoRow
    /\ row' = [row EXCEPT ![c] = consents[TimelineOf(c)]]
    /\ Goto(c, "write")
    /\ UNCHANGED <<tables, locks, req, result, reply, announced>>

\* After DO NOTHING the row is taken to be the one that was to be inserted.
InsertConsentNoReload(c) ==
    /\ pc[c] = "insertConsent"
    /\ consents[TimelineOf(c)] # NoRow
    /\ row' = [row EXCEPT ![c] = NoRow]
    /\ Goto(c, "write")
    /\ UNCHANGED <<tables, locks, req, result, reply, announced>>

\* The transition is not checked.
WriteUnchecked(c) ==
    /\ pc[c] = "write"
    /\ result' = [result EXCEPT ![c] = NextEntry(row[c], BodyOf(c))]
    /\ Goto(c, "commit")
    /\ UNCHANGED <<tables, locks, req, row, reply, announced>>

\* The outbox message goes through the pool, not through the transaction.
WriteOutboxOutside(c) ==
    /\ pc[c] = "write"
    /\ Allowed(row[c].status, BodyOf(c).action)
    /\ result' = [result EXCEPT ![c] = NextEntry(row[c], BodyOf(c))]
    /\ outbox' = outbox \cup {EventId(NextEntry(row[c], BodyOf(c)))}
    /\ Goto(c, "commit")
    /\ UNCHANGED <<consents, events, idem, locks, req, row, reply, announced>>

\* The webhook is enqueued before the transaction commits.
WriteAnnounced(c) ==
    /\ pc[c] = "write"
    /\ Allowed(row[c].status, BodyOf(c).action)
    /\ result' = [result EXCEPT ![c] = NextEntry(row[c], BodyOf(c))]
    /\ announced' = announced \cup
          {[body |-> BodyOf(c), entry |-> NextEntry(row[c], BodyOf(c))]}
    /\ Goto(c, "commit")
    /\ UNCHANGED <<tables, locks, req, row, reply>>

\* The key is completed without a response body.
CommitNoResponse(c) ==
    /\ pc[c] = "commit"
    /\ row[c] # None
    /\ LET e == result[c]
       IN  /\ consents' = [consents EXCEPT ![TimelineOf(c)] = RowAfter(e)]
           /\ events' = events \cup {e}
           /\ idem' = [idem EXCEPT ![KeyOf(c)] = [body |-> BodyOf(c), entry |-> None]]
           /\ outbox' = outbox \cup {EventId(e)}
    /\ ReleaseLocks(c)
    /\ row' = [row EXCEPT ![c] = None]
    /\ Goto(c, "announce")
    /\ UNCHANGED <<req, result, reply, announced>>

\* The connection goes back to the pool with its transaction open.
DropOpen(c) ==
    /\ pc[c] # "idle"
    /\ Goto(c, "idle")
    /\ reply' = [reply EXCEPT ![c] = "lost"]
    /\ UNCHANGED <<tables, locks, req, row, result, announced>>

-------------------------------------------------------------------------------
(* The transaction.                                                        *)

\* A client calls recordConsent and withTx opens a transaction.  Nothing ties
\* the key to the body: a client may reuse a key for another request.
Begin(c, r) ==
    /\ pc[c] = "idle"
    /\ Goto(c, "reserve")
    /\ req' = [req EXCEPT ![c] = r]
    /\ reply' = [reply EXCEPT ![c] = "none"]
    /\ result' = [result EXCEPT ![c] = None]
    /\ UNCHANGED <<consents, events, idem, outbox, keyLock, rowLock, row, announced>>

\* getIdempotencyRowForUpdate returns no row: an uncommitted row of another
\* transaction is invisible to it.
ReserveMiss(c) ==
    /\ pc[c] = "reserve"
    /\ idem[KeyOf(c)] = None
    /\ Goto(c, "insertKey")
    /\ UNCHANGED <<tables, locks, req, row, result, reply, announced>>

\* A committed row with another request hash.
ReserveConflict(c) ==
    /\ pc[c] = "reserve"
    /\ idem[KeyOf(c)] # None
    /\ keyLock[KeyOf(c)] = None
    /\ idem[KeyOf(c)].body # BodyOf(c)
    /\ Rollback(c, "conflict")

\* A committed row with this request hash.  It is COMPLETED: reserving and
\* finalizing happen in one transaction, so IN_PROGRESS is never committed.
ReserveReplay(c) ==
    /\ pc[c] = "reserve"
    /\ idem[KeyOf(c)] # None
    /\ LockKey(c)
    /\ idem[KeyOf(c)].body = BodyOf(c)
    /\ result' = [result EXCEPT ![c] = idem[KeyOf(c)].entry]
    /\ Goto(c, "commit")
    /\ UNCHANGED <<tables, rowLock, req, row, reply, announced>>

\* insertIdempotencyInProgress.  It waits while another transaction has the
\* key inserted but uncommitted.
InsertKey(c) ==
    /\ pc[c] = "insertKey"
    /\ idem[KeyOf(c)] = None
    /\ LockKey(c)
    /\ Goto(c, "load")
    /\ UNCHANGED <<tables, rowLock, req, row, result, reply, announced>>

\* The other transaction committed the key since the SELECT: the INSERT has
\* no ON CONFLICT clause and raises unique_violation.
InsertKeyViolation(c) ==
    /\ pc[c] = "insertKey"
    /\ idem[KeyOf(c)] # None
    /\ Rollback(c, "uniqueViolation")

\* getConsentByIdentityForUpdate returns no row.
LoadMissing(c) ==
    /\ pc[c] = "load"
    /\ consents[TimelineOf(c)] = NoRow
    /\ BodyOf(c).action = "GRANT"
    /\ Goto(c, "insertConsent")
    /\ UNCHANGED <<tables, locks, req, row, result, reply, announced>>

LoadNotFound(c) ==
    /\ pc[c] = "load"
    /\ consents[TimelineOf(c)] = NoRow
    /\ BodyOf(c).action # "GRANT"
    /\ Rollback(c, "notFound")

\* getConsentByIdentityForUpdate, here or in insertConsent after a conflict,
\* waits for the row lock and reads the row as committed at that time.
LockConsent(c) ==
    /\ pc[c] \in {"load", "reload"}
    /\ consents[TimelineOf(c)] # NoRow
    /\ LockRow(c)
    /\ row' = [row EXCEPT ![c] = consents[TimelineOf(c)]]
    /\ Goto(c, "write")
    /\ UNCHANGED <<tables, keyLock, req, result, reply, announced>>

\* INSERT ... ON CONFLICT DO NOTHING inserts; it waits while another
\* transaction has the identity inserted but uncommitted.  The SELECT FOR
\* UPDATE that follows in recordConsent finds the row just inserted.
InsertConsent(c) ==
    /\ pc[c] = "insertConsent"
    /\ consents[TimelineOf(c)] = NoRow
    /\ LockRow(c)
    /\ row' = [row EXCEPT ![c] = NoRow]
    /\ Goto(c, "write")
    /\ UNCHANGED <<tables, keyLock, req, result, reply, announced>>

\* The other transaction committed the identity: DO NOTHING, then reload.
InsertConsentConflict(c) ==
    /\ pc[c] = "insertConsent"
    /\ consents[TimelineOf(c)] # NoRow
    /\ Goto(c, "reload")
    /\ UNCHANGED <<tables, locks, req, row, result, reply, announced>>

\* nextStatusForAction throws.
Refuse(c) ==
    /\ pc[c] = "write"
    /\ ~Allowed(row[c].status, BodyOf(c).action)
    /\ Rollback(c, Refusal(row[c].status))

\* insertEvent, insertConsentVersion, updateConsentCurrentState,
\* enqueueOutboxMessage, finalizeIdempotencyCompleted.
Write(c) ==
    /\ pc[c] = "write"
    /\ Allowed(row[c].status, BodyOf(c).action)
    /\ result' = [result EXCEPT ![c] = NextEntry(row[c], BodyOf(c))]
    /\ Goto(c, "commit")
    /\ UNCHANGED <<tables, locks, req, row, reply, announced>>

\* COMMIT of a transaction that wrote.
CommitWrite(c) ==
    /\ pc[c] = "commit"
    /\ row[c] # None
    /\ LET e == result[c]
       IN  /\ consents' = [consents EXCEPT ![TimelineOf(c)] = RowAfter(e)]
           /\ events' = events \cup {e}
           /\ idem' = [idem EXCEPT ![KeyOf(c)] = [body |-> BodyOf(c), entry |-> e]]
           /\ outbox' = outbox \cup {EventId(e)}
    /\ ReleaseLocks(c)
    /\ row' = [row EXCEPT ![c] = None]
    /\ Goto(c, "announce")
    /\ UNCHANGED <<req, result, reply, announced>>

\* COMMIT of a transaction that replays a stored response.
CommitReplay(c) ==
    /\ pc[c] = "commit"
    /\ row[c] = None
    /\ ReleaseLocks(c)
    /\ Goto(c, "announce")
    /\ UNCHANGED <<tables, req, row, result, reply, announced>>

-------------------------------------------------------------------------------
(* After the transaction.                                                  *)

\* webhookEvent.enqueueEvent, for a recorded and for a replayed response; the
\* payload joins the result with the command.  Then the handler replies.
Announce(c) ==
    /\ pc[c] = "announce"
    /\ announced' = announced \cup {[body |-> BodyOf(c), entry |-> result[c]]}
    /\ reply' = [reply EXCEPT ![c] = "ok"]
    /\ Goto(c, "idle")
    /\ UNCHANGED <<tables, locks, req, row, result>>

\* The process or its connection dies between two statements, or the webhook
\* enqueue throws: the client gets a 500 or no answer.  PostgreSQL rolls an
\* open transaction back; a committed one stays.
Drop(c) ==
    /\ pc[c] # "idle"
    /\ Rollback(c, "lost")

\* What a call does by itself, given time.
Proceed(c) ==
    \/ ReserveMiss(c) \/ ReserveConflict(c) \/ ReserveReplay(c)
    \/ InsertKey(c) \/ InsertKeyViolation(c)
    \/ LoadMissing(c) \/ LoadNotFound(c) \/ LockConsent(c)
    \/ InsertConsent(c) \/ InsertConsentConflict(c)
    \/ Refuse(c) \/ Write(c) \/ CommitWrite(c) \/ CommitReplay(c)
    \/ Announce(c)

Next ==
    \E c \in Call :
        \/ \E r \in Request : Begin(c, r)
        \/ Proceed(c)
        \/ Drop(c)

Spec == Init /\ [][Next]_vars

\* The statements that wait for another transaction to release a lock.
AwaitLock(c) ==
    ReserveConflict(c) \/ ReserveReplay(c) \/ InsertKey(c)
        \/ LockConsent(c) \/ InsertConsent(c)

\* Node runs every ready continuation; PostgreSQL wakes the waiters of a lock
\* and serves them before later comers, so none is passed over for ever.
FairSpec ==
    /\ Spec
    /\ \A c \in Call : WF_vars(Proceed(c)) /\ SF_vars(AwaitLock(c))

-------------------------------------------------------------------------------
(* Properties.                                                             *)

\* Every variable has its type.
TypeOK ==
    /\ consents \in [Timeline -> Row]
    /\ events \subseteq Entry
    /\ idem \in [Key -> Answer \cup {None}]
    /\ outbox \subseteq Timeline \X Nat
    /\ keyLock \in [Key -> Call \cup {None}]
    /\ rowLock \in [Timeline -> Call \cup {None}]
    /\ pc \in [Call -> Step]
    /\ req \in [Call -> Request \cup {None}]
    /\ row \in [Call -> Row \cup {None}]
    /\ result \in [Call -> Entry \cup {None}]
    /\ \A c \in Call :
          /\ pc[c] # "idle" => req[c] \in Request
          /\ pc[c] = "write" => row[c] \in Row
          /\ pc[c] \in {"commit", "announce"} => result[c] \in Entry
    /\ reply \in [Call -> Outcome]
    /\ announced \subseteq Answer

\* However calls overlap, the first GRANTs of a timeline above all, every timeline
\* is a gap-free, fork-free, legal history and its consents row agrees with its
\* newest entry: TimelineIntact of ConsentTimeline says it in full.
TimelineIntact == Tables!TimelineIntact

\* Retries and duplicates under one idempotency key record one entry, the one
\* the stored response names, and every entry was recorded under some key.
OneEntryPerKey == Tables!OneEntryPerKey

\* The hand-off to the proof worker: a proof.pending message is in the outbox
\* for every committed event and for nothing else, whatever failed half-way.
OutboxMatchesEvents == outbox = {EventId(e) : e \in events}

\* A call that was told OK got the entry stored for its key and its own body,
\* also when another call did the work.
RepliesAreStored ==
    \A c \in Call :
        reply[c] = "ok" =>
            /\ idem[KeyOf(c)] # None
            /\ idem[KeyOf(c)].entry = result[c]
            /\ idem[KeyOf(c)].body = BodyOf(c)

\* No webhook tells a subscriber of something that is not in the ledger, or
\* describes it other than the ledger does.
AnnouncementsAreTrue ==
    \A m \in announced :
        /\ m.entry \in events
        /\ m.entry.timeline = m.body.timeline
        /\ m.entry.action = m.body.action
        /\ m.entry.details = m.body.details

\* The consents row a call read under its lock is still the committed one for
\* as long as the call decides and writes from it.
LockedRowIsCurrent ==
    \A c \in Call :
        row[c] # None =>
            /\ rowLock[TimelineOf(c)] = c
            /\ row[c] = consents[TimelineOf(c)]

\* Refinement: a committed write is one atomic Record step of the abstract
\* timeline, any other step changes nothing a reader of the ledger can see.
ImplementsTimeline == Tables!TimelineSpec

\* Every call ends: no set of calls waits on each other's key and row locks.
EveryCallEnds == \A c \in Call : pc[c] # "idle" ~> pc[c] = "idle"

\* docs/phase-a-api-contracts.md: the same key with the same body replays the
\* stored response; no duplicate is refused because its original succeeded.
DuplicateIsReplayed ==
    [][\A c \in Call :
          pc[c] # "idle" /\ reply'[c] = "uniqueViolation" =>
              ~ (idem[KeyOf(c)] # None /\ idem[KeyOf(c)].body = BodyOf(c))]_vars
===============================================================================
