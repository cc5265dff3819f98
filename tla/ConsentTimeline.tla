--------------------------- MODULE ConsentTimeline ----------------------------
(***************************************************************************)
(* What the consent ledger promises, without calls, locks or failures: a   *)
(* request body presented under an idempotency key is recorded in one      *)
(* step, at most once per key, as the next version of its timeline, and    *)
(* nothing recorded is ever changed.  ConsentLedger implements this.       *)
(***************************************************************************)
EXTENDS ConsentLifecycle

CONSTANTS
    Key,       \* idempotency keys, scoped by company
    None       \* "no value"

VARIABLES
    consents,  \* timeline -> its current version and status
    events,    \* the entries recorded so far
    idem       \* key -> the body it was used for and the entry it produced

tvars == <<consents, events, idem>>

TimelineInit ==
    /\ consents = [t \in Timeline |-> NoRow]
    /\ events = {}
    /\ idem = [k \in Key |-> None]

Record(k, b) ==
    /\ idem[k] = None
    /\ Allowed(consents[b.timeline].status, b.action)
    /\ LET e == NextEntry(consents[b.timeline], b)
       IN  /\ consents' = [consents EXCEPT ![b.timeline] = RowAfter(e)]
           /\ events' = events \cup {e}
           /\ idem' = [idem EXCEPT ![k] = [body |-> b, entry |-> e]]

TimelineNext == \E k \in Key, b \in Body : Record(k, b)

TimelineSpec == TimelineInit /\ [][TimelineNext]_tvars

-------------------------------------------------------------------------------
(* Properties of the recorded history, of this specification and of those  *)
(* that implement it.                                                      *)

\* The versions of a timeline in events are 1 to current_version_no, each
\* recorded once; the pointer row agrees with the newest entry; every entry
\* is a legal successor of the one before it.
GapFree(t) ==
    /\ \A e \in events : e.timeline = t => e.version \in 1 .. consents[t].version
    /\ \A n \in 1 .. consents[t].version :
          \E e \in events : e.timeline = t /\ e.version = n

NoFork(t) ==
    \A e, f \in events :
        e.timeline = t /\ f.timeline = t /\ e.version = f.version => e = f

PointerIsLatest(t) ==
    \A e \in events :
        e.timeline = t /\ e.version = consents[t].version => consents[t] = RowAfter(e)

LegalHistory(t) ==
    \A f \in events :
        f.timeline = t =>
            /\ f.status = NextStatus(f.action)
            /\ f.version = 1 => Allowed("NONE", f.action)
            /\ \A e \in events :
                  e.timeline = t /\ f.version = e.version + 1
                      => Allowed(e.status, f.action)

\* Every timeline is a gap-free, fork-free, legal history, and its row in
\* consents agrees with its newest entry.
TimelineIntact ==
    \A t \in Timeline :
        GapFree(t) /\ NoFork(t) /\ PointerIsLatest(t) /\ LegalHistory(t)

\* A key that has been used has one entry of its own, which is what its body
\* asked for, and every entry was recorded under some key.
OneEntryPerKey ==
    /\ \A k \in Key : idem[k] # None =>
          /\ idem[k].entry \in events
          /\ idem[k].entry.timeline = idem[k].body.timeline
          /\ idem[k].entry.action = idem[k].body.action
          /\ idem[k].entry.details = idem[k].body.details
    /\ \A j, k \in Key :
          idem[j] # None /\ idem[k] # None /\ idem[j].entry = idem[k].entry => j = k
    /\ \A e \in events : \E k \in Key : idem[k] # None /\ idem[k].entry = e

\* Nothing that has been recorded, and no response that has been stored, is ever
\* changed or removed, and a version is only ever followed by the next one.
Growing ==
    /\ events \subseteq events'
    /\ \A k \in Key : idem[k] # None => idem'[k] = idem[k]
    /\ \A t \in Timeline :
          \/ consents'[t] = consents[t]
          \/ \E e \in events' \ events :
                /\ events' = events \cup {e}
                /\ e.timeline = t /\ e.version = consents[t].version + 1
                /\ Allowed(consents[t].status, e.action)
                /\ consents'[t] = RowAfter(e)
===============================================================================
