----------------------------- MODULE WidgetSession -----------------------------
(***************************************************************************)
(* Widget sessions (src/services/widget): a company creates a session for  *)
(* one timeline under one published policy, and whoever holds its token    *)
(* submits a consent.  A submit is three transactions: check the session   *)
(* and start it, record the consent under a key derived from the session,  *)
(* mark the session CONSUMED.  Another submit, a cancel, an expiry or a    *)
(* lost server may come between any two of them.                           *)
(*                                                                         *)
(* The ledger is the atomic ConsentTimeline that ConsentLedger implements. *)
(* A transaction that locks one session row is one action.  A request with *)
(* a wrong token, nonce or origin changes nothing and has no action.       *)
(***************************************************************************)
EXTENDS Naturals

CONSTANTS
    Timeline,  \* consent identities: (company, external user, purpose code)
    Policy,    \* versions of policy artifacts
    Moment,    \* values of occurred_at
    Session,   \* ids of widget sessions; also the keys "widget-submit-<id>"
    ApiKey,    \* idempotency keys the company's own backend uses
    Call,      \* submitSession calls that may be in flight at once
    None       \* "no value"

VARIABLES
    consents,  \* the ledger: timeline -> its current version and status
    events,    \* the ledger: recorded entries
    idem,      \* the ledger: key -> the body it was used for and its entry
    published, \* policy versions in state PUBLISHED
    session,   \* session -> its row in widget_sessions (None if absent)
    creation,  \* session -> how its createSession call went on
    elapsed,   \* sessions whose expires_at has passed
    pc,        \* call -> the transaction it runs next
    req,       \* call -> the session, action and time it was made with
    result,    \* call -> the entry recordConsent returned to it
    reply,     \* call -> what the client was told
    announced  \* widget.session.consumed payloads enqueued for delivery

Ledger == INSTANCE ConsentTimeline
    WITH Details <- Policy \X Moment, Key <- Session \cup ApiKey

ledger == <<consents, events, idem>>
calls == <<pc, req, result, reply>>
vars == <<consents, events, idem, published, session, creation, elapsed,
          pc, req, result, reply, announced>>

SessionStatus == {"ISSUED", "STARTED", "CONSUMED", "EXPIRED", "CANCELLED"}

\* The columns of widget_sessions that change or that a submit uses.
SessionRow == [timeline: Timeline, policy: Policy, status: SessionStatus,
               entry: Ledger!Entry \cup {None}]

Request == [session: Session, action: Ledger!Action, at: Moment]

Outcome == {"none", "ok", "consumed", "cancelled", "expired", "refused", "lost"}

\* The companies' backends do not use the keys of sessions for themselves.
ASSUME KeysApart == Session \cap ApiKey = {}

ASSUME NoneIsNoValue ==
    /\ None \notin SessionRow
    /\ None \notin Request
    /\ None \notin Ledger!Entry
    /\ None \notin [body: Ledger!Body, entry: Ledger!Entry]

\* Its status, if the session exists.
Status(s) == IF session[s] = None THEN "ABSENT" ELSE session[s].status

\* ISSUED or STARTED.
Open(s) == Status(s) \in {"ISSUED", "STARTED"}

SessionOf(c) == req[c].session

\* Mutated form of KeyOf: a key of its own for every submit.
FreshKey(c) ==
    IF \E k \in ApiKey : idem[k] = None
    THEN CHOOSE k \in ApiKey : idem[k] = None
    ELSE SessionOf(c)

\* idempotencyKey = `widget-submit-${sessionId}`
KeyOf(c) == SessionOf(c)

\* The body that a submit has recorded: timeline and policy are the session's,
\* the action and its time are the client's.
BodyOf(c) ==
    [timeline |-> session[SessionOf(c)].timeline,
     action |-> req[c].action,
     details |-> <<session[SessionOf(c)].policy, req[c].at>>]

Init ==
    /\ Ledger!TimelineInit
    /\ published = {}
    /\ session = [s \in Session |-> None]
    /\ creation = [s \in Session |-> "none"]
    /\ elapsed = {}
    /\ pc = [c \in Call |-> "idle"]
    /\ req = [c \in Call |-> None]
    /\ result = [c \in Call |-> None]
    /\ reply = [c \in Call |-> "none"]
    /\ announced = {}

-------------------------------------------------------------------------------
(* Pieces of the actions.                                                  *)

\* updateWidgetSessionState
SetStatus(s, status) == session' = [session EXCEPT ![s].status = status]

Goto(c, label) == pc' = [pc EXCEPT ![c] = label]

\* The call ends without a result.
Refuse(c, outcome) ==
    /\ Goto(c, "idle")
    /\ reply' = [reply EXCEPT ![c] = outcome]
    /\ result' = [result EXCEPT ![c] = None]

-------------------------------------------------------------------------------
(* Mutated forms: a definition below or above with a plausible bug in it.   *)
(* Next uses none of them; each shows that a property can fail.             *)

\* Any version of the policy will do.
CreateUnpublished(s, t, p) ==
    /\ session[s] = None
    /\ session' = [session EXCEPT ![s] =
          [timeline |-> t, policy |-> p, status |-> "ISSUED", entry |-> None]]
    /\ creation' = [creation EXCEPT ![s] = "pending"]
    /\ UNCHANGED <<ledger, published, elapsed, calls, announced>>

\* Cancel whatever the status is.
CancelAlways(s) ==
    /\ session[s] # None
    /\ SetStatus(s, "CANCELLED")
    /\ UNCHANGED <<ledger, published, creation, elapsed, calls, announced>>

\* The consent pointers come from the timeline as it is now.
ConsumeLatest(c) ==
    /\ pc[c] = "consume"
    /\ \E e \in events :
          /\ e.timeline = result[c].timeline
          /\ e.version = consents[e.timeline].version
          /\ session' = [session EXCEPT ![SessionOf(c)].status = "CONSUMED",
                                        ![SessionOf(c)].entry = e]
    /\ Goto(c, "announce")
    /\ UNCHANGED <<ledger, published, creation, elapsed, req, result, reply, announced>>

\* The stored response has no body.
ReplayNothing(c) ==
    /\ pc[c] = "record"
    /\ idem[KeyOf(c)] # None
    /\ idem[KeyOf(c)].body = BodyOf(c)
    /\ Goto(c, "consume")
    /\ UNCHANGED <<ledger, published, session, creation, elapsed,
                   req, result, reply, announced>>

\* UPDATE ... WHERE status = 'STARTED', its row count ignored.
ConsumeIfStarted(c) ==
    /\ pc[c] = "consume"
    /\ session' = IF Status(SessionOf(c)) = "STARTED"
                  THEN [session EXCEPT ![SessionOf(c)].status = "CONSUMED",
                                       ![SessionOf(c)].entry = result[c]]
                  ELSE session
    /\ Goto(c, "announce")
    /\ UNCHANGED <<ledger, published, creation, elapsed, req, result, reply, announced>>

\* UPDATE ... WHERE status = 'STARTED', and an error if no row matched.
ConsumeOrThrow(c) ==
    /\ pc[c] = "consume"
    /\ IF Status(SessionOf(c)) = "STARTED"
       THEN /\ session' = [session EXCEPT ![SessionOf(c)].status = "CONSUMED",
                                          ![SessionOf(c)].entry = result[c]]
            /\ Goto(c, "announce")
            /\ UNCHANGED <<result, reply>>
       ELSE /\ Refuse(c, "refused")
            /\ UNCHANGED session
    /\ UNCHANGED <<ledger, published, creation, elapsed, req, announced>>

-------------------------------------------------------------------------------
(* The life of a session outside submits.                                  *)

\* publishPolicyArtifact
Publish(p) ==
    /\ p \notin published
    /\ published' = published \cup {p}
    /\ UNCHANGED <<ledger, session, creation, elapsed, calls, announced>>

\* The transaction of createSession.
Create(s, t, p) ==
    /\ session[s] = None
    /\ p \in published
    /\ session' = [session EXCEPT ![s] =
          [timeline |-> t, policy |-> p, status |-> "ISSUED", entry |-> None]]
    /\ creation' = [creation EXCEPT ![s] = "pending"]
    /\ UNCHANGED <<ledger, published, elapsed, calls, announced>>

\* widget.session.created is enqueued and the client gets the token.
AnswerCreate(s) ==
    /\ creation[s] = "pending"
    /\ creation' = [creation EXCEPT ![s] = "answered"]
    /\ UNCHANGED <<ledger, published, session, elapsed, calls, announced>>

\* The enqueue throws or the server dies: nobody ever holds the token.
LoseCreate(s) ==
    /\ creation[s] = "pending"
    /\ creation' = [creation EXCEPT ![s] = "lost"]
    /\ UNCHANGED <<ledger, published, session, elapsed, calls, announced>>

TtlElapses(s) ==
    /\ session[s] # None
    /\ s \notin elapsed
    /\ elapsed' = elapsed \cup {s}
    /\ UNCHANGED <<ledger, published, session, creation, calls, announced>>

\* The widget is loaded with an expired token (allowExpired).  In every other
\* case bootstrap changes nothing.
Bootstrap(s) ==
    /\ creation[s] = "answered"
    /\ s \in elapsed
    /\ Open(s)
    /\ SetStatus(s, "EXPIRED")
    /\ UNCHANGED <<ledger, published, creation, elapsed, calls, announced>>

\* expireSession, which no route exposes, whether or not the time has come.
Expire(s) ==
    /\ Open(s)
    /\ SetStatus(s, "EXPIRED")
    /\ UNCHANGED <<ledger, published, creation, elapsed, calls, announced>>

\* cancelSession, which no route exposes.
Cancel(s) ==
    /\ Open(s)
    /\ SetStatus(s, "CANCELLED")
    /\ UNCHANGED <<ledger, published, creation, elapsed, calls, announced>>

\* The company's backend records a consent itself, on any timeline.
RecordDirectly(k, b) ==
    /\ Ledger!Record(k, b)
    /\ UNCHANGED <<published, session, creation, elapsed, calls, announced>>

-------------------------------------------------------------------------------
(* submitSession.                                                          *)

\* The token verifies.
Submit(c, r) ==
    /\ pc[c] = "idle"
    /\ creation[r.session] = "answered"
    /\ r.session \notin elapsed
    /\ req' = [req EXCEPT ![c] = r]
    /\ Goto(c, "check")
    /\ reply' = [reply EXCEPT ![c] = "none"]
    /\ result' = [result EXCEPT ![c] = None]
    /\ UNCHANGED <<ledger, published, session, creation, elapsed, announced>>

\* The token has expired: verifyWidgetSessionToken throws.
SubmitTooLate(c, r) ==
    /\ pc[c] = "idle"
    /\ creation[r.session] = "answered"
    /\ r.session \in elapsed
    /\ req' = [req EXCEPT ![c] = r]
    /\ Refuse(c, "expired")
    /\ UNCHANGED <<ledger, published, session, creation, elapsed, announced>>

\* First transaction, the session is usable.
CheckOpen(c) ==
    /\ pc[c] = "check"
    /\ Open(SessionOf(c))
    /\ SessionOf(c) \notin elapsed
    /\ SetStatus(SessionOf(c), "STARTED")
    /\ Goto(c, "record")
    /\ UNCHANGED <<ledger, published, creation, elapsed, req, result, reply, announced>>

\* First transaction, the session is CONSUMED or CANCELLED.
CheckClosed(c) ==
    /\ pc[c] = "check"
    /\ \/ Status(SessionOf(c)) = "CONSUMED" /\ Refuse(c, "consumed")
       \/ Status(SessionOf(c)) = "CANCELLED" /\ Refuse(c, "cancelled")
    /\ UNCHANGED <<ledger, published, session, creation, elapsed, req, announced>>

\* First transaction, the session has expired: the row is set to EXPIRED, and
\* the error thrown next makes withTx roll the transaction back.
CheckExpired(c) ==
    /\ pc[c] = "check"
    /\ \/ Status(SessionOf(c)) = "EXPIRED"
       \/ Open(SessionOf(c)) /\ SessionOf(c) \in elapsed
    /\ Refuse(c, "expired")
    /\ UNCHANGED <<ledger, published, session, creation, elapsed, req, announced>>

\* recordConsent records.
Record(c) ==
    /\ pc[c] = "record"
    /\ Ledger!Record(KeyOf(c), BodyOf(c))
    /\ result' = [result EXCEPT ![c] =
          Ledger!NextEntry(consents[BodyOf(c).timeline], BodyOf(c))]
    /\ Goto(c, "consume")
    /\ UNCHANGED <<published, session, creation, elapsed, req, reply, announced>>

\* recordConsent replays what an earlier submit of this session recorded.
Replay(c) ==
    /\ pc[c] = "record"
    /\ idem[KeyOf(c)] # None
    /\ idem[KeyOf(c)].body = BodyOf(c)
    /\ result' = [result EXCEPT ![c] = idem[KeyOf(c)].entry]
    /\ Goto(c, "consume")
    /\ UNCHANGED <<ledger, published, session, creation, elapsed, req, reply, announced>>

\* recordConsent throws: the key was used for another action or time, or by a
\* submit that ran at the same time, or the transition is not allowed.
RecordFails(c) ==
    /\ pc[c] = "record"
    /\ \/ idem[KeyOf(c)] # None
       \/ ~ Ledger!Allowed(consents[BodyOf(c).timeline].status, BodyOf(c).action)
    /\ Refuse(c, "refused")
    /\ UNCHANGED <<ledger, published, session, creation, elapsed, req, announced>>

\* markWidgetSessionConsumed, whatever has happened to the session meanwhile.
Consume(c) ==
    /\ pc[c] = "consume"
    /\ session' = [session EXCEPT ![SessionOf(c)].status = "CONSUMED",
                                  ![SessionOf(c)].entry = result[c]]
    /\ Goto(c, "announce")
    /\ UNCHANGED <<ledger, published, creation, elapsed, req, result, reply, announced>>

\* widget.session.consumed is enqueued and the client gets the result.
Announce(c) ==
    /\ pc[c] = "announce"
    /\ announced' = announced \cup {[session |-> SessionOf(c), entry |-> result[c]]}
    /\ reply' = [reply EXCEPT ![c] = "ok"]
    /\ Goto(c, "idle")
    /\ UNCHANGED <<ledger, published, session, creation, elapsed, req, result>>

\* The server dies or a statement throws; what is committed stays.
Drop(c) ==
    /\ pc[c] # "idle"
    /\ Refuse(c, "lost")
    /\ UNCHANGED <<ledger, published, session, creation, elapsed, req, announced>>

\* What a submit does by itself, given time.
Proceed(c) ==
    \/ CheckOpen(c) \/ CheckClosed(c) \/ CheckExpired(c)
    \/ Record(c) \/ Replay(c) \/ RecordFails(c)
    \/ Consume(c) \/ Announce(c)

Next ==
    \/ \E p \in Policy : Publish(p)
    \/ \E s \in Session :
          \/ \E t \in Timeline, p \in Policy : Create(s, t, p)
          \/ AnswerCreate(s) \/ LoseCreate(s) \/ TtlElapses(s)
          \/ Bootstrap(s) \/ Expire(s) \/ Cancel(s)
    \/ \E k \in ApiKey, b \in Ledger!Body : RecordDirectly(k, b)
    \/ \E c \in Call :
          \/ \E r \in Request : Submit(c, r) \/ SubmitTooLate(c, r)
          \/ Proceed(c)
          \/ Drop(c)

Spec == Init /\ [][Next]_vars

\* Node runs every ready continuation, and every statement of a submit returns:
\* the ledger's calls end (EveryCallEnds of ConsentLedger), and a session row is
\* locked for one short transaction at a time.
FairSpec == Spec /\ \A c \in Call : WF_vars(Proceed(c))

-------------------------------------------------------------------------------
(* Properties.                                                             *)

\* Every variable has its type.
TypeOK ==
    /\ consents \in [Timeline -> Ledger!Row]
    /\ events \subseteq Ledger!Entry
    /\ idem \in [Session \cup ApiKey ->
                    [body: Ledger!Body, entry: Ledger!Entry] \cup {None}]
    /\ published \subseteq Policy
    /\ session \in [Session -> SessionRow \cup {None}]
    /\ creation \in [Session -> {"none", "pending", "answered", "lost"}]
    /\ elapsed \subseteq Session
    /\ pc \in [Call -> {"idle", "check", "record", "consume", "announce"}]
    /\ req \in [Call -> Request \cup {None}]
    /\ result \in [Call -> Ledger!Entry \cup {None}]
    /\ \A c \in Call :
          /\ pc[c] # "idle" => req[c] \in Request
          /\ pc[c] \in {"consume", "announce"} => result[c] \in Ledger!Entry
    /\ reply \in [Call -> Outcome]
    /\ announced \subseteq [session: Session, entry: Ledger!Entry]

\* A consent recorded under the key of a session (widget-submit-<id>) is on the
\* session's timeline, names the policy version the session was created for,
\* which was published, and came from a submit that started the session.
ConsentMatchesSession ==
    \A s \in Session :
        idem[s] # None =>
            /\ creation[s] = "answered"
            /\ Status(s) \notin {"ABSENT", "ISSUED"}
            /\ idem[s].body.timeline = session[s].timeline
            /\ idem[s].body.details[1] = session[s].policy
            /\ session[s].policy \in published

\* The consent columns of a session are set exactly when it is CONSUMED, and
\* name the one entry recorded under its key, however many submits of it ran.
ConsumedNamesConsent ==
    \A s \in Session :
        session[s] # None =>
            /\ session[s].entry # None <=> Status(s) = "CONSUMED"
            /\ session[s].entry # None =>
                  /\ idem[s] # None
                  /\ session[s].entry = idem[s].entry
                  /\ session[s].entry \in events

\* A session is good for one consent: all submits of it that were told OK had
\* the same action and got the same entry, also when they overlapped.
SubmitsAgree ==
    \A c, d \in Call :
        reply[c] = "ok" /\ reply[d] = "ok" /\ SessionOf(c) = SessionOf(d) =>
            /\ result[c] = result[d]
            /\ result[c].action = req[c].action

\* widget.session.consumed is announced of CONSUMED sessions only, with the
\* entry the session shows.
AnnouncedIsConsumed ==
    \A m \in announced :
        /\ Status(m.session) = "CONSUMED"
        /\ session[m.session].entry = m.entry

\* A CONSUMED session never changes again: not by a cancel, an expiry or the
\* last transaction of another submit.
ConsumedIsFinal ==
    [][\A s \in Session :
          Status(s) = "CONSUMED" => session'[s] = session[s]]_vars

\* A submit that has recorded its consent makes the session CONSUMED, whatever
\* else happens to the session meanwhile, unless the submit is lost.
RecordedIsConsumed ==
    \A c \in Call, s \in Session :
        pc[c] = "consume" /\ SessionOf(c) = s
            ~> Status(s) = "CONSUMED" \/ reply[c] = "lost"

\* docs/phase-c2-widget-session-contracts.md lists CONSUMED, EXPIRED and
\* CANCELLED as terminal states.
TerminalIsFinal ==
    [][\A s \in Session :
          Status(s) \in {"CONSUMED", "EXPIRED", "CANCELLED"}
              => Status(s)' = Status(s)]_vars
===============================================================================
