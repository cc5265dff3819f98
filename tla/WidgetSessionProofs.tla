-------------------------- MODULE WidgetSessionProofs --------------------------
(***************************************************************************)
(* Proofs about WidgetSession for any sets of sessions, submits, keys,     *)
(* policies and timelines.                                                 *)
(***************************************************************************)
EXTENDS WidgetSession, TLAPS

\* The proofs about the ledger that the sessions record in.
LedgerProofs == INSTANCE ConsentTimelineProofs
    WITH Details <- Policy \X Moment, Key <- Session \cup ApiKey

-------------------------------------------------------------------------------
(* The inductive invariant.                                                *)

SessionOK(s) ==
    /\ session[s] = None => creation[s] = "none" /\ idem[s] = None
    /\ session[s] # None =>
          /\ session[s].policy \in published
          /\ session[s].entry # None <=> Status(s) = "CONSUMED"
          /\ session[s].entry # None =>
                idem[s] # None /\ session[s].entry = idem[s].entry
    /\ idem[s] # None =>
          /\ creation[s] = "answered"
          /\ Status(s) # "ISSUED"
          /\ idem[s].body.timeline = session[s].timeline
          /\ idem[s].body.details[1] = session[s].policy

\* The result that the call holds is stored under its session's key.
Answered(c) ==
    /\ idem[SessionOf(c)] # None
    /\ result[c] = idem[SessionOf(c)].entry
    /\ idem[SessionOf(c)].body = BodyOf(c)

CallOK(c) ==
    /\ reply[c] = "ok" => pc[c] = "idle"
    /\ pc[c] # "idle" \/ reply[c] = "ok" =>
          req[c] \in Request /\ creation[SessionOf(c)] = "answered"
    /\ pc[c] = "record" => Status(SessionOf(c)) # "ISSUED"
    /\ pc[c] \in {"consume", "announce"} \/ reply[c] = "ok" => Answered(c)
    /\ pc[c] = "announce" =>
          /\ Status(SessionOf(c)) = "CONSUMED"
          /\ session[SessionOf(c)].entry = result[c]

Stored(k) ==
    idem[k] # None =>
        /\ idem[k].entry \in events
        /\ idem[k].entry.action = idem[k].body.action

IInv ==
    /\ TypeOK
    /\ \A s \in Session : SessionOK(s)
    /\ \A c \in Call : CallOK(c)
    /\ \A k \in Session \cup ApiKey : Stored(k)
    /\ AnnouncedIsConsumed

-------------------------------------------------------------------------------
(* Type correctness.                                                       *)

LEMMA NextEntryType ==
    ASSUME NEW r \in Ledger!Row, NEW b \in Ledger!Body
    PROVE  /\ Ledger!NextEntry(r, b) \in Ledger!Entry
           /\ Ledger!RowAfter(Ledger!NextEntry(r, b)) \in Ledger!Row
BY DEF Ledger!NextEntry, Ledger!RowAfter, Ledger!Row, Ledger!Body, Ledger!Entry,
       Ledger!NextStatus, Ledger!Status

\* What a recorded body does to the ledger.
LEMMA RecordType ==
    ASSUME TypeOK, NEW k \in Session \cup ApiKey, NEW b \in Ledger!Body,
           Ledger!Record(k, b)
    PROVE  LET e == Ledger!NextEntry(consents[b.timeline], b)
           IN  /\ e \in Ledger!Entry
               /\ consents' \in [Timeline -> Ledger!Row]
               /\ events' = events \cup {e}
               /\ idem[k] = None
               /\ idem' = [idem EXCEPT ![k] = [body |-> b, entry |-> e]]
               /\ [body |-> b, entry |-> e] \in
                      [body: Ledger!Body, entry: Ledger!Entry]
<1> DEFINE e == Ledger!NextEntry(consents[b.timeline], b)
<1>1. b.timeline \in Timeline /\ consents[b.timeline] \in Ledger!Row
  BY DEF TypeOK, Ledger!Body
<1>2. e \in Ledger!Entry /\ Ledger!RowAfter(e) \in Ledger!Row
  BY <1>1, NextEntryType
<1>3. consents' = [consents EXCEPT ![b.timeline] = Ledger!RowAfter(e)]
  BY DEF Ledger!Record
<1>4. consents' \in [Timeline -> Ledger!Row]
  BY <1>1, <1>2, <1>3 DEF TypeOK
<1>5. QED
  BY <1>2, <1>4 DEF Ledger!Record

\* The body of a submit of an existing session.
LEMMA BodyType ==
    ASSUME TypeOK, NEW c \in Call, req[c] \in Request, session[SessionOf(c)] # None
    PROVE  /\ SessionOf(c) \in Session
           /\ KeyOf(c) = SessionOf(c)
           /\ session[SessionOf(c)] \in SessionRow
           /\ BodyOf(c) \in Ledger!Body
           /\ BodyOf(c).action = req[c].action
           /\ BodyOf(c).timeline = session[SessionOf(c)].timeline
           /\ BodyOf(c).details[1] = session[SessionOf(c)].policy
<1>1. SessionOf(c) \in Session /\ req[c].action \in Ledger!Action /\ req[c].at \in Moment
  BY DEF Request, SessionOf
<1>2. session[SessionOf(c)] \in SessionRow
  BY <1>1 DEF TypeOK
<1>3. <<session[SessionOf(c)].policy, req[c].at>> \in Policy \X Moment
  BY <1>1, <1>2 DEF SessionRow
<1>4. QED
  BY <1>1, <1>2, <1>3 DEF KeyOf, BodyOf, Ledger!Body, SessionRow

\* A submit in progress is one of an existing session.
LEMMA InProgress ==
    ASSUME IInv, NEW c \in Call, pc[c] # "idle"
    PROVE  /\ req[c] \in Request
           /\ SessionOf(c) \in Session
           /\ session[SessionOf(c)] # None
           /\ session[SessionOf(c)] \in SessionRow
           /\ Status(SessionOf(c)) = session[SessionOf(c)].status
<1>1. req[c] \in Request /\ creation[SessionOf(c)] = "answered" /\ SessionOf(c) \in Session
  BY DEF IInv, CallOK, Request, SessionOf
<1>2. session[SessionOf(c)] # None
  BY <1>1 DEF IInv, SessionOK
<1>3. QED
  BY <1>1, <1>2 DEF IInv, TypeOK, Status

LEMMA SetStatusType ==
    ASSUME TypeOK, NEW s \in Session, session[s] # None,
           NEW v \in SessionStatus, SetStatus(s, v)
    PROVE  session' \in [Session -> SessionRow \cup {None}]
<1>1. session[s] \in SessionRow
  BY DEF TypeOK
<1>2. [session[s] EXCEPT !.status = v] \in SessionRow
  BY <1>1 DEF SessionRow
<1>3. QED
  BY <1>2 DEF SetStatus, TypeOK

LEMMA TypeInit == Init => TypeOK
<1>1. Ledger!NoRow \in Ledger!Row
  BY DEF Ledger!NoRow, Ledger!Row, Ledger!Status
<1>2. QED
  BY <1>1 DEF Init, Ledger!TimelineInit, TypeOK, Outcome

LEMMA TypeStep == IInv /\ [Next]_vars => TypeOK'
<1> SUFFICES ASSUME IInv, [Next]_vars PROVE TypeOK'
  OBVIOUS
<1>0. TypeOK
  BY DEF IInv
<1> USE DEF ledger, calls
<1>1. ASSUME NEW p \in Policy, Publish(p) PROVE TypeOK'
  BY <1>0, <1>1 DEF Publish, TypeOK
<1>2. ASSUME NEW s \in Session, NEW t \in Timeline, NEW p \in Policy, Create(s, t, p)
      PROVE  TypeOK'
  <2>1. [timeline |-> t, policy |-> p, status |-> "ISSUED", entry |-> None] \in SessionRow
    BY DEF SessionRow, SessionStatus
  <2>2. QED
    BY <1>0, <1>2, <2>1 DEF Create, TypeOK
<1>3. ASSUME NEW s \in Session, AnswerCreate(s) \/ LoseCreate(s) \/ TtlElapses(s)
      PROVE  TypeOK'
  BY <1>0, <1>3 DEF AnswerCreate, LoseCreate, TtlElapses, TypeOK
<1>4. ASSUME NEW s \in Session, Bootstrap(s) \/ Expire(s) \/ Cancel(s) PROVE TypeOK'
  <2>1. session[s] # None
    BY <1>4 DEF Bootstrap, Expire, Cancel, Open, Status
  <2>2. session' \in [Session -> SessionRow \cup {None}]
    BY <1>0, <1>4, <2>1, SetStatusType DEF Bootstrap, Expire, Cancel, SessionStatus
  <2>3. QED
    BY <1>0, <1>4, <2>2 DEF Bootstrap, Expire, Cancel, TypeOK
<1>5. ASSUME NEW k \in ApiKey, NEW b \in Ledger!Body, RecordDirectly(k, b) PROVE TypeOK'
  <2>1. Ledger!Record(k, b)
    BY <1>5 DEF RecordDirectly
  <2>2. /\ consents' \in [Timeline -> Ledger!Row]
        /\ events' \subseteq Ledger!Entry
        /\ idem' \in [Session \cup ApiKey ->
                        [body: Ledger!Body, entry: Ledger!Entry] \cup {None}]
    BY <1>0, <2>1, RecordType DEF TypeOK
  <2>3. QED
    BY <1>0, <1>5, <2>2 DEF RecordDirectly, TypeOK
<1>6. ASSUME NEW c \in Call, NEW r \in Request, Submit(c, r) \/ SubmitTooLate(c, r)
      PROVE  TypeOK'
  BY <1>0, <1>6 DEF Submit, SubmitTooLate, Refuse, Goto, TypeOK, Outcome
<1>7. ASSUME NEW c \in Call, Proceed(c) PROVE TypeOK'
  <2>0. pc[c] # "idle"
    BY <1>7 DEF Proceed, CheckOpen, CheckClosed, CheckExpired, Record, Replay,
                RecordFails, Consume, Announce
  <2>1. CASE CheckOpen(c)
    <3>1. session' \in [Session -> SessionRow \cup {None}]
      BY <1>0, <2>0, <2>1, InProgress, SetStatusType DEF CheckOpen, SessionStatus
    <3>2. QED
      BY <1>0, <2>1, <3>1 DEF CheckOpen, Goto, TypeOK
  <2>2. CASE CheckClosed(c) \/ CheckExpired(c) \/ RecordFails(c)
    BY <1>0, <2>2 DEF CheckClosed, CheckExpired, RecordFails, Refuse, Goto, TypeOK, Outcome
  <2>3. CASE Record(c)
    <3>1. Ledger!Record(KeyOf(c), BodyOf(c)) /\ pc[c] = "record"
      BY <2>3 DEF Record
    <3>2. KeyOf(c) \in Session \cup ApiKey /\ BodyOf(c) \in Ledger!Body
      BY <1>0, <2>0, InProgress, BodyType
    <3>3. /\ Ledger!NextEntry(consents[BodyOf(c).timeline], BodyOf(c)) \in Ledger!Entry
          /\ consents' \in [Timeline -> Ledger!Row]
          /\ events' \subseteq Ledger!Entry
          /\ idem' \in [Session \cup ApiKey ->
                          [body: Ledger!Body, entry: Ledger!Entry] \cup {None}]
      BY <1>0, <3>1, <3>2, RecordType DEF TypeOK
    <3>4. QED
      BY <1>0, <2>3, <3>3 DEF Record, Goto, TypeOK
  <2>4. CASE Replay(c)
    <3>1. KeyOf(c) \in Session
      BY <1>0, <2>0, InProgress DEF KeyOf
    <3>2. idem[KeyOf(c)].entry \in Ledger!Entry
      BY <1>0, <2>4, <3>1 DEF Replay, TypeOK
    <3>3. QED
      BY <1>0, <2>4, <3>2 DEF Replay, Goto, TypeOK
  <2>5. CASE Consume(c)
    <3>1. result[c] \in Ledger!Entry
      BY <1>0, <2>5 DEF Consume, TypeOK
    <3>2. [[session[SessionOf(c)] EXCEPT !.status = "CONSUMED"]
             EXCEPT !.entry = result[c]] \in SessionRow
      BY <2>0, <3>1, InProgress DEF SessionRow, SessionStatus
    <3>3. session' \in [Session -> SessionRow \cup {None}]
      BY <1>0, <2>0, <2>5, <3>2, InProgress DEF Consume, TypeOK
    <3>4. QED
      BY <1>0, <2>5, <3>3 DEF Consume, Goto, TypeOK
  <2>6. CASE Announce(c)
    <3>1. result[c] \in Ledger!Entry /\ SessionOf(c) \in Session
      BY <1>0, <2>0, <2>6, InProgress DEF Announce, TypeOK
    <3>2. QED
      BY <1>0, <2>6, <3>1 DEF Announce, Goto, TypeOK, Outcome
  <2>7. QED
    BY <1>7, <2>1, <2>2, <2>3, <2>4, <2>5, <2>6 DEF Proceed
<1>8. ASSUME NEW c \in Call, Drop(c) PROVE TypeOK'
  BY <1>0, <1>8 DEF Drop, Refuse, Goto, TypeOK, Outcome
<1>9. CASE UNCHANGED vars
  BY <1>0, <1>9 DEF vars, TypeOK
<1>10. QED
  BY <1>1, <1>2, <1>3, <1>4, <1>5, <1>6, <1>7, <1>8, <1>9 DEF Next

-------------------------------------------------------------------------------
(* What no step undoes.                                                    *)

\* An existing session keeps its timeline and policy, a token that was handed
\* out stays so, a recorded consent stays, a session that was started or closed
\* is never ISSUED again, and a CONSUMED one keeps its row.
Kept(s) ==
    /\ session[s] # None =>
          /\ session'[s] # None
          /\ session'[s].timeline = session[s].timeline
          /\ session'[s].policy = session[s].policy
    /\ creation[s] = "answered" => creation'[s] = "answered"
    /\ idem[s] # None => idem'[s] = idem[s]
    /\ Status(s) \notin {"ABSENT", "ISSUED"} => Status(s)' # "ISSUED"
    /\ Status(s) = "CONSUMED" => session'[s] = session[s]

\* The new row of a session whose status is set.
LEMMA SetStatusRow ==
    ASSUME TypeOK, NEW s \in Session, session[s] # None,
           NEW v \in SessionStatus, SetStatus(s, v)
    PROVE  /\ session'[s] # None
           /\ session'[s].timeline = session[s].timeline
           /\ session'[s].policy = session[s].policy
           /\ session'[s].entry = session[s].entry
           /\ session'[s].status = v
           /\ Status(s)' = v
           /\ \A x \in Session \ {s} : session'[x] = session[x]
<1>1. session[s] \in SessionRow
  BY DEF TypeOK
<1>2. session'[s] = [session[s] EXCEPT !.status = v]
  BY DEF SetStatus, TypeOK
<1>3. session'[s] \in SessionRow
  BY <1>1, <1>2 DEF SessionRow
<1>4. session'[s] # None
  BY <1>3, NoneIsNoValue
<1>5. QED
  BY <1>1, <1>2, <1>4 DEF SetStatus, TypeOK, SessionRow, Status

\* The new row of a session that a submit marks CONSUMED.
LEMMA ConsumeRow ==
    ASSUME IInv, NEW c \in Call, Consume(c)
    PROVE  /\ SessionOf(c) \in Session
           /\ session[SessionOf(c)] # None
           /\ session'[SessionOf(c)] # None
           /\ session'[SessionOf(c)].timeline = session[SessionOf(c)].timeline
           /\ session'[SessionOf(c)].policy = session[SessionOf(c)].policy
           /\ session'[SessionOf(c)].status = "CONSUMED"
           /\ session'[SessionOf(c)].entry = result[c]
           /\ result[c] # None
           /\ Answered(c)
           /\ Status(SessionOf(c)) = "CONSUMED" =>
                 session'[SessionOf(c)] = session[SessionOf(c)]
           /\ \A x \in Session \ {SessionOf(c)} : session'[x] = session[x]
<1> DEFINE s == SessionOf(c)
<1>1. pc[c] = "consume" /\ TypeOK
  BY DEF Consume, IInv
<1>2. s \in Session /\ session[s] # None /\ session[s] \in SessionRow
      /\ Status(s) = session[s].status
  BY <1>1, InProgress
<1>3. result[c] \in Ledger!Entry /\ result[c] # None
  BY <1>1, NoneIsNoValue DEF TypeOK
<1>4. session'[s] = [timeline |-> session[s].timeline, policy |-> session[s].policy,
                     status |-> "CONSUMED", entry |-> result[c]]
  BY <1>1, <1>2 DEF Consume, TypeOK, SessionRow
<1>5. session'[s] \in SessionRow
  BY <1>2, <1>3, <1>4 DEF SessionRow, SessionStatus
<1>6. session'[s] # None
  BY <1>5, NoneIsNoValue
<1>7. Answered(c)
  BY <1>1 DEF IInv, CallOK
<1>8. ASSUME Status(s) = "CONSUMED" PROVE session'[s] = session[s]
  <2>1. session[s].status = "CONSUMED" /\ session[s].entry = result[c]
    BY <1>2, <1>7, <1>8 DEF IInv, SessionOK, Answered
  <2>2. QED
    BY <1>2, <1>4, <2>1 DEF SessionRow
<1>9. \A x \in Session \ {s} : session'[x] = session[x]
  BY <1>1 DEF Consume, TypeOK
<1>10. QED
  BY <1>2, <1>3, <1>4, <1>6, <1>7, <1>8, <1>9

LEMMA StepKeeps ==
    ASSUME IInv, [Next]_vars, NEW s \in Session
    PROVE  Kept(s)
<1>0. TypeOK /\ SessionOK(s)
  BY DEF IInv
<1> USE DEF ledger, calls, Kept
<1>1. ASSUME UNCHANGED <<session, creation, idem>> PROVE Kept(s)
  BY <1>1 DEF Status
<1>2. ASSUME NEW x \in Session, NEW t \in Timeline, NEW p \in Policy, Create(x, t, p)
      PROVE  Kept(s)
  <2>1. CASE x = s
    BY <1>0, <1>2, <2>1 DEF Create, SessionOK, Status
  <2>2. CASE x # s
    <3>1. session'[s] = session[s] /\ creation'[s] = creation[s] /\ idem'[s] = idem[s]
      BY <1>0, <1>2, <2>2 DEF Create, TypeOK
    <3>2. QED
      BY <3>1 DEF Status
  <2>3. QED
    BY <2>1, <2>2
<1>3. ASSUME NEW x \in Session, AnswerCreate(x) \/ LoseCreate(x) PROVE Kept(s)
  BY <1>0, <1>3 DEF AnswerCreate, LoseCreate, TypeOK, Status
<1>4. ASSUME NEW x \in Session, NEW v \in SessionStatus \ {"ISSUED"}, Open(x),
             SetStatus(x, v), UNCHANGED <<creation, idem>>
      PROVE  Kept(s)
  <2>1. session[x] # None /\ Status(x) # "CONSUMED"
    BY <1>4 DEF Open, Status
  <2>2. CASE x = s
    BY <1>0, <1>4, <2>1, <2>2, SetStatusRow
  <2>3. CASE x # s
    <3>1. session'[s] = session[s]
      BY <1>0, <1>4, <2>1, <2>3, SetStatusRow
    <3>2. QED
      BY <1>4, <3>1 DEF Status
  <2>4. QED
    BY <2>2, <2>3
<1>5. ASSUME NEW k \in Session \cup ApiKey, NEW b \in Ledger!Body,
             Ledger!Record(k, b), UNCHANGED <<session, creation>>
      PROVE  Kept(s)
  <2>1. idem[k] = None /\ \E a : idem' = [idem EXCEPT ![k] = a]
    BY <1>0, <1>5, RecordType
  <2>2. idem[s] # None => idem'[s] = idem[s]
    BY <1>0, <2>1 DEF TypeOK
  <2>3. QED
    BY <1>5, <2>2 DEF Status
<1>6. ASSUME NEW c \in Call, Consume(c) PROVE Kept(s)
  <2>1. UNCHANGED <<creation, idem>>
    BY <1>6 DEF Consume
  <2>2. CASE SessionOf(c) = s
    <3>1. /\ session[s] # None /\ session'[s] # None
          /\ session'[s].timeline = session[s].timeline
          /\ session'[s].policy = session[s].policy
          /\ session'[s].status = "CONSUMED"
          /\ Status(s) = "CONSUMED" => session'[s] = session[s]
      BY <1>6, <2>2, ConsumeRow
    <3>2. QED
      BY <2>1, <3>1 DEF Status
  <2>3. CASE SessionOf(c) # s
    <3>1. session'[s] = session[s]
      BY <1>6, <2>3, ConsumeRow
    <3>2. QED
      BY <2>1, <3>1 DEF Status
  <2>4. QED
    BY <2>2, <2>3
<1>7. ASSUME NEW c \in Call, Proceed(c) PROVE Kept(s)
  <2>1. CASE CheckOpen(c)
    <3>1. SessionOf(c) \in Session
      BY <2>1, InProgress DEF CheckOpen
    <3>2. QED
      BY <2>1, <3>1, <1>4 DEF CheckOpen, SessionStatus
  <2>2. CASE CheckClosed(c) \/ CheckExpired(c) \/ RecordFails(c) \/ Replay(c) \/ Announce(c)
    BY <2>2, <1>1 DEF CheckClosed, CheckExpired, RecordFails, Replay, Announce
  <2>3. CASE Record(c)
    <3>1. KeyOf(c) \in Session \cup ApiKey /\ BodyOf(c) \in Ledger!Body
      BY <1>0, <2>3, InProgress, BodyType DEF Record
    <3>2. QED
      BY <2>3, <3>1, <1>5 DEF Record
  <2>4. CASE Consume(c)
    BY <2>4, <1>6
  <2>5. QED
    BY <1>7, <2>1, <2>2, <2>3, <2>4 DEF Proceed
<1>8. ASSUME NEW x \in Session, Bootstrap(x) \/ Expire(x) \/ Cancel(x) PROVE Kept(s)
  BY <1>8, <1>4 DEF Bootstrap, Expire, Cancel, SessionStatus
<1>9. ASSUME NEW k \in ApiKey, NEW b \in Ledger!Body, RecordDirectly(k, b) PROVE Kept(s)
  BY <1>9, <1>5 DEF RecordDirectly
<1>10. ASSUME \/ \E p \in Policy : Publish(p)
              \/ \E x \in Session : TtlElapses(x)
              \/ \E c \in Call, r \in Request : Submit(c, r) \/ SubmitTooLate(c, r)
              \/ \E c \in Call : Drop(c)
              \/ UNCHANGED vars
       PROVE  Kept(s)
  BY <1>10, <1>1 DEF Publish, TtlElapses, Submit, SubmitTooLate, Drop, vars
<1>11. QED
  BY <1>2, <1>3, <1>7, <1>8, <1>9, <1>10 DEF Next

-------------------------------------------------------------------------------
(* The parts of the invariant, one by one.                                 *)

LEMMA SessionStep ==
    ASSUME IInv, [Next]_vars, NEW s \in Session
    PROVE  SessionOK(s)'
<1>0. TypeOK /\ SessionOK(s)
  BY DEF IInv
<1> USE DEF ledger, calls
<1>1. ASSUME UNCHANGED <<session, creation, idem>>, published \subseteq published'
      PROVE  SessionOK(s)'
  BY <1>0, <1>1 DEF SessionOK, Status
<1>2. ASSUME NEW x \in Session, NEW t \in Timeline, NEW p \in Policy, Create(x, t, p)
      PROVE  SessionOK(s)'
  <2>1. CASE x = s
    <3> DEFINE r == [timeline |-> t, policy |-> p, status |-> "ISSUED", entry |-> None]
    <3>1. session'[s] = r /\ creation'[s] = "pending" /\ idem'[s] = None
      BY <1>0, <1>2, <2>1 DEF Create, TypeOK, SessionOK
    <3>2. r \in SessionRow
      BY DEF SessionRow, SessionStatus
    <3>3. r # None
      BY <3>2, NoneIsNoValue
    <3>4. p \in published'
      BY <1>2 DEF Create
    <3>5. QED
      BY <3>1, <3>3, <3>4 DEF SessionOK, Status
  <2>2. CASE x # s
    <3>1. session'[s] = session[s] /\ creation'[s] = creation[s]
          /\ idem' = idem /\ published' = published
      BY <1>0, <1>2, <2>2 DEF Create, TypeOK
    <3>2. QED
      BY <1>0, <3>1 DEF SessionOK, Status
  <2>3. QED
    BY <2>1, <2>2
<1>3. ASSUME NEW x \in Session, AnswerCreate(x) \/ LoseCreate(x) PROVE SessionOK(s)'
  BY <1>0, <1>3 DEF AnswerCreate, LoseCreate, TypeOK, SessionOK, Status
<1>4. ASSUME NEW x \in Session, NEW v \in {"STARTED", "EXPIRED", "CANCELLED"}, Open(x),
             SetStatus(x, v), UNCHANGED <<creation, idem, published>>
      PROVE  SessionOK(s)'
  <2>1. session[x] # None /\ Status(x) # "CONSUMED"
    BY <1>4 DEF Open, Status
  <2>2. v \in SessionStatus
    BY DEF SessionStatus
  <2>3. CASE x = s
    BY <1>0, <1>4, <2>1, <2>2, <2>3, SetStatusRow DEF SessionOK
  <2>4. CASE x # s
    <3>1. session'[s] = session[s]
      BY <1>0, <1>4, <2>1, <2>2, <2>4, SetStatusRow
    <3>2. QED
      BY <1>0, <1>4, <3>1 DEF SessionOK, Status
  <2>5. QED
    BY <2>3, <2>4
<1>5. ASSUME NEW c \in Call, Record(c) PROVE SessionOK(s)'
  <2>1. /\ pc[c] = "record"
        /\ Ledger!Record(KeyOf(c), BodyOf(c))
        /\ UNCHANGED <<session, creation, published>>
    BY <1>5 DEF Record
  <2>2. /\ req[c] \in Request
        /\ session[SessionOf(c)] # None
        /\ creation[SessionOf(c)] = "answered"
        /\ Status(SessionOf(c)) # "ISSUED"
    BY <2>1, InProgress DEF IInv, CallOK
  <2>3. /\ KeyOf(c) = SessionOf(c) /\ SessionOf(c) \in Session
        /\ BodyOf(c) \in Ledger!Body
        /\ BodyOf(c).timeline = session[SessionOf(c)].timeline
        /\ BodyOf(c).details[1] = session[SessionOf(c)].policy
    BY <1>0, <2>2, BodyType
  <2>4. /\ idem[SessionOf(c)] = None
        /\ \E e : idem' = [idem EXCEPT ![SessionOf(c)] = [body |-> BodyOf(c), entry |-> e]]
    BY <1>0, <2>1, <2>3, RecordType
  <2>5. CASE s = SessionOf(c)
    <3>1. idem'[s].body = BodyOf(c)
      BY <1>0, <2>4, <2>5 DEF TypeOK
    <3>2. QED
      BY <1>0, <2>1, <2>2, <2>3, <2>4, <2>5, <3>1 DEF SessionOK, Status
  <2>6. CASE s # SessionOf(c)
    <3>1. idem'[s] = idem[s]
      BY <1>0, <2>3, <2>4, <2>6 DEF TypeOK
    <3>2. QED
      BY <1>0, <2>1, <3>1 DEF SessionOK, Status
  <2>7. QED
    BY <2>5, <2>6
<1>6. ASSUME NEW k \in ApiKey, NEW b \in Ledger!Body, RecordDirectly(k, b)
      PROVE  SessionOK(s)'
  <2>1. \E a : idem' = [idem EXCEPT ![k] = a]
    BY <1>0, <1>6, RecordType DEF RecordDirectly
  <2>2. idem'[s] = idem[s]
    BY <1>0, <2>1, KeysApart DEF TypeOK
  <2>3. QED
    BY <1>0, <1>6, <2>2 DEF RecordDirectly, SessionOK, Status
<1>7. ASSUME NEW c \in Call, Consume(c) PROVE SessionOK(s)'
  <2>1. UNCHANGED <<creation, idem, published>>
    BY <1>7 DEF Consume
  <2>2. CASE s = SessionOf(c)
    BY <1>0, <1>7, <2>1, <2>2, ConsumeRow DEF SessionOK, Status, Answered
  <2>3. CASE s # SessionOf(c)
    <3>1. session'[s] = session[s]
      BY <1>7, <2>3, ConsumeRow
    <3>2. QED
      BY <1>0, <2>1, <3>1 DEF SessionOK, Status
  <2>4. QED
    BY <2>2, <2>3
<1>8. ASSUME NEW c \in Call, CheckOpen(c) PROVE SessionOK(s)'
  <2>1. SessionOf(c) \in Session
    BY <1>8, InProgress DEF CheckOpen
  <2>2. QED
    BY <1>8, <2>1, <1>4 DEF CheckOpen
<1>9. ASSUME NEW x \in Session, Bootstrap(x) \/ Expire(x) \/ Cancel(x) PROVE SessionOK(s)'
  BY <1>9, <1>4 DEF Bootstrap, Expire, Cancel
<1>10. ASSUME \/ \E p \in Policy : Publish(p)
              \/ \E x \in Session : TtlElapses(x)
              \/ \E c \in Call, r \in Request : Submit(c, r) \/ SubmitTooLate(c, r)
              \/ \E c \in Call : \/ CheckClosed(c) \/ CheckExpired(c) \/ RecordFails(c)
                                 \/ Replay(c) \/ Announce(c) \/ Drop(c)
              \/ UNCHANGED vars
       PROVE  SessionOK(s)'
  BY <1>10, <1>1 DEF Publish, TtlElapses, Submit, SubmitTooLate, CheckClosed,
       CheckExpired, RecordFails, Replay, Announce, Drop, vars
<1>11. QED
  BY <1>2, <1>3, <1>5, <1>6, <1>7, <1>8, <1>9, <1>10 DEF Next, Proceed

\* What is known of a submit survives the steps of others.
LEMMA OtherCall ==
    ASSUME IInv, [Next]_vars, NEW d \in Call,
           pc'[d] = pc[d], req'[d] = req[d], result'[d] = result[d], reply'[d] = reply[d]
    PROVE  CallOK(d)'
<1>1. CallOK(d) /\ TypeOK
  BY DEF IInv
<1>2. CASE pc[d] = "idle" /\ reply[d] # "ok"
  BY <1>1, <1>2 DEF CallOK
<1>3. CASE pc[d] # "idle" \/ reply[d] = "ok"
  <2>0. PICK s \in Session : s = SessionOf(d)
    BY <1>1, <1>3 DEF CallOK, Request, SessionOf
  <2>1. /\ req[d] \in Request /\ creation[s] = "answered"
        /\ SessionOf(d) = s /\ SessionOf(d)' = s
    BY <1>1, <1>3, <2>0 DEF CallOK, SessionOf
  <2>2. session[s] # None /\ session[s] \in SessionRow /\ Status(s) # "ABSENT"
    <3>1. session[s] # None /\ session[s] \in SessionRow
      BY <1>1, <2>1 DEF IInv, SessionOK, TypeOK
    <3>2. QED
      BY <3>1 DEF Status, SessionRow, SessionStatus
  <2>3. Kept(s)
    BY <2>1, StepKeeps
  <2>4. BodyOf(d)' = BodyOf(d)
    BY <2>1, <2>2, <2>3 DEF BodyOf, Kept
  <2>5. Answered(d) => Answered(d)'
    BY <2>1, <2>3, <2>4 DEF Answered, Kept
  <2>6. pc[d] = "record" => (Status(s) # "ISSUED")'
    BY <1>1, <2>1, <2>2, <2>3 DEF CallOK, Kept
  <2>7. pc[d] = "announce" =>
          /\ (Status(s) = "CONSUMED")'
          /\ session'[s].entry = result[d]
    <3>1. pc[d] = "announce" =>
            Status(s) = "CONSUMED" /\ session[s].entry = result[d]
      BY <1>1, <2>1 DEF CallOK
    <3>2. QED
      BY <2>3, <3>1 DEF Kept, Status
  <2>8. QED
    BY <1>1, <2>1, <2>3, <2>5, <2>6, <2>7 DEF CallOK, Kept
<1>4. QED
  BY <1>2, <1>3

\* What is known of the submit that takes the step.
LEMMA ActingCall ==
    ASSUME IInv, [Next]_vars, NEW c \in Call,
           \/ \E r \in Request : Submit(c, r) \/ SubmitTooLate(c, r)
           \/ Proceed(c)
           \/ Drop(c)
    PROVE  CallOK(c)'
<1>0. TypeOK /\ CallOK(c)
  BY DEF IInv
<1>1. ASSUME NEW r \in Request, Submit(c, r) \/ SubmitTooLate(c, r) PROVE CallOK(c)'
  <2>1. r.session \in Session
    BY DEF Request
  <2>2. CASE Submit(c, r)
    <3>1. /\ pc'[c] = "check" /\ reply'[c] = "none" /\ req'[c] = r
          /\ creation'[r.session] = "answered"
      BY <1>0, <2>2 DEF Submit, Goto, TypeOK
    <3>2. QED
      BY <3>1 DEF CallOK, SessionOf
  <2>3. CASE SubmitTooLate(c, r)
    <3>1. pc'[c] = "idle" /\ reply'[c] = "expired"
      BY <1>0, <2>3 DEF SubmitTooLate, Refuse, Goto, TypeOK
    <3>2. QED
      BY <3>1 DEF CallOK
  <2>4. QED
    BY <1>1, <2>2, <2>3
<1>2. ASSUME \/ CheckClosed(c) \/ CheckExpired(c) \/ RecordFails(c) \/ Drop(c)
      PROVE  CallOK(c)'
  <2>1. pc'[c] = "idle" /\ reply'[c] # "ok"
    BY <1>0, <1>2 DEF CheckClosed, CheckExpired, RecordFails, Drop, Refuse, Goto, TypeOK
  <2>2. QED
    BY <2>1 DEF CallOK
<1>3. ASSUME pc[c] # "idle", req' = req
      PROVE  \E s \in Session :
                /\ s = SessionOf(c) /\ SessionOf(c)' = s /\ KeyOf(c) = s
                /\ req[c] \in Request /\ req'[c] \in Request
                /\ creation[s] = "answered" /\ creation'[s] = "answered"
                /\ session[s] # None
                /\ session[s] \in SessionRow
                /\ BodyOf(c) \in Ledger!Body
                /\ BodyOf(c)' = BodyOf(c)
                /\ Kept(s)
  <2>1. req[c] \in Request /\ creation[SessionOf(c)] = "answered"
    BY <1>0, <1>3 DEF CallOK
  <2>2. PICK s \in Session : s = SessionOf(c)
    BY <1>3, InProgress
  <2>3. session[s] # None /\ session[s] \in SessionRow
    BY <1>3, <2>2, InProgress
  <2>4. SessionOf(c)' = s /\ KeyOf(c) = s
    BY <1>3, <2>2 DEF SessionOf, KeyOf
  <2>5. Kept(s)
    BY StepKeeps
  <2>6. BodyOf(c) \in Ledger!Body
    BY <1>0, <2>1, <2>2, <2>3, BodyType
  <2>7. BodyOf(c)' = BodyOf(c)
    BY <1>3, <2>2, <2>3, <2>4, <2>5 DEF BodyOf, Kept
  <2>8. QED
    BY <1>3, <2>1, <2>2, <2>3, <2>4, <2>5, <2>6, <2>7 DEF Kept
<1>4. CASE CheckOpen(c)
  <2>1. pc[c] = "check" /\ req' = req /\ reply' = reply /\ pc'[c] = "record"
    BY <1>0, <1>4 DEF CheckOpen, Goto, TypeOK
  <2>2. PICK s \in Session :
           /\ s = SessionOf(c) /\ SessionOf(c)' = s
           /\ req'[c] \in Request
           /\ creation'[s] = "answered"
           /\ session[s] # None
    BY <1>3, <2>1
  <2>3. Status(s)' = "STARTED"
    BY <1>0, <1>4, <2>2, SetStatusRow DEF CheckOpen, SessionStatus
  <2>4. reply'[c] # "ok"
    BY <1>0, <2>1 DEF CallOK
  <2>5. QED
    BY <2>1, <2>2, <2>3, <2>4 DEF CallOK
<1>5. CASE Record(c)
  <2>1. pc[c] = "record" /\ req' = req /\ reply' = reply /\ pc'[c] = "consume"
    BY <1>0, <1>5 DEF Record, Goto, TypeOK
  <2>2. PICK s \in Session :
           /\ s = SessionOf(c) /\ SessionOf(c)' = s /\ KeyOf(c) = s
           /\ req'[c] \in Request
           /\ creation'[s] = "answered"
           /\ BodyOf(c) \in Ledger!Body
           /\ BodyOf(c)' = BodyOf(c)
    BY <1>3, <2>1
  <2> DEFINE e == Ledger!NextEntry(consents[BodyOf(c).timeline], BodyOf(c))
  <2>3. /\ idem' = [idem EXCEPT ![s] = [body |-> BodyOf(c), entry |-> e]]
        /\ [body |-> BodyOf(c), entry |-> e] # None
    BY <1>0, <1>5, <2>2, RecordType, NoneIsNoValue DEF Record
  <2>4. idem'[s] = [body |-> BodyOf(c), entry |-> e] /\ idem'[s] # None
    BY <1>0, <2>3 DEF TypeOK
  <2>5. result'[c] = e
    BY <1>0, <1>5 DEF Record, TypeOK
  <2>6. Answered(c)'
    BY <2>2, <2>4, <2>5 DEF Answered
  <2>7. reply'[c] # "ok"
    BY <1>0, <2>1 DEF CallOK
  <2>8. QED
    BY <2>1, <2>2, <2>6, <2>7 DEF CallOK
<1>6. CASE Replay(c)
  <2>1. /\ pc[c] = "record" /\ req' = req /\ reply' = reply /\ pc'[c] = "consume"
        /\ idem' = idem /\ idem[KeyOf(c)] # None /\ idem[KeyOf(c)].body = BodyOf(c)
        /\ result'[c] = idem[KeyOf(c)].entry
    BY <1>0, <1>6 DEF Replay, Goto, TypeOK, ledger
  <2>2. PICK s \in Session :
           /\ s = SessionOf(c) /\ SessionOf(c)' = s /\ KeyOf(c) = s
           /\ req'[c] \in Request
           /\ creation'[s] = "answered"
           /\ BodyOf(c)' = BodyOf(c)
    BY <1>3, <2>1
  <2>3. Answered(c)'
    BY <2>1, <2>2 DEF Answered
  <2>4. reply'[c] # "ok"
    BY <1>0, <2>1 DEF CallOK
  <2>5. QED
    BY <2>1, <2>2, <2>3, <2>4 DEF CallOK
<1>7. CASE Consume(c) \/ Announce(c)
  <2>1. /\ pc[c] \in {"consume", "announce"} /\ req' = req /\ result' = result
        /\ idem' = idem
    BY <1>7 DEF Consume, Announce, ledger
  <2>2. PICK s \in Session :
           /\ s = SessionOf(c) /\ SessionOf(c)' = s
           /\ req'[c] \in Request
           /\ creation'[s] = "answered"
           /\ BodyOf(c)' = BodyOf(c)
    BY <1>3, <2>1
  <2>3. Answered(c)'
    <3>1. Answered(c)
      BY <1>0, <2>1 DEF CallOK
    <3>2. QED
      BY <2>1, <2>2, <3>1 DEF Answered
  <2>4. CASE Consume(c)
    <3>1. pc'[c] = "announce" /\ reply'[c] # "ok"
      BY <1>0, <2>4 DEF Consume, Goto, TypeOK, CallOK
    <3>2. Status(s)' = "CONSUMED" /\ session'[s].entry = result'[c]
      BY <2>1, <2>2, <2>4, ConsumeRow DEF Status
    <3>3. QED
      BY <2>2, <2>3, <3>1, <3>2 DEF CallOK
  <2>5. CASE Announce(c)
    <3>1. pc'[c] = "idle"
      BY <1>0, <2>5 DEF Announce, Goto, TypeOK
    <3>2. QED
      BY <2>2, <2>3, <3>1 DEF CallOK
  <2>6. QED
    BY <1>7, <2>4, <2>5
<1>8. QED
  BY <1>1, <1>2, <1>4, <1>5, <1>6, <1>7 DEF Proceed

LEMMA CallStep ==
    ASSUME IInv, [Next]_vars, NEW d \in Call
    PROVE  CallOK(d)'
<1>1. CASE UNCHANGED calls
  BY <1>1, OtherCall DEF calls
<1>2. ASSUME NEW c \in Call, c # d,
             \/ \E r \in Request : Submit(c, r) \/ SubmitTooLate(c, r)
             \/ Proceed(c)
             \/ Drop(c)
      PROVE  CallOK(d)'
  <2>1. TypeOK
    BY DEF IInv
  <2>2. pc'[d] = pc[d] /\ req'[d] = req[d] /\ result'[d] = result[d] /\ reply'[d] = reply[d]
    BY <1>2, <2>1 DEF Submit, SubmitTooLate, Proceed, CheckOpen, CheckClosed,
         CheckExpired, Record, Replay, RecordFails, Consume, Announce, Drop,
         Refuse, Goto, TypeOK
  <2>3. QED
    BY <2>2, OtherCall
<1>3. UNCHANGED calls \/ \E c \in Call : \/ \E r \in Request : Submit(c, r) \/ SubmitTooLate(c, r)
                                         \/ Proceed(c)
                                         \/ Drop(c)
  BY DEF Next, vars, calls, Publish, Create, AnswerCreate, LoseCreate, TtlElapses,
         Bootstrap, Expire, Cancel, RecordDirectly
<1>4. QED
  BY <1>1, <1>2, <1>3, ActingCall

LEMMA StoredStep ==
    ASSUME IInv, [Next]_vars, NEW k \in Session \cup ApiKey
    PROVE  Stored(k)'
<1>0. TypeOK /\ Stored(k)
  BY DEF IInv
<1>1. CASE UNCHANGED ledger
  BY <1>0, <1>1 DEF ledger, Stored
<1>2. ASSUME NEW j \in Session \cup ApiKey, NEW b \in Ledger!Body, Ledger!Record(j, b)
      PROVE  Stored(k)'
  <2> DEFINE e == Ledger!NextEntry(consents[b.timeline], b)
  <2>1. /\ events' = events \cup {e}
        /\ idem' = [idem EXCEPT ![j] = [body |-> b, entry |-> e]]
    BY <1>0, <1>2, RecordType
  <2>2. e.action = b.action
    BY DEF Ledger!NextEntry
  <2>3. CASE j = k
    <3>1. idem'[k] = [body |-> b, entry |-> e]
      BY <1>0, <2>1, <2>3 DEF TypeOK
    <3>2. QED
      BY <2>1, <2>2, <3>1 DEF Stored
  <2>4. CASE j # k
    <3>1. idem'[k] = idem[k]
      BY <1>0, <2>1, <2>4 DEF TypeOK
    <3>2. QED
      BY <1>0, <2>1, <3>1 DEF Stored
  <2>5. QED
    BY <2>3, <2>4
<1>3. ASSUME NEW c \in Call, Record(c) PROVE Stored(k)'
  <2>1. KeyOf(c) \in Session \cup ApiKey /\ BodyOf(c) \in Ledger!Body
    BY <1>0, <1>3, InProgress, BodyType DEF Record
  <2>2. QED
    BY <1>2, <1>3, <2>1 DEF Record
<1>4. ASSUME NEW j \in ApiKey, NEW b \in Ledger!Body, RecordDirectly(j, b) PROVE Stored(k)'
  BY <1>2, <1>4 DEF RecordDirectly
<1>5. \/ UNCHANGED ledger
      \/ \E c \in Call : Record(c)
      \/ \E j \in ApiKey, b \in Ledger!Body : RecordDirectly(j, b)
  <2> USE DEF ledger
  <2>1. ASSUME NEW c \in Call, Proceed(c) PROVE Record(c) \/ UNCHANGED ledger
    BY <2>1 DEF Proceed, CheckOpen, CheckClosed, CheckExpired, Replay, RecordFails,
                Consume, Announce
  <2>2. ASSUME NEW c \in Call,
               (\E r \in Request : Submit(c, r) \/ SubmitTooLate(c, r)) \/ Drop(c)
        PROVE  UNCHANGED ledger
    BY <2>2 DEF Submit, SubmitTooLate, Drop
  <2>3. ASSUME NEW x \in Session,
               \/ \E t \in Timeline, p \in Policy : Create(x, t, p)
               \/ AnswerCreate(x) \/ LoseCreate(x) \/ TtlElapses(x)
               \/ Bootstrap(x) \/ Expire(x) \/ Cancel(x)
        PROVE  UNCHANGED ledger
    BY <2>3 DEF Create, AnswerCreate, LoseCreate, TtlElapses, Bootstrap, Expire, Cancel
  <2>4. (\E p \in Policy : Publish(p)) \/ UNCHANGED vars => UNCHANGED ledger
    BY DEF Publish, vars
  <2>5. QED
    BY <2>1, <2>2, <2>3, <2>4 DEF Next
<1>6. QED
  BY <1>1, <1>3, <1>4, <1>5

LEMMA AnnouncedStep == IInv /\ [Next]_vars => AnnouncedIsConsumed'
<1> SUFFICES ASSUME IInv, [Next]_vars, NEW m \in announced'
             PROVE  /\ Status(m.session)' = "CONSUMED"
                    /\ session'[m.session].entry = m.entry
  BY DEF AnnouncedIsConsumed
<1>1. CASE m \in announced
  <2>1. /\ m.session \in Session
        /\ Status(m.session) = "CONSUMED"
        /\ session[m.session].entry = m.entry
    BY <1>1 DEF IInv, TypeOK, AnnouncedIsConsumed
  <2>2. PICK s \in Session : s = m.session
    BY <2>1
  <2>3. session'[s] = session[s]
    BY <2>1, <2>2, StepKeeps DEF Kept
  <2>4. QED
    BY <2>1, <2>2, <2>3 DEF Status
<1>2. CASE m \notin announced
  <2>1. PICK c \in Call : Announce(c)
    BY <1>2 DEF Next, Proceed, vars, Publish, Create, AnswerCreate, LoseCreate,
         TtlElapses, Bootstrap, Expire, Cancel, RecordDirectly, Submit,
         SubmitTooLate, CheckOpen, CheckClosed, CheckExpired, Record, Replay,
         RecordFails, Consume, Drop
  <2>2. m = [session |-> SessionOf(c), entry |-> result[c]]
        /\ session' = session /\ pc[c] = "announce"
    BY <1>2, <2>1 DEF Announce
  <2>3. Status(SessionOf(c)) = "CONSUMED" /\ session[SessionOf(c)].entry = result[c]
    BY <2>2 DEF IInv, CallOK
  <2>4. QED
    BY <2>2, <2>3 DEF Status
<1>3. QED
  BY <1>1, <1>2

\* The inductive invariant, for any numbers of sessions, submits and keys.
THEOREM WidgetInvariance == Spec => []IInv
<1>1. Init => IInv
  <2> SUFFICES ASSUME Init PROVE IInv
    OBVIOUS
  <2>1. TypeOK
    BY TypeInit
  <2>2. QED
    BY <2>1 DEF Init, Ledger!TimelineInit, IInv, SessionOK, CallOK, Stored,
         AnnouncedIsConsumed
<1>2. IInv /\ [Next]_vars => IInv'
  <2> SUFFICES ASSUME IInv, [Next]_vars PROVE IInv'
    OBVIOUS
  <2>1. TypeOK'
    BY TypeStep
  <2>2. \A s \in Session : SessionOK(s)'
    BY SessionStep
  <2>3. \A c \in Call : CallOK(c)'
    BY CallStep
  <2>4. \A k \in Session \cup ApiKey : Stored(k)'
    BY StoredStep
  <2>5. AnnouncedIsConsumed'
    BY AnnouncedStep
  <2>6. QED
    BY <2>1, <2>2, <2>3, <2>4, <2>5 DEF IInv
<1>3. QED
  BY <1>1, <1>2, PTL DEF Spec

-------------------------------------------------------------------------------
(* The theorems.                                                           *)

\* Every variable keeps its type.
THEOREM WidgetTypeCorrect == Spec => []TypeOK
<1>1. IInv => TypeOK
  BY DEF IInv
<1>2. QED
  BY <1>1, WidgetInvariance, PTL

\* What is recorded under a session's key is a consent of that session: on its
\* timeline, under its published policy, from a submit that started it.
THEOREM ConsentsMatch == Spec => []ConsentMatchesSession
<1>1. IInv => ConsentMatchesSession
  <2> SUFFICES ASSUME IInv, NEW s \in Session, idem[s] # None
               PROVE  /\ creation[s] = "answered"
                      /\ Status(s) \notin {"ABSENT", "ISSUED"}
                      /\ idem[s].body.timeline = session[s].timeline
                      /\ idem[s].body.details[1] = session[s].policy
                      /\ session[s].policy \in published
    BY DEF ConsentMatchesSession
  <2>1. session[s] # None /\ session[s] \in SessionRow
    BY DEF IInv, SessionOK, TypeOK
  <2>2. Status(s) # "ABSENT"
    BY <2>1 DEF Status, SessionRow, SessionStatus
  <2>3. QED
    BY <2>1, <2>2 DEF IInv, SessionOK
<1>2. QED
  BY <1>1, WidgetInvariance, PTL

\* A session shows a consent exactly when it is CONSUMED, and then the one
\* recorded under its key.
THEOREM ConsumedNames == Spec => []ConsumedNamesConsent
<1>1. IInv => ConsumedNamesConsent
  BY DEF IInv, SessionOK, Stored, ConsumedNamesConsent
<1>2. QED
  BY <1>1, WidgetInvariance, PTL

\* Submits of one session never get different consents.
THEOREM SubmitsAgreeAlways == Spec => []SubmitsAgree
<1>1. IInv => SubmitsAgree
  <2> SUFFICES ASSUME IInv, NEW c \in Call, NEW d \in Call, reply[c] = "ok",
                      reply[d] = "ok", SessionOf(c) = SessionOf(d)
               PROVE  result[c] = result[d] /\ result[c].action = req[c].action
    BY DEF SubmitsAgree
  <2>1. Answered(c) /\ Answered(d) /\ SessionOf(c) \in Session
    BY DEF IInv, CallOK, Request, SessionOf
  <2>2. BodyOf(c).action = req[c].action
    BY DEF BodyOf
  <2>3. QED
    BY <2>1, <2>2 DEF Answered, IInv, Stored
<1>2. QED
  BY <1>1, WidgetInvariance, PTL

\* widget.session.consumed says what the session row says, and goes on doing so.
THEOREM AnnouncedConsumed == Spec => []AnnouncedIsConsumed
<1>1. IInv => AnnouncedIsConsumed
  BY DEF IInv
<1>2. QED
  BY <1>1, WidgetInvariance, PTL

\* No step changes a CONSUMED session.
THEOREM ConsumedForGood == Spec => ConsumedIsFinal
<1>1. IInv /\ [Next]_vars =>
        [\A s \in Session : Status(s) = "CONSUMED" => session'[s] = session[s]]_vars
  BY StepKeeps DEF Kept
<1>2. QED
  BY <1>1, WidgetInvariance, PTL DEF Spec, ConsumedIsFinal

-------------------------------------------------------------------------------
(* The ledger under the sessions.                                          *)

\* Sessions use the ledger only as it promises to be used: what submits and the
\* company's backend do to it are Record steps under keys and bodies of its own,
\* and nothing else that happens to sessions, policies or calls touches it.
THEOREM LedgerBehaves == Spec => Ledger!TimelineSpec
<1>1. Init => Ledger!TimelineInit
  BY DEF Init
<1>2. IInv /\ [Next]_vars => [Ledger!TimelineNext]_(Ledger!tvars)
  <2> SUFFICES ASSUME IInv, [Next]_vars
               PROVE  Ledger!TimelineNext \/ UNCHANGED ledger
    BY DEF ledger, Ledger!tvars
  <2>1. ASSUME NEW k \in ApiKey, NEW b \in Ledger!Body, RecordDirectly(k, b)
        PROVE  Ledger!TimelineNext
    BY <2>1 DEF RecordDirectly, Ledger!TimelineNext
  <2>2. ASSUME NEW c \in Call, Record(c) PROVE Ledger!TimelineNext
    <3>1. pc[c] # "idle"
      BY <2>2 DEF Record
    <3>2. KeyOf(c) \in Session \cup ApiKey /\ BodyOf(c) \in Ledger!Body
      BY <3>1, InProgress, BodyType DEF IInv
    <3>3. QED
      BY <2>2, <3>2 DEF Record, Ledger!TimelineNext
  <2>3. CASE \E c \in Call : Proceed(c) /\ ~ Record(c)
    BY <2>3 DEF Proceed, CheckOpen, CheckClosed, CheckExpired, Replay, RecordFails,
       Consume, Announce, ledger
  <2>4. CASE \E c \in Call :
               Drop(c) \/ \E r \in Request : Submit(c, r) \/ SubmitTooLate(c, r)
    BY <2>4 DEF Drop, Submit, SubmitTooLate, ledger
  <2>5. CASE \E s \in Session :
               \/ \E t \in Timeline, p \in Policy : Create(s, t, p)
               \/ AnswerCreate(s) \/ LoseCreate(s) \/ TtlElapses(s)
               \/ Bootstrap(s) \/ Expire(s) \/ Cancel(s)
    BY <2>5 DEF Create, AnswerCreate, LoseCreate, TtlElapses, Bootstrap, Expire,
       Cancel, ledger
  <2>6. CASE \E p \in Policy : Publish(p)
    BY <2>6 DEF Publish, ledger
  <2>7. CASE UNCHANGED vars
    BY <2>7 DEF vars, ledger
  <2>8. QED
    BY <2>1, <2>2, <2>3, <2>4, <2>5, <2>6, <2>7 DEF Next
<1>3. QED
  BY <1>1, <1>2, WidgetInvariance, PTL DEF Spec, Ledger!TimelineSpec

\* The ledger of this module and that of the proofs about it are the same.
LEMMA SameLedger == Ledger!TimelineSpec => LedgerProofs!TimelineSpec
<1>1. Ledger!TimelineInit => LedgerProofs!TimelineInit
  BY DEF Ledger!TimelineInit, Ledger!NoRow, LedgerProofs!TimelineInit,
     LedgerProofs!NoRow
<1>2. [Ledger!TimelineNext]_(Ledger!tvars)
          => [LedgerProofs!TimelineNext]_(LedgerProofs!tvars)
  BY DEF Ledger!TimelineNext, Ledger!Record, Ledger!Allowed, Ledger!NextEntry,
     Ledger!NextStatus, Ledger!RowAfter, Ledger!Body, Ledger!Action, Ledger!tvars,
     LedgerProofs!TimelineNext, LedgerProofs!Record, LedgerProofs!Allowed,
     LedgerProofs!NextEntry, LedgerProofs!NextStatus, LedgerProofs!RowAfter,
     LedgerProofs!Body, LedgerProofs!Action, LedgerProofs!tvars
<1>3. QED
  BY <1>1, <1>2, PTL DEF Ledger!TimelineSpec, LedgerProofs!TimelineSpec

LEMMA NoneIsNoAnswer ==
    None \notin [body: LedgerProofs!Body, entry: LedgerProofs!Entry]
BY NoneIsNoValue DEF Ledger!Body, Ledger!Entry, Ledger!Action, Ledger!Status,
   LedgerProofs!Body, LedgerProofs!Entry, LedgerProofs!Action, LedgerProofs!Status

\* Whatever sessions, submits and the backend do at the same time, each timeline
\* stays a gap-free, fork-free, legal history with one entry per key.
THEOREM LedgerStaysIntact ==
    Spec => [](Ledger!TimelineIntact /\ Ledger!OneEntryPerKey)
<1>1. LedgerProofs!TimelineSpec => []LedgerProofs!TimelineInv
  BY NoneIsNoAnswer, LedgerProofs!TimelineInvariance
<1>2. LedgerProofs!TimelineInv => Ledger!TimelineIntact /\ Ledger!OneEntryPerKey
  BY DEF LedgerProofs!TimelineInv, LedgerProofs!TimelineIntact, LedgerProofs!GapFree,
     LedgerProofs!NoFork, LedgerProofs!PointerIsLatest, LedgerProofs!LegalHistory,
     LedgerProofs!RowAfter, LedgerProofs!NextStatus, LedgerProofs!Allowed,
     LedgerProofs!OneEntryPerKey, Ledger!TimelineIntact, Ledger!GapFree,
     Ledger!NoFork, Ledger!PointerIsLatest, Ledger!LegalHistory, Ledger!RowAfter,
     Ledger!NextStatus, Ledger!Allowed, Ledger!OneEntryPerKey
<1>3. QED
  BY <1>1, <1>2, LedgerBehaves, SameLedger, PTL

\* No two sessions show the same consent, and none shows one that the company's
\* backend recorded: what a CONSUMED session names was given through it alone.
ConsentIsOwn ==
    \A s \in Session :
        session[s] # None /\ session[s].entry # None =>
            \A k \in Session \cup ApiKey :
                k # s /\ idem[k] # None => idem[k].entry # session[s].entry

\* Sessions and the backend never share an entry, however their calls overlap.
THEOREM ConsentsAreOwn == Spec => []ConsentIsOwn
<1>1. IInv /\ Ledger!OneEntryPerKey => ConsentIsOwn
  BY DEF IInv, SessionOK, Ledger!OneEntryPerKey, ConsentIsOwn
<1>2. QED
  BY <1>1, WidgetInvariance, LedgerStaysIntact, PTL

\* A consent recorded through a session stays in the ledger for good, under the
\* session's key, whatever becomes of the session.
RecordedForGood ==
    [][/\ events \subseteq events'
       /\ \A s \in Session : idem[s] # None => idem'[s] = idem[s]]_vars

\* No cancel, expiry, other submit or lost server takes a recorded consent back.
THEOREM ConsentsStay == Spec => RecordedForGood
<1>1. LedgerProofs!TimelineSpec => [][LedgerProofs!Growing]_(LedgerProofs!tvars)
  BY NoneIsNoAnswer, LedgerProofs!TimelineAppendOnly
<1>2. [LedgerProofs!Growing]_(LedgerProofs!tvars) =>
        /\ events \subseteq events'
        /\ \A s \in Session : idem[s] # None => idem'[s] = idem[s]
  BY DEF LedgerProofs!Growing, LedgerProofs!tvars
<1>3. QED
  BY <1>1, <1>2, LedgerBehaves, SameLedger, PTL DEF RecordedForGood

-------------------------------------------------------------------------------
(* A submit goes forward only.                                             *)

\* What a submit keeps for itself.
LocalOf(c) == <<pc[c], req[c], result[c], reply[c]>>

\* Its transactions and messages still to come.
Left(c) ==
    IF pc[c] = "check" THEN 4
    ELSE IF pc[c] = "record" THEN 3
    ELSE IF pc[c] = "consume" THEN 2
    ELSE IF pc[c] = "announce" THEN 1 ELSE 0

\* Some outcome of the transaction that comes next applies: the session that a
\* submit was let in for is there, in a state that the check knows.
MayGoOn(c) ==
    /\ pc[c] = "check" =>
          \/ Open(SessionOf(c))
          \/ Status(SessionOf(c)) \in {"CONSUMED", "CANCELLED", "EXPIRED"}
    /\ pc[c] = "record" => BodyOf(c) \in Ledger!Body
    /\ pc[c] = "consume" => session[SessionOf(c)] # None /\ Answered(c)

\* Only a step of the submit itself changes what it keeps.  A submit that is under
\* way has one transaction or message fewer after it, and works for the session that
\* it was made for.  One that has recorded its consent is left waiting by every other
\* step, and by its own finds the session CONSUMED or is lost.
SubmitAdvances(c) ==
    \/ LocalOf(c)' = LocalOf(c)
    \/ /\ \A d \in Call \ {c} : LocalOf(d)' = LocalOf(d)
       /\ pc[c] # "idle" =>
             /\ Left(c)' < Left(c)
             /\ req'[c] = req[c]
       /\ pc[c] = "consume" =>
             Status(SessionOf(c))' = "CONSUMED" \/ reply'[c] = "lost"

SubmitsAdvance == [][\A c \in Call : SubmitAdvances(c)]_vars

\* A step that changes what call d keeps, and of no other.
LEMMA OneCall ==
    ASSUME IInv, NEW d \in Call, \/ \E r \in Request : Submit(d, r) \/ SubmitTooLate(d, r)
                                 \/ Proceed(d)
                                 \/ Drop(d)
    PROVE  \A c \in Call \ {d} : LocalOf(c)' = LocalOf(c)
<1>0. TypeOK
  BY DEF IInv
<1>1. ASSUME NEW r \in Request, Submit(d, r) \/ SubmitTooLate(d, r)
      PROVE  \A c \in Call \ {d} : LocalOf(c)' = LocalOf(c)
  BY <1>0, <1>1 DEF Submit, SubmitTooLate, Refuse, Goto, LocalOf, TypeOK
<1>2. CASE CheckOpen(d) \/ CheckClosed(d) \/ CheckExpired(d) \/ RecordFails(d) \/ Drop(d)
  BY <1>0, <1>2 DEF CheckOpen, CheckClosed, CheckExpired, RecordFails, Drop, Refuse, Goto,
                    LocalOf, TypeOK
<1>3. CASE Record(d) \/ Replay(d) \/ Consume(d) \/ Announce(d)
  BY <1>0, <1>3 DEF Record, Replay, Consume, Announce, Goto, LocalOf, TypeOK
<1>4. QED
  BY <1>1, <1>2, <1>3 DEF Proceed

\* A step of a submit under way.
LEMMA OwnStep ==
    ASSUME IInv, NEW c \in Call, Proceed(c) \/ Drop(c)
    PROVE  /\ Left(c)' < Left(c)
           /\ req'[c] = req[c]
           /\ pc[c] = "consume" =>
                 Status(SessionOf(c))' = "CONSUMED" \/ reply'[c] = "lost"
<1>0. TypeOK
  BY DEF IInv
<1>1. CASE CheckClosed(c) \/ CheckExpired(c) \/ RecordFails(c) \/ Drop(c)
  <2>1. pc[c] \in {"check", "record", "consume", "announce"} /\ pc'[c] = "idle" /\ req' = req
    BY <1>0, <1>1 DEF CheckClosed, CheckExpired, RecordFails, Drop, Refuse, Goto, TypeOK
  <2>2. pc[c] = "consume" => reply'[c] = "lost"
    BY <1>0, <1>1 DEF CheckClosed, CheckExpired, RecordFails, Drop, Refuse, TypeOK
  <2>3. Left(c) \in 1 .. 4 /\ Left(c)' = 0
    BY <2>1 DEF Left
  <2>4. QED
    BY <2>1, <2>2, <2>3
<1>2. CASE CheckOpen(c)
  <2>1. pc[c] = "check" /\ pc'[c] = "record" /\ req' = req
    BY <1>0, <1>2 DEF CheckOpen, Goto, TypeOK
  <2>2. QED
    BY <2>1 DEF Left
<1>3. CASE Record(c) \/ Replay(c)
  <2>1. pc[c] = "record" /\ pc'[c] = "consume" /\ req' = req
    BY <1>0, <1>3 DEF Record, Replay, Goto, TypeOK
  <2>2. QED
    BY <2>1 DEF Left
<1>4. CASE Consume(c)
  <2>1. pc[c] = "consume" /\ pc'[c] = "announce" /\ req' = req
    BY <1>0, <1>4 DEF Consume, Goto, TypeOK
  <2>2. Status(SessionOf(c))' = "CONSUMED"
    BY <1>4, <2>1, ConsumeRow DEF Status, SessionOf
  <2>3. QED
    BY <2>1, <2>2 DEF Left
<1>5. CASE Announce(c)
  <2>1. pc[c] = "announce" /\ pc'[c] = "idle" /\ req' = req
    BY <1>0, <1>5 DEF Announce, Goto, TypeOK
  <2>2. QED
    BY <2>1 DEF Left
<1>6. QED
  BY <1>1, <1>2, <1>3, <1>4, <1>5 DEF Proceed

\* A submit always comes to an end, which is what RecordedIsConsumed rests on besides
\* fairness: it never runs out of outcomes, each step takes it one of four steps
\* nearer to its end, and from a recorded consent it goes by the CONSUMED session or
\* is lost, whatever cancels, expiries and other submits do meanwhile.
THEOREM NeverStuck ==
    Spec => [](\A c \in Call : MayGoOn(c)) /\ SubmitsAdvance
<1>1. IInv => \A c \in Call : MayGoOn(c)
  <2> SUFFICES ASSUME IInv, NEW c \in Call, pc[c] # "idle" PROVE MayGoOn(c)
    BY DEF MayGoOn
  <2>1. /\ req[c] \in Request
        /\ session[SessionOf(c)] # None /\ session[SessionOf(c)] \in SessionRow
        /\ Status(SessionOf(c)) = session[SessionOf(c)].status
    BY InProgress
  <2>2. Status(SessionOf(c)) \in SessionStatus
    BY <2>1 DEF SessionRow
  <2>3. BodyOf(c) \in Ledger!Body
    BY <2>1, BodyType DEF IInv
  <2>4. pc[c] = "consume" => Answered(c)
    BY DEF IInv, CallOK
  <2>5. QED
    BY <2>1, <2>2, <2>3, <2>4 DEF MayGoOn, Open, SessionStatus
<1>2. IInv /\ [Next]_vars => [\A c \in Call : SubmitAdvances(c)]_vars
  <2> SUFFICES ASSUME IInv, Next, NEW c \in Call PROVE SubmitAdvances(c)
    OBVIOUS
  <2>1. ASSUME NEW d \in Call, \/ \E r \in Request : Submit(d, r) \/ SubmitTooLate(d, r)
                               \/ Proceed(d)
                               \/ Drop(d)
        PROVE  SubmitAdvances(c)
    <3>1. \A x \in Call \ {d} : LocalOf(x)' = LocalOf(x)
      BY <2>1, OneCall
    <3>2. CASE c # d
      BY <3>1, <3>2 DEF SubmitAdvances
    <3>3. CASE c = d /\ \E r \in Request : Submit(d, r) \/ SubmitTooLate(d, r)
      <4>1. pc[c] = "idle"
        BY <3>3 DEF Submit, SubmitTooLate
      <4>2. QED
        BY <3>1, <3>3, <4>1 DEF SubmitAdvances
    <3>4. CASE c = d /\ (Proceed(d) \/ Drop(d))
      BY <3>1, <3>4, OwnStep DEF SubmitAdvances
    <3>5. QED
      BY <2>1, <3>2, <3>3, <3>4
  <2>2. CASE UNCHANGED calls
    BY <2>2 DEF calls, LocalOf, SubmitAdvances
  <2>3. \/ \E d \in Call : \/ \E r \in Request : Submit(d, r) \/ SubmitTooLate(d, r)
                           \/ Proceed(d)
                           \/ Drop(d)
        \/ UNCHANGED calls
    BY DEF Next, Publish, Create, AnswerCreate, LoseCreate, TtlElapses, Bootstrap, Expire,
           Cancel, RecordDirectly
  <2>4. QED
    BY <2>1, <2>2, <2>3
<1>3. QED
  BY <1>1, <1>2, WidgetInvariance, PTL DEF Spec, SubmitsAdvance
===============================================================================
