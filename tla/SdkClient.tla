------------------------------- MODULE SdkClient -------------------------------
(***************************************************************************)
(* The calls of the server SDK (packages/server-sdk/src/index.ts over the  *)
(* fetch transport of shared-core) to the service, across a network that   *)
(* loses and delays requests and loses answers, while versions of a policy *)
(* are drafted and published (PolicyArtifacts).                            *)
(*                                                                         *)
(* A call is the loop of runWithRetry, one action per await.  A request    *)
(* that the client no longer waits for may still be served.  The service   *)
(* checks that an Idempotency-Key is there and does not use it, so every   *)
(* request it serves takes effect by itself.  What a submit does in detail *)
(* is the module WidgetSession.                                            *)
(***************************************************************************)
EXTENDS PolicyArtifacts, Naturals

CONSTANTS
    Call,          \* calls of methods of the client
    Methods,       \* call -> the methods it may be a call of
    MaxAttempts    \* retry.maxAttempts

Method == {"create", "endpoint", "read", "submit", "bootstrap"}

ASSUME MethodsType == Methods \in [Call -> SUBSET Method]
ASSUME MaxAttemptsType == MaxAttempts \in Nat

VARIABLES
    req,        \* call -> method and arguments
    pc,         \* call -> "idle", "ready" (loop top), "waiting", "done"
    attempt,    \* call -> attempt
    answer,     \* call -> what it returned or threw
    doubt,      \* <<call, attempt>> that ended in a transient error or by an abort
    sent,       \* <<call, attempt>> of requests that are under way
    reply,      \* call -> the response to the request it waits for
    sessions,   \* rows of widget_sessions
    endpoints,  \* rows of webhook_endpoints
    submitted   \* consents recorded through a widget session

client == <<req, pc, attempt, answer, doubt>>
service == <<sessions, endpoints, submitted>>
vars == <<policyVars, client, sent, reply, service>>

\* The loop makes one attempt even if maxAttempts is 0.
Bound == IF MaxAttempts = 0 THEN 1 ELSE MaxAttempts

\* A row names the request that made it; a session also what its version of the
\* policy said when it was created (text), of which it stores the hash alone.
Session == [call : Call, no : 1 .. Bound, version : Version, hash : Content, text : Content]
Endpoint == [call : Call, no : 1 .. Bound]
Submission == [call : Call, no : 1 .. Bound, session : Session]

\* widgetSessions.create; webhooks.createEndpoint; widgetSessions.get and
\* webhooks.listEndpoints; widgetSessions.submit and widgetRuntime.bootstrap
\* with the token of a session.  key: hasIdempotency, forced by the methods that
\* create and given, or not, by the caller of the other POSTs.
Request ==
    [op : {"create"}, key : {TRUE}, target : Version] \cup
    [op : {"endpoint"}, key : {TRUE}, target : {None}] \cup
    [op : {"read"}, key : {FALSE}, target : {None}] \cup
    [op : {"submit", "bootstrap"}, key : BOOLEAN, target : Session]

Secured == {"create", "endpoint", "read"}

\* Classes of SammatiErrorType: "transient" is what isTransientError says yes to
\* (network, timeout, server, rate_limit), "refused" is auth, not_found, conflict
\* and unknown, which is none of the service's.
ErrorType == {"transient", "validation", "refused"}

\* What a request throws or returns; body is the row or the content in it.
Answer ==
    [type : ErrorType \cup {"none", "ok"}, body : {None} \cup Content \cup Session]

Plain(type) == [type |-> type, body |-> None]
Ok(body) == [type |-> "ok", body |-> body]

SdkInit ==
    /\ req = [c \in Call |-> None]
    /\ pc = [c \in Call |-> "idle"]
    /\ attempt = [c \in Call |-> 0]
    /\ answer = [c \in Call |-> Plain("none")]
    /\ doubt = {}
    /\ sent = {}
    /\ reply = [c \in Call |-> Plain("none")]
    /\ sessions = {}
    /\ endpoints = {}
    /\ submitted = {}

Init == PolicyInit /\ SdkInit

-------------------------------------------------------------------------------
(* The client.                                                             *)

MayRepeat(r) == r.op = "read" \/ r.key

\* shouldRetry without its last condition (mutated form).
RetryAlways(r, type) == type = "transient"

ShouldRetry(r, type) == type = "transient" /\ MayRepeat(r)

\* attempt > retry.maxAttempts (mutated form).
ExhaustedLate(n) == n > MaxAttempts

Exhausted(n) == n >= MaxAttempts

\* The catch block of runWithRetry for attempt n; cut: no response was read.
Conclude(c, n, type, cut) ==
    /\ doubt' = IF cut \/ type = "transient" THEN doubt \cup {<<c, n>>} ELSE doubt
    /\ IF Exhausted(n) \/ ~ShouldRetry(req[c], type)
       THEN /\ pc' = [pc EXCEPT ![c] = "done"]
            /\ answer' = [answer EXCEPT ![c] = Plain(type)]
       ELSE pc' = [pc EXCEPT ![c] = "ready"] /\ UNCHANGED answer

\* The tokens that a caller holds.
Tokens == {answer[c].body : c \in {d \in Call : answer[d].type = "ok" /\ req[d].op = "create"}}

Invoke(c, r) ==
    /\ pc[c] = "idle"
    /\ r.op \in Methods[c]
    /\ r.op \in {"submit", "bootstrap"} => r.target \in Tokens
    /\ req' = [req EXCEPT ![c] = r]
    /\ pc' = [pc EXCEPT ![c] = "ready"]
    /\ UNCHANGED <<policyVars, attempt, answer, doubt, sent, reply, service>>

\* attempt += 1 is missing (mutated form).
AttemptUncounted(c) ==
    /\ pc[c] = "ready"
    /\ sent' = sent \cup {<<c, attempt[c]>>}
    /\ pc' = [pc EXCEPT ![c] = "waiting"]
    /\ UNCHANGED <<policyVars, req, attempt, answer, doubt, reply, service>>

\* attempt += 1, the header, fetch.
Attempt(c) ==
    /\ pc[c] = "ready"
    /\ attempt' = [attempt EXCEPT ![c] = @ + 1]
    /\ sent' = sent \cup {<<c, attempt[c] + 1>>}
    /\ pc' = [pc EXCEPT ![c] = "waiting"]
    /\ UNCHANGED <<policyVars, req, answer, doubt, reply, service>>

\* apiKeyProvider rejects, with an Error, a SammatiError of its own or something else.
NoApiKey(c) ==
    /\ pc[c] = "ready"
    /\ req[c].op \in Secured
    /\ attempt' = [attempt EXCEPT ![c] = @ + 1]
    /\ \E type \in ErrorType : Conclude(c, attempt[c] + 1, type, FALSE)
    /\ UNCHANGED <<policyVars, req, sent, reply, service>>

\* The response is there: 2xx, or an error with a body of JSON.
Receive(c) ==
    /\ pc[c] = "waiting"
    /\ reply[c].type # "none"
    /\ IF reply[c].type = "ok"
       THEN /\ pc' = [pc EXCEPT ![c] = "done"]
            /\ answer' = [answer EXCEPT ![c] = reply[c]]
            /\ UNCHANGED doubt
       ELSE Conclude(c, attempt[c], reply[c].type, FALSE)
    /\ reply' = [reply EXCEPT ![c] = Plain("none")]
    /\ UNCHANGED <<policyVars, req, attempt, sent, service>>

\* The connection breaks, a gateway answers with something that is no JSON, or
\* the timer or the caller aborts; the request may be served all the same.  The
\* signal of a call without timeoutMs is the caller's own, and fetch rejects with
\* its reason: one that is no Error is unknown, a SammatiError is what it says.
GiveUp(c) ==
    /\ pc[c] = "waiting"
    /\ \E type \in ErrorType : Conclude(c, attempt[c], type, TRUE)
    /\ reply' = [reply EXCEPT ![c] = Plain("none")]
    /\ UNCHANGED <<policyVars, req, attempt, sent, service>>

-------------------------------------------------------------------------------
(* The service.                                                            *)

\* The request is served; the response reaches the client if it still waits.
Respond(c, n, a) ==
    /\ sent' = sent \ {<<c, n>>}
    /\ reply' = IF pc[c] = "waiting" /\ attempt[c] = n
                THEN [reply EXCEPT ![c] = a] ELSE reply

\* The request is lost, or its server is before anything is committed.
Vanish(c, n) ==
    /\ <<c, n>> \in sent
    /\ sent' = sent \ {<<c, n>>}
    /\ UNCHANGED <<policyVars, client, reply, service>>

\* Refusals that come before any effect: the rate limit, the API key, the body,
\* the service.  The routes that create turn every error of theirs into a 400.
Refusals ==
    [create |-> {"transient", "refused", "validation"},
     endpoint |-> {"transient", "refused", "validation"},
     read |-> {"transient", "refused"},
     submit |-> {"transient", "refused", "validation"},
     bootstrap |-> {"transient", "refused", "validation"}]

Refuse(c, n) ==
    /\ <<c, n>> \in sent
    /\ \E type \in Refusals[req[c].op] : Respond(c, n, Plain(type))
    /\ UNCHANGED <<policyVars, client, service>>

\* What a request is answered once it has taken effect: a failing COMMIT or,
\* after it, a failing webhook is a 400 although the row is there.
Effect(c, n, body) == \E a \in {Ok(body), Plain("validation")} : Respond(c, n, a)

\* createSession.
CreateSession(c, n) ==
    /\ <<c, n>> \in sent
    /\ req[c].op = "create"
    /\ state[req[c].target] = "PUBLISHED"
    /\ LET v == req[c].target
           s == [call |-> c, no |-> n, version |-> v, hash |-> hash[v], text |-> content[v]]
       IN  sessions' = sessions \cup {s} /\ Effect(c, n, s)
    /\ UNCHANGED <<policyVars, client, endpoints, submitted>>

\* createEndpoint.
CreateEndpoint(c, n) ==
    /\ <<c, n>> \in sent
    /\ req[c].op = "endpoint"
    /\ endpoints' = endpoints \cup {[call |-> c, no |-> n]}
    /\ Effect(c, n, None)
    /\ UNCHANGED <<policyVars, client, sessions, submitted>>

\* submitSession; a session that has recorded its consent records no other one.
Submit(c, n) ==
    /\ <<c, n>> \in sent
    /\ req[c].op = "submit"
    /\ submitted' = submitted \cup
          {x \in {[call |-> c, no |-> n, session |-> req[c].target]} :
              \A y \in submitted : y.session # req[c].target}
    /\ Effect(c, n, None)
    /\ UNCHANGED <<policyVars, client, sessions, endpoints>>

\* bootstrap: the version must be published and its hash that of the token.
Bootstrap(c, n) ==
    /\ <<c, n>> \in sent
    /\ req[c].op = "bootstrap"
    /\ LET s == req[c].target
       IN  /\ state[s.version] = "PUBLISHED"
           /\ hash[s.version] = s.hash
           /\ Respond(c, n, Ok(content[s.version]))
    /\ UNCHANGED <<policyVars, client, service>>

\* getSession, listEndpoints.
Read(c, n) ==
    /\ <<c, n>> \in sent
    /\ req[c].op = "read"
    /\ Respond(c, n, Plain("ok"))
    /\ UNCHANGED <<policyVars, client, service>>

Serve(c, n) ==
    \/ Vanish(c, n)
    \/ Refuse(c, n)
    \/ CreateSession(c, n)
    \/ CreateEndpoint(c, n)
    \/ Submit(c, n)
    \/ Bootstrap(c, n)
    \/ Read(c, n)

-------------------------------------------------------------------------------
Policies == PolicyNext /\ UNCHANGED <<client, sent, reply, service>>

Next ==
    \/ Policies
    \/ \E c \in Call :
          \/ \E r \in Request : Invoke(c, r)
          \/ Attempt(c)
          \/ NoApiKey(c)
          \/ Receive(c)
          \/ GiveUp(c)
          \/ \E n \in 1 .. Bound : Serve(c, n)

\* Timers fire, promises settle and statements end: nothing is asked of the
\* network, of the other requests or of those who draft policies.
Spec ==
    /\ Init /\ [][Next]_vars
    /\ \A c \in Call :
          WF_vars(Attempt(c) \/ NoApiKey(c)) /\ WF_vars(Receive(c) \/ GiveUp(c))
    /\ \A p \in Publisher :
          WF_vars(UpdateForPublish(p) /\ UNCHANGED <<client, sent, reply, service>>)

-------------------------------------------------------------------------------
(* Properties.                                                             *)

\* Every variable has its type; no call goes past maxAttempts.
TypeOK ==
    /\ PolicyTypeOK
    /\ req \in [Call -> Request \cup {None}]
    /\ pc \in [Call -> {"idle", "ready", "waiting", "done"}]
    /\ attempt \in [Call -> 0 .. Bound]
    /\ answer \in [Call -> Answer]
    /\ doubt \subseteq Call \X (1 .. Bound)
    /\ sent \subseteq Call \X (1 .. Bound)
    /\ reply \in [Call -> Answer]
    /\ sessions \subseteq Session
    /\ endpoints \subseteq Endpoint
    /\ submitted \subseteq Submission
    /\ \A c \in Call : pc[c] # "idle" => req[c] \in Request

\* The answer a to the call c speaks the truth, now and ever after: a session or
\* an endpoint that was returned is the one that the last request made; the
\* session still shows the text of the version it was created under, and a
\* bootstrap has shown that text; a submit has recorded the session's consent.
IsTrue(c, a) ==
    /\ req[c].op = "create" =>
          /\ a.body \in sessions
          /\ a.body.call = c /\ a.body.no = attempt[c]
          /\ state[a.body.version] = "PUBLISHED"
          /\ content[a.body.version] = a.body.text
    /\ req[c].op = "endpoint" => [call |-> c, no |-> attempt[c]] \in endpoints
    /\ req[c].op = "bootstrap" => a.body = req[c].target.text
    /\ req[c].op = "submit" => \E x \in submitted : x.session = req[c].target

\* What the service has told the calls of the SDK is so and stays so, whatever is
\* drafted, amended or published meanwhile.
AnswersAreTrue ==
    \A c \in Call : pc[c] = "done" /\ answer[c].type = "ok" => IsTrue(c, answer[c])

Rows == sessions \cup endpoints \cup submitted

\* What takes effect is accounted for: each row is of one request that was sent; a
\* call that may have made several had a key or was a read, and all but the last of
\* its requests ended in doubt; and a call that the service refused (401, 403, 404,
\* 409) has made none with its last request.  Only what ended in a transient error, by
\* the caller's abort or with a 400 may have made a row that the caller is not told of.
EffectsAccounted ==
    /\ \A x, y \in Rows : x.call = y.call /\ x.no = y.no => x = y
    /\ \A x \in Rows :
          /\ x.no \in 1 .. attempt[x.call]
          /\ attempt[x.call] > 1 => MayRepeat(req[x.call])
          /\ x.no < attempt[x.call] => <<x.call, x.no>> \in doubt
          /\ pc[x.call] = "done" /\ <<x.call, x.no>> \notin doubt =>
                answer[x.call].type \in {"ok", "validation"}

\* docs/phase-d1c-server-sdk.md: "POST retries require idempotency safety".  However
\* often it is retried, a call makes one session or endpoint.
RetriesAreSafe ==
    \A x, y \in sessions \cup endpoints : x.call = y.call => x = y

\* docs/phase-c1-policy-artifacts.md, phase-c1-validation-checklist.md: publish answers
\* 200 with the state PUBLISHED.
PublishSaysPublished ==
    \A p \in Publisher : publishing[p] = "done" => published[p] = "PUBLISHED"

\* Every call of the SDK returns or throws, and so does every publish call.
EveryCallReturns ==
    /\ \A c \in Call : pc[c] # "idle" ~> pc[c] = "done"
    /\ \A p \in Publisher : publishing[p] # "idle" ~> publishing[p] = "done"

===============================================================================
