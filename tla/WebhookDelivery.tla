---------------------------- MODULE WebhookDelivery ----------------------------
(***************************************************************************)
(* Webhook endpoints, the deliveries queued for them and the worker that   *)
(* posts the deliveries (src/services/webhooks,                            *)
(* src/persistence/repositories/webhookRepository.ts).                     *)
(*                                                                         *)
(* An event is queued as one row for each endpoint that takes it; a row is *)
(* named by its endpoint and its event, which are unique together.         *)
(* workerWebhook.ts starts processNext at every tick, whether the last one *)
(* has ended or not, and several workers may poll one database: a run of   *)
(* processNext is a process.  Each of its transactions is one action, and  *)
(* so is the POST between two of them.                                     *)
(*                                                                         *)
(* Which endpoints are subscribed to the type of an event is an input, so  *)
(* subscribed_events is left out, and so are url and the payload.  Secrets *)
(* are numbered in the order in which they are generated: after secret n   *)
(* the column previous_signing_secret, which nothing reads, holds n - 1.   *)
(***************************************************************************)
EXTENDS Naturals, FiniteSets

CONSTANTS
    Endpoint,      \* ids of endpoints
    Event,         \* ids of events, a fresh one for each enqueueEvent
    Run,           \* runs of processNext that may be in flight at once
    Answer,        \* what fetch may end in: an HTTP status, or 0 if it threw
    None,          \* no delivery
    ClaimLimit,    \* WEBHOOK_WORKER_CLAIM_LIMIT, 100 in the code
    MaxAttempts,   \* max_attempts, 10 in the code
    MaxSecret      \* bound on the secrets generated for an endpoint

Delivery == Endpoint \X Event

ASSUME AnswersAreStatuses == Answer \subseteq Nat
ASSUME NoneIsNoDelivery == None \notin Delivery
ASSUME LimitsPositive == MaxAttempts \in Nat \ {0} /\ MaxSecret \in Nat \ {0}

VARIABLES
    state,      \* endpoint -> webhook_endpoints.status, "absent" before it exists
    secret,     \* endpoint -> number of its signing_secret
    chosen,     \* event -> endpoints selected by its open transaction
    status,     \* delivery -> webhook_deliveries.status, "absent" before it exists
    attempts,   \* delivery -> attempt_count
    due,        \* deliveries whose next_attempt_at has passed
    code,       \* delivery -> last_http_status, 0 for NULL
    inactive,   \* deliveries whose last_error says the endpoint is inactive
    pc,         \* run -> what it does next
    taken,      \* run -> delivery -> attempt_count of the row it claimed and has
                \*   not finished, 0 if it has no such row
    at,         \* run -> the delivery of this turn of its loop
    key,        \* run -> the secret it has read to sign with
    answer,     \* run -> statusCode, 0 for null
    posts,      \* history: how often a delivery was posted
    acked,      \* history: deliveries whose post was answered with a 2xx
    abandoned,  \* history: deliveries held by a run that was cut off
    floor       \* history: the endpoint's secret when the delivery was claimed

endpoints == <<state, secret>>
rows == <<status, attempts, due, code, inactive>>
local == <<pc, taken, at, key, answer>>
history == <<posts, acked, abandoned, floor>>
vars == <<state, secret, chosen, status, attempts, due, code, inactive,
          pc, taken, at, key, answer, posts, acked, abandoned, floor>>

EndpointStatus == {"absent", "ACTIVE", "PAUSED"}

DeliveryStatus == {"absent", "PENDING", "CLAIMED", "DELIVERED", "DEAD_LETTER"}

Terminal == {"DELIVERED", "DEAD_LETTER"}

Step == {"idle", "next", "drop", "post", "write"}

Init ==
    /\ state = [e \in Endpoint |-> "absent"]
    /\ secret = [e \in Endpoint |-> 0]
    /\ chosen = [v \in Event |-> {}]
    /\ status = [d \in Delivery |-> "absent"]
    /\ attempts = [d \in Delivery |-> 0]
    /\ due = {}
    /\ code = [d \in Delivery |-> 0]
    /\ inactive = {}
    /\ pc = [r \in Run |-> "idle"]
    /\ taken = [r \in Run |-> [d \in Delivery |-> 0]]
    /\ at = [r \in Run |-> None]
    /\ key = [r \in Run |-> 0]
    /\ answer = [r \in Run |-> 0]
    /\ posts = [d \in Delivery |-> 0]
    /\ acked = {}
    /\ abandoned = {}
    /\ floor = [d \in Delivery |-> 0]

-------------------------------------------------------------------------------
(* What the worker tells apart in an answer.                               *)

Success(a) == a >= 200 /\ a < 300

\* classifyRetryable: fetch threw, the server failed, or it asks for a pause.
Retryable(a) == a = 0 \/ a >= 500 \/ a = 429

-------------------------------------------------------------------------------
(* Pieces of the actions.                                                  *)

\* The claimed rows that run r has not finished.
Held(r) == {d \in Delivery : taken[r][d] # 0}

\* Retries stop one attempt early because the claim tests it too (mutated form).
ClaimableEarly == {d \in due : status[d] = "PENDING" /\ attempts[d] + 1 < MaxAttempts}

\* Rows of crashed runs are claimed again (mutated form).
ClaimableOrHeld == {d \in due : status[d] \in {"PENDING", "CLAIMED"}}

\* What claimWebhookDeliveries may take.
Claimable == {d \in due : status[d] = "PENDING"}

SetStatus(d, s) == status' = [status EXCEPT ![d] = s]

\* The loop turns to its next row, or processNext returns.
NextTurn(r) ==
    /\ pc' = [pc EXCEPT ![r] = IF Held(r) = {at[r]} THEN "idle" ELSE "next"]
    /\ taken' = [taken EXCEPT ![r] = [d \in Delivery |-> IF d = at[r] THEN 0 ELSE @[d]]]
    /\ at' = [at EXCEPT ![r] = None]
    /\ key' = [key EXCEPT ![r] = 0]
    /\ answer' = [answer EXCEPT ![r] = 0]

-------------------------------------------------------------------------------
(* Endpoints and events.                                                   *)

\* createEndpoint: the endpoint is ACTIVE, with a secret of its own.
CreateEndpoint(e) ==
    /\ state[e] = "absent"
    /\ state' = [state EXCEPT ![e] = "ACTIVE"]
    /\ secret' = [secret EXCEPT ![e] = 1]
    /\ UNCHANGED <<chosen, rows, local, history>>

\* updateEndpoint with a status; url and events are not modelled.
UpdateEndpoint(e) ==
    /\ state[e] # "absent"
    /\ \E s \in {"ACTIVE", "PAUSED"} : state' = [state EXCEPT ![e] = s]
    /\ UNCHANGED <<secret, chosen, rows, local, history>>

\* rotateSecret.
RotateSecret(e) ==
    /\ state[e] # "absent"
    /\ secret[e] < MaxSecret
    /\ secret' = [secret EXCEPT ![e] = @ + 1]
    /\ UNCHANGED <<state, chosen, rows, local, history>>

\* enqueueEvent gives the event a fresh id and reads the ACTIVE endpoints that
\* are subscribed to its type; without any it returns.
SelectEndpoints(v) ==
    /\ chosen[v] = {}
    /\ \A e \in Endpoint : status[<<e, v>>] = "absent"
    /\ \E E \in SUBSET {e \in Endpoint : state[e] = "ACTIVE"} :
          /\ E # {}
          /\ chosen' = [chosen EXCEPT ![v] = E]
    /\ UNCHANGED <<endpoints, rows, local, history>>

\* createWebhookDeliveryRows and the commit: one PENDING row for each endpoint,
\* due now, none where there is one already.
InsertRows(v) ==
    LET new == {d \in chosen[v] \X {v} : status[d] = "absent"}
    IN  /\ chosen[v] # {}
        /\ status' = [d \in Delivery |-> IF d \in new THEN "PENDING" ELSE status[d]]
        /\ due' = due \cup new
        /\ chosen' = [chosen EXCEPT ![v] = {}]
        /\ UNCHANGED <<endpoints, attempts, code, inactive, local, history>>

\* The transaction of enqueueEvent fails.
EnqueueFails(v) ==
    /\ chosen[v] # {}
    /\ chosen' = [chosen EXCEPT ![v] = {}]
    /\ UNCHANGED <<endpoints, rows, local, history>>

\* next_attempt_at passes.
BackoffElapses(d) ==
    /\ status[d] = "PENDING"
    /\ d \notin due
    /\ due' = due \cup {d}
    /\ UNCHANGED <<endpoints, chosen, status, attempts, code, inactive, local, history>>

-------------------------------------------------------------------------------
(* The worker: processNext.                                                *)

\* claimWebhookDeliveries: the rows become CLAIMED and their attempts are
\* counted.  Rows that another claim holds locked are skipped, so any of the
\* due rows may be among them.
Claim(r) ==
    /\ pc[r] = "idle"
    /\ \E S \in SUBSET Claimable :
          /\ S # {}
          /\ Cardinality(S) <= ClaimLimit
          /\ status' = [d \in Delivery |-> IF d \in S THEN "CLAIMED" ELSE status[d]]
          /\ attempts' = [d \in Delivery |-> IF d \in S THEN attempts[d] + 1 ELSE attempts[d]]
          /\ taken' = [taken EXCEPT ![r] =
                          [d \in Delivery |-> IF d \in S THEN attempts[d] + 1 ELSE 0]]
          /\ floor' = [d \in Delivery |-> IF d \in S THEN secret[d[1]] ELSE floor[d]]
    /\ pc' = [pc EXCEPT ![r] = "next"]
    /\ UNCHANGED <<endpoints, chosen, due, code, inactive, at, key, answer,
                   posts, acked, abandoned>>

\* The secret before the last rotation is used (mutated form).
ReadEndpointPrevious(r) ==
    /\ pc[r] = "next"
    /\ \E d \in Held(r) :
          /\ at' = [at EXCEPT ![r] = d]
          /\ key' = [key EXCEPT ![r] = IF secret[d[1]] > 1 THEN secret[d[1]] - 1
                                                            ELSE secret[d[1]]]
          /\ pc' = [pc EXCEPT ![r] = IF state[d[1]] = "ACTIVE" THEN "post" ELSE "drop"]
    /\ UNCHANGED <<endpoints, chosen, rows, taken, answer, history>>

\* The next row of the loop: getEndpointById, and the test of its status.  The
\* payload is signed with the secret read here.
ReadEndpoint(r) ==
    /\ pc[r] = "next"
    /\ \E d \in Held(r) :
          /\ at' = [at EXCEPT ![r] = d]
          /\ key' = [key EXCEPT ![r] = secret[d[1]]]
          /\ pc' = [pc EXCEPT ![r] = IF state[d[1]] = "ACTIVE" THEN "post" ELSE "drop"]
    /\ UNCHANGED <<endpoints, chosen, rows, taken, answer, history>>

\* A row of an inactive endpoint is passed over (mutated form).
SkipInactive(r) ==
    /\ pc[r] = "drop"
    /\ NextTurn(r)
    /\ UNCHANGED <<endpoints, chosen, rows, history>>

\* markDeliveryDeadLetter for an endpoint that is not ACTIVE.
DropInactive(r) ==
    /\ pc[r] = "drop"
    /\ SetStatus(at[r], "DEAD_LETTER")
    /\ code' = [code EXCEPT ![at[r]] = 0]
    /\ inactive' = inactive \cup {at[r]}
    /\ NextTurn(r)
    /\ UNCHANGED <<endpoints, chosen, attempts, due, history>>

\* fetch: the endpoint answers, or the call throws, perhaps after the consumer
\* has had the payload.
Post(r) ==
    /\ pc[r] = "post"
    /\ \E a \in Answer :
          /\ answer' = [answer EXCEPT ![r] = a]
          /\ acked' = IF Success(a) THEN acked \cup {at[r]} ELSE acked
    /\ posts' = [posts EXCEPT ![at[r]] = @ + 1]
    /\ pc' = [pc EXCEPT ![r] = "write"]
    /\ UNCHANGED <<endpoints, chosen, rows, taken, at, key, abandoned, floor>>

\* markDeliveryDelivered.
MarkDelivered(r) ==
    /\ pc[r] = "write"
    /\ Success(answer[r])
    /\ SetStatus(at[r], "DELIVERED")
    /\ code' = [code EXCEPT ![at[r]] = answer[r]]
    /\ inactive' = inactive \ {at[r]}
    /\ NextTurn(r)
    /\ UNCHANGED <<endpoints, chosen, attempts, due, history>>

\* One attempt more than max_attempts (mutated form).
GiveUpLate(r) == ~Retryable(answer[r]) \/ taken[r][at[r]] > MaxAttempts

\* One attempt fewer (mutated form).
GiveUpEarly(r) == ~Retryable(answer[r]) \/ taken[r][at[r]] + 1 >= MaxAttempts

\* No retry, by the attempt_count of the row as it was claimed.
GivesUp(r) == ~Retryable(answer[r]) \/ taken[r][at[r]] >= MaxAttempts

\* markDeliveryDeadLetter after a failed attempt.
MarkDeadLetter(r) ==
    /\ pc[r] = "write"
    /\ ~Success(answer[r])
    /\ GivesUp(r)
    /\ SetStatus(at[r], "DEAD_LETTER")
    /\ code' = [code EXCEPT ![at[r]] = answer[r]]
    /\ inactive' = inactive \ {at[r]}
    /\ NextTurn(r)
    /\ UNCHANGED <<endpoints, chosen, attempts, due, history>>

\* The attempts are counted anew (mutated form).
RequeueAnew(r) ==
    /\ pc[r] = "write"
    /\ ~Success(answer[r])
    /\ ~GivesUp(r)
    /\ SetStatus(at[r], "PENDING")
    /\ attempts' = [attempts EXCEPT ![at[r]] = 0]
    /\ due' = due \ {at[r]}
    /\ code' = [code EXCEPT ![at[r]] = answer[r]]
    /\ inactive' = inactive \ {at[r]}
    /\ NextTurn(r)
    /\ UNCHANGED <<endpoints, chosen, history>>

\* requeueDelivery: PENDING again, due when the backoff is over.
Requeue(r) ==
    /\ pc[r] = "write"
    /\ ~Success(answer[r])
    /\ ~GivesUp(r)
    /\ SetStatus(at[r], "PENDING")
    /\ due' = due \ {at[r]}
    /\ code' = [code EXCEPT ![at[r]] = answer[r]]
    /\ inactive' = inactive \ {at[r]}
    /\ NextTurn(r)
    /\ UNCHANGED <<endpoints, chosen, attempts, history>>

\* A transaction of the run throws, which ends processNext, or its process
\* stops.  Nothing takes the rows back that the run has claimed.
Abandon(r) ==
    /\ pc[r] # "idle"
    /\ abandoned' = abandoned \cup Held(r)
    /\ pc' = [pc EXCEPT ![r] = "idle"]
    /\ taken' = [taken EXCEPT ![r] = [d \in Delivery |-> 0]]
    /\ at' = [at EXCEPT ![r] = None]
    /\ key' = [key EXCEPT ![r] = 0]
    /\ answer' = [answer EXCEPT ![r] = 0]
    /\ UNCHANGED <<endpoints, chosen, rows, posts, acked, floor>>

-------------------------------------------------------------------------------
Manage(e) == CreateEndpoint(e) \/ UpdateEndpoint(e) \/ RotateSecret(e)

Enqueue(v) == SelectEndpoints(v) \/ InsertRows(v) \/ EnqueueFails(v)

\* What a run does after its claim.
Work(r) ==
    \/ ReadEndpoint(r)
    \/ DropInactive(r)
    \/ Post(r)
    \/ MarkDelivered(r)
    \/ MarkDeadLetter(r)
    \/ Requeue(r)

Next ==
    \/ \E e \in Endpoint : Manage(e)
    \/ \E v \in Event : Enqueue(v)
    \/ \E d \in Delivery : BackoffElapses(d)
    \/ \E r \in Run : Claim(r) \/ Work(r) \/ Abandon(r)

Spec == Init /\ [][Next]_vars

\* setInterval polls for ever; time passes; a run that is not cut off goes on.
\* A fetch ends, at the latest by the timeouts of the HTTP client.  Nothing is
\* said of Manage, Enqueue and Abandon, which need not happen.
FairSpec ==
    /\ Spec
    /\ \A r \in Run : WF_vars(Claim(r)) /\ WF_vars(Work(r))
    /\ \A d \in Delivery : WF_vars(BackoffElapses(d))

-------------------------------------------------------------------------------
(* Correctness.                                                            *)

\* Endpoints, rows and runs have the values that the schema and the code give
\* them; max_attempts bounds attempt_count, though the claim does not test it.
TypeOK ==
    /\ state \in [Endpoint -> EndpointStatus]
    /\ secret \in [Endpoint -> 0..MaxSecret]
    /\ chosen \in [Event -> SUBSET Endpoint]
    /\ status \in [Delivery -> DeliveryStatus]
    /\ attempts \in [Delivery -> 0..MaxAttempts]
    /\ due \in SUBSET Delivery
    /\ code \in [Delivery -> Answer \cup {0}]
    /\ inactive \in SUBSET Delivery
    /\ pc \in [Run -> Step]
    /\ taken \in [Run -> [Delivery -> 0..MaxAttempts]]
    /\ at \in [Run -> Delivery \cup {None}]
    /\ key \in [Run -> 0..MaxSecret]
    /\ answer \in [Run -> Answer \cup {0}]
    /\ posts \in [Delivery -> 0..MaxAttempts]
    /\ acked \in SUBSET Delivery
    /\ abandoned \in SUBSET Delivery
    /\ floor \in [Delivery -> 0..MaxSecret]

\* A CLAIMED row is in the hands of exactly one run, whose copy of it is still
\* accurate when it decides on a retry, or of a run that was cut off; no run
\* works on a row that is not CLAIMED.  FOR UPDATE SKIP LOCKED gives this to
\* overlapping ticks and concurrent workers, whose UPDATEs by id test nothing.
HeldExclusively ==
    \A d \in Delivery :
        LET holders == {r \in Run : d \in Held(r)}
        IN  /\ status[d] = "CLAIMED" <=> (holders # {} \/ d \in abandoned)
            /\ holders = {} \/ d \notin abandoned
            /\ \A r \in holders : taken[r][d] = attempts[d]
            /\ \A r, q \in holders : r = q

\* attempt_count tells how often the consumer was called: once for each
\* attempt, except for one that found the endpoint inactive or was cut off.
AttemptsCounted ==
    \A d \in Delivery :
        /\ d \in inactive => posts[d] + 1 = attempts[d]
        /\ status[d] = "CLAIMED" => posts[d] \in {attempts[d] - 1, attempts[d]}
        /\ status[d] # "CLAIMED" /\ d \notin inactive => posts[d] = attempts[d]

\* A row says DELIVERED only if the consumer took it, and DEAD_LETTER only if
\* the consumer never did and either refused it, or failed max_attempts times,
\* or the endpoint was inactive.
OutcomeIsDeserved ==
    \A d \in Delivery :
        /\ status[d] = "DELIVERED" => d \in acked
        /\ status[d] = "DEAD_LETTER" =>
              /\ d \notin acked
              /\ d \in inactive \/ ~Retryable(code[d]) \/ posts[d] = MaxAttempts

\* A payload is never signed with a secret that a rotation had replaced before
\* the row was claimed: the endpoint is read again for every attempt.
FreshSecret == \A r \in Run : pc[r] \in {"post", "write"} => key[r] >= floor[at[r]]

\* A consumer that has answered 2xx is not called again for the same event,
\* whatever becomes of the run: a delivery is lost rather than repeated.
NotRepostedOnceAcknowledged ==
    [][\A d \in acked : posts'[d] = posts[d]]_vars

\* DELIVERED and DEAD_LETTER are final, and nothing is counted after them.
SettledIsFinal ==
    [][\A d \in Delivery : status[d] \in Terminal =>
          status'[d] = status[d] /\ attempts'[d] = attempts[d] /\ posts'[d] = posts[d]]_vars

\* Every delivery is delivered or dead-lettered in the end, unless a run is cut
\* off while it holds it.
Settles ==
    \A d \in Delivery :
        status[d] # "absent" ~> (status[d] \in Terminal \/ d \in abandoned)

===============================================================================
