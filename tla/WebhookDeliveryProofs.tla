------------------------ MODULE WebhookDeliveryProofs -------------------------
(***************************************************************************)
(* Proofs about WebhookDelivery for any endpoints, events, runs, answers   *)
(* and limits.                                                             *)
(***************************************************************************)
EXTENDS WebhookDelivery, TLAPS

-------------------------------------------------------------------------------
(* The inductive invariant.                                                *)

\* What is true of a row, whoever holds it.
RowInv(d) ==
    /\ d \in inactive => status[d] = "DEAD_LETTER"
    /\ status[d] \in {"absent", "PENDING"} => attempts[d] < MaxAttempts
    /\ status[d] = "CLAIMED" => d \in abandoned \/ \E r \in Run : taken[r][d] # 0
    /\ d \in abandoned =>
          status[d] = "CLAIMED" /\ (posts[d] = attempts[d] \/ posts[d] + 1 = attempts[d])
    /\ status[d] # "CLAIMED" =>
          posts[d] = (IF d \in inactive THEN attempts[d] - 1 ELSE attempts[d])
    /\ status[d] = "DELIVERED" => d \in acked
    /\ status[d] \in {"absent", "PENDING", "DEAD_LETTER"} => d \notin acked
    /\ status[d] = "DEAD_LETTER" =>
          d \in inactive \/ ~Retryable(code[d]) \/ posts[d] = MaxAttempts
    /\ floor[d] <= secret[d[1]]

\* What a run knows of a row it holds: nobody else touches it, and it has been
\* posted once in this attempt if the answer is at hand, and not yet otherwise.
HoldInv(r, d) ==
    taken[r][d] # 0 =>
        /\ status[d] = "CLAIMED" /\ taken[r][d] = attempts[d] /\ d \notin abandoned
        /\ \A q \in Run : taken[q][d] # 0 => q = r
        /\ pc[r] # "idle"
        /\ IF pc[r] = "write" /\ at[r] = d
           THEN posts[d] = attempts[d] /\ (d \in acked <=> Success(answer[r]))
           ELSE posts[d] + 1 = attempts[d] /\ d \notin acked

\* What a run knows of the row of its turn.
TurnInv(r) ==
    /\ pc[r] \in {"drop", "post", "write"} => at[r] \in Delivery /\ taken[r][at[r]] # 0
    /\ pc[r] \in {"post", "write"} => floor[at[r]] <= key[r]

Rows == \A d \in Delivery : RowInv(d)
Holds == \A r \in Run : \A d \in Delivery : HoldInv(r, d)
Turns == \A r \in Run : TurnInv(r)


\* An endpoint gets its first secret when it is created.
FirstSecret == \A e \in Endpoint : state[e] = "absent" => secret[e] = 0

IInv == TypeOK /\ FirstSecret /\ Rows /\ Holds /\ Turns

-------------------------------------------------------------------------------
(* The invariant implies the properties.                                   *)

LEMMA ImpliesExclusive == IInv => HeldExclusively
<1> SUFFICES ASSUME IInv, NEW d \in Delivery
             PROVE  LET holders == {r \in Run : d \in Held(r)}
                    IN  /\ status[d] = "CLAIMED" <=> (holders # {} \/ d \in abandoned)
                        /\ holders = {} \/ d \notin abandoned
                        /\ \A r \in holders : taken[r][d] = attempts[d]
                        /\ \A r, q \in holders : r = q
  BY DEF HeldExclusively
<1> DEFINE holders == {r \in Run : d \in Held(r)}
<1>1. holders = {r \in Run : taken[r][d] # 0}
  BY DEF Held
<1>2. RowInv(d) /\ \A r \in Run : HoldInv(r, d)
  BY DEF IInv, Rows, Holds
<1>3. \A r \in holders : /\ status[d] = "CLAIMED" /\ taken[r][d] = attempts[d]
                         /\ d \notin abandoned /\ \A q \in holders : q = r
  BY <1>1, <1>2 DEF HoldInv
<1>4. status[d] = "CLAIMED" => d \in abandoned \/ holders # {}
  BY <1>1, <1>2 DEF RowInv
<1>5. d \in abandoned => status[d] = "CLAIMED"
  BY <1>2 DEF RowInv
<1> HIDE DEF holders
<1>6. QED
  BY <1>3, <1>4, <1>5 DEF holders

LEMMA ImpliesCounted == IInv => AttemptsCounted
<1> SUFFICES ASSUME IInv, NEW d \in Delivery
             PROVE  /\ d \in inactive => posts[d] + 1 = attempts[d]
                    /\ status[d] = "CLAIMED" => posts[d] \in {attempts[d] - 1, attempts[d]}
                    /\ status[d] # "CLAIMED" /\ d \notin inactive => posts[d] = attempts[d]
  BY DEF AttemptsCounted
<1>1. RowInv(d) /\ \A r \in Run : HoldInv(r, d)
  BY DEF IInv, Rows, Holds
<1>2. posts[d] \in Nat /\ attempts[d] \in Nat
  BY DEF IInv, TypeOK
<1>3. status[d] = "CLAIMED" => posts[d] \in {attempts[d] - 1, attempts[d]}
  BY <1>1, <1>2 DEF RowInv, HoldInv
<1>4. status[d] # "CLAIMED" =>
          posts[d] = (IF d \in inactive THEN attempts[d] - 1 ELSE attempts[d])
  BY <1>1 DEF RowInv
<1>5. d \in inactive => status[d] # "CLAIMED"
  BY <1>1 DEF RowInv
<1>6. QED
  BY <1>2, <1>3, <1>4, <1>5

LEMMA ImpliesDeserved == IInv => OutcomeIsDeserved
BY DEF IInv, Rows, RowInv, OutcomeIsDeserved

LEMMA ImpliesFresh == IInv => FreshSecret
<1> SUFFICES ASSUME IInv, NEW r \in Run, pc[r] \in {"post", "write"}
             PROVE  key[r] >= floor[at[r]]
  BY DEF FreshSecret
<1>1. at[r] \in Delivery /\ floor[at[r]] <= key[r]
  BY DEF IInv, Turns, TurnInv
<1>2. floor[at[r]] \in Nat /\ key[r] \in Nat
  BY <1>1 DEF IInv, TypeOK
<1>3. QED
  BY <1>1, <1>2

-------------------------------------------------------------------------------
(* Each action preserves the invariant.                                    *)

LEMMA InitInv == Init => IInv
<1> SUFFICES ASSUME Init PROVE IInv
  OBVIOUS
<1>1. MaxAttempts \in Nat /\ 0 < MaxAttempts /\ MaxSecret \in Nat
  BY LimitsPositive
<1>2. TypeOK
  BY <1>1 DEF Init, TypeOK, EndpointStatus, DeliveryStatus, Step
<1>3. \A d \in Delivery : secret[d[1]] = 0
  BY DEF Init, Delivery
<1>4. Rows
  BY <1>1, <1>3 DEF Init, Rows, RowInv
<1>5. Holds /\ Turns
  BY DEF Init, Holds, HoldInv, Turns, TurnInv
<1>6. FirstSecret
  BY DEF Init, FirstSecret
<1>7. QED
  BY <1>2, <1>4, <1>5, <1>6 DEF IInv

\* Secrets only advance, so a row keeps its properties when nothing else that
\* they speak of changes.
LEMMA RowsKept ==
    ASSUME TypeOK, Rows, UNCHANGED <<rows, taken, posts, acked, abandoned, floor>>,
           secret' \in [Endpoint -> 0..MaxSecret],
           \A e \in Endpoint : secret[e] <= secret'[e]
    PROVE  Rows'
<1> SUFFICES ASSUME NEW d \in Delivery PROVE RowInv(d)'
  BY DEF Rows
<1>1. RowInv(d)
  BY DEF Rows
<1>2. d[1] \in Endpoint
  BY DEF Delivery
<1>3. floor[d] <= secret'[d[1]]
  BY <1>1, <1>2, LimitsPositive DEF RowInv, TypeOK
<1>4. QED
  BY <1>1, <1>3 DEF RowInv, rows

LEMMA LocalKept ==
    ASSUME Holds, Turns, UNCHANGED <<status, attempts, local, history>>
    PROVE  Holds' /\ Turns'
BY DEF Holds, HoldInv, Turns, TurnInv, local, history

\* Manage.
LEMMA ManageStep ==
    ASSUME IInv, NEW e \in Endpoint, Manage(e)
    PROVE  IInv'
<1> USE DEF IInv
<1>1. UNCHANGED <<chosen, rows, local, history>>
  BY DEF Manage, CreateEndpoint, UpdateEndpoint, RotateSecret
<1>2. state' \in [Endpoint -> EndpointStatus]
  BY DEF Manage, CreateEndpoint, UpdateEndpoint, RotateSecret, TypeOK, EndpointStatus
<1>3. PICK n \in 0..MaxSecret : secret' = [secret EXCEPT ![e] = n] /\ secret[e] <= n
  <2>1. secret[e] \in 0..MaxSecret /\ secret = [secret EXCEPT ![e] = secret[e]]
    BY DEF TypeOK
  <2>2. CASE CreateEndpoint(e)
    <3>1. secret[e] = 0 /\ secret' = [secret EXCEPT ![e] = 1]
      BY <2>2 DEF CreateEndpoint, FirstSecret
    <3>2. 1 \in 0..MaxSecret /\ 0 <= 1
      BY LimitsPositive
    <3>3. QED
      BY <3>1, <3>2
  <2>3. CASE UpdateEndpoint(e)
    BY <2>1, <2>3, LimitsPositive DEF UpdateEndpoint
  <2>4. CASE RotateSecret(e)
    <3>1. secret' = [secret EXCEPT ![e] = secret[e] + 1] /\ secret[e] < MaxSecret
      BY <2>4 DEF RotateSecret
    <3>2. secret[e] + 1 \in 0..MaxSecret /\ secret[e] <= secret[e] + 1
      BY <2>1, <3>1, LimitsPositive
    <3>3. QED
      BY <3>1, <3>2
  <2>5. QED
    BY <2>2, <2>3, <2>4 DEF Manage
<1>4. secret' \in [Endpoint -> 0..MaxSecret] /\ \A f \in Endpoint : secret[f] <= secret'[f]
  <2>1. secret \in [Endpoint -> 0..MaxSecret] /\ MaxSecret \in Nat
    BY LimitsPositive DEF TypeOK
  <2>2. QED
    BY <1>3, <2>1
<1>5. TypeOK'
  BY <1>1, <1>2, <1>4 DEF TypeOK, rows, local, history
<1>6. Rows' /\ Holds' /\ Turns'
  BY <1>1, <1>4, RowsKept, LocalKept DEF rows, local, history
<1>7. FirstSecret'
  BY DEF Manage, CreateEndpoint, UpdateEndpoint, RotateSecret, FirstSecret, TypeOK
<1>8. QED
  BY <1>5, <1>6, <1>7

\* Enqueue and BackoffElapses: rows that no run holds.
LEMMA EnqueueStep ==
    ASSUME IInv, NEW v \in Event, Enqueue(v)
    PROVE  IInv'
<1> USE DEF IInv
<1>1. CASE SelectEndpoints(v) \/ EnqueueFails(v)
  <2>1. chosen' \in [Event -> SUBSET Endpoint] /\ UNCHANGED <<endpoints, rows, local, history>>
    <3>1. TypeOK
      OBVIOUS
    <3>2. \E E \in SUBSET Endpoint : chosen' = [chosen EXCEPT ![v] = E]
      BY <1>1 DEF SelectEndpoints, EnqueueFails
    <3>3. UNCHANGED <<endpoints, rows, local, history>>
      BY <1>1 DEF SelectEndpoints, EnqueueFails
    <3>4. QED
      BY <3>1, <3>2, <3>3 DEF TypeOK
  <2>2. TypeOK'
    BY <2>1 DEF TypeOK, endpoints, rows, local, history
  <2>3. \A e \in Endpoint : secret[e] <= secret'[e]
    BY <2>1, LimitsPositive DEF endpoints, TypeOK
  <2>4. QED
    BY <2>1, <2>2, <2>3, RowsKept, LocalKept
    DEF endpoints, rows, local, history, TypeOK, FirstSecret
<1>2. CASE InsertRows(v)
  <2> DEFINE new == {d \in chosen[v] \X {v} : status[d] = "absent"}
  <2>1. /\ status' = [d \in Delivery |-> IF d \in new THEN "PENDING" ELSE status[d]]
        /\ due' = due \cup new
        /\ chosen' = [chosen EXCEPT ![v] = {}]
        /\ UNCHANGED <<endpoints, attempts, code, inactive, local, history>>
    BY <1>2 DEF InsertRows
  <2>2. new \subseteq Delivery /\ \A d \in new : status[d] = "absent"
    BY DEF TypeOK, Delivery
  <2> HIDE DEF new
  <2>3. TypeOK'
    BY <2>1, <2>2 DEF TypeOK, DeliveryStatus, endpoints, local, history
  <2>4. ASSUME NEW d \in Delivery PROVE RowInv(d)'
    <3>1. RowInv(d)
      BY DEF Rows
    <3>2. CASE d \in new
      BY <2>1, <2>2, <3>1, <3>2 DEF RowInv, endpoints, local, history
    <3>3. CASE d \notin new
      BY <2>1, <3>1, <3>3 DEF RowInv, endpoints, local, history
    <3>4. QED
      BY <3>2, <3>3
  <2>5. Holds' /\ Turns'
    <3>1. \A d \in Delivery : status[d] = "CLAIMED" => status'[d] = "CLAIMED"
      BY <2>1, <2>2
    <3>2. QED
      BY <2>1, <3>1 DEF Holds, HoldInv, Turns, TurnInv, local, history
  <2>6. QED
    BY <2>1, <2>3, <2>4, <2>5 DEF Rows, endpoints, FirstSecret
<1>3. QED
  BY <1>1, <1>2 DEF Enqueue

LEMMA BackoffStep ==
    ASSUME IInv, NEW d \in Delivery, BackoffElapses(d)
    PROVE  IInv'
<1> USE DEF IInv
<1>1. /\ due' = due \cup {d}
      /\ UNCHANGED <<endpoints, chosen, status, attempts, code, inactive, local, history>>
  BY DEF BackoffElapses
<1>2. TypeOK'
  BY <1>1 DEF TypeOK, endpoints, local, history
<1>3. Rows'
  BY <1>1 DEF Rows, RowInv, endpoints, local, history
<1>4. QED
  BY <1>1, <1>2, <1>3, LocalKept DEF endpoints, FirstSecret

\* Claim: the rows were PENDING, so no run holds them.
LEMMA ClaimStep ==
    ASSUME IInv, NEW r \in Run, Claim(r)
    PROVE  IInv'
<1> USE DEF IInv
<1>1. PICK S \in SUBSET Claimable :
          /\ status' = [d \in Delivery |-> IF d \in S THEN "CLAIMED" ELSE status[d]]
          /\ attempts' = [d \in Delivery |-> IF d \in S THEN attempts[d] + 1 ELSE attempts[d]]
          /\ taken' = [taken EXCEPT ![r] =
                          [d \in Delivery |-> IF d \in S THEN attempts[d] + 1 ELSE 0]]
          /\ floor' = [d \in Delivery |-> IF d \in S THEN secret[d[1]] ELSE floor[d]]
  BY DEF Claim
<1>2. /\ pc[r] = "idle"
      /\ pc' = [pc EXCEPT ![r] = "next"]
      /\ UNCHANGED <<endpoints, chosen, due, code, inactive, at, key, answer,
                     posts, acked, abandoned>>
  BY DEF Claim
<1>3. ASSUME NEW d \in S
      PROVE  /\ d \in Delivery /\ status[d] = "PENDING"
             /\ d \notin abandoned /\ d \notin inactive /\ d \notin acked
             /\ posts[d] = attempts[d]
             /\ attempts[d] + 1 \in 1..MaxAttempts
             /\ \A q \in Run : taken[q][d] = 0
  <2>1. d \in Delivery /\ status[d] = "PENDING"
    BY DEF Claimable, TypeOK
  <2>2. RowInv(d) /\ \A q \in Run : HoldInv(q, d)
    BY <2>1 DEF Rows, Holds
  <2>3. attempts[d] \in 0..MaxAttempts /\ attempts[d] < MaxAttempts /\ MaxAttempts \in Nat
    BY <2>1, <2>2, LimitsPositive DEF TypeOK, RowInv
  <2>4. attempts[d] + 1 \in 1..MaxAttempts
    BY <2>3
  <2>5. d \notin abandoned /\ d \notin inactive /\ d \notin acked /\ posts[d] = attempts[d]
    BY <2>1, <2>2 DEF RowInv
  <2>6. \A q \in Run : taken[q][d] = 0
    BY <2>1, <2>2 DEF HoldInv
  <2>7. QED
    BY <2>1, <2>4, <2>5, <2>6
<1>4. \A d \in Delivery : secret[d[1]] \in 0..MaxSecret /\ taken[r][d] = 0
  BY <1>2 DEF TypeOK, Delivery, Holds, HoldInv
<1>5. TypeOK'
  <2>1. \A d \in S : attempts[d] + 1 \in 0..MaxAttempts
    BY <1>3, LimitsPositive
  <2>2. attempts' \in [Delivery -> 0..MaxAttempts] /\ 0 \in 0..MaxAttempts
    BY <1>1, <2>1, LimitsPositive DEF TypeOK
  <2>3. taken' \in [Run -> [Delivery -> 0..MaxAttempts]]
    BY <1>1, <2>1, <2>2 DEF TypeOK
  <2>4. floor' \in [Delivery -> 0..MaxSecret] /\ status' \in [Delivery -> DeliveryStatus]
    BY <1>1, <1>4 DEF TypeOK, DeliveryStatus
  <2>5. QED
    BY <1>2, <2>2, <2>3, <2>4 DEF TypeOK, Step, endpoints
<1>6. ASSUME NEW d \in Delivery PROVE RowInv(d)'
  <2>1. RowInv(d)
    BY DEF Rows
  <2>2. CASE d \in S
    <3>1. status'[d] = "CLAIMED" /\ taken'[r][d] = attempts[d] + 1 /\ taken'[r][d] # 0
      BY <1>1, <1>3, <2>2 DEF TypeOK
    <3>2. floor'[d] = secret[d[1]] /\ secret' = secret /\ secret[d[1]] <= secret[d[1]]
      BY <1>1, <1>2, <1>4, <2>2, LimitsPositive DEF endpoints
    <3>3. QED
      BY <1>2, <1>3, <2>2, <3>1, <3>2 DEF RowInv
  <2>3. CASE d \notin S
    <3>1. /\ status'[d] = status[d] /\ attempts'[d] = attempts[d] /\ floor'[d] = floor[d]
          /\ secret' = secret
      BY <1>1, <1>2, <2>3 DEF endpoints
    <3>2. \A q \in Run : taken[q][d] # 0 => taken'[q][d] # 0
      BY <1>1, <1>4 DEF TypeOK
    <3>3. QED
      BY <1>2, <2>1, <3>1, <3>2 DEF RowInv
  <2>4. QED
    BY <2>2, <2>3
<1>7. ASSUME NEW q \in Run, NEW d \in Delivery PROVE HoldInv(q, d)'
  <2>1. HoldInv(q, d)
    BY DEF Holds
  <2>2. CASE d \in S
    <3>1. \A p \in Run : taken'[p][d] # 0 => p = r
      BY <1>1, <1>3, <2>2 DEF TypeOK
    <3>2. taken'[r][d] = attempts'[d] /\ attempts'[d] = attempts[d] + 1 /\ status'[d] = "CLAIMED"
      BY <1>1, <2>2 DEF TypeOK
    <3>3. pc'[r] = "next"
      BY <1>2 DEF TypeOK
    <3>4. QED
      BY <1>2, <1>3, <2>2, <3>1, <3>2, <3>3 DEF HoldInv
  <2>3. CASE d \notin S
    <3>1. taken'[r][d] = 0 /\ \A p \in Run : p # r => taken'[p][d] = taken[p][d] /\ pc'[p] = pc[p]
      BY <1>1, <1>2, <2>3 DEF TypeOK
    <3>2. status'[d] = status[d] /\ attempts'[d] = attempts[d]
      BY <1>1, <2>3
    <3>3. QED
      BY <1>2, <2>1, <3>1, <3>2 DEF HoldInv
  <2>4. QED
    BY <2>2, <2>3
<1>8. ASSUME NEW q \in Run PROVE TurnInv(q)'
  <2>1. TurnInv(q)
    BY DEF Turns
  <2>2. CASE q = r
    BY <1>2, <2>2 DEF TurnInv, TypeOK
  <2>3. CASE q # r
    <3>1. pc'[q] = pc[q] /\ at'[q] = at[q] /\ key'[q] = key[q] /\ taken'[q] = taken[q]
      BY <1>1, <1>2, <2>3 DEF TypeOK
    <3>2. at[q] \in Delivery /\ taken[q][at[q]] # 0 => floor'[at[q]] = floor[at[q]]
      BY <1>1, <1>3
    <3>3. QED
      BY <2>1, <3>1, <3>2 DEF TurnInv
  <2>4. QED
    BY <2>2, <2>3
<1>9. QED
  BY <1>2, <1>5, <1>6, <1>7, <1>8 DEF Rows, Holds, Turns, FirstSecret, endpoints

\* ReadEndpoint: the secret read now is no older than the one at the claim.
LEMMA ReadStep ==
    ASSUME IInv, NEW r \in Run, ReadEndpoint(r)
    PROVE  IInv'
<1> USE DEF IInv
<1>1. PICK d \in Held(r) :
          /\ at' = [at EXCEPT ![r] = d]
          /\ key' = [key EXCEPT ![r] = secret[d[1]]]
          /\ pc' = [pc EXCEPT ![r] = IF state[d[1]] = "ACTIVE" THEN "post" ELSE "drop"]
  BY DEF ReadEndpoint
<1>2. pc[r] = "next" /\ UNCHANGED <<endpoints, chosen, rows, taken, answer, history>>
  BY DEF ReadEndpoint
<1>3. d \in Delivery /\ taken[r][d] # 0
  BY DEF Held
<1>4. secret[d[1]] \in 0..MaxSecret /\ floor[d] <= secret[d[1]]
  BY <1>3 DEF TypeOK, Delivery, Rows, RowInv
<1>5. TypeOK'
  BY <1>1, <1>2, <1>3, <1>4 DEF TypeOK, Step, endpoints, rows, history
<1>6. Rows' /\ FirstSecret'
  BY <1>2 DEF Rows, RowInv, FirstSecret, endpoints, rows, history
<1>7. ASSUME NEW q \in Run PROVE TurnInv(q)' /\ \A c \in Delivery : HoldInv(q, c)'
  <2>1. TurnInv(q) /\ \A c \in Delivery : HoldInv(q, c)
    BY DEF Turns, Holds
  <2>2. CASE q = r
    <3>1. pc'[r] \in {"post", "drop"} /\ at'[r] = d /\ key'[r] = secret[d[1]]
      BY <1>1 DEF TypeOK
    <3>2. QED
      BY <1>2, <1>3, <1>4, <2>1, <2>2, <3>1 DEF TurnInv, HoldInv, rows, history
  <2>3. CASE q # r
    <3>1. pc'[q] = pc[q] /\ at'[q] = at[q] /\ key'[q] = key[q]
      BY <1>1, <2>3 DEF TypeOK
    <3>2. QED
      BY <1>2, <2>1, <3>1 DEF TurnInv, HoldInv, rows, history
  <2>4. QED
    BY <2>2, <2>3
<1>8. QED
  BY <1>5, <1>6, <1>7 DEF Holds, Turns

\* Post: the consumer is called once in this attempt.
LEMMA PostStep ==
    ASSUME IInv, NEW r \in Run, Post(r)
    PROVE  IInv'
<1> USE DEF IInv
<1>1. PICK a \in Answer :
          /\ answer' = [answer EXCEPT ![r] = a]
          /\ acked' = IF Success(a) THEN acked \cup {at[r]} ELSE acked
  BY DEF Post
<1>2. /\ pc[r] = "post"
      /\ posts' = [posts EXCEPT ![at[r]] = @ + 1]
      /\ pc' = [pc EXCEPT ![r] = "write"]
      /\ UNCHANGED <<endpoints, chosen, rows, taken, at, key, abandoned, floor>>
  BY DEF Post
<1> DEFINE d == at[r]
<1>3. d \in Delivery /\ taken[r][d] # 0 /\ floor[d] <= key[r]
  BY <1>2 DEF Turns, TurnInv
<1>4. /\ status[d] = "CLAIMED" /\ d \notin abandoned
      /\ posts[d] + 1 = attempts[d] /\ d \notin acked
      /\ \A q \in Run : taken[q][d] # 0 => q = r
  BY <1>2, <1>3 DEF Holds, HoldInv
<1>5. posts[d] + 1 \in 0..MaxAttempts
  BY <1>3, <1>4 DEF TypeOK
<1>6. posts'[d] = attempts[d] /\ \A c \in Delivery : c # d => posts'[c] = posts[c]
  BY <1>2, <1>3, <1>4 DEF TypeOK
<1>7. \A c \in Delivery : c \in acked' <=> IF c = d THEN Success(a) ELSE c \in acked
  BY <1>1, <1>4
<1> HIDE DEF d
<1>8. TypeOK'
  <2>1. posts' \in [Delivery -> 0..MaxAttempts]
    BY <1>2, <1>3, <1>5 DEF TypeOK, d
  <2>2. acked' \in SUBSET Delivery
    BY <1>1, <1>3 DEF TypeOK, d
  <2>3. QED
    BY <1>1, <1>2, <2>1, <2>2 DEF TypeOK, Step, endpoints, rows
<1>9. ASSUME NEW c \in Delivery PROVE RowInv(c)'
  <2>1. RowInv(c)
    BY DEF Rows
  <2>2. CASE c = d
    BY <1>2, <1>3, <1>4, <1>6, <2>1, <2>2 DEF RowInv, endpoints, rows
  <2>3. CASE c # d
    <3>1. posts'[c] = posts[c] /\ (c \in acked' <=> c \in acked)
      BY <1>6, <1>7, <2>3
    <3>2. QED
      BY <1>2, <2>1, <3>1 DEF RowInv, endpoints, rows
  <2>4. QED
    BY <2>2, <2>3
<1>10. ASSUME NEW q \in Run PROVE TurnInv(q)' /\ \A c \in Delivery : HoldInv(q, c)'
  <2>1. TurnInv(q) /\ \A c \in Delivery : HoldInv(q, c)
    BY DEF Turns, Holds
  <2>2. CASE q = r
    <3>1. pc'[r] = "write" /\ answer'[r] = a /\ at[r] = d
      BY <1>1, <1>2 DEF TypeOK, d
    <3>2. TurnInv(q)'
      BY <1>2, <1>3, <2>2, <3>1 DEF TurnInv
    <3>3. ASSUME NEW c \in Delivery PROVE HoldInv(q, c)'
      BY <1>2, <1>3, <1>4, <1>6, <1>7, <2>1, <2>2, <3>1 DEF HoldInv, rows
    <3>4. QED
      BY <3>2, <3>3
  <2>3. CASE q # r
    <3>1. pc'[q] = pc[q] /\ answer'[q] = answer[q] /\ taken[q][d] = 0
      BY <1>1, <1>2, <1>3, <1>4, <2>3 DEF TypeOK
    <3>2. TurnInv(q)'
      BY <1>2, <2>1, <3>1 DEF TurnInv
    <3>3. ASSUME NEW c \in Delivery PROVE HoldInv(q, c)'
      <4>1. CASE c = d
        BY <1>2, <3>1, <4>1 DEF HoldInv
      <4>2. CASE c # d
        BY <1>2, <1>6, <1>7, <2>1, <3>1, <4>2 DEF HoldInv, rows
      <4>3. QED
        BY <4>1, <4>2
    <3>4. QED
      BY <3>2, <3>3
  <2>4. QED
    BY <2>2, <2>3
<1>11. QED
  BY <1>2, <1>8, <1>9, <1>10 DEF Rows, Holds, Turns, FirstSecret, endpoints

\* The end of a turn: the run lets go of its row, which is no longer CLAIMED,
\* and the rest is as before.
LEMMA TurnEnds ==
    ASSUME IInv, NEW r \in Run, NEW d \in Delivery,
           pc[r] \in {"drop", "write"}, at[r] = d, NextTurn(r),
           NEW s \in {"PENDING", "DELIVERED", "DEAD_LETTER"}, SetStatus(d, s),
           NEW c \in Answer \cup {0}, code' = [code EXCEPT ![d] = c],
           due' \in SUBSET Delivery, inactive' \in SUBSET Delivery,
           inactive' \cup {d} = inactive \cup {d},
           UNCHANGED <<endpoints, chosen, attempts, history>>,
           RowInv(d)'
    PROVE  IInv'
<1> USE DEF IInv
<1>1. taken[r][d] # 0
  BY DEF Turns, TurnInv
<1>2. \A q \in Run : taken[q][d] # 0 => q = r
  BY <1>1 DEF Holds, HoldInv
<1>3. /\ pc' = [pc EXCEPT ![r] = IF Held(r) = {d} THEN "idle" ELSE "next"]
      /\ taken' = [taken EXCEPT ![r] = [e \in Delivery |-> IF e = d THEN 0 ELSE @[e]]]
      /\ at' = [at EXCEPT ![r] = None]
      /\ key' = [key EXCEPT ![r] = 0]
      /\ answer' = [answer EXCEPT ![r] = 0]
  BY DEF NextTurn
<1>4. status' = [status EXCEPT ![d] = s]
  BY DEF SetStatus
<1>5. code' = [code EXCEPT ![d] = c] /\ inactive' \cup {d} = inactive \cup {d}
  OBVIOUS
<1>6. TypeOK'
  <2>1. 0 \in 0..MaxSecret /\ 0 \in 0..MaxAttempts
    BY LimitsPositive
  <2>2. taken' \in [Run -> [Delivery -> 0..MaxAttempts]]
    BY <1>3, <2>1 DEF TypeOK
  <2>3. status' \in [Delivery -> DeliveryStatus]
    <3>1. s \in DeliveryStatus
      BY DEF DeliveryStatus
    <3>2. QED
      BY <1>4, <3>1 DEF TypeOK
  <2>4. code' \in [Delivery -> Answer \cup {0}]
    BY <1>5 DEF TypeOK
  <2>5. /\ pc' \in [Run -> Step] /\ at' \in [Run -> Delivery \cup {None}]
        /\ key' \in [Run -> 0..MaxSecret] /\ answer' \in [Run -> Answer \cup {0}]
    BY <1>3, <2>1 DEF TypeOK, Step
  <2>6. QED
    BY <2>2, <2>3, <2>4, <2>5 DEF TypeOK, endpoints, history
<1>7. \A q \in Run : q # r => /\ pc'[q] = pc[q] /\ taken'[q] = taken[q] /\ at'[q] = at[q]
                              /\ key'[q] = key[q] /\ answer'[q] = answer[q]
  BY <1>3 DEF TypeOK
<1>8. /\ pc'[r] \in {"idle", "next"} /\ taken'[r][d] = 0
      /\ \A e \in Delivery : e # d => taken'[r][e] = taken[r][e]
      /\ pc'[r] = "idle" => \A e \in Delivery : taken'[r][e] = 0
  <2>1. taken'[r] = [e \in Delivery |-> IF e = d THEN 0 ELSE taken[r][e]]
    BY <1>3 DEF TypeOK
  <2>2. pc'[r] = IF Held(r) = {d} THEN "idle" ELSE "next"
    BY <1>3 DEF TypeOK
  <2>3. Held(r) = {d} => \A e \in Delivery : e # d => taken[r][e] = 0
    BY DEF Held
  <2>4. QED
    BY <1>1, <2>1, <2>2, <2>3
<1>9. ASSUME NEW e \in Delivery, e # d
      PROVE  /\ status'[e] = status[e] /\ code'[e] = code[e]
             /\ e \in inactive' <=> e \in inactive
  <2>1. status'[e] = status[e] /\ code'[e] = code[e]
    BY <1>4, <1>5, <1>9 DEF TypeOK
  <2>2. e \in inactive' <=> e \in inactive
    BY <1>5, <1>9
  <2>3. QED
    BY <2>1, <2>2
<1>10. ASSUME NEW e \in Delivery PROVE RowInv(e)'
  <2>1. CASE e = d
    BY <2>1
  <2>2. CASE e # d
    <3>1. RowInv(e)
      BY DEF Rows
    <3>2. \A q \in Run : taken'[q][e] = taken[q][e]
      BY <1>7, <1>8, <2>2
    <3>3. QED
      BY <1>9, <2>2, <3>1, <3>2 DEF RowInv, endpoints, history
  <2>3. QED
    BY <2>1, <2>2
<1>11. ASSUME NEW q \in Run, NEW e \in Delivery PROVE HoldInv(q, e)'
  <2>1. CASE e = d
    BY <1>2, <1>7, <1>8, <2>1 DEF HoldInv
  <2>2. CASE e # d
    <3>1. HoldInv(q, e)
      BY DEF Holds
    <3>2. \A p \in Run : taken'[p][e] = taken[p][e]
      BY <1>7, <1>8, <2>2
    <3>3. CASE q = r
      BY <1>1, <1>8, <1>9, <2>2, <3>1, <3>2, <3>3 DEF HoldInv, history
    <3>4. CASE q # r
      BY <1>7, <1>9, <2>2, <3>1, <3>2, <3>4 DEF HoldInv, history
    <3>5. QED
      BY <3>3, <3>4
  <2>3. QED
    BY <2>1, <2>2
<1>12. ASSUME NEW q \in Run PROVE TurnInv(q)'
  <2>1. TurnInv(q)
    BY DEF Turns
  <2>2. CASE q = r
    BY <1>8, <2>2 DEF TurnInv
  <2>3. CASE q # r
    BY <1>7, <2>1, <2>3 DEF TurnInv, history
  <2>4. QED
    BY <2>2, <2>3
<1>13. QED
  BY <1>6, <1>10, <1>11, <1>12 DEF Rows, Holds, Turns, FirstSecret, endpoints

\* The four ways in which a turn ends.
LEMMA EndStep ==
    ASSUME IInv, NEW r \in Run,
           DropInactive(r) \/ MarkDelivered(r) \/ MarkDeadLetter(r) \/ Requeue(r)
    PROVE  IInv'
<1> USE DEF IInv
<1>1. PICK d \in Delivery : at[r] = d /\ taken[r][d] # 0
  BY DEF DropInactive, MarkDelivered, MarkDeadLetter, Requeue, Turns, TurnInv
<1>2. /\ taken[r][d] = attempts[d] /\ d \notin abandoned
      /\ pc[r] = "write" => posts[d] = attempts[d] /\ (d \in acked <=> Success(answer[r]))
      /\ pc[r] # "write" => posts[d] + 1 = attempts[d] /\ d \notin acked
  BY <1>1 DEF Holds, HoldInv
<1>3. /\ attempts[d] \in 0..MaxAttempts /\ posts[d] \in 0..MaxAttempts /\ MaxAttempts \in Nat
      /\ answer[r] \in Answer \cup {0} /\ due \in SUBSET Delivery
      /\ inactive \in SUBSET Delivery /\ status \in [Delivery -> DeliveryStatus]
      /\ code \in [Delivery -> Answer \cup {0}]
  BY LimitsPositive DEF TypeOK
<1>4. floor[d] <= secret[d[1]]
  BY DEF Rows, RowInv
<1>5. CASE DropInactive(r)
  <2>1. /\ pc[r] = "drop" /\ SetStatus(d, "DEAD_LETTER") /\ code' = [code EXCEPT ![d] = 0]
        /\ inactive' = inactive \cup {d} /\ NextTurn(r)
        /\ UNCHANGED <<endpoints, chosen, attempts, due, history>>
    BY <1>1, <1>5 DEF DropInactive
  <2>2. status'[d] = "DEAD_LETTER"
    BY <1>3, <2>1 DEF SetStatus
  <2>3. RowInv(d)'
    BY <1>2, <1>3, <1>4, <2>1, <2>2 DEF RowInv, endpoints, history
  <2>4. inactive' \in SUBSET Delivery /\ inactive' \cup {d} = inactive \cup {d}
    BY <1>3, <2>1
  <2>5. QED
    BY <1>1, <1>3, <2>1, <2>3, <2>4, TurnEnds
<1>6. CASE MarkDelivered(r)
  <2>1. /\ pc[r] = "write" /\ Success(answer[r]) /\ SetStatus(d, "DELIVERED")
        /\ code' = [code EXCEPT ![d] = answer[r]] /\ inactive' = inactive \ {d} /\ NextTurn(r)
        /\ UNCHANGED <<endpoints, chosen, attempts, due, history>>
    BY <1>1, <1>6 DEF MarkDelivered
  <2>2. status'[d] = "DELIVERED" /\ d \notin inactive'
    BY <1>3, <2>1 DEF SetStatus
  <2>3. RowInv(d)'
    BY <1>2, <1>4, <2>1, <2>2 DEF RowInv, endpoints, history
  <2>4. inactive' \in SUBSET Delivery /\ inactive' \cup {d} = inactive \cup {d}
    BY <1>3, <2>1
  <2>5. QED
    BY <1>1, <1>3, <2>1, <2>3, <2>4, TurnEnds
<1>7. CASE MarkDeadLetter(r)
  <2>1. /\ pc[r] = "write" /\ ~Success(answer[r]) /\ GivesUp(r) /\ SetStatus(d, "DEAD_LETTER")
        /\ code' = [code EXCEPT ![d] = answer[r]] /\ inactive' = inactive \ {d} /\ NextTurn(r)
        /\ UNCHANGED <<endpoints, chosen, attempts, due, history>>
    BY <1>1, <1>7 DEF MarkDeadLetter
  <2>2. status'[d] = "DEAD_LETTER" /\ d \notin inactive' /\ code'[d] = answer[r]
    BY <1>3, <2>1 DEF SetStatus
  <2>3. ~Retryable(answer[r]) \/ posts[d] = MaxAttempts
    BY <1>1, <1>2, <1>3, <2>1 DEF GivesUp
  <2>4. RowInv(d)'
    BY <1>2, <1>4, <2>1, <2>2, <2>3 DEF RowInv, endpoints, history
  <2>5. inactive' \in SUBSET Delivery /\ inactive' \cup {d} = inactive \cup {d}
    BY <1>3, <2>1
  <2>6. QED
    BY <1>1, <1>3, <2>1, <2>4, <2>5, TurnEnds
<1>8. CASE Requeue(r)
  <2>1. /\ pc[r] = "write" /\ ~Success(answer[r]) /\ ~GivesUp(r) /\ SetStatus(d, "PENDING")
        /\ due' = due \ {d}
        /\ code' = [code EXCEPT ![d] = answer[r]] /\ inactive' = inactive \ {d} /\ NextTurn(r)
        /\ UNCHANGED <<endpoints, chosen, attempts, history>>
    BY <1>1, <1>8 DEF Requeue
  <2>2. status'[d] = "PENDING" /\ d \notin inactive'
    BY <1>3, <2>1 DEF SetStatus
  <2>3. attempts[d] < MaxAttempts
    BY <1>1, <1>2, <1>3, <2>1 DEF GivesUp
  <2>4. RowInv(d)'
    BY <1>2, <1>4, <2>1, <2>2, <2>3 DEF RowInv, endpoints, history
  <2>5. /\ inactive' \in SUBSET Delivery /\ inactive' \cup {d} = inactive \cup {d}
        /\ due' \in SUBSET Delivery
    BY <1>3, <2>1
  <2>6. QED
    BY <1>1, <1>3, <2>1, <2>4, <2>5, TurnEnds
<1>9. QED
  BY <1>5, <1>6, <1>7, <1>8

\* Abandon: the rows of the run stay CLAIMED and pass to abandoned.
LEMMA AbandonStep ==
    ASSUME IInv, NEW r \in Run, Abandon(r)
    PROVE  IInv'
<1> USE DEF IInv
<1>1. /\ abandoned' = abandoned \cup Held(r)
      /\ pc' = [pc EXCEPT ![r] = "idle"]
      /\ taken' = [taken EXCEPT ![r] = [d \in Delivery |-> 0]]
      /\ at' = [at EXCEPT ![r] = None]
      /\ key' = [key EXCEPT ![r] = 0]
      /\ answer' = [answer EXCEPT ![r] = 0]
      /\ UNCHANGED <<endpoints, chosen, rows, posts, acked, floor>>
  BY DEF Abandon
<1>2. TypeOK'
  <2>1. 0 \in 0..MaxSecret /\ 0 \in 0..MaxAttempts /\ Held(r) \subseteq Delivery
    BY LimitsPositive DEF Held
  <2>2. QED
    BY <1>1, <2>1 DEF TypeOK, Step, endpoints, rows
<1>3. \A q \in Run : q # r => /\ pc'[q] = pc[q] /\ taken'[q] = taken[q] /\ at'[q] = at[q]
                              /\ key'[q] = key[q] /\ answer'[q] = answer[q]
  BY <1>1 DEF TypeOK
<1>4. pc'[r] = "idle" /\ \A d \in Delivery : taken'[r][d] = 0
  BY <1>1 DEF TypeOK
<1>5. \A d \in Delivery : d \in abandoned' <=> (d \in abandoned \/ taken[r][d] # 0)
  BY <1>1 DEF Held
<1>6. ASSUME NEW d \in Delivery PROVE RowInv(d)'
  <2>1. RowInv(d) /\ HoldInv(r, d)
    BY DEF Rows, Holds
  <2>2. d \in abandoned' =>
            status[d] = "CLAIMED" /\ (posts[d] = attempts[d] \/ posts[d] + 1 = attempts[d])
    BY <1>5, <2>1 DEF RowInv, HoldInv
  <2>3. status[d] = "CLAIMED" => d \in abandoned' \/ \E q \in Run : taken'[q][d] # 0
    BY <1>3, <1>5, <2>1 DEF RowInv
  <2>4. QED
    BY <1>1, <2>1, <2>2, <2>3 DEF RowInv, endpoints, rows
<1>7. ASSUME NEW q \in Run, NEW d \in Delivery PROVE HoldInv(q, d)'
  <2>1. HoldInv(q, d)
    BY DEF Holds
  <2>2. CASE q = r
    BY <1>4, <2>2 DEF HoldInv
  <2>3. CASE q # r
    <3>1. taken[q][d] # 0 => d \notin abandoned'
      BY <1>5, <2>1, <2>3 DEF HoldInv
    <3>2. \A p \in Run : taken'[p][d] # 0 => taken[p][d] # 0
      BY <1>3, <1>4
    <3>3. QED
      BY <1>1, <1>3, <2>1, <2>3, <3>1, <3>2 DEF HoldInv, rows
  <2>4. QED
    BY <2>2, <2>3
<1>8. ASSUME NEW q \in Run PROVE TurnInv(q)'
  <2>1. TurnInv(q)
    BY DEF Turns
  <2>2. QED
    BY <1>1, <1>3, <1>4, <2>1 DEF TurnInv
<1>9. QED
  BY <1>1, <1>2, <1>6, <1>7, <1>8 DEF Rows, Holds, Turns, FirstSecret, endpoints

LEMMA NextInv == IInv /\ [Next]_vars => IInv'
<1> SUFFICES ASSUME IInv, [Next]_vars PROVE IInv'
  OBVIOUS
<1>1. CASE \E e \in Endpoint : Manage(e)
  BY <1>1, ManageStep
<1>2. CASE \E v \in Event : Enqueue(v)
  BY <1>2, EnqueueStep
<1>3. CASE \E d \in Delivery : BackoffElapses(d)
  BY <1>3, BackoffStep
<1>4. ASSUME NEW r \in Run, Claim(r) \/ Work(r) \/ Abandon(r) PROVE IInv'
  BY <1>4, ClaimStep, ReadStep, EndStep, PostStep, AbandonStep DEF Work
<1>5. CASE UNCHANGED vars
  <2>1. UNCHANGED <<endpoints, chosen, rows, local, history>>
    BY <1>5 DEF vars, endpoints, rows, local, history
  <2>2. TypeOK'
    BY <2>1 DEF IInv, TypeOK, endpoints, rows, local, history
  <2>3. Rows'
    BY <2>1 DEF IInv, Rows, RowInv, endpoints, rows, local, history
  <2>4. Holds' /\ Turns'
    BY <2>1, LocalKept DEF IInv, rows
  <2>5. QED
    BY <2>1, <2>2, <2>3, <2>4 DEF IInv, FirstSecret, endpoints
<1>6. QED
  BY <1>1, <1>2, <1>3, <1>4, <1>5 DEF Next

-------------------------------------------------------------------------------
(* The theorems.                                                           *)

\* The inductive invariant holds in every reachable state.
THEOREM DeliveryInvariance == Spec => []IInv
BY InitInv, NextInv, PTL DEF Spec

\* Endpoints, rows and runs stay within their types; in particular no row is
\* claimed more than max_attempts times, although only the worker that requeues
\* it compares the two.
THEOREM DeliveryTypeCorrect == Spec => []TypeOK
<1>1. IInv => TypeOK
  BY DEF IInv
<1>2. QED
  BY <1>1, DeliveryInvariance, PTL

\* However many runs overlap, a claimed row has one of them working on it, with
\* an accurate copy, or none if its run was cut off.
THEOREM Exclusive == Spec => []HeldExclusively
BY ImpliesExclusive, DeliveryInvariance, PTL

\* attempt_count is the number of calls to the consumer, up to an attempt that
\* made none.
THEOREM Counted == Spec => []AttemptsCounted
BY ImpliesCounted, DeliveryInvariance, PTL

\* DELIVERED and DEAD_LETTER say what happened at the consumer.
THEOREM Deserved == Spec => []OutcomeIsDeserved
BY ImpliesDeserved, DeliveryInvariance, PTL

\* No payload is signed with a secret that was replaced before the claim.
THEOREM Fresh == Spec => []FreshSecret
BY ImpliesFresh, DeliveryInvariance, PTL

\* What one step does to the status and the counters of a row.
LEMMA RowStep ==
    ASSUME IInv, [Next]_vars, NEW d \in Delivery
    PROVE  /\ status[d] \in Terminal => status'[d] = status[d] /\ attempts'[d] = attempts[d]
           /\ status[d] \in Terminal \/ d \in acked => posts'[d] = posts[d]
<1> USE DEF IInv
<1> DEFINE Goal == /\ status[d] \in Terminal => status'[d] = status[d] /\ attempts'[d] = attempts[d]
                   /\ status[d] \in Terminal \/ d \in acked => posts'[d] = posts[d]
<1>1. ASSUME UNCHANGED <<status, attempts, posts>> PROVE Goal
  BY <1>1
<1>2. CASE \E e \in Endpoint : Manage(e)
  BY <1>1, <1>2 DEF Manage, CreateEndpoint, UpdateEndpoint, RotateSecret, rows, history
<1>3. ASSUME NEW v \in Event, Enqueue(v) PROVE Goal
  <2>1. CASE SelectEndpoints(v) \/ EnqueueFails(v)
    BY <1>1, <2>1 DEF SelectEndpoints, EnqueueFails, rows, history
  <2>2. CASE InsertRows(v)
    BY <2>2 DEF InsertRows, history, Terminal
  <2>3. QED
    BY <1>3, <2>1, <2>2 DEF Enqueue
<1>4. CASE \E c \in Delivery : BackoffElapses(c)
  BY <1>1, <1>4 DEF BackoffElapses, history
<1>5. ASSUME NEW r \in Run, Claim(r) \/ Work(r) \/ Abandon(r) PROVE Goal
  <2>1. CASE Claim(r)
    BY <2>1 DEF Claim, Claimable, Terminal
  <2>2. CASE ReadEndpoint(r)
    BY <1>1, <2>2 DEF ReadEndpoint, rows, history
  <2>3. CASE Abandon(r)
    BY <1>1, <2>3 DEF Abandon, rows
  <2>4. CASE Post(r)
    <3>1. /\ pc[r] = "post" /\ posts' = [posts EXCEPT ![at[r]] = @ + 1]
          /\ UNCHANGED <<status, attempts>>
      BY <2>4 DEF Post, rows
    <3>2. at[r] \in Delivery /\ status[at[r]] = "CLAIMED" /\ at[r] \notin acked
      BY <3>1 DEF Turns, TurnInv, Holds, HoldInv
    <3>3. CASE d = at[r]
      BY <3>1, <3>2, <3>3 DEF Terminal
    <3>4. CASE d # at[r]
      BY <3>1, <3>4 DEF TypeOK
    <3>5. QED
      BY <3>3, <3>4
  <2>5. CASE DropInactive(r) \/ MarkDelivered(r) \/ MarkDeadLetter(r) \/ Requeue(r)
    <3>1. PICK s \in DeliveryStatus : SetStatus(at[r], s)
      BY <2>5 DEF DropInactive, MarkDelivered, MarkDeadLetter, Requeue, DeliveryStatus
    <3>2. pc[r] \in {"drop", "write"} /\ UNCHANGED <<attempts, posts>>
      BY <2>5 DEF DropInactive, MarkDelivered, MarkDeadLetter, Requeue, history
    <3>3. status[at[r]] = "CLAIMED"
      BY <3>2 DEF Turns, TurnInv, Holds, HoldInv
    <3>4. status[d] \in Terminal => status'[d] = status[d]
      BY <3>1, <3>3 DEF SetStatus, Terminal, TypeOK
    <3>5. QED
      BY <3>2, <3>4
  <2>6. QED
    BY <1>5, <2>1, <2>2, <2>3, <2>4, <2>5 DEF Work
<1>6. CASE UNCHANGED vars
  BY <1>1, <1>6 DEF vars
<1>7. QED
  BY <1>2, <1>3, <1>4, <1>5, <1>6 DEF Next

\* A delivery is final once it is DELIVERED or DEAD_LETTER, though the UPDATEs
\* of the worker do not look at the status.
THEOREM SettledForGood == Spec => SettledIsFinal
<1>1. IInv /\ [Next]_vars =>
          [\A d \in Delivery : status[d] \in Terminal =>
              status'[d] = status[d] /\ attempts'[d] = attempts[d] /\ posts'[d] = posts[d]]_vars
  BY RowStep
<1>2. QED
  BY <1>1, DeliveryInvariance, PTL DEF Spec, SettledIsFinal

\* A consumer that answered 2xx is never called again for the event.
THEOREM NeverReposted == Spec => NotRepostedOnceAcknowledged
<1>1. IInv /\ [Next]_vars => [\A d \in acked : posts'[d] = posts[d]]_vars
  <2>1. IInv => acked \subseteq Delivery
    BY DEF IInv, TypeOK
  <2>2. QED
    BY <2>1, RowStep
<1>2. QED
  BY <1>1, DeliveryInvariance, PTL DEF Spec, NotRepostedOnceAcknowledged


-------------------------------------------------------------------------------
(* No delivery is worked on for ever.                                      *)

\* A run is at the delivery in this turn of its loop, and has its answer.
InTurn(d) == \E r \in Run : at[r] = d /\ pc[r] \in {"drop", "post", "write"}
Posted(d) == \E r \in Run : at[r] = d /\ pc[r] = "write"

\* The steps that are left of an attempt: from the backoff to the answer.
Stage(d) ==
    IF status[d] = "PENDING" THEN IF d \in due THEN 0 ELSE 1
    ELSE IF Posted(d) THEN 2
    ELSE IF InTurn(d) THEN 3 ELSE 4

\* The steps that are left of a delivery, at most.
Rank(d) ==
    IF status[d] \in Terminal \/ d \in abandoned THEN 0
    ELSE IF status[d] = "absent" THEN 5 * MaxAttempts + 1
    ELSE 5 * (MaxAttempts - attempts[d]) + Stage(d)

RowOf(d) == <<status[d], attempts[d], d \in due, code[d], d \in inactive, posts[d]>>

\* A run is in a turn with a row that it holds and that is CLAIMED.
LEMMA TurnHolds ==
    ASSUME IInv, NEW r \in Run, pc[r] \in {"drop", "post", "write"}
    PROVE  /\ at[r] \in Delivery /\ taken[r][at[r]] # 0
           /\ status[at[r]] = "CLAIMED" /\ at[r] \notin abandoned
BY DEF IInv, Turns, TurnInv, Holds, HoldInv

\* The steps that bring a delivery forward.
LEMMA Lowered ==
    ASSUME IInv, IInv', NEW d \in Delivery,
           \/ status[d] = "absent" /\ status'[d] = "PENDING" /\ d \in due'
           \/ status[d] = "PENDING" /\ d \notin due /\ status'[d] = "PENDING" /\ d \in due'
              /\ attempts'[d] = attempts[d]
           \/ status[d] = "PENDING" /\ status'[d] = "CLAIMED"
              /\ attempts'[d] = attempts[d] + 1
           \/ /\ status[d] = "CLAIMED" /\ d \notin abandoned /\ attempts'[d] = attempts[d]
              /\ \/ status'[d] \in Terminal \/ d \in abandoned'
                 \/ status'[d] = "PENDING"
                 \/ status'[d] = "CLAIMED" /\ ~InTurn(d) /\ InTurn(d)'
                 \/ status'[d] = "CLAIMED" /\ ~Posted(d) /\ InTurn(d) /\ Posted(d)'
    PROVE  Rank(d)' < Rank(d)
<1>1. /\ MaxAttempts \in Nat
      /\ attempts[d] \in 0 .. MaxAttempts /\ attempts'[d] \in 0 .. MaxAttempts
  BY LimitsPositive DEF IInv, TypeOK
<1>2. /\ d \in abandoned => status[d] = "CLAIMED"
      /\ d \in abandoned' => status'[d] = "CLAIMED"
      /\ status[d] = "PENDING" => attempts[d] < MaxAttempts
      /\ status'[d] = "PENDING" => attempts'[d] < MaxAttempts
  BY DEF IInv, Rows, RowInv
<1>3. Posted(d) => InTurn(d)
  BY DEF Posted, InTurn
<1>4. QED
  BY <1>1, <1>2, <1>3 DEF Rank, Stage, Terminal

\* What concerns a delivery is as before.
Untouched(d) ==
    /\ RowOf(d)' = RowOf(d)
    /\ d \in abandoned' <=> d \in abandoned
    /\ InTurn(d)' <=> InTurn(d)
    /\ Posted(d)' <=> Posted(d)

LEMMA UntouchedRank ==
    ASSUME NEW d \in Delivery, Untouched(d)
    PROVE  Rank(d)' = Rank(d)
<1>1. /\ status'[d] = status[d] /\ attempts'[d] = attempts[d]
      /\ d \in due' <=> d \in due
      /\ d \in abandoned' <=> d \in abandoned
  BY DEF Untouched, RowOf
<1>2. Stage(d)' = Stage(d)
  BY <1>1 DEF Stage, Untouched
<1>3. QED
  BY <1>1, <1>2 DEF Rank

\* A run in whose turn the delivery is not, before or after, does not touch it.
LEMMA OtherTurn ==
    ASSUME NEW d \in Delivery, NEW r \in Run,
           pc[r] \in {"idle", "next"} \/ at[r] # d,
           pc'[r] \in {"idle", "next"} \/ at'[r] # d,
           \A q \in Run : q # r => at'[q] = at[q] /\ pc'[q] = pc[q]
    PROVE  /\ InTurn(d)' <=> InTurn(d)
           /\ Posted(d)' <=> Posted(d)
BY DEF InTurn, Posted

Advances(d) == Untouched(d) \/ Rank(d)' < Rank(d)

\* Endpoints, events and time bring deliveries forward or let them be.
LEMMA OutsideAdvances ==
    ASSUME IInv, IInv', NEW d \in Delivery,
           \/ \E e \in Endpoint : Manage(e)
           \/ \E v \in Event : Enqueue(v)
           \/ \E c \in Delivery : BackoffElapses(c)
           \/ UNCHANGED vars
    PROVE  Advances(d)
<1>1. ASSUME UNCHANGED <<rows, local, history>> PROVE Untouched(d)
  BY <1>1 DEF Untouched, RowOf, InTurn, Posted, rows, local, history
<1>2. CASE \E e \in Endpoint : Manage(e)
  BY <1>1, <1>2 DEF Manage, CreateEndpoint, UpdateEndpoint, RotateSecret, Advances
<1>3. ASSUME NEW v \in Event, Enqueue(v) PROVE Advances(d)
  <2>1. CASE SelectEndpoints(v) \/ EnqueueFails(v)
    BY <1>1, <2>1 DEF SelectEndpoints, EnqueueFails, Advances
  <2>2. CASE InsertRows(v)
    <3> DEFINE new == {c \in chosen[v] \X {v} : status[c] = "absent"}
    <3>1. /\ status' = [c \in Delivery |-> IF c \in new THEN "PENDING" ELSE status[c]]
          /\ due' = due \cup new
          /\ UNCHANGED <<attempts, code, inactive, local, history>>
      BY <2>2 DEF InsertRows
    <3>2. CASE d \in new
      <4>1. status[d] = "absent" /\ status'[d] = "PENDING" /\ d \in due'
        BY <3>1, <3>2
      <4>2. QED
        BY <4>1, Lowered DEF Advances
    <3>3. CASE d \notin new
      <4>1. status'[d] = status[d] /\ (d \in due' <=> d \in due)
        BY <3>1, <3>3
      <4>2. Untouched(d)
        BY <3>1, <4>1 DEF Untouched, RowOf, InTurn, Posted, local, history
      <4>3. QED
        BY <4>2 DEF Advances
    <3>4. QED
      BY <3>2, <3>3
  <2>3. QED
    BY <1>3, <2>1, <2>2 DEF Enqueue
<1>4. ASSUME NEW c \in Delivery, BackoffElapses(c) PROVE Advances(d)
  <2>1. /\ status[c] = "PENDING" /\ c \notin due /\ due' = due \cup {c}
        /\ UNCHANGED <<status, attempts, code, inactive, local, history>>
    BY <1>4 DEF BackoffElapses
  <2>2. CASE d = c
    BY <2>1, <2>2, Lowered DEF Advances
  <2>3. CASE d # c
    <3>1. d \in due' <=> d \in due
      BY <2>1, <2>3
    <3>2. Untouched(d)
      BY <2>1, <3>1 DEF Untouched, RowOf, InTurn, Posted, local, history
    <3>3. QED
      BY <3>2 DEF Advances
  <2>4. QED
    BY <2>2, <2>3
<1>5. CASE UNCHANGED vars
  BY <1>1, <1>5 DEF vars, rows, local, history, Advances
<1>6. QED
  BY <1>2, <1>3, <1>4, <1>5

\* So do the steps of a run, each of which brings one forward.
Works(r) == Claim(r) \/ Work(r)

LEMMA ClaimAdvances ==
    ASSUME IInv, IInv', NEW r \in Run, Claim(r)
    PROVE  /\ \A d \in Delivery : Advances(d)
           /\ \E d \in Delivery : Rank(d)' < Rank(d)
<1>1. PICK S \in SUBSET Claimable :
          /\ S # {}
          /\ status' = [d \in Delivery |-> IF d \in S THEN "CLAIMED" ELSE status[d]]
          /\ attempts' = [d \in Delivery |-> IF d \in S THEN attempts[d] + 1 ELSE attempts[d]]
  BY DEF Claim
<1>2. /\ pc[r] = "idle" /\ pc' = [pc EXCEPT ![r] = "next"]
      /\ UNCHANGED <<due, code, inactive, at, posts, abandoned>>
  BY DEF Claim
<1>3. S \subseteq Delivery /\ \A d \in S : status[d] = "PENDING"
  BY DEF Claimable, IInv, TypeOK
<1>4. ASSUME NEW d \in S PROVE Rank(d)' < Rank(d)
  BY <1>1, <1>3, Lowered
<1>5. ASSUME NEW d \in Delivery, d \notin S PROVE Untouched(d)
  <2>1. pc'[r] = "next" /\ \A q \in Run : q # r => pc'[q] = pc[q] /\ at'[q] = at[q]
    BY <1>2 DEF IInv, TypeOK
  <2>2. (InTurn(d)' <=> InTurn(d)) /\ (Posted(d)' <=> Posted(d))
    BY <1>2, <2>1, OtherTurn
  <2>3. status'[d] = status[d] /\ attempts'[d] = attempts[d]
    BY <1>1, <1>5
  <2>4. QED
    BY <1>2, <2>2, <2>3 DEF Untouched, RowOf
<1>6. QED
  BY <1>1, <1>3, <1>4, <1>5 DEF Advances

LEMMA ReadAdvances ==
    ASSUME IInv, IInv', NEW r \in Run, ReadEndpoint(r)
    PROVE  /\ \A d \in Delivery : Advances(d)
           /\ \E d \in Delivery : Rank(d)' < Rank(d)
<1>1. PICK c \in Held(r) :
          /\ at' = [at EXCEPT ![r] = c]
          /\ pc' = [pc EXCEPT ![r] = IF state[c[1]] = "ACTIVE" THEN "post" ELSE "drop"]
  BY DEF ReadEndpoint
<1>2. pc[r] = "next" /\ UNCHANGED <<status, attempts, due, code, inactive, posts, abandoned>>
  BY DEF ReadEndpoint, rows, history
<1>3. /\ at'[r] = c /\ pc'[r] \in {"drop", "post"}
      /\ \A q \in Run : q # r => at'[q] = at[q] /\ pc'[q] = pc[q]
  BY <1>1 DEF IInv, TypeOK
<1>4. c \in Delivery /\ taken[r][c] # 0
  BY DEF Held
<1>5. status[c] = "CLAIMED" /\ c \notin abandoned /\ \A q \in Run : taken[q][c] # 0 => q = r
  BY <1>4 DEF IInv, Holds, HoldInv
<1>6. ~InTurn(c)
  <2>1. SUFFICES ASSUME NEW q \in Run, at[q] = c, pc[q] \in {"drop", "post", "write"}
                 PROVE  FALSE
    BY DEF InTurn
  <2>2. q = r
    BY <1>5, <2>1, TurnHolds
  <2>3. QED
    BY <1>2, <2>1, <2>2
<1>7. InTurn(c)'
  BY <1>3 DEF InTurn
<1>8. Rank(c)' < Rank(c)
  BY <1>2, <1>4, <1>5, <1>6, <1>7, Lowered
<1>9. ASSUME NEW d \in Delivery, d # c PROVE Untouched(d)
  <2>1. (InTurn(d)' <=> InTurn(d)) /\ (Posted(d)' <=> Posted(d))
    BY <1>2, <1>3, <1>9, OtherTurn
  <2>2. QED
    BY <1>2, <2>1 DEF Untouched, RowOf
<1>10. QED
  BY <1>4, <1>8, <1>9 DEF Advances

LEMMA PostAdvances ==
    ASSUME IInv, IInv', NEW r \in Run, Post(r)
    PROVE  /\ \A d \in Delivery : Advances(d)
           /\ \E d \in Delivery : Rank(d)' < Rank(d)
<1>1. /\ pc[r] = "post" /\ pc' = [pc EXCEPT ![r] = "write"]
      /\ posts' = [posts EXCEPT ![at[r]] = @ + 1]
      /\ UNCHANGED <<status, attempts, due, code, inactive, at, abandoned>>
  BY DEF Post, rows
<1>2. PICK c \in Delivery : c = at[r] /\ status[c] = "CLAIMED" /\ c \notin abandoned
                            /\ taken[r][c] # 0
  BY <1>1, TurnHolds
<1>3. \A q \in Run : taken[q][c] # 0 => q = r
  BY <1>2 DEF IInv, Holds, HoldInv
<1>4. pc'[r] = "write" /\ \A q \in Run : q # r => pc'[q] = pc[q] /\ at'[q] = at[q]
  BY <1>1 DEF IInv, TypeOK
<1>5. InTurn(c) /\ Posted(c)'
  BY <1>1, <1>2, <1>4 DEF InTurn, Posted
<1>6. ~Posted(c)
  <2>1. SUFFICES ASSUME NEW q \in Run, at[q] = c, pc[q] = "write" PROVE FALSE
    BY DEF Posted
  <2>2. q = r
    BY <1>3, <2>1, TurnHolds
  <2>3. QED
    BY <1>1, <2>1, <2>2
<1>7. Rank(c)' < Rank(c)
  BY <1>1, <1>2, <1>5, <1>6, Lowered
<1>8. ASSUME NEW d \in Delivery, d # c PROVE Untouched(d)
  <2>1. posts'[d] = posts[d] /\ at[r] # d /\ at'[r] # d
    BY <1>1, <1>2, <1>8 DEF IInv, TypeOK
  <2>2. (InTurn(d)' <=> InTurn(d)) /\ (Posted(d)' <=> Posted(d))
    BY <1>4, <2>1, OtherTurn
  <2>3. QED
    BY <1>1, <2>1, <2>2 DEF Untouched, RowOf
<1>9. QED
  BY <1>7, <1>8 DEF Advances

LEMMA EndAdvances ==
    ASSUME IInv, IInv', NEW r \in Run,
           DropInactive(r) \/ MarkDelivered(r) \/ MarkDeadLetter(r) \/ Requeue(r)
    PROVE  /\ \A d \in Delivery : Advances(d)
           /\ \E d \in Delivery : Rank(d)' < Rank(d)
<1>1. /\ pc[r] \in {"drop", "write"} /\ NextTurn(r) /\ UNCHANGED <<attempts, posts, abandoned>>
      /\ \E s \in {"PENDING", "DELIVERED", "DEAD_LETTER"} : SetStatus(at[r], s)
      /\ \E a : code' = [code EXCEPT ![at[r]] = a]
      /\ due' \in {due, due \ {at[r]}}
      /\ inactive' \in {inactive \cup {at[r]}, inactive \ {at[r]}}
  BY DEF DropInactive, MarkDelivered, MarkDeadLetter, Requeue, history
<1>2. PICK c \in Delivery : c = at[r] /\ status[c] = "CLAIMED" /\ c \notin abandoned
  BY <1>1, TurnHolds
<1>3. /\ pc'[r] \in {"idle", "next"}
      /\ \A q \in Run : q # r => pc'[q] = pc[q] /\ at'[q] = at[q]
  BY <1>1 DEF NextTurn, IInv, TypeOK
<1>4. status'[c] = "PENDING" \/ status'[c] \in Terminal
  BY <1>1, <1>2 DEF SetStatus, Terminal, IInv, TypeOK
<1>5. Rank(c)' < Rank(c)
  BY <1>1, <1>2, <1>4, Lowered
<1>6. ASSUME NEW d \in Delivery, d # c PROVE Untouched(d)
  <2>1. /\ status'[d] = status[d] /\ code'[d] = code[d]
        /\ d \in due' <=> d \in due
        /\ d \in inactive' <=> d \in inactive
    BY <1>1, <1>2, <1>6 DEF SetStatus, IInv, TypeOK
  <2>2. (InTurn(d)' <=> InTurn(d)) /\ (Posted(d)' <=> Posted(d))
    BY <1>2, <1>3, <1>6, OtherTurn
  <2>3. QED
    BY <1>1, <2>1, <2>2 DEF Untouched, RowOf
<1>7. QED
  BY <1>5, <1>6 DEF Advances

\* A run that is cut off leaves its rows behind for good, and touches no other.
LEMMA AbandonAdvances ==
    ASSUME IInv, IInv', NEW r \in Run, Abandon(r), NEW d \in Delivery
    PROVE  IF d \in Held(r) THEN RowOf(d)' = RowOf(d) /\ Rank(d)' < Rank(d) ELSE Untouched(d)
<1>1. /\ abandoned' = abandoned \cup Held(r) /\ pc' = [pc EXCEPT ![r] = "idle"]
      /\ at' = [at EXCEPT ![r] = None]
      /\ UNCHANGED <<status, attempts, due, code, inactive, posts>>
  BY DEF Abandon, rows
<1>2. RowOf(d)' = RowOf(d)
  BY <1>1 DEF RowOf
<1>3. CASE d \in Held(r)
  <2>1. status[d] = "CLAIMED" /\ d \notin abandoned
    BY <1>3 DEF Held, IInv, Holds, HoldInv
  <2>2. QED
    BY <1>1, <1>2, <1>3, <2>1, Lowered
<1>4. CASE d \notin Held(r)
  <2>1. pc[r] \in {"idle", "next"} \/ at[r] # d
    BY <1>4, TurnHolds DEF Held, IInv, TypeOK, Step
  <2>2. pc'[r] = "idle" /\ \A q \in Run : q # r => pc'[q] = pc[q] /\ at'[q] = at[q]
    BY <1>1 DEF IInv, TypeOK
  <2>3. (InTurn(d)' <=> InTurn(d)) /\ (Posted(d)' <=> Posted(d))
    BY <2>1, <2>2, OtherTurn
  <2>4. QED
    BY <1>1, <1>2, <1>4, <2>3 DEF Untouched
<1>5. QED
  BY <1>3, <1>4

LEMMA StepAdvances ==
    ASSUME IInv, IInv', [Next]_vars
    PROVE  /\ \A d \in Delivery : Advances(d)
           /\ (\E r \in Run : Works(r)) => \E d \in Delivery : Rank(d)' < Rank(d)
<1>1. ASSUME NEW r \in Run, Works(r)
      PROVE  /\ \A d \in Delivery : Advances(d)
             /\ \E d \in Delivery : Rank(d)' < Rank(d)
  BY <1>1, ClaimAdvances, ReadAdvances, PostAdvances, EndAdvances DEF Works, Work
<1>2. ASSUME NEW r \in Run, Abandon(r), NEW d \in Delivery PROVE Advances(d)
  BY <1>2, AbandonAdvances DEF Advances
<1>3. ASSUME NEW d \in Delivery PROVE Advances(d)
  BY <1>1, <1>2, OutsideAdvances DEF Next, Works
<1>4. QED
  BY <1>1, <1>3

\* A delivery has at most 5 * MaxAttempts + 1 steps before it, and none exactly when
\* it is settled or its run was cut off.
RankMeasures ==
    \A d \in Delivery :
        /\ Rank(d) \in 0 .. 5 * MaxAttempts + 1
        /\ Rank(d) = 0 <=> status[d] \in Terminal \/ d \in abandoned

\* Deliveries only go forward: nothing that endpoints, events, workers or time do
\* makes the steps more that a delivery has before it, whatever changes its row or
\* calls its consumer makes them fewer, and so does every step of a run for some
\* delivery.
DeliveriesAdvance ==
    [][/\ \A d \in Delivery :
             /\ Rank(d)' <= Rank(d)
             /\ RowOf(d)' # RowOf(d) => Rank(d)' < Rank(d)
       /\ (\E r \in Run : Works(r)) => \E d \in Delivery : Rank(d)' < Rank(d)]_vars

LEMMA RankBounds == IInv => RankMeasures
<1> SUFFICES ASSUME IInv, NEW d \in Delivery
             PROVE  /\ Rank(d) \in 0 .. 5 * MaxAttempts + 1
                    /\ Rank(d) = 0 <=> status[d] \in Terminal \/ d \in abandoned
  BY DEF RankMeasures
<1>1. MaxAttempts \in Nat \ {0} /\ attempts[d] \in 0 .. MaxAttempts
  BY LimitsPositive DEF IInv, TypeOK
<1>2. CASE status[d] = "CLAIMED" /\ d \notin abandoned
  <2>1. PICK r \in Run : taken[r][d] # 0
    BY <1>2 DEF IInv, Rows, RowInv
  <2>2. attempts[d] # 0
    BY <2>1 DEF IInv, Holds, HoldInv
  <2>3. Stage(d) \in 2 .. 4
    BY <1>2 DEF Stage
  <2>4. QED
    BY <1>1, <1>2, <2>2, <2>3 DEF Rank, Terminal
<1>3. CASE status[d] = "PENDING"
  <2>1. Stage(d) \in 0 .. 1 /\ attempts[d] < MaxAttempts /\ d \notin abandoned
    BY <1>3 DEF Stage, IInv, Rows, RowInv
  <2>2. QED
    BY <1>1, <1>3, <2>1 DEF Rank, Terminal
<1>4. CASE status[d] = "absent" \/ status[d] \in Terminal \/ d \in abandoned
  <2>1. status[d] = "absent" => d \notin abandoned
    BY DEF IInv, Rows, RowInv
  <2>2. QED
    BY <1>1, <1>4, <2>1 DEF Rank, Terminal
<1>5. status[d] \in DeliveryStatus
  BY DEF IInv, TypeOK
<1>6. QED
  BY <1>2, <1>3, <1>4, <1>5 DEF DeliveryStatus, Terminal

\* The worker never goes round in circles, which is what Settles rests on besides
\* fairness: no delivery is retried for ever, and no run is busy for ever with the
\* deliveries there are.
THEOREM NeverRetriedForever == Spec => []RankMeasures /\ DeliveriesAdvance
<1> DEFINE Goal == /\ \A d \in Delivery :
                         /\ Rank(d)' <= Rank(d)
                         /\ RowOf(d)' # RowOf(d) => Rank(d)' < Rank(d)
                   /\ (\E r \in Run : Works(r)) => \E d \in Delivery : Rank(d)' < Rank(d)
<1>1. IInv /\ IInv' /\ RankMeasures /\ RankMeasures' /\ [Next]_vars => Goal
  <2> SUFFICES ASSUME IInv, IInv', RankMeasures, RankMeasures', [Next]_vars PROVE Goal
    OBVIOUS
  <2>1. ASSUME NEW d \in Delivery
        PROVE  /\ Rank(d)' <= Rank(d)
               /\ RowOf(d)' # RowOf(d) => Rank(d)' < Rank(d)
    <3>1. Rank(d) \in Nat /\ Rank(d)' \in Nat
      BY DEF RankMeasures
    <3>2. Untouched(d) \/ Rank(d)' < Rank(d)
      BY StepAdvances DEF Advances
    <3>3. Untouched(d) => RowOf(d)' = RowOf(d) /\ Rank(d)' = Rank(d)
      BY UntouchedRank DEF Untouched
    <3>4. QED
      BY <3>1, <3>2, <3>3
  <2>2. QED
    BY <2>1, StepAdvances
<1> HIDE DEF Goal
<1>2. IInv /\ IInv' /\ RankMeasures /\ RankMeasures' /\ [Next]_vars => [Goal]_vars
  BY <1>1
<1>3. Spec /\ []IInv => []RankMeasures /\ [][Goal]_vars
  BY RankBounds, <1>2, PTL DEF Spec
<1>4. QED
  BY <1>3, DeliveryInvariance, PTL DEF DeliveriesAdvance, Goal

\* What a run that was cut off has left behind stays so: CLAIMED, never posted again,
\* and neither delivered nor dead-lettered.
LeftBehind == [][\A d \in abandoned : d \in abandoned' /\ RowOf(d)' = RowOf(d)]_vars

\* No endpoint call, tick or later run takes such a delivery up again: Settles has to
\* make an exception of it.
THEOREM LostForGood == Spec => LeftBehind
<1> DEFINE Goal == \A d \in Delivery :
                      /\ Rank(d)' <= Rank(d)
                      /\ RowOf(d)' # RowOf(d) => Rank(d)' < Rank(d)
           Kept == \A d \in abandoned : d \in abandoned' /\ RowOf(d)' = RowOf(d)
           Facts == IInv /\ RankMeasures
<1>1. Facts /\ Facts' /\ [Next]_vars /\ [Goal]_vars => [Kept]_vars
  <2> SUFFICES ASSUME IInv, RankMeasures, RankMeasures', Next, Goal, NEW d \in abandoned
               PROVE  d \in abandoned' /\ RowOf(d)' = RowOf(d)
    OBVIOUS
  <2>1. d \in Delivery
    BY DEF IInv, TypeOK
  <2>2. Rank(d) = 0 /\ Rank(d)' \in Nat
    BY <2>1 DEF RankMeasures
  <2>3. RowOf(d)' = RowOf(d)
    BY <2>1, <2>2
  <2>4. abandoned \subseteq abandoned'
    BY DEF Next, Manage, CreateEndpoint, UpdateEndpoint, RotateSecret, Enqueue,
           SelectEndpoints, EnqueueFails, InsertRows, BackoffElapses, Claim, Work,
           ReadEndpoint, DropInactive, Post, MarkDelivered, MarkDeadLetter, Requeue,
           Abandon, history
  <2>5. QED
    BY <2>3, <2>4
<1>2. IInv => Facts
  BY RankBounds
<1>3. DeliveriesAdvance => [][Goal]_vars
  <2>1. (/\ \A d \in Delivery :
               /\ Rank(d)' <= Rank(d)
               /\ RowOf(d)' # RowOf(d) => Rank(d)' < Rank(d)
         /\ (\E r \in Run : Works(r)) => \E d \in Delivery : Rank(d)' < Rank(d)) => Goal
    OBVIOUS
  <2> HIDE DEF Goal
  <2>2. QED
    BY <2>1, PTL DEF DeliveriesAdvance
<1> HIDE DEF Goal, Kept, Facts
<1>4. Spec /\ []IInv /\ [][Goal]_vars => [][Kept]_vars
  BY <1>1, <1>2, PTL DEF Spec
<1>5. QED
  BY <1>3, <1>4, DeliveryInvariance, NeverRetriedForever, PTL DEF LeftBehind, Kept
===============================================================================
