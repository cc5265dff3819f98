---------------------------- MODULE ProofPipeline -----------------------------
(***************************************************************************)
(* The proof worker (src/services/proof/proofWorkerService.ts) and the     *)
(* rows it moves: proof.pending messages of the outbox become proof        *)
(* batches and the proof of each event.                                    *)
(*                                                                         *)
(* workerProof.ts starts a run of processNextBatch at every tick, whether  *)
(* the last one has ended or not, and several worker processes may poll    *)
(* one database: a run is a process of its own.  Each transaction of a     *)
(* run is one action.                                                      *)
(*                                                                         *)
(* A message is named by its aggregate_id.  The ledger enqueues one        *)
(* message per event; the messages in Poison name no event, they are put   *)
(* into the outbox by hand (docs/phase-b-runtime-validation.md).           *)
(***************************************************************************)
EXTENDS Naturals, Sequences, FiniteSets

CONSTANTS
    Event,        \* ids of events of the ledger
    Poison,       \* aggregate ids that are not ids of events
    Run,          \* runs of processNextBatch that may be in flight at once
    ClaimLimit,   \* rows that one run claims at most
    MaxAttempts   \* 10 in the code

ASSUME PoisonIsNoEvent == Poison \cap Event = {}
ASSUME AttemptsPositive == MaxAttempts \in Nat \ {0}

VARIABLES
    status,    \* message -> outbox.status, "absent" before it is enqueued
    attempts,  \* message -> outbox.attempt_count
    due,       \* messages whose next_attempt_at has passed
    batches,   \* the sealed batches in order: the events in the leaves of each
    member,    \* event -> batch of its proof_batch_events row, 0 if it has none
    path,      \* event -> batch of its proof_paths row, 0 if it has none
    proof,     \* event -> events.proof_batch_id; READY unless it is 0
    notified,  \* proof.ready payloads enqueued: event and batch of the root
    abandoned, \* CLAIMED messages of runs that were cut off
    pc,        \* run -> what it does next
    claimed,   \* run -> claimedRows
    todo,      \* run -> what is left of the loop it is in
    sealed     \* run -> the batch it has committed

rows == <<status, attempts, due>>
proofs == <<batches, member, path, proof>>
history == <<notified, abandoned>>
local == <<pc, claimed, todo, sealed>>
vars == <<status, attempts, due, batches, member, path, proof, notified, abandoned,
          pc, claimed, todo, sealed>>

Message == Event \cup Poison

MessageStatus == {"absent", "NEW", "CLAIMED", "DONE", "FAILED"}

Step == {"idle", "fetch", "reject", "seal", "notify", "recover"}

Init ==
    /\ status = [m \in Message |-> "absent"]
    /\ attempts = [m \in Message |-> 0]
    /\ due = {}
    /\ batches = <<>>
    /\ member = [e \in Event |-> 0]
    /\ path = [e \in Event |-> 0]
    /\ proof = [e \in Event |-> 0]
    /\ notified = {}
    /\ abandoned = {}
    /\ pc = [r \in Run |-> "idle"]
    /\ claimed = [r \in Run |-> {}]
    /\ todo = [r \in Run |-> {}]
    /\ sealed = [r \in Run |-> 0]

-------------------------------------------------------------------------------
(* Pieces of the actions.                                                  *)

Goto(r, label) == pc' = [pc EXCEPT ![r] = label]

\* processNextBatch returns or throws: the run is over and holds nothing.
Leave(r) ==
    /\ Goto(r, "idle")
    /\ claimed' = [claimed EXCEPT ![r] = {}]
    /\ todo' = [todo EXCEPT ![r] = {}]
    /\ sealed' = [sealed EXCEPT ![r] = 0]

\* One turn of a loop over todo; the run is over after the last.
Turn(r, m) ==
    /\ m \in todo[r]
    /\ IF todo[r] = {m}
       THEN Leave(r)
       ELSE /\ todo' = [todo EXCEPT ![r] = @ \ {m}]
            /\ UNCHANGED <<pc, claimed, sealed>>

\* What claimProofOutboxRows may take.
Claimable == {m \in due : status[m] = "NEW"}

\* The claimed rows whose event fetchProofEventsByIds finds.
Found(r) == claimed[r] \cap Event

\* ON CONFLICT (event_id) DO UPDATE (mutated form).
SetAlways(column, es, b) ==
    [e \in Event |-> IF e \in es THEN b ELSE column[e]]

\* INSERT ... ON CONFLICT (event_id) DO NOTHING for each of the events es, and
\* likewise UPDATE ... WHERE proof_status <> 'READY'.
SetOnce(column, es, b) ==
    [e \in Event |-> IF e \in es /\ column[e] = 0 THEN b ELSE column[e]]

\* markEventProofReady without its guard (mutated form).
PublishUnguarded(r, b) ==
    /\ member' = SetOnce(member, Found(r), b)
    /\ path' = SetOnce(path, Found(r), b)
    /\ proof' = SetAlways(proof, Found(r), b)

\* The loop over the events of the batch stops early (mutated form).
PublishOne(r, b) ==
    LET es == {CHOOSE e \in Found(r) : TRUE}
    IN  /\ member' = SetOnce(member, es, b)
        /\ path' = SetOnce(path, es, b)
        /\ proof' = SetOnce(proof, es, b)

\* insertProofBatchEvent, insertProofPath, markEventProofReady for every event
\* of the batch b.
Publish(r, b) ==
    /\ member' = SetOnce(member, Found(r), b)
    /\ path' = SetOnce(path, Found(r), b)
    /\ proof' = SetOnce(proof, Found(r), b)

\* markOutboxDone for every event of the batch.
MarkDone(r) ==
    status' = [m \in Message |-> IF m \in Found(r) THEN "DONE" ELSE status[m]]

-------------------------------------------------------------------------------
(* Mutated forms of actions.  Like those above Next uses none of them: each *)
(* is a plausible bug that shows a property can fail.                      *)

\* Claims rows that another run still holds.
ClaimStolen(r) ==
    /\ pc[r] = "idle"
    /\ \E S \in SUBSET {m \in due : status[m] \in {"NEW", "CLAIMED"}} :
          /\ S # {}
          /\ claimed' = [claimed EXCEPT ![r] = S]
          /\ status' = [m \in Message |-> IF m \in S THEN "CLAIMED" ELSE status[m]]
          /\ attempts' = [m \in Message |->
                 IF m \in S /\ attempts[m] < MaxAttempts
                 THEN attempts[m] + 1 ELSE attempts[m]]
    /\ Goto(r, "fetch")
    /\ UNCHANGED <<due, proofs, history, todo, sealed>>

\* The notification loop goes over the claimed rows.
SealNotifiesAll(r) ==
    /\ pc[r] = "seal"
    /\ LET b == Len(batches) + 1
       IN  /\ batches' = Append(batches, Found(r))
           /\ sealed' = [sealed EXCEPT ![r] = b]
           /\ Publish(r, b)
    /\ MarkDone(r)
    /\ todo' = [todo EXCEPT ![r] = claimed[r]]
    /\ Goto(r, "notify")
    /\ UNCHANGED <<attempts, due, history, claimed>>

\* attempt_count > 10.
RequeueOnceMore(r, m) ==
    /\ pc[r] = "recover"
    /\ attempts[m] <= MaxAttempts
    /\ status' = [status EXCEPT ![m] = "NEW"]
    /\ due' = due \ {m}
    /\ Turn(r, m)
    /\ UNCHANGED <<attempts, proofs, history>>

\* The error is only logged.
ErrLogged(r) ==
    /\ pc[r] \in {"fetch", "reject", "seal", "notify"}
    /\ Leave(r)
    /\ UNCHANGED <<rows, proofs, history>>

-------------------------------------------------------------------------------
(* The outbox.                                                             *)

\* enqueueOutboxMessage commits with its event, or an operator inserts a row.
Enqueue(m) ==
    /\ status[m] = "absent"
    /\ status' = [status EXCEPT ![m] = "NEW"]
    /\ due' = due \cup {m}
    /\ UNCHANGED <<attempts, proofs, history, local>>

\* The backoff of a message ends.
BackoffOver(m) ==
    /\ m \notin due
    /\ status[m] = "NEW"
    /\ due' = due \cup {m}
    /\ UNCHANGED <<status, attempts, proofs, history, local>>

-------------------------------------------------------------------------------
(* A run of processNextBatch.                                              *)

\* claimProofOutboxRows.  The rows it takes are the oldest; messages carry no
\* age here, so any choice of that many stands for them.
Claim(r) ==
    /\ pc[r] = "idle"
    /\ \E S \in SUBSET Claimable :
          /\ S # {}
          /\ Cardinality(S) <= ClaimLimit
          /\ S = Claimable \/ Cardinality(S) = ClaimLimit
          /\ claimed' = [claimed EXCEPT ![r] = S]
          /\ status' = [m \in Message |-> IF m \in S THEN "CLAIMED" ELSE status[m]]
          /\ attempts' = [m \in Message |-> IF m \in S THEN attempts[m] + 1 ELSE attempts[m]]
    /\ Goto(r, "fetch")
    /\ UNCHANGED <<due, proofs, history, todo, sealed>>

\* fetchProofEventsByIds.  When no claimed row has an event all are rejected;
\* when some have, the others are passed over here and never looked at again.
Fetch(r) ==
    /\ pc[r] = "fetch"
    /\ Goto(r, IF Found(r) = {} THEN "reject" ELSE "seal")
    /\ todo' = [todo EXCEPT ![r] = claimed[r]]
    /\ UNCHANGED <<rows, proofs, history, claimed, sealed>>

\* failOutbox on a poison row, in a transaction of its own.
Reject(r, m) ==
    /\ pc[r] = "reject"
    /\ status' = [status EXCEPT ![m] = "FAILED"]
    /\ Turn(r, m)
    /\ UNCHANGED <<attempts, due, proofs, history>>

\* The batch transaction: createProofBatch, then the proofs and the outbox
\* rows of its events.
Seal(r) ==
    /\ pc[r] = "seal"
    /\ LET b == Len(batches) + 1
       IN  /\ batches' = Append(batches, Found(r))
           /\ sealed' = [sealed EXCEPT ![r] = b]
           /\ Publish(r, b)
    /\ MarkDone(r)
    /\ todo' = [todo EXCEPT ![r] = Found(r)]
    /\ Goto(r, "notify")
    /\ UNCHANGED <<attempts, due, history, claimed>>

\* webhookEvent.enqueueEvent of proof.ready with the root of this run's batch.
Notify(r, e) ==
    /\ pc[r] = "notify"
    /\ notified' = notified \cup {[event |-> e, batch |-> sealed[r]]}
    /\ Turn(r, e)
    /\ UNCHANGED <<rows, proofs, abandoned>>

\* A statement inside the try block throws, its transaction is rolled back.
Err(r) ==
    /\ pc[r] \in {"fetch", "reject", "seal", "notify"}
    /\ Goto(r, "recover")
    /\ todo' = [todo EXCEPT ![r] = claimed[r]]
    /\ UNCHANGED <<rows, proofs, history, claimed, sealed>>

\* The catch block goes through all claimed rows, those already DONE or FAILED
\* included, each in its own transaction.  attempt_count is the one returned
\* by the claim; nobody else has claimed the row since (ExclusiveHold).
Requeue(r, m) ==
    /\ pc[r] = "recover"
    /\ attempts[m] < MaxAttempts
    /\ status' = [status EXCEPT ![m] = "NEW"]
    /\ due' = due \ {m}
    /\ Turn(r, m)
    /\ UNCHANGED <<attempts, proofs, history>>

GiveUp(r, m) ==
    /\ pc[r] = "recover"
    /\ attempts[m] >= MaxAttempts
    /\ status' = [status EXCEPT ![m] = "FAILED"]
    /\ Turn(r, m)
    /\ UNCHANGED <<attempts, due, proofs, history>>

\* The rows that a run may still write.
Hold(r) == IF pc[r] = "recover" THEN todo[r] ELSE claimed[r]

\* The worker process dies, or a statement of the catch block throws and the
\* rest of its loop is skipped.  Nothing resets the rows left CLAIMED.
Crash(r) ==
    /\ pc[r] # "idle"
    /\ Leave(r)
    /\ abandoned' = abandoned \cup {m \in Hold(r) : status[m] = "CLAIMED"}
    /\ UNCHANGED <<rows, proofs, notified>>

Proceed(r) ==
    \/ Claim(r) \/ Fetch(r) \/ Seal(r)
    \/ \E m \in todo[r] : Reject(r, m) \/ Notify(r, m) \/ Requeue(r, m) \/ GiveUp(r, m)

Next ==
    \/ \E m \in Message : Enqueue(m) \/ BackoffOver(m)
    \/ \E r \in Run : Proceed(r) \/ Err(r) \/ Crash(r)

Spec == Init /\ [][Next]_vars

\* Workers keep polling, time passes, and a run that is not cut off goes on.
\* Nothing is said of Enqueue, Err and Crash, which need not happen.
FairSpec ==
    /\ Spec
    /\ \A r \in Run : WF_vars(Proceed(r))
    /\ \A m \in Message : WF_vars(BackoffOver(m))

-------------------------------------------------------------------------------
(* Properties.                                                             *)

\* Every variable has its type.
TypeOK ==
    /\ status \in [Message -> MessageStatus]
    /\ attempts \in [Message -> Nat]
    /\ due \subseteq Message
    /\ batches \in Seq(SUBSET Event)
    /\ member \in [Event -> Nat]
    /\ path \in [Event -> Nat]
    /\ proof \in [Event -> Nat]
    /\ notified \subseteq [event : Event, batch : Nat]
    /\ abandoned \subseteq Message
    /\ pc \in [Run -> Step]
    /\ claimed \in [Run -> SUBSET Message]
    /\ todo \in [Run -> SUBSET Message]
    /\ sealed \in [Run -> Nat]
    /\ \A r \in Run :
          /\ todo[r] \subseteq claimed[r]
          /\ pc[r] = "notify" => todo[r] \subseteq Event

\* What the proof query joins together belongs together: an event is READY
\* exactly when it has its leaf and its path, all three of one batch that has
\* the event in its tree.  Runs that batch an event twice could mix them.
ProofLinked ==
    \A e \in Event :
        /\ member[e] = proof[e]
        /\ path[e] = proof[e]
        /\ proof[e] # 0 => proof[e] \in DOMAIN batches /\ e \in batches[proof[e]]

\* Whatever says that an event has been proved is right, now and for ever: a
\* sealed batch that has it in its leaves, its DONE message, a proof.ready that
\* names a batch.  The proof is in that batch or, if the event was batched
\* before, in an earlier one.
LeavesProved ==
    \A b \in DOMAIN batches : \A e \in batches[b] : proof[e] \in 1 .. b

DoneIsProved ==
    \A m \in Message : status[m] = "DONE" => m \in Event /\ proof[m] # 0

NotifiedIsProved ==
    \A n \in notified :
        /\ n.batch \in DOMAIN batches
        /\ n.event \in batches[n.batch]
        /\ proof[n.event] \in 1 .. n.batch

SaidIsProved == LeavesProved /\ DoneIsProved /\ NotifiedIsProved

\* The rows that a run may still write are its own, and nobody can claim them:
\* of two overlapping runs none undoes what the other does with its rows.  A
\* CLAIMED message of an event is in the hands of a run, or of one that was cut
\* off: claimed_at is never read, so nothing takes such a row back.
HeldApart ==
    \A r \in Run :
        /\ \A s \in Run \ {r} : Hold(r) \cap Hold(s) = {}
        /\ \A m \in Hold(r) : status[m] \in {"CLAIMED", "DONE", "FAILED"}

ClaimedIsHeld ==
    /\ \A e \in Event :
          status[e] = "CLAIMED" => e \in abandoned \/ \E r \in Run : e \in Hold(r)
    /\ \A m \in abandoned : status[m] = "CLAIMED" /\ \A r \in Run : m \notin Hold(r)

ExclusiveHold == HeldApart /\ ClaimedIsHeld

\* A message is retried MaxAttempts times at most, and a message that names an
\* event is not given up before.
RetryBudget ==
    \A m \in Message :
        /\ attempts[m] <= MaxAttempts
        /\ status[m] = "FAILED" /\ m \in Event => attempts[m] = MaxAttempts

\* A proof once published is never replaced, and neither is a batch.
ProofsFinal ==
    [][ /\ \A e \in Event : proof[e] # 0 => proof'[e] = proof[e]
        /\ \A b \in DOMAIN batches : b \in DOMAIN batches' /\ batches'[b] = batches[b] ]_vars

\* Whatever transactions fail, a message of the ledger is settled in the end,
\* unless a run is cut off while it holds it.
EveryMessageEnds ==
    \A e \in Event :
        status[e] = "NEW" ~> status[e] \in {"DONE", "FAILED"} \/ e \in abandoned

\* docs/architecture-diagrams.md, outbox states: DONE is final.  The batch
\* transaction makes an event READY and its message DONE together.
ReadyIsDone == \A e \in Event : proof[e] # 0 => status[e] = "DONE"

\* docs/phase-b-runtime-validation.md: a message that names no event ends
\* FAILED.
PoisonFails ==
    \A m \in Poison : status[m] = "NEW" ~> status[m] = "FAILED" \/ m \in abandoned
===============================================================================
