------------------------- MODULE ProofPipelineProofs --------------------------
(***************************************************************************)
(* Proofs about ProofPipeline for any events, poison messages, runs, claim *)
(* limit and number of attempts.                                           *)
(***************************************************************************)
EXTENDS ProofPipeline, TLAPS

-------------------------------------------------------------------------------
(* The inductive invariant.                                                *)

\* What a run knows at each of its steps.
RunOK(r) ==
    /\ pc[r] = "idle" => claimed[r] = {}
    /\ pc[r] = "reject" => claimed[r] \cap Event = {}
    /\ pc[r] = "notify" => sealed[r] \in DOMAIN batches /\ todo[r] \subseteq batches[sealed[r]]

RunInv == \A r \in Run : RunOK(r)

ProofInv == ProofLinked /\ LeavesProved /\ NotifiedIsProved

\* A message that is or will be NEW has an attempt left.
AttemptLeft ==
    \A m \in Message : status[m] \in {"absent", "NEW"} => attempts[m] < MaxAttempts

QueueInv == DoneIsProved /\ RetryBudget /\ AttemptLeft

\* The batch transaction of a run has settled the rows of its events.
NotifyDone ==
    \A r \in Run : pc[r] = "notify" => \A e \in claimed[r] \cap Event : status[e] = "DONE"

ClaimInv == ClaimedIsHeld /\ NotifyDone

IInv == TypeOK /\ RunInv /\ ProofInv /\ QueueInv /\ HeldApart /\ ClaimInv

\* A step in which every run keeps what it holds, gives part of it up, or is
\* over and holds nothing.
Shrink ==
    /\ pc' \in [Run -> Step]
    /\ claimed' \in [Run -> SUBSET Message]
    /\ todo' \in [Run -> SUBSET Message]
    /\ sealed' \in [Run -> Nat]
    /\ \A r \in Run :
          \/ /\ pc'[r] = pc[r] /\ claimed'[r] = claimed[r] /\ sealed'[r] = sealed[r]
             /\ todo'[r] \subseteq todo[r]
          \/ pc'[r] = "idle" /\ claimed'[r] = {} /\ todo'[r] = {}

-------------------------------------------------------------------------------
(* Lemmas about the pieces of the actions.                                 *)

LEMMA LeaveShrinks ==
    ASSUME NEW r \in Run, TypeOK, Leave(r)
    PROVE  Shrink
BY DEF Leave, Goto, Shrink, TypeOK, Step

\* The turn for m ends with m no longer to do.
LEMMA TurnShrinks ==
    ASSUME NEW r \in Run, NEW m, TypeOK, Turn(r, m)
    PROVE  /\ Shrink
           /\ m \in todo[r] /\ m \in claimed[r] /\ m \in Message
           /\ m \notin todo'[r]
<1>1. m \in todo[r] /\ m \in claimed[r] /\ m \in Message
  BY DEF Turn, TypeOK
<1>2. CASE todo[r] = {m}
  <2>1. Leave(r)
    BY <1>2 DEF Turn
  <2>2. m \notin todo'[r]
    BY <2>1 DEF Leave, TypeOK
  <2>3. QED
    BY <1>1, <2>1, <2>2, LeaveShrinks
<1>3. CASE todo[r] # {m}
  <2>1. todo' = [todo EXCEPT ![r] = @ \ {m}] /\ UNCHANGED <<pc, claimed, sealed>>
    BY <1>3 DEF Turn
  <2>2. QED
    BY <1>1, <2>1 DEF Shrink, TypeOK
<1>4. QED
  BY <1>2, <1>3

\* Nothing is lost by holding less.
LEMMA ShrinkKeeps ==
    ASSUME TypeOK, RunInv, Shrink, batches' = batches
    PROVE  /\ RunInv'
           /\ \A r \in Run : Hold(r)' \subseteq Hold(r)
           /\ \A r \in Run : /\ todo'[r] \subseteq claimed'[r]
                             /\ pc'[r] = "notify" => todo'[r] \subseteq Event
<1>1. ASSUME NEW r \in Run
      PROVE  /\ RunOK(r)'
             /\ Hold(r)' \subseteq Hold(r)
             /\ todo'[r] \subseteq claimed'[r]
             /\ pc'[r] = "notify" => todo'[r] \subseteq Event
  <2>1. CASE /\ pc'[r] = pc[r] /\ claimed'[r] = claimed[r] /\ sealed'[r] = sealed[r]
             /\ todo'[r] \subseteq todo[r]
    <3>1. RunOK(r)
      BY DEF RunInv
    <3>2. todo[r] \subseteq claimed[r] /\ (pc[r] = "notify" => todo[r] \subseteq Event)
      BY DEF TypeOK
    <3>3. RunOK(r)'
      BY <2>1, <3>1 DEF RunOK
    <3>4. Hold(r)' \subseteq Hold(r)
      BY <2>1 DEF Hold
    <3>5. QED
      BY <2>1, <3>2, <3>3, <3>4
  <2>2. CASE pc'[r] = "idle" /\ claimed'[r] = {} /\ todo'[r] = {}
    BY <2>2 DEF RunOK, Hold
  <2>3. QED
    BY <2>1, <2>2 DEF Shrink
<1>2. QED
  BY <1>1 DEF RunInv

\* Runs that hold less still hold disjoint rows, and rows that are not NEW if
\* only rows outside what they hold become NEW.
LEMMA SmallerHold ==
    ASSUME HeldApart, \A r \in Run : Hold(r)' \subseteq Hold(r),
           \A r \in Run : \A m \in Hold(r)' : status'[m] \in {"CLAIMED", "DONE", "FAILED"}
    PROVE  HeldApart'
<1>1. \A r \in Run : \A s \in Run \ {r} : Hold(r)' \cap Hold(s)' = {}
  BY DEF HeldApart
<1>2. QED
  BY <1>1 DEF HeldApart

LEMMA ProofsKept ==
    ASSUME ProofInv, UNCHANGED <<proofs, notified>>
    PROVE  ProofInv'
BY DEF ProofInv, proofs, ProofLinked, LeavesProved, NotifiedIsProved

LEMMA QueueKept ==
    ASSUME QueueInv, UNCHANGED <<status, attempts, proof>>
    PROVE  QueueInv'
BY DEF QueueInv, DoneIsProved, RetryBudget, AttemptLeft

LEMMA HoldIsClaimed ==
    ASSUME TypeOK, NEW r \in Run
    PROVE  Hold(r) \subseteq claimed[r] /\ claimed[r] \subseteq Message
BY DEF TypeOK, Hold

-------------------------------------------------------------------------------
(* Each action preserves the invariant.                                    *)

LEMMA InitInv == Init => IInv
<1> SUFFICES ASSUME Init PROVE IInv
  OBVIOUS
<1>1. TypeOK
  BY DEF Init, TypeOK, MessageStatus, Step
<1>2. RunInv /\ HeldApart /\ ClaimInv
  BY DEF Init, RunInv, RunOK, HeldApart, ClaimInv, ClaimedIsHeld, NotifyDone, Hold, Message
<1>3. ProofInv
  BY DEF Init, ProofInv, ProofLinked, LeavesProved, NotifiedIsProved
<1>4. QueueInv
  <2>1. 0 < MaxAttempts /\ MaxAttempts \in Nat
    BY AttemptsPositive
  <2>2. QED
    BY <2>1 DEF Init, QueueInv, DoneIsProved, RetryBudget, AttemptLeft
<1>5. QED
  BY <1>1, <1>2, <1>3, <1>4 DEF IInv

\* Enqueue and BackoffOver: rows that no run holds.
LEMMA OutboxStep ==
    ASSUME IInv, NEW m \in Message, Enqueue(m) \/ BackoffOver(m)
    PROVE  IInv'
<1> USE DEF IInv
<1>1. ASSUME Enqueue(m) PROVE IInv'
  <2>1. TypeOK'
    BY <1>1 DEF Enqueue, proofs, history, local, TypeOK, MessageStatus
  <2>2. RunInv' /\ ProofInv'
    BY <1>1, ProofsKept DEF Enqueue, proofs, history, local, RunInv, RunOK
  <2>3. QueueInv'
    BY <1>1 DEF Enqueue, proofs, QueueInv, DoneIsProved, RetryBudget, AttemptLeft, TypeOK
  <2>4. HeldApart'
    BY <1>1 DEF Enqueue, local, HeldApart, Hold, TypeOK
  <2>5. ClaimInv'
    BY <1>1 DEF Enqueue, local, history, ClaimInv, ClaimedIsHeld, NotifyDone, Hold, TypeOK
  <2>6. QED
    BY <2>1, <2>2, <2>3, <2>4, <2>5
<1>2. ASSUME BackoffOver(m) PROVE IInv'
  <2>1. TypeOK'
    BY <1>2 DEF BackoffOver, proofs, history, local, TypeOK
  <2>2. RunInv' /\ ProofInv' /\ QueueInv'
    BY <1>2, ProofsKept, QueueKept DEF BackoffOver, proofs, history, local, RunInv, RunOK
  <2>3. HeldApart'
    BY <1>2 DEF BackoffOver, local, HeldApart, Hold
  <2>4. ClaimInv'
    BY <1>2 DEF BackoffOver, local, history, ClaimInv, ClaimedIsHeld, NotifyDone, Hold
  <2>5. QED
    BY <2>1, <2>2, <2>3, <2>4
<1>3. QED
  BY <1>1, <1>2

\* Claim: the rows were NEW, so no other run holds them.
LEMMA ClaimStep ==
    ASSUME IInv, NEW r \in Run, Claim(r)
    PROVE  IInv'
<1> USE DEF IInv
<1>1. PICK S \in SUBSET Claimable :
          /\ S # {}
          /\ claimed' = [claimed EXCEPT ![r] = S]
          /\ status' = [m \in Message |-> IF m \in S THEN "CLAIMED" ELSE status[m]]
          /\ attempts' = [m \in Message |-> IF m \in S THEN attempts[m] + 1 ELSE attempts[m]]
  BY DEF Claim
<1>2. /\ pc[r] = "idle" /\ claimed[r] = {} /\ todo[r] = {}
      /\ pc' = [pc EXCEPT ![r] = "fetch"]
      /\ UNCHANGED <<due, proofs, notified, abandoned, todo, sealed>>
  BY DEF Claim, Goto, history, RunInv, RunOK, TypeOK
<1>3. \A m \in S : m \in Message /\ status[m] = "NEW" /\ m \in due
  BY DEF Claimable, TypeOK
<1>4. TypeOK'
  BY <1>1, <1>2, <1>3 DEF TypeOK, MessageStatus, Step, proofs
<1>5. RunInv'
  BY <1>1, <1>2 DEF RunInv, RunOK, TypeOK, proofs
<1>6. ProofInv'
  BY <1>2, ProofsKept
<1>7. QueueInv'
  <2>1. DoneIsProved'
    BY <1>1, <1>2 DEF QueueInv, DoneIsProved, proofs
  <2>2. \A m \in Message :
            /\ attempts'[m] <= MaxAttempts
            /\ status'[m] = "FAILED" => attempts'[m] = attempts[m] /\ status[m] = "FAILED"
            /\ status'[m] \in {"absent", "NEW"} =>
                   attempts'[m] = attempts[m] /\ status[m] \in {"absent", "NEW"}
    BY <1>1, <1>3, AttemptsPositive DEF QueueInv, RetryBudget, AttemptLeft, TypeOK
  <2>3. QED
    BY <2>1, <2>2 DEF QueueInv, RetryBudget, AttemptLeft
<1>8. Hold(r) = {} /\ Hold(r)' = S /\ \A s \in Run \ {r} : Hold(s)' = Hold(s)
  BY <1>1, <1>2 DEF Hold, TypeOK
<1>9. \A s \in Run : S \cap Hold(s) = {}
  BY <1>3 DEF HeldApart
<1>10. \A s \in Run : \A m \in Hold(s) : m \in Message
  BY HoldIsClaimed
<1>11. HeldApart'
  BY <1>1, <1>3, <1>8, <1>9, <1>10 DEF HeldApart
<1>12. ClaimedIsHeld'
  <2>1. ASSUME NEW e \in Event, status'[e] = "CLAIMED"
        PROVE  e \in abandoned' \/ \E s \in Run : e \in Hold(s)'
    <3>1. CASE e \in S
      BY <1>8, <3>1
    <3>2. CASE e \notin S
      <4>1. status[e] = "CLAIMED"
        BY <1>1, <2>1, <3>2 DEF Message
      <4>2. e \in abandoned \/ \E s \in Run \ {r} : e \in Hold(s)
        BY <1>8, <4>1 DEF ClaimInv, ClaimedIsHeld
      <4>3. QED
        BY <1>2, <1>8, <4>2
    <3>3. QED
      BY <3>1, <3>2
  <2>2. ASSUME NEW m \in abandoned
        PROVE  status'[m] = "CLAIMED" /\ \A s \in Run : m \notin Hold(s)'
    <3>1. m \in Message /\ status[m] = "CLAIMED" /\ \A s \in Run : m \notin Hold(s)
      BY <2>2 DEF ClaimInv, ClaimedIsHeld, TypeOK
    <3>2. m \notin S
      BY <1>3, <3>1
    <3>3. QED
      BY <1>1, <1>8, <3>1, <3>2
  <2>3. QED
    BY <1>2, <2>1, <2>2 DEF ClaimedIsHeld
<1>13. NotifyDone'
  <2>1. ASSUME NEW s \in Run, pc'[s] = "notify", NEW e \in claimed'[s] \cap Event
        PROVE  status'[e] = "DONE"
    <3>1. s # r
      BY <1>2, <2>1 DEF TypeOK
    <3>2. pc[s] = "notify" /\ e \in claimed[s]
      BY <1>1, <1>2, <2>1, <3>1 DEF TypeOK
    <3>3. status[e] = "DONE"
      BY <3>2 DEF ClaimInv, NotifyDone
    <3>4. QED
      BY <1>1, <1>3, <3>3 DEF Message
  <2>2. QED
    BY <2>1 DEF NotifyDone
<1>14. QED
  BY <1>4, <1>5, <1>6, <1>7, <1>11, <1>12, <1>13 DEF ClaimInv

LEMMA FetchStep ==
    ASSUME IInv, NEW r \in Run, Fetch(r)
    PROVE  IInv'
<1> USE DEF IInv
<1>1. /\ pc[r] = "fetch"
      /\ pc' = [pc EXCEPT ![r] = IF Found(r) = {} THEN "reject" ELSE "seal"]
      /\ todo' = [todo EXCEPT ![r] = claimed[r]]
      /\ UNCHANGED <<rows, proofs, notified, abandoned, claimed, sealed>>
  BY DEF Fetch, Goto, history
<1>2. TypeOK'
  BY <1>1 DEF TypeOK, Step, rows, proofs
<1>3. RunInv'
  BY <1>1 DEF RunInv, RunOK, TypeOK, proofs, Found
<1>4. ProofInv' /\ QueueInv'
  BY <1>1, ProofsKept, QueueKept DEF rows, proofs
<1>5. \A s \in Run : Hold(s)' = Hold(s)
  BY <1>1 DEF Hold, TypeOK
<1>6. HeldApart'
  BY <1>1, <1>5 DEF HeldApart, rows
<1>7. ClaimInv'
  BY <1>1, <1>5 DEF ClaimInv, ClaimedIsHeld, NotifyDone, rows, TypeOK
<1>8. QED
  BY <1>2, <1>3, <1>4, <1>6, <1>7

LEMMA ErrStep ==
    ASSUME IInv, NEW r \in Run, Err(r)
    PROVE  IInv'
<1> USE DEF IInv
<1>1. /\ pc[r] \in {"fetch", "reject", "seal", "notify"}
      /\ pc' = [pc EXCEPT ![r] = "recover"]
      /\ todo' = [todo EXCEPT ![r] = claimed[r]]
      /\ UNCHANGED <<rows, proofs, notified, abandoned, claimed, sealed>>
  BY DEF Err, Goto, history
<1>2. TypeOK'
  BY <1>1 DEF TypeOK, Step, rows, proofs
<1>3. RunInv'
  BY <1>1 DEF RunInv, RunOK, TypeOK, proofs
<1>4. ProofInv' /\ QueueInv'
  BY <1>1, ProofsKept, QueueKept DEF rows, proofs
<1>5. \A s \in Run : Hold(s)' = Hold(s)
  BY <1>1 DEF Hold, TypeOK
<1>6. HeldApart'
  BY <1>1, <1>5 DEF HeldApart, rows
<1>7. ClaimInv'
  BY <1>1, <1>5 DEF ClaimInv, ClaimedIsHeld, NotifyDone, rows, TypeOK
<1>8. QED
  BY <1>2, <1>3, <1>4, <1>6, <1>7

LEMMA CrashStep ==
    ASSUME IInv, NEW r \in Run, Crash(r)
    PROVE  IInv'
<1> USE DEF IInv
<1>1. Shrink /\ UNCHANGED <<rows, proofs, notified>>
  BY LeaveShrinks DEF Crash
<1>2. /\ RunInv'
      /\ \A s \in Run : Hold(s)' \subseteq Hold(s)
      /\ \A s \in Run : /\ todo'[s] \subseteq claimed'[s]
                        /\ pc'[s] = "notify" => todo'[s] \subseteq Event
  BY <1>1, ShrinkKeeps DEF proofs
<1>3. TypeOK'
  <2>1. abandoned' \subseteq Message
    BY HoldIsClaimed DEF Crash, TypeOK
  <2>2. QED
    BY <1>1, <1>2, <2>1 DEF Shrink, TypeOK, rows, proofs
<1>4. ProofInv' /\ QueueInv'
  BY <1>1, ProofsKept, QueueKept DEF rows, proofs
<1>5. HeldApart'
  BY <1>1, <1>2, SmallerHold DEF HeldApart, rows
<1>6. /\ Hold(r)' = {} /\ pc'[r] = "idle"
      /\ \A s \in Run \ {r} :
            Hold(s)' = Hold(s) /\ pc'[s] = pc[s] /\ claimed'[s] = claimed[s]
      /\ abandoned' = abandoned \cup {m \in Hold(r) : status[m] = "CLAIMED"}
  BY DEF Crash, Leave, Goto, Hold, TypeOK
<1>7. ClaimInv'
  <2>1. \A m \in Hold(r) : \A s \in Run \ {r} : m \notin Hold(s)
    BY DEF HeldApart
  <2>2. ClaimedIsHeld'
    BY <1>1, <1>6, <2>1 DEF ClaimInv, ClaimedIsHeld, rows
  <2>3. NotifyDone'
    BY <1>1, <1>6 DEF ClaimInv, NotifyDone, rows
  <2>4. QED
    BY <2>2, <2>3 DEF ClaimInv
<1>8. QED
  BY <1>2, <1>3, <1>4, <1>5, <1>7

\* Reject, Requeue, GiveUp: one row of the run's own changes its status.
LEMMA SettleStep ==
    ASSUME IInv, NEW r \in Run, NEW m,
           Reject(r, m) \/ Requeue(r, m) \/ GiveUp(r, m)
    PROVE  IInv'
<1> USE DEF IInv
<1>1. /\ Turn(r, m)
      /\ UNCHANGED <<attempts, proofs, notified, abandoned>>
      /\ due' \subseteq due
      /\ pc[r] \in {"reject", "recover"}
  BY DEF Reject, Requeue, GiveUp, history
<1>2. /\ Shrink
      /\ m \in todo[r] /\ m \in claimed[r] /\ m \in Message
      /\ m \notin todo'[r]
  BY <1>1, TurnShrinks
<1>3. PICK st \in {"NEW", "FAILED"} : status' = [status EXCEPT ![m] = st]
  BY DEF Reject, Requeue, GiveUp
<1>4. /\ RunInv'
      /\ \A s \in Run : Hold(s)' \subseteq Hold(s)
      /\ \A s \in Run : /\ todo'[s] \subseteq claimed'[s]
                        /\ pc'[s] = "notify" => todo'[s] \subseteq Event
  BY <1>1, <1>2, ShrinkKeeps DEF proofs
<1>5. TypeOK'
  BY <1>1, <1>2, <1>3, <1>4 DEF Shrink, TypeOK, MessageStatus, proofs
<1>6. ProofInv'
  BY <1>1, ProofsKept
<1>7. QueueInv'
  <2>1. DoneIsProved'
    BY <1>1, <1>2, <1>3 DEF QueueInv, DoneIsProved, TypeOK, proofs
  <2>2. st = "NEW" => attempts[m] < MaxAttempts
    BY <1>2, <1>3 DEF Reject, Requeue, GiveUp, TypeOK
  <2>3. st = "FAILED" /\ m \in Event => attempts[m] = MaxAttempts
    <3>1. CASE Reject(r, m)
      BY <1>2, <3>1 DEF Reject, RunInv, RunOK
    <3>2. CASE Requeue(r, m)
      BY <1>2, <1>3, <3>2 DEF Requeue, TypeOK
    <3>3. CASE GiveUp(r, m)
      BY <1>2, <3>3, AttemptsPositive DEF GiveUp, QueueInv, RetryBudget, TypeOK
    <3>4. QED
      BY <3>1, <3>2, <3>3
  <2>4. \A n \in Message : status'[n] = IF n = m THEN st ELSE status[n]
    BY <1>2, <1>3 DEF TypeOK
  <2>5. RetryBudget' /\ AttemptLeft'
    BY <1>1, <2>2, <2>3, <2>4 DEF QueueInv, RetryBudget, AttemptLeft
  <2>6. QED
    BY <2>1, <2>5 DEF QueueInv
<1>8. HeldApart'
  <2>1. \A s \in Run \ {r} : m \notin Hold(s)
    <3>1. m \in Hold(r)
      BY <1>2 DEF Hold
    <3>2. QED
      BY <3>1 DEF HeldApart
  <2>2. \A n \in Message : n # m => status'[n] = status[n]
    BY <1>3 DEF TypeOK
  <2>3. m \in Hold(r)' => status'[m] = "FAILED"
    <3>1. CASE pc[r] = "recover"
      <4>1. m \notin Hold(r)'
        BY <1>2, <3>1 DEF Hold, Shrink
      <4>2. QED
        BY <4>1
    <3>2. CASE pc[r] = "reject"
      BY <1>2, <3>2 DEF Reject, Requeue, GiveUp, TypeOK
    <3>3. QED
      BY <1>1, <3>1, <3>2
  <2>4. \A s \in Run : \A n \in Hold(s) : n \in Message
    BY HoldIsClaimed
  <2>5. \A s \in Run : \A n \in Hold(s)' : status'[n] \in {"CLAIMED", "DONE", "FAILED"}
    BY <1>4, <2>1, <2>2, <2>3, <2>4 DEF HeldApart
  <2>6. QED
    BY <1>4, <2>5, SmallerHold
<1>9. m \in Hold(r) /\ \A n \in Message : status'[n] = IF n = m THEN st ELSE status[n]
  BY <1>2, <1>3 DEF Hold, TypeOK
<1>10. \A s \in Run \ {r} :
           Hold(s)' = Hold(s) /\ pc'[s] = pc[s] /\ claimed'[s] = claimed[s]
  BY <1>1 DEF Turn, Leave, Goto, Hold, TypeOK
<1>11. ClaimedIsHeld'
  <2>1. ASSUME NEW e \in Event, status'[e] = "CLAIMED"
        PROVE  e \in abandoned' \/ \E s \in Run : e \in Hold(s)'
    <3>1. e # m /\ status[e] = "CLAIMED"
      BY <1>9, <2>1 DEF Message
    <3>2. CASE e \in abandoned
      BY <1>1, <3>2
    <3>3. CASE e \in Hold(r)
      <4>1. pc[r] = "recover" /\ e \in todo[r]
        BY <1>1, <3>3 DEF Hold, RunInv, RunOK
      <4>2. e \in Hold(r)'
        BY <1>1, <3>1, <4>1 DEF Turn, Hold, TypeOK
      <4>3. QED
        BY <4>2
    <3>4. QED
      BY <1>10, <3>1, <3>2, <3>3 DEF ClaimInv, ClaimedIsHeld
  <2>2. \A n \in abandoned : status'[n] = "CLAIMED" /\ \A s \in Run : n \notin Hold(s)'
    BY <1>4, <1>9 DEF ClaimInv, ClaimedIsHeld, TypeOK
  <2>3. QED
    BY <1>1, <2>1, <2>2 DEF ClaimedIsHeld
<1>12. NotifyDone'
  <2>1. ASSUME NEW s \in Run, pc'[s] = "notify", NEW e \in claimed'[s] \cap Event
        PROVE  status'[e] = "DONE"
    <3>1. pc'[s] = pc[s] /\ claimed'[s] = claimed[s]
      BY <1>2, <2>1 DEF Shrink
    <3>2. s # r /\ status[e] = "DONE" /\ e \in Hold(s)
      BY <1>1, <2>1, <3>1 DEF ClaimInv, NotifyDone, Hold
    <3>3. e # m
      BY <1>9, <3>2 DEF HeldApart
    <3>4. QED
      BY <1>9, <3>2, <3>3 DEF Message
  <2>2. QED
    BY <2>1 DEF NotifyDone
<1>13. QED
  BY <1>4, <1>5, <1>6, <1>7, <1>8, <1>11, <1>12 DEF ClaimInv

\* Notify: the event is in the run's batch, so it has been proved.
LEMMA NotifyStep ==
    ASSUME IInv, NEW r \in Run, NEW e, Notify(r, e)
    PROVE  IInv'
<1> USE DEF IInv
<1>1. /\ pc[r] = "notify"
      /\ notified' = notified \cup {[event |-> e, batch |-> sealed[r]]}
      /\ Turn(r, e)
      /\ UNCHANGED <<rows, proofs, abandoned>>
  BY DEF Notify
<1>2. Shrink /\ e \in todo[r]
  BY <1>1, TurnShrinks
<1>3. /\ RunInv'
      /\ \A s \in Run : Hold(s)' \subseteq Hold(s)
      /\ \A s \in Run : /\ todo'[s] \subseteq claimed'[s]
                        /\ pc'[s] = "notify" => todo'[s] \subseteq Event
  BY <1>1, <1>2, ShrinkKeeps DEF proofs
<1>4. e \in Event /\ sealed[r] \in DOMAIN batches /\ e \in batches[sealed[r]]
  BY <1>1, <1>2 DEF TypeOK, RunInv, RunOK
<1>5. TypeOK'
  <2>1. notified' \subseteq [event : Event, batch : Nat]
    BY <1>1, <1>4 DEF TypeOK
  <2>2. QED
    BY <1>1, <1>2, <1>3, <2>1 DEF Shrink, TypeOK, rows, proofs
<1>6. ProofInv'
  <2>1. proof[e] \in 1 .. sealed[r]
    BY <1>4 DEF ProofInv, LeavesProved
  <2>2. NotifiedIsProved'
    BY <1>1, <1>4, <2>1 DEF ProofInv, NotifiedIsProved, proofs
  <2>3. ProofLinked' /\ LeavesProved'
    BY <1>1 DEF ProofInv, ProofLinked, LeavesProved, proofs
  <2>4. QED
    BY <2>2, <2>3 DEF ProofInv
<1>7. QueueInv'
  BY <1>1, QueueKept DEF rows, proofs
<1>8. HeldApart'
  BY <1>1, <1>3, SmallerHold DEF HeldApart, rows
<1>9. \A s \in Run : \A n \in Hold(s) \cap Event : n \in Hold(s)' \/ status[n] # "CLAIMED"
  <2>1. \A n \in Hold(r) \cap Event : status[n] # "CLAIMED"
    BY <1>1 DEF ClaimInv, NotifyDone, Hold
  <2>2. \A s \in Run \ {r} : Hold(s)' = Hold(s)
    BY <1>1 DEF Turn, Leave, Goto, Hold, TypeOK
  <2>3. QED
    BY <2>1, <2>2
<1>10. ClaimInv'
  <2>1. ClaimedIsHeld'
    BY <1>1, <1>3, <1>9 DEF ClaimInv, ClaimedIsHeld, rows
  <2>2. NotifyDone'
    BY <1>1, <1>2 DEF ClaimInv, NotifyDone, Shrink, rows
  <2>3. QED
    BY <2>1, <2>2 DEF ClaimInv
<1>11. QED
  BY <1>3, <1>5, <1>6, <1>7, <1>8, <1>10

\* The batch transaction appends one batch.
LEMMA SealBatches ==
    ASSUME TypeOK, NEW r \in Run, Seal(r)
    PROVE  /\ batches' \in Seq(SUBSET Event)
           /\ Len(batches) \in Nat
           /\ DOMAIN batches = 1 .. Len(batches)
           /\ DOMAIN batches' = 1 .. Len(batches) + 1
           /\ \A b \in DOMAIN batches : batches'[b] = batches[b]
           /\ batches'[Len(batches) + 1] = Found(r)
<1>1. batches \in Seq(SUBSET Event) /\ Found(r) \in SUBSET Event
  BY DEF TypeOK, Found
<1>2. batches' = Append(batches, Found(r))
  BY DEF Seal
<1>3. QED
  BY <1>1, <1>2

\* It gives a proof to the events of the batch that have none.
LEMMA SealColumns ==
    ASSUME TypeOK, NEW r \in Run, Seal(r)
    PROVE  \A e \in Event :
               LET b == Len(batches) + 1
               IN  /\ member'[e] = IF e \in Found(r) /\ member[e] = 0 THEN b ELSE member[e]
                   /\ path'[e] = IF e \in Found(r) /\ path[e] = 0 THEN b ELSE path[e]
                   /\ proof'[e] = IF e \in Found(r) /\ proof[e] = 0 THEN b ELSE proof[e]
BY DEF Seal, Publish, SetOnce

LEMMA SealStep ==
    ASSUME IInv, NEW r \in Run, Seal(r)
    PROVE  IInv'
<1> USE DEF IInv
<1> DEFINE b == Len(batches) + 1
<1>1. /\ pc[r] = "seal"
      /\ pc' = [pc EXCEPT ![r] = "notify"]
      /\ sealed' = [sealed EXCEPT ![r] = b]
      /\ todo' = [todo EXCEPT ![r] = Found(r)]
      /\ status' = [m \in Message |-> IF m \in Found(r) THEN "DONE" ELSE status[m]]
      /\ UNCHANGED <<attempts, due, notified, abandoned, claimed>>
  BY DEF Seal, Goto, MarkDone, history
<1>2. /\ batches' \in Seq(SUBSET Event)
      /\ Len(batches) \in Nat
      /\ DOMAIN batches = 1 .. Len(batches)
      /\ DOMAIN batches' = 1 .. b
      /\ \A n \in DOMAIN batches : batches'[n] = batches[n]
      /\ batches'[b] = Found(r)
  BY SealBatches
<1>3. \A e \in Event :
          /\ member'[e] = IF e \in Found(r) /\ member[e] = 0 THEN b ELSE member[e]
          /\ path'[e] = IF e \in Found(r) /\ path[e] = 0 THEN b ELSE path[e]
          /\ proof'[e] = IF e \in Found(r) /\ proof[e] = 0 THEN b ELSE proof[e]
  BY SealColumns
<1>4. Found(r) \subseteq Event /\ Found(r) \subseteq claimed[r] /\ Found(r) \subseteq Message
  BY DEF Found, Message
<1>5. TypeOK'
  <2>1. b \in Nat
    BY <1>2
  <2>2. /\ member' \in [Event -> Nat]
        /\ path' \in [Event -> Nat]
        /\ proof' \in [Event -> Nat]
    BY <2>1 DEF Seal, Publish, SetOnce, TypeOK
  <2>3. /\ status' \in [Message -> MessageStatus]
        /\ pc' \in [Run -> Step]
        /\ sealed' \in [Run -> Nat]
        /\ todo' \in [Run -> SUBSET Message]
    BY <1>1, <1>4, <2>1 DEF TypeOK, MessageStatus, Step
  <2>4. \A s \in Run : /\ todo'[s] \subseteq claimed'[s]
                       /\ pc'[s] = "notify" => todo'[s] \subseteq Event
    BY <1>1, <1>4 DEF TypeOK
  <2>5. QED
    BY <1>1, <1>2, <2>2, <2>3, <2>4 DEF TypeOK
<1>6. RunInv'
  <2>1. RunOK(r)'
    BY <1>1, <1>2 DEF RunOK, TypeOK
  <2>2. ASSUME NEW s \in Run, s # r PROVE RunOK(s)'
    <3>1. /\ pc'[s] = pc[s] /\ sealed'[s] = sealed[s]
          /\ todo'[s] = todo[s] /\ claimed'[s] = claimed[s]
      BY <1>1, <2>2 DEF TypeOK
    <3>2. RunOK(s)
      BY DEF RunInv
    <3>3. \A n \in DOMAIN batches : n \in DOMAIN batches'
      BY <1>2
    <3>4. QED
      BY <1>2, <3>1, <3>2, <3>3 DEF RunOK
  <2>3. QED
    BY <2>1, <2>2 DEF RunInv
<1>7. ProofInv'
  <2>1. \A e \in Event : proof[e] # 0 => proof[e] \in 1 .. Len(batches)
    BY <1>2 DEF ProofInv, ProofLinked
  <2>2. ProofLinked'
    BY <1>2, <1>3, <2>1 DEF ProofInv, ProofLinked
  <2>3. LeavesProved'
    <3>1. ASSUME NEW n \in DOMAIN batches, NEW e \in batches'[n]
          PROVE  proof'[e] \in 1 .. n
      <4>1. e \in batches[n] /\ proof[e] \in 1 .. n
        BY <1>2, <3>1 DEF ProofInv, LeavesProved
      <4>2. e \in Event
        BY <4>1 DEF TypeOK
      <4>3. QED
        BY <1>3, <4>1, <4>2
    <3>2. ASSUME NEW e \in Found(r)
          PROVE  proof'[e] \in 1 .. b
      <4>1. proof[e] \in Nat /\ proof'[e] = IF proof[e] = 0 THEN b ELSE proof[e]
        BY <1>3, <1>4, <3>2 DEF TypeOK
      <4>2. QED
        BY <1>2, <1>4, <2>1, <3>2, <4>1
    <3>3. QED
      BY <1>2, <3>1, <3>2 DEF LeavesProved
  <2>4. NotifiedIsProved'
    <3>1. ASSUME NEW n \in notified
          PROVE  /\ n.batch \in DOMAIN batches'
                 /\ n.event \in batches'[n.batch]
                 /\ proof'[n.event] \in 1 .. n.batch
      <4>1. /\ n.batch \in DOMAIN batches
            /\ n.event \in batches[n.batch]
            /\ proof[n.event] \in 1 .. n.batch
            /\ n.event \in Event
        BY DEF ProofInv, NotifiedIsProved, TypeOK
      <4>2. QED
        BY <1>2, <1>3, <4>1
    <3>2. QED
      BY <1>1, <3>1 DEF NotifiedIsProved
  <2>5. QED
    BY <2>2, <2>3, <2>4 DEF ProofInv
<1>8. QueueInv'
  <2>1. \A e \in Event : (e \in Found(r) \/ proof[e] # 0) => proof'[e] # 0
    BY <1>2, <1>3
  <2>2. DoneIsProved'
    BY <1>1, <1>4, <2>1 DEF QueueInv, DoneIsProved, TypeOK
  <2>3. RetryBudget' /\ AttemptLeft'
    BY <1>1 DEF QueueInv, RetryBudget, AttemptLeft, TypeOK
  <2>4. QED
    BY <2>2, <2>3 DEF QueueInv
<1>9. \A s \in Run : Hold(s)' = Hold(s)
  BY <1>1 DEF Hold, TypeOK
<1>10. HeldApart'
  <2>1. \A s \in Run : \A m \in Hold(s) : m \in Message
    BY HoldIsClaimed
  <2>2. \A s \in Run : \A m \in Hold(s)' : status'[m] \in {"CLAIMED", "DONE", "FAILED"}
    BY <1>1, <1>9, <2>1 DEF HeldApart
  <2>3. QED
    BY <1>9, <2>2, SmallerHold
<1>11. ClaimedIsHeld'
  <2>1. Found(r) \subseteq Hold(r)
    BY <1>1, <1>4 DEF Hold
  <2>2. \A m \in abandoned : m \in Message /\ m \notin Found(r)
    BY <2>1 DEF ClaimInv, ClaimedIsHeld, TypeOK
  <2>3. \A e \in Event : status'[e] = "CLAIMED" => status[e] = "CLAIMED"
    BY <1>1 DEF Message
  <2>4. QED
    BY <1>1, <1>9, <2>2, <2>3 DEF ClaimInv, ClaimedIsHeld
<1>12. NotifyDone'
  <2>1. \A e \in Found(r) : status'[e] = "DONE"
    BY <1>1, <1>4
  <2>2. \A e \in Event : status[e] = "DONE" => status'[e] = "DONE"
    BY <1>1 DEF Message
  <2>3. claimed'[r] \cap Event = Found(r)
    BY <1>1 DEF Found
  <2>4. \A s \in Run \ {r} : pc'[s] = pc[s] /\ claimed'[s] = claimed[s]
    BY <1>1 DEF TypeOK
  <2>5. QED
    BY <2>1, <2>2, <2>3, <2>4 DEF ClaimInv, NotifyDone
<1>13. QED
  BY <1>5, <1>6, <1>7, <1>8, <1>10, <1>11, <1>12 DEF ClaimInv

-------------------------------------------------------------------------------
(* The theorems.                                                           *)

LEMMA StutterStep ==
    ASSUME IInv, UNCHANGED vars
    PROVE  IInv'
BY DEF IInv, vars, TypeOK, RunInv, RunOK, ProofInv, ProofLinked, LeavesProved,
       NotifiedIsProved, QueueInv, DoneIsProved, RetryBudget, AttemptLeft,
       HeldApart, ClaimInv, ClaimedIsHeld, NotifyDone, Hold

LEMMA NextStep == IInv /\ [Next]_vars => IInv'
<1> SUFFICES ASSUME IInv, [Next]_vars PROVE IInv'
  OBVIOUS
<1>1. ASSUME NEW m \in Message, Enqueue(m) \/ BackoffOver(m) PROVE IInv'
  BY <1>1, OutboxStep
<1>2. ASSUME NEW r \in Run, Proceed(r) PROVE IInv'
  <2>1. CASE Claim(r)
    BY <2>1, ClaimStep
  <2>2. CASE Fetch(r)
    BY <2>2, FetchStep
  <2>3. CASE Seal(r)
    BY <2>3, SealStep
  <2>4. ASSUME NEW m \in todo[r],
               Reject(r, m) \/ Notify(r, m) \/ Requeue(r, m) \/ GiveUp(r, m)
        PROVE  IInv'
    <3>1. CASE Notify(r, m)
      BY <3>1, NotifyStep
    <3>2. CASE Reject(r, m) \/ Requeue(r, m) \/ GiveUp(r, m)
      BY <3>2, SettleStep
    <3>3. QED
      BY <2>4, <3>1, <3>2
  <2>5. QED
    BY <1>2, <2>1, <2>2, <2>3, <2>4 DEF Proceed
<1>3. ASSUME NEW r \in Run, Err(r) PROVE IInv'
  BY <1>3, ErrStep
<1>4. ASSUME NEW r \in Run, Crash(r) PROVE IInv'
  BY <1>4, CrashStep
<1>5. CASE UNCHANGED vars
  BY <1>5, StutterStep
<1>6. QED
  BY <1>1, <1>2, <1>3, <1>4, <1>5 DEF Next

\* The inductive invariant holds in every behaviour.
THEOREM PipelineInvariance == Spec => []IInv
<1>1. QED
  BY InitInv, NextStep, PTL DEF Spec

\* Every variable keeps its type.
THEOREM PipelineTypeCorrect == Spec => []TypeOK
<1>1. IInv => TypeOK
  BY DEF IInv
<1>2. QED
  BY <1>1, PipelineInvariance, PTL

\* An event is READY exactly when its leaf and its path exist, all in one batch
\* that has the event in its tree, however runs overlap, fail and repeat.
THEOREM ProofsLinked == Spec => []ProofLinked
<1>1. IInv => ProofLinked
  BY DEF IInv, ProofInv
<1>2. QED
  BY <1>1, PipelineInvariance, PTL

\* Every leaf of a sealed batch has a proof, in this batch or an earlier one; a
\* DONE message is the message of a proved event; proof.ready is announced for
\* proved events only, with a batch that has them.
THEOREM WhatIsSaidIsProved == Spec => []SaidIsProved
<1>1. IInv => SaidIsProved
  BY DEF IInv, ProofInv, QueueInv, SaidIsProved
<1>2. QED
  BY <1>1, PipelineInvariance, PTL

\* No two overlapping runs hold the same row, no held row can be claimed, and a
\* CLAIMED row of an event is held or was abandoned.
THEOREM HoldsExclusive == Spec => []ExclusiveHold
<1>1. IInv => ExclusiveHold
  BY DEF IInv, ClaimInv, ExclusiveHold
<1>2. QED
  BY <1>1, PipelineInvariance, PTL

\* No message exceeds its attempts, no event is given up with attempts left.
THEOREM RetriesBounded == Spec => []RetryBudget
<1>1. IInv => RetryBudget
  BY DEF IInv, QueueInv
<1>2. QED
  BY <1>1, PipelineInvariance, PTL

LEMMA FinalStep ==
    ASSUME IInv, Next
    PROVE  /\ \A e \in Event : proof[e] # 0 => proof'[e] = proof[e]
           /\ \A b \in DOMAIN batches : b \in DOMAIN batches' /\ batches'[b] = batches[b]
<1>1. CASE \E r \in Run : Seal(r)
  <2>1. PICK r \in Run : Seal(r)
    BY <1>1
  <2>2. TypeOK
    BY DEF IInv
  <2>3. QED
    BY <2>1, <2>2, SealBatches, SealColumns
<1>2. CASE UNCHANGED proofs
  BY <1>2 DEF proofs
<1>3. (\E r \in Run : Seal(r)) \/ UNCHANGED proofs
  BY DEF Next, Proceed, Enqueue, BackoffOver, Claim, Fetch, Reject, Notify,
         Requeue, GiveUp, Err, Crash
<1>4. QED
  BY <1>1, <1>2, <1>3

\* A published proof is never replaced, and neither is a sealed batch.
THEOREM PublishedForGood == Spec => ProofsFinal
<1>1. IInv /\ [Next]_vars =>
          [ /\ \A e \in Event : proof[e] # 0 => proof'[e] = proof[e]
            /\ \A b \in DOMAIN batches : b \in DOMAIN batches' /\ batches'[b] = batches[b] ]_vars
  BY FinalStep
<1>2. QED
  BY <1>1, PipelineInvariance, PTL DEF Spec, ProofsFinal

-------------------------------------------------------------------------------
(* No message is worked on for ever.                                       *)

\* A run that is at work has claimed something, which counts as an attempt.
BusyRuns ==
    \A r \in Run : pc[r] # "idle" =>
        claimed[r] # {} /\ \A m \in claimed[r] : attempts[m] # 0

LEMMA BusyStep == IInv /\ BusyRuns /\ [Next]_vars => BusyRuns'
<1> SUFFICES ASSUME IInv, BusyRuns, [Next]_vars PROVE BusyRuns'
  OBVIOUS
<1>0. TypeOK
  BY DEF IInv
<1>1. ASSUME UNCHANGED attempts,
             \A r \in Run : pc'[r] # "idle" => pc[r] # "idle" /\ claimed'[r] = claimed[r]
      PROVE  BusyRuns'
  BY <1>1 DEF BusyRuns
<1>2. ASSUME NEW r \in Run, Claim(r) PROVE BusyRuns'
  <2>1. PICK S \in SUBSET Claimable :
            /\ S # {}
            /\ claimed' = [claimed EXCEPT ![r] = S]
            /\ attempts' = [m \in Message |-> IF m \in S THEN attempts[m] + 1 ELSE attempts[m]]
    BY <1>2 DEF Claim
  <2>2. pc' = [pc EXCEPT ![r] = "fetch"]
    BY <1>2 DEF Claim, Goto
  <2>3. S \subseteq Message /\ \A m \in Message : attempts[m] \in Nat
    BY <1>0 DEF Claimable, TypeOK
  <2>4. \A m \in Message : attempts[m] # 0 \/ m \in S => attempts'[m] # 0
    BY <2>1, <2>3
  <2>5. \A q \in Run : IF q = r THEN claimed'[q] = S
                       ELSE pc'[q] = pc[q] /\ claimed'[q] = claimed[q]
    BY <1>0, <2>1, <2>2 DEF TypeOK
  <2>6. \A q \in Run : claimed[q] \subseteq Message
    BY <1>0 DEF TypeOK
  <2>7. QED
    BY <2>1, <2>3, <2>4, <2>5, <2>6 DEF BusyRuns
<1>3. ASSUME NEW r \in Run, Fetch(r) \/ Seal(r) \/ Err(r) PROVE BusyRuns'
  <2>1. UNCHANGED <<attempts, claimed>> /\ pc[r] # "idle" /\ \E s : pc' = [pc EXCEPT ![r] = s]
    BY <1>3 DEF Fetch, Seal, Err, Goto, rows
  <2>2. \A q \in Run : q # r => pc'[q] = pc[q]
    BY <1>0, <2>1 DEF TypeOK
  <2>3. QED
    BY <1>1, <2>1, <2>2
<1>4. ASSUME NEW r \in Run, Leave(r), UNCHANGED attempts PROVE BusyRuns'
  <2>1. \A q \in Run : IF q = r THEN pc'[q] = "idle"
                       ELSE pc'[q] = pc[q] /\ claimed'[q] = claimed[q]
    BY <1>0, <1>4 DEF Leave, Goto, TypeOK
  <2>2. QED
    BY <1>1, <1>4, <2>1
<1>5. ASSUME NEW r \in Run, NEW m \in todo[r],
             Reject(r, m) \/ Notify(r, m) \/ Requeue(r, m) \/ GiveUp(r, m)
      PROVE  BusyRuns'
  <2>1. Turn(r, m) /\ UNCHANGED attempts
    BY <1>5 DEF Reject, Notify, Requeue, GiveUp, rows
  <2>2. CASE UNCHANGED <<pc, claimed, sealed>>
    BY <1>1, <2>1, <2>2
  <2>3. QED
    BY <1>4, <2>1, <2>2 DEF Turn
<1>6. ASSUME NEW r \in Run, Crash(r) PROVE BusyRuns'
  BY <1>4, <1>6 DEF Crash, rows
<1>7. ASSUME NEW m \in Message, Enqueue(m) \/ BackoffOver(m) PROVE BusyRuns'
  BY <1>1, <1>7 DEF Enqueue, BackoffOver, local
<1>8. CASE UNCHANGED vars
  BY <1>1, <1>8 DEF vars
<1>9. QED
  BY <1>2, <1>3, <1>5, <1>6, <1>7, <1>8 DEF Next, Proceed

LEMMA BusyInvariance == Spec => []BusyRuns
<1>1. Init => BusyRuns
  BY DEF Init, BusyRuns
<1>2. QED
  BY <1>1, BusyStep, PipelineInvariance, PTL DEF Spec

Held(m) == \E r \in Run : m \in Hold(r)
Holder(m) == CHOOSE r \in Run : m \in Hold(r)

\* What a run has before it with a message it holds.
RunStage(r, m) ==
    IF pc[r] = "fetch" THEN 6
    ELSE IF pc[r] = "seal" THEN 5
    ELSE IF pc[r] = "recover" THEN 2
    ELSE IF m \in todo[r] THEN 4 ELSE 3

\* The steps that are left of an attempt: from the backoff to the end of the run,
\* which may come by way of the catch block.
Stage(m) ==
    IF status[m] = "NEW" THEN IF m \in due THEN 0 ELSE 1
    ELSE RunStage(Holder(m), m)

\* The steps that are left of a message, at most.
Rank(m) ==
    IF status[m] = "absent" THEN 7 * MaxAttempts + 1
    ELSE IF status[m] # "NEW" /\ ~Held(m) THEN 0
    ELSE 7 * (MaxAttempts - attempts[m]) + Stage(m)

RowOf(m) == <<status[m], attempts[m], m \in due>>

\* The rank of a message, by who has it.
Ranks ==
    \A m \in Message :
        /\ attempts[m] \in 0 .. MaxAttempts
        /\ status[m] \in {"absent", "NEW"} => attempts[m] < MaxAttempts /\ ~Held(m)
        /\ status[m] = "absent" => Rank(m) = 7 * MaxAttempts + 1
        /\ status[m] = "NEW" =>
              Rank(m) = 7 * (MaxAttempts - attempts[m]) + (IF m \in due THEN 0 ELSE 1)
        /\ status[m] \notin {"absent", "NEW"} /\ ~Held(m) => Rank(m) = 0
        /\ \A r \in Run : m \in Hold(r) =>
              /\ attempts[m] # 0
              /\ Rank(m) = 7 * (MaxAttempts - attempts[m]) + RunStage(r, m)
              /\ \A q \in Run : m \in Hold(q) => q = r

LEMMA RanksHold == IInv /\ BusyRuns => Ranks
<1> SUFFICES ASSUME IInv, BusyRuns, NEW m \in Message
             PROVE  /\ attempts[m] \in 0 .. MaxAttempts
                    /\ status[m] \in {"absent", "NEW"} => attempts[m] < MaxAttempts /\ ~Held(m)
                    /\ status[m] = "absent" => Rank(m) = 7 * MaxAttempts + 1
                    /\ status[m] = "NEW" =>
                          Rank(m) = 7 * (MaxAttempts - attempts[m])
                                       + (IF m \in due THEN 0 ELSE 1)
                    /\ status[m] \notin {"absent", "NEW"} /\ ~Held(m) => Rank(m) = 0
                    /\ \A r \in Run : m \in Hold(r) =>
                          /\ attempts[m] # 0
                          /\ Rank(m) = 7 * (MaxAttempts - attempts[m]) + RunStage(r, m)
                          /\ \A q \in Run : m \in Hold(q) => q = r
  BY DEF Ranks
<1>1. attempts[m] \in 0 .. MaxAttempts
  BY AttemptsPositive DEF IInv, TypeOK, QueueInv, RetryBudget
<1>2. status[m] \in {"absent", "NEW"} => attempts[m] < MaxAttempts /\ ~Held(m)
  BY DEF IInv, QueueInv, AttemptLeft, HeldApart, Held
<1>3. ASSUME NEW r \in Run, m \in Hold(r)
      PROVE  /\ attempts[m] # 0
             /\ Rank(m) = 7 * (MaxAttempts - attempts[m]) + RunStage(r, m)
             /\ \A q \in Run : m \in Hold(q) => q = r
  <2>1. \A q \in Run : m \in Hold(q) => q = r
    BY <1>3 DEF IInv, HeldApart
  <2>2. Holder(m) = r
    BY <1>3, <2>1 DEF Holder
  <2>3. status[m] \notin {"absent", "NEW"} /\ Held(m)
    BY <1>2, <1>3 DEF Held
  <2>4. attempts[m] # 0
    <3>1. m \in claimed[r]
      BY <1>3 DEF Hold, IInv, TypeOK
    <3>2. pc[r] # "idle"
      BY <3>1 DEF IInv, RunInv, RunOK
    <3>3. QED
      BY <3>1, <3>2 DEF BusyRuns
  <2>5. QED
    BY <2>1, <2>2, <2>3, <2>4 DEF Rank, Stage
<1>4. QED
  BY <1>1, <1>2, <1>3 DEF Rank, Stage

\* Every other run is as before.
OthersRest(r) ==
    \A q \in Run : q # r => pc'[q] = pc[q] /\ claimed'[q] = claimed[q] /\ todo'[q] = todo[q]

LEMMA OthersKeep ==
    ASSUME NEW r \in Run, OthersRest(r), NEW q \in Run, q # r
    PROVE  Hold(q)' = Hold(q) /\ \A m : RunStage(q, m)' = RunStage(q, m)
<1>1. pc'[q] = pc[q] /\ claimed'[q] = claimed[q] /\ todo'[q] = todo[q]
  BY DEF OthersRest
<1>2. QED
  BY <1>1 DEF Hold, RunStage

\* A message that the run did not have and does not get stays where it is.
LEMMA OtherStays ==
    ASSUME Ranks, Ranks', NEW r \in Run, OthersRest(r),
           NEW m \in Message, m \notin Hold(r), m \notin Hold(r)', RowOf(m)' = RowOf(m)
    PROVE  Rank(m)' = Rank(m)
<1>1. status'[m] = status[m] /\ attempts'[m] = attempts[m] /\ (m \in due' <=> m \in due)
  BY DEF RowOf
<1>2. \A q \in Run : /\ m \in Hold(q)' <=> m \in Hold(q)
                     /\ m \in Hold(q) => RunStage(q, m)' = RunStage(q, m)
  BY OthersKeep
<1>3. Held(m)' <=> Held(m)
  BY <1>2 DEF Held
<1>4. CASE Held(m)
  <2>1. PICK q \in Run : m \in Hold(q)
    BY <1>4 DEF Held
  <2>2. /\ Rank(m) = 7 * (MaxAttempts - attempts[m]) + RunStage(q, m)
        /\ Rank(m)' = 7 * (MaxAttempts - attempts'[m]) + RunStage(q, m)'
    BY <1>2, <2>1 DEF Ranks
  <2>3. QED
    BY <1>1, <1>2, <2>1, <2>2
<1>5. CASE ~Held(m)
  BY <1>1, <1>3, <1>5 DEF Ranks
<1>6. QED
  BY <1>4, <1>5

\* So does one with which the run is at the same place as before.
LEMMA HolderStays ==
    ASSUME Ranks, Ranks', NEW r \in Run,
           NEW m \in Message, m \in Hold(r), m \in Hold(r)', attempts'[m] = attempts[m],
           RunStage(r, m)' = RunStage(r, m)
    PROVE  Rank(m)' = Rank(m)
<1>1. /\ Rank(m) = 7 * (MaxAttempts - attempts[m]) + RunStage(r, m)
      /\ Rank(m)' = 7 * (MaxAttempts - attempts'[m]) + RunStage(r, m)'
  BY DEF Ranks
<1>2. QED
  BY <1>1

LEMMA StageRange ==
    ASSUME NEW r, NEW m
    PROVE  RunStage(r, m) \in 2 .. 6
BY DEF RunStage

\* One that it takes further, puts back or is through with comes forward.
LEMMA HolderMoves ==
    ASSUME Ranks, Ranks', NEW r \in Run, OthersRest(r),
           NEW m \in Message, m \in Hold(r), attempts'[m] = attempts[m],
           \/ m \in Hold(r)' /\ RunStage(r, m)' < RunStage(r, m)
           \/ m \notin Hold(r)' /\ status'[m] # "absent"
    PROVE  Rank(m)' < Rank(m)
<1>1. /\ Rank(m) = 7 * (MaxAttempts - attempts[m]) + RunStage(r, m)
      /\ \A q \in Run : m \in Hold(q) => q = r
  BY DEF Ranks
<1>2. attempts[m] \in 0 .. MaxAttempts /\ MaxAttempts \in Nat
  BY AttemptsPositive DEF Ranks
<1>3. RunStage(r, m) \in 2 .. 6
  BY StageRange
<1>4. CASE m \in Hold(r)' /\ RunStage(r, m)' < RunStage(r, m)
  <2>1. Rank(m)' = 7 * (MaxAttempts - attempts'[m]) + RunStage(r, m)'
    BY <1>4 DEF Ranks
  <2>2. RunStage(r, m)' \in 2 .. 6
    BY DEF RunStage
  <2>3. QED
    BY <1>1, <1>2, <1>3, <1>4, <2>1, <2>2
<1>5. CASE m \notin Hold(r)' /\ status'[m] # "absent"
  <2>1. ~Held(m)'
    <3>1. SUFFICES ASSUME NEW q \in Run, m \in Hold(q)' PROVE FALSE
      BY DEF Held
    <3>2. q # r /\ m \in Hold(q)
      BY <1>5, <3>1, OthersKeep
    <3>3. QED
      BY <1>1, <3>2
  <2>2. CASE status'[m] = "NEW"
    <3>1. Rank(m)' = 7 * (MaxAttempts - attempts'[m]) + (IF m \in due' THEN 0 ELSE 1)
      BY <2>2 DEF Ranks
    <3>2. QED
      BY <1>1, <1>2, <1>3, <3>1
  <2>3. CASE status'[m] # "NEW"
    <3>1. Rank(m)' = 0
      BY <1>5, <2>1, <2>3 DEF Ranks
    <3>2. QED
      BY <1>1, <1>2, <1>3, <3>1
  <2>4. QED
    BY <2>2, <2>3
<1>6. QED
  BY <1>4, <1>5

Advances(m) == (RowOf(m)' = RowOf(m) /\ Rank(m)' = Rank(m)) \/ Rank(m)' < Rank(m)

LEMMA OutboxAdvances ==
    ASSUME IInv, Ranks, Ranks',
           (\E n \in Message : Enqueue(n) \/ BackoffOver(n)) \/ UNCHANGED vars,
           NEW m \in Message
    PROVE  Advances(m)
<1>1. MaxAttempts \in Nat /\ attempts[m] \in 0 .. MaxAttempts
  BY AttemptsPositive DEF Ranks
<1>2. \A q \in Run : Hold(q)' = Hold(q) /\ RunStage(q, m)' = RunStage(q, m)
  <2>1. UNCHANGED <<pc, claimed, todo>>
    BY DEF Enqueue, BackoffOver, local, vars
  <2>2. QED
    BY <2>1 DEF Hold, RunStage
<1>3. Held(m)' <=> Held(m)
  BY <1>2 DEF Held
<1>4. CASE RowOf(m)' = RowOf(m)
  <2>1. status'[m] = status[m] /\ attempts'[m] = attempts[m] /\ (m \in due' <=> m \in due)
    BY <1>4 DEF RowOf
  <2>2. CASE Held(m)
    <3>1. PICK q \in Run : m \in Hold(q)
      BY <2>2 DEF Held
    <3>2. Rank(m)' = Rank(m)
      BY <1>2, <2>1, <3>1, HolderStays
    <3>3. QED
      BY <1>4, <3>2 DEF Advances
  <2>3. CASE ~Held(m)
    BY <1>3, <1>4, <2>1, <2>3 DEF Ranks, Advances
  <2>4. QED
    BY <2>2, <2>3
<1>5. ASSUME NEW n \in Message, Enqueue(n) PROVE Advances(m)
  <2>1. /\ status[n] = "absent" /\ status' = [status EXCEPT ![n] = "NEW"]
        /\ due' = due \cup {n} /\ attempts' = attempts
    BY <1>5 DEF Enqueue
  <2>2. CASE m = n
    <3>1. status'[m] = "NEW" /\ m \in due'
      BY <2>1, <2>2 DEF IInv, TypeOK
    <3>2. /\ Rank(m) = 7 * MaxAttempts + 1
          /\ Rank(m)' = 7 * (MaxAttempts - attempts'[m]) + 0
      BY <2>1, <2>2, <3>1 DEF Ranks
    <3>3. QED
      BY <1>1, <2>1, <3>2 DEF Advances
  <2>3. CASE m # n
    BY <1>4, <2>1, <2>3 DEF RowOf, IInv, TypeOK
  <2>4. QED
    BY <2>2, <2>3
<1>6. ASSUME NEW n \in Message, BackoffOver(n) PROVE Advances(m)
  <2>1. /\ status[n] = "NEW" /\ n \notin due /\ due' = due \cup {n}
        /\ attempts' = attempts /\ status' = status
    BY <1>6 DEF BackoffOver
  <2>2. CASE m = n
    <3>1. /\ Rank(m) = 7 * (MaxAttempts - attempts[m]) + 1
          /\ Rank(m)' = 7 * (MaxAttempts - attempts'[m]) + 0
      BY <2>1, <2>2 DEF Ranks
    <3>2. QED
      BY <1>1, <2>1, <3>1 DEF Advances
  <2>3. CASE m # n
    BY <1>4, <2>1, <2>3 DEF RowOf
  <2>4. QED
    BY <2>2, <2>3
<1>7. QED
  BY <1>4, <1>5, <1>6 DEF RowOf, vars

\* A run takes a message it holds further, puts it back or is through with it.
Moves(r, m) ==
    \/ m \in Hold(r)' /\ RunStage(r, m)' < RunStage(r, m)
    \/ m \notin Hold(r)' /\ status'[m] # "absent"

\* A step of a run that touches no message it does not hold, and that leaves those
\* it holds where they are or moves them.
Confined(r) ==
    /\ OthersRest(r)
    /\ attempts' = attempts
    /\ \A m \in Message \ Hold(r) : m \notin Hold(r)' /\ RowOf(m)' = RowOf(m)
    /\ \A m \in Hold(r) :
          \/ Moves(r, m)
          \/ m \in Hold(r)' /\ RunStage(r, m)' = RunStage(r, m) /\ RowOf(m)' = RowOf(m)

Forward ==
    /\ \A m \in Message : Advances(m)
    /\ \E m \in Message : Rank(m)' < Rank(m)

LEMMA ConfinedAdvances ==
    ASSUME IInv, Ranks, Ranks', NEW r \in Run, Confined(r)
    PROVE  /\ \A m \in Message : Advances(m)
           /\ \A m \in Hold(r) : Moves(r, m) => Rank(m)' < Rank(m)
<1>1. OthersRest(r) /\ attempts' = attempts
  BY DEF Confined
<1>2. Hold(r) \subseteq Message
  BY DEF Hold, IInv, TypeOK
<1>3. ASSUME NEW m \in Hold(r), Moves(r, m) PROVE Rank(m)' < Rank(m)
  BY <1>1, <1>2, <1>3, HolderMoves DEF Moves
<1>4. ASSUME NEW m \in Message PROVE Advances(m)
  <2>1. CASE m \notin Hold(r)
    BY <1>1, <2>1, OtherStays DEF Confined, Advances
  <2>2. CASE m \in Hold(r) /\ Moves(r, m)
    BY <1>3, <2>2 DEF Advances
  <2>3. CASE m \in Hold(r) /\ ~Moves(r, m)
    <3>1. m \in Hold(r)' /\ RunStage(r, m)' = RunStage(r, m) /\ RowOf(m)' = RowOf(m)
      BY <2>3 DEF Confined
    <3>2. Rank(m)' = Rank(m)
      BY <1>1, <2>3, <3>1, HolderStays
    <3>3. QED
      BY <3>1, <3>2 DEF Advances
  <2>4. QED
    BY <2>1, <2>2, <2>3
<1>5. QED
  BY <1>3, <1>4

LEMMA ClaimAdvances ==
    ASSUME IInv, Ranks, Ranks', NEW r \in Run, Claim(r)
    PROVE  Forward
<1>1. PICK S \in SUBSET Claimable :
          /\ S # {}
          /\ claimed' = [claimed EXCEPT ![r] = S]
          /\ status' = [m \in Message |-> IF m \in S THEN "CLAIMED" ELSE status[m]]
          /\ attempts' = [m \in Message |-> IF m \in S THEN attempts[m] + 1 ELSE attempts[m]]
  BY DEF Claim
<1>2. pc[r] = "idle" /\ pc' = [pc EXCEPT ![r] = "fetch"] /\ due' = due /\ todo' = todo
  BY DEF Claim, Goto
<1>3. /\ pc'[r] = "fetch" /\ claimed'[r] = S
      /\ OthersRest(r)
  BY <1>1, <1>2 DEF OthersRest, IInv, TypeOK
<1>4. Hold(r) = {} /\ Hold(r)' = S
  BY <1>2, <1>3 DEF Hold, IInv, RunInv, RunOK
<1>5. S \subseteq Message /\ \A m \in S : status[m] = "NEW" /\ m \in due
  BY DEF Claimable, IInv, TypeOK
<1>6. ASSUME NEW m \in S PROVE Rank(m)' < Rank(m)
  <2>1. RunStage(r, m)' = 6
    BY <1>3 DEF RunStage
  <2>2. attempts'[m] = attempts[m] + 1 /\ attempts[m] \in 0 .. MaxAttempts /\ MaxAttempts \in Nat
    BY <1>1, <1>5, AttemptsPositive DEF Ranks
  <2>3. /\ Rank(m) = 7 * (MaxAttempts - attempts[m]) + 0
        /\ Rank(m)' = 7 * (MaxAttempts - attempts'[m]) + RunStage(r, m)'
    BY <1>4, <1>5 DEF Ranks
  <2>4. QED
    BY <2>1, <2>2, <2>3
<1>7. ASSUME NEW m \in Message, m \notin S PROVE Advances(m)
  <2>1. RowOf(m)' = RowOf(m)
    BY <1>1, <1>2, <1>7 DEF RowOf
  <2>2. QED
    BY <1>3, <1>4, <1>7, <2>1, OtherStays DEF Advances
<1>8. QED
  BY <1>1, <1>5, <1>6, <1>7 DEF Forward, Advances

\* The steps that lead a run to its next loop.
LEMMA FetchAdvances ==
    ASSUME IInv, BusyRuns, Ranks, Ranks', NEW r \in Run, Fetch(r) \/ Seal(r) \/ Err(r)
    PROVE  Forward
<1>1. /\ pc[r] \in {"fetch", "reject", "seal", "notify"}
      /\ UNCHANGED <<attempts, due, claimed>>
      /\ \E s : todo' = [todo EXCEPT ![r] = s]
      /\ \E s : pc' = [pc EXCEPT ![r] = s]
  BY DEF Fetch, Seal, Err, Goto, rows
<1>2. OthersRest(r)
  BY <1>1 DEF OthersRest, IInv, TypeOK
<1>3. Hold(r) = claimed[r] /\ claimed[r] # {} /\ claimed[r] \subseteq Message
  BY <1>1 DEF Hold, BusyRuns, IInv, TypeOK
<1>4. \A m \in Message \ Hold(r) : status'[m] = status[m]
  BY <1>3 DEF Fetch, Seal, Err, rows, MarkDone, Found
<1>5. Hold(r)' = Hold(r) /\ \A m \in Hold(r) : RunStage(r, m)' < RunStage(r, m)
  <2>1. CASE Fetch(r)
    <3>1. /\ pc[r] = "fetch" /\ pc'[r] \in {"reject", "seal"} /\ todo'[r] = claimed[r]
          /\ claimed' = claimed
      BY <2>1 DEF Fetch, Goto, IInv, TypeOK
    <3>2. QED
      BY <1>3, <3>1 DEF Hold, RunStage
  <2>2. CASE Seal(r)
    <3>1. pc[r] = "seal" /\ pc'[r] = "notify" /\ claimed' = claimed
      BY <2>2 DEF Seal, Goto, IInv, TypeOK
    <3>2. QED
      BY <1>3, <3>1 DEF Hold, RunStage
  <2>3. CASE Err(r)
    <3>1. pc'[r] = "recover" /\ todo'[r] = claimed[r] /\ claimed' = claimed
      BY <2>3 DEF Err, Goto, IInv, TypeOK
    <3>2. QED
      BY <1>1, <1>3, <3>1 DEF Hold, RunStage
  <2>4. QED
    BY <2>1, <2>2, <2>3
<1>6. Confined(r)
  BY <1>1, <1>2, <1>4, <1>5 DEF Confined, Moves, RowOf
<1>7. QED
  BY <1>3, <1>5, <1>6, ConfinedAdvances DEF Moves, Forward

\* A run that is over is through with all it held.
LEMMA LeaveAdvances ==
    ASSUME IInv, Ranks, Ranks', NEW r \in Run, Leave(r), attempts' = attempts,
           \A m \in Message \ Hold(r) : RowOf(m)' = RowOf(m),
           \A m \in Hold(r) : status'[m] # "absent"
    PROVE  /\ \A m \in Message : Advances(m)
           /\ \A m \in Hold(r) : Rank(m)' < Rank(m)
<1>1. OthersRest(r) /\ pc'[r] = "idle" /\ claimed'[r] = {}
  BY DEF Leave, Goto, OthersRest, IInv, TypeOK
<1>2. Hold(r)' = {}
  BY <1>1 DEF Hold
<1>3. Confined(r)
  BY <1>1, <1>2 DEF Confined, Moves
<1>4. QED
  BY <1>2, <1>3, ConfinedAdvances DEF Moves

LEMMA CrashAdvances ==
    ASSUME IInv, Ranks, Ranks', NEW r \in Run, Crash(r), NEW m \in Message
    PROVE  Advances(m)
<1>1. Leave(r) /\ UNCHANGED <<status, attempts, due>>
  BY DEF Crash, rows
<1>2. Hold(r) \subseteq Message /\ \A n \in Hold(r) : status[n] # "absent"
  BY DEF Hold, IInv, TypeOK, HeldApart
<1>3. QED
  BY <1>1, <1>2, LeaveAdvances DEF RowOf

\* A turn of a loop brings its message forward, the last turn all that the run holds.
LEMMA TurnAdvances ==
    ASSUME IInv, Ranks, Ranks', NEW r \in Run, NEW n \in todo[r],
           Reject(r, n) \/ Notify(r, n) \/ Requeue(r, n) \/ GiveUp(r, n)
    PROVE  Forward
<1>1. /\ pc[r] \in {"reject", "notify", "recover"} /\ Turn(r, n) /\ attempts' = attempts
      /\ \E s \in {"NEW", "FAILED", status[n]} : status' = [status EXCEPT ![n] = s]
      /\ due' \in {due, due \ {n}}
  <2>1. status' = status => status' = [status EXCEPT ![n] = status[n]]
    BY DEF IInv, TypeOK
  <2>2. QED
    BY <2>1 DEF Reject, Notify, Requeue, GiveUp, rows
<1>2. n \in claimed[r] /\ n \in Message
  BY DEF IInv, TypeOK
<1>3. n \in Hold(r)
  BY <1>2 DEF Hold
<1>4. /\ Hold(r) \subseteq Message
      /\ \A m \in Hold(r) : status[m] \in {"CLAIMED", "DONE", "FAILED"}
  BY DEF Hold, IInv, TypeOK, HeldApart
<1>5. \A m \in Message : m # n => RowOf(m)' = RowOf(m)
  BY <1>1 DEF RowOf, IInv, TypeOK
<1>6. \A m \in Hold(r) : status'[m] # "absent"
  <2>1. SUFFICES ASSUME NEW m \in Hold(r) PROVE status'[m] # "absent"
    OBVIOUS
  <2>2. CASE m = n
    BY <1>1, <1>2, <1>4, <2>1, <2>2 DEF IInv, TypeOK
  <2>3. CASE m # n
    BY <1>1, <1>4, <2>1, <2>3 DEF IInv, TypeOK
  <2>4. QED
    BY <2>2, <2>3
<1>7. CASE todo[r] = {n}
  <2>1. Leave(r)
    BY <1>1, <1>7 DEF Turn
  <2>2. QED
    BY <1>1, <1>3, <1>4, <1>5, <1>6, <2>1, LeaveAdvances DEF Forward
<1>8. CASE todo[r] # {n}
  <2>1. todo' = [todo EXCEPT ![r] = @ \ {n}] /\ UNCHANGED <<pc, claimed>>
    BY <1>1, <1>8 DEF Turn
  <2>2. todo'[r] = todo[r] \ {n} /\ OthersRest(r)
    BY <2>1 DEF OthersRest, IInv, TypeOK
  <2>3. Moves(r, n)
    <3>1. CASE pc[r] = "recover"
      BY <1>3, <1>6, <2>1, <2>2, <3>1 DEF Moves, Hold
    <3>2. CASE pc[r] # "recover"
      BY <1>1, <1>2, <2>1, <2>2, <3>2 DEF Moves, Hold, RunStage
    <3>3. QED
      BY <3>1, <3>2
  <2>4. ASSUME NEW m \in Hold(r), m # n
        PROVE  m \in Hold(r)' /\ RunStage(r, m)' = RunStage(r, m)
    BY <2>1, <2>2, <2>4 DEF Hold, RunStage
  <2>5. ASSUME NEW m \in Message \ Hold(r) PROVE m \notin Hold(r)'
    BY <2>1, <2>2, <2>5 DEF Hold
  <2>6. Confined(r)
    BY <1>1, <1>3, <1>4, <1>5, <2>2, <2>3, <2>4, <2>5 DEF Confined
  <2>7. QED
    BY <1>3, <1>4, <2>3, <2>6, ConfinedAdvances DEF Forward
<1>9. QED
  BY <1>7, <1>8

LEMMA StepAdvances ==
    ASSUME IInv, BusyRuns, Ranks, Ranks', [Next]_vars
    PROVE  /\ \A m \in Message : Advances(m)
           /\ (\E r \in Run : Proceed(r) \/ Err(r)) => Forward
<1>1. ASSUME NEW r \in Run, Proceed(r) \/ Err(r) PROVE Forward
  BY <1>1, ClaimAdvances, FetchAdvances, TurnAdvances DEF Proceed
<1>2. ASSUME NEW m \in Message PROVE Advances(m)
  BY <1>1, CrashAdvances, OutboxAdvances DEF Next, Forward
<1>3. QED
  BY <1>1, <1>2

\* A message has at most 7 * MaxAttempts + 1 steps before it, and none exactly when
\* it has left the queue and no run may still write its row.
RankMeasures ==
    \A m \in Message :
        /\ Rank(m) \in 0 .. 7 * MaxAttempts + 1
        /\ Rank(m) = 0 <=> status[m] \notin {"absent", "NEW"} /\ ~Held(m)

\* Messages only go forward: nothing that the ledger, workers, errors, crashes or
\* time do makes the steps more that a message has before it, whatever changes its
\* row makes them fewer, and so does every step of a run for some message, those
\* into and through the catch block included.
MessagesAdvance ==
    [][/\ \A m \in Message :
             /\ Rank(m)' <= Rank(m)
             /\ RowOf(m)' # RowOf(m) => Rank(m)' < Rank(m)
       /\ (\E r \in Run : Proceed(r) \/ Err(r)) => \E m \in Message : Rank(m)' < Rank(m)]_vars

LEMMA RankBounds == IInv /\ Ranks => RankMeasures
<1> SUFFICES ASSUME IInv, Ranks, NEW m \in Message
             PROVE  /\ Rank(m) \in 0 .. 7 * MaxAttempts + 1
                    /\ Rank(m) = 0 <=> status[m] \notin {"absent", "NEW"} /\ ~Held(m)
  BY DEF RankMeasures
<1>1. MaxAttempts \in Nat \ {0} /\ attempts[m] \in 0 .. MaxAttempts
  BY AttemptsPositive DEF Ranks
<1>2. CASE Held(m)
  <2>1. PICK r \in Run : m \in Hold(r)
    BY <1>2 DEF Held
  <2>2. attempts[m] # 0 /\ Rank(m) = 7 * (MaxAttempts - attempts[m]) + RunStage(r, m)
    BY <2>1 DEF Ranks
  <2>3. RunStage(r, m) \in 2 .. 6
    BY StageRange
  <2>4. QED
    BY <1>1, <1>2, <2>2, <2>3
<1>3. CASE status[m] \in {"absent", "NEW"}
  <2>1. attempts[m] < MaxAttempts
    BY <1>3 DEF Ranks
  <2>2. \/ Rank(m) = 7 * MaxAttempts + 1
        \/ Rank(m) = 7 * (MaxAttempts - attempts[m]) + 0
        \/ Rank(m) = 7 * (MaxAttempts - attempts[m]) + 1
    BY <1>3 DEF Ranks
  <2>3. QED
    BY <1>1, <1>3, <2>1, <2>2
<1>4. CASE status[m] \notin {"absent", "NEW"} /\ ~Held(m)
  BY <1>1, <1>4 DEF Ranks
<1>5. QED
  BY <1>2, <1>3, <1>4

\* The worker never goes round in circles, which is what EveryMessageEnds rests on
\* besides fairness: however often transactions fail, no message is retried for ever,
\* a DONE row put back to NEW by the catch block included, and no run is busy for
\* ever with the messages there are.
THEOREM NeverRetriedForever == Spec => []RankMeasures /\ MessagesAdvance
<1> DEFINE Goal == /\ \A m \in Message :
                         /\ Rank(m)' <= Rank(m)
                         /\ RowOf(m)' # RowOf(m) => Rank(m)' < Rank(m)
                   /\ (\E r \in Run : Proceed(r) \/ Err(r)) =>
                         \E m \in Message : Rank(m)' < Rank(m)
<1> DEFINE Facts == IInv /\ BusyRuns /\ Ranks /\ RankMeasures
<1>1. Facts /\ Facts' /\ [Next]_vars => Goal
  <2> SUFFICES ASSUME Facts, Facts', [Next]_vars PROVE Goal
    OBVIOUS
  <2>1. ASSUME NEW m \in Message
        PROVE  /\ Rank(m)' <= Rank(m)
               /\ RowOf(m)' # RowOf(m) => Rank(m)' < Rank(m)
    <3>1. Rank(m) \in Nat /\ Rank(m)' \in Nat
      BY DEF RankMeasures
    <3>2. Advances(m)
      BY StepAdvances
    <3>3. QED
      BY <3>1, <3>2 DEF Advances
  <2>2. QED
    BY <2>1, StepAdvances DEF Forward
<1>2. Spec => []Facts
  <2>1. IInv /\ BusyRuns => Facts
    BY RanksHold, RankBounds
  <2> HIDE DEF Facts
  <2>2. QED
    BY <2>1, PipelineInvariance, BusyInvariance, PTL
<1>3. Facts => RankMeasures
  OBVIOUS
<1> HIDE DEF Goal, Facts
<1>4. Facts /\ Facts' /\ [Next]_vars => [Goal]_vars
  BY <1>1
<1>5. Spec /\ []Facts => []RankMeasures /\ [][Goal]_vars
  BY <1>3, <1>4, PTL DEF Spec
<1>6. QED
  BY <1>2, <1>5, PTL DEF MessagesAdvance, Goal

\* What a run that was cut off has left behind stays so: CLAIMED, neither requeued nor
\* given up, and out of every run's hands.
LeftBehind ==
    [][\A m \in abandoned : m \in abandoned' /\ RowOf(m)' = RowOf(m) /\ ~Held(m)']_vars

\* Nothing reads claimed_at, so no later run takes such a message up again, and none
\* that is still going on resets it: EveryMessageEnds has to make an exception of it.
THEOREM LostForGood == Spec => LeftBehind
<1> DEFINE Goal == \A m \in Message :
                      /\ Rank(m)' <= Rank(m)
                      /\ RowOf(m)' # RowOf(m) => Rank(m)' < Rank(m)
           Kept == \A m \in abandoned : m \in abandoned' /\ RowOf(m)' = RowOf(m) /\ ~Held(m)'
<1> DEFINE Facts == IInv /\ RankMeasures
<1>1. Facts /\ Facts' /\ [Next]_vars /\ [Goal]_vars => [Kept]_vars
  <2> SUFFICES ASSUME IInv, RankMeasures, IInv', RankMeasures', Next, Goal, NEW m \in abandoned
               PROVE  m \in abandoned' /\ RowOf(m)' = RowOf(m) /\ ~Held(m)'
    OBVIOUS
  <2>1. m \in Message /\ status[m] = "CLAIMED" /\ ~Held(m)
    BY DEF IInv, TypeOK, ClaimInv, ClaimedIsHeld, Held
  <2>2. Rank(m) = 0 /\ Rank(m)' \in Nat
    BY <2>1 DEF RankMeasures
  <2>3. RowOf(m)' = RowOf(m)
    BY <2>1, <2>2
  <2>4. abandoned \subseteq abandoned'
    BY DEF Next, Proceed, Enqueue, BackoffOver, Claim, Fetch, Reject, Seal, Notify,
           Requeue, GiveUp, Err, Crash, history
  <2>5. ~Held(m)'
    BY <2>4 DEF IInv, ClaimInv, ClaimedIsHeld, Held
  <2>6. QED
    BY <2>3, <2>4, <2>5
<1>2. Spec => []Facts
  BY PipelineInvariance, NeverRetriedForever, PTL
<1>3. MessagesAdvance => [][Goal]_vars
  <2>1. (/\ \A m \in Message :
               /\ Rank(m)' <= Rank(m)
               /\ RowOf(m)' # RowOf(m) => Rank(m)' < Rank(m)
         /\ (\E r \in Run : Proceed(r) \/ Err(r)) => \E m \in Message : Rank(m)' < Rank(m)) => Goal
    OBVIOUS
  <2> HIDE DEF Goal
  <2>2. QED
    BY <2>1, PTL DEF MessagesAdvance
<1> HIDE DEF Goal, Kept, Facts
<1>4. Spec /\ []Facts /\ [][Goal]_vars => [][Kept]_vars
  BY <1>1, PTL DEF Spec
<1>5. QED
  BY <1>2, <1>3, <1>4, NeverRetriedForever, PTL DEF LeftBehind, Kept
===============================================================================
