-------------------------- MODULE AnchorWorkersProofs --------------------------
(***************************************************************************)
(* Proofs about AnchorWorkers for any events, companies, batches, runs and *)
(* transaction ids.  What they need of the tree is in MerkleTreeProofs.     *)
(***************************************************************************)
EXTENDS AnchorWorkers, MerkleTreeProofs

-------------------------------------------------------------------------------
(* The inductive invariant.                                                *)

Submitted(b) == \E x \in chain : x.batch = b

OnChain(t, b) == [tx |-> t, batch |-> b, rootHash |-> root[b]] \in chain

\* What a run knows of its batch at each of its steps.
RunOK(r) ==
    /\ pc[r] \in {"submit", "confirm"} => status[held[r]] = "SENT"
    /\ pc[r] \in {"mode", "company", "announce"} =>
          /\ status[held[r]] = "CONFIRMED"
          /\ r \in MockRun => ref[held[r]] = held[r]
          /\ r \in FabricRun => ref[held[r]] = txOf[r]
    /\ pc[r] \in {"submit", "mode"} => r \in FabricRun
    /\ pc[r] = "submit" => ~Submitted(held[r])
    /\ pc[r] = "confirm" /\ r \in MockRun => ~Submitted(held[r])
    /\ pc[r] \in {"confirm", "mode", "company", "announce"} /\ r \in FabricRun =>
          txOf[r] \in TxId /\ OnChain(txOf[r], held[r])

RunInv == \A r \in Run : RunOK(r)

\* A batch not yet claimed is not on the chain, one not yet confirmed has the
\* mode it was created with, and the chain has the roots of sealed batches.
BatchInv ==
    /\ \A b \in Batch : status[b] \in {"absent", "NOT_SENT"} => ~Submitted(b)
    /\ \A b \in Batch : status[b] # "CONFIRMED" => mode[b] = "MOCK"
    /\ \A x \in chain : x.batch \in Batch /\ x.rootHash = root[x.batch]

\* The rows of an event were made of one sealed batch that has it.
RowInv ==
    \A e \in Event : proofRows[e] # None =>
        \E b \in Batch, es \in Leaves : \E i \in DOMAIN es :
            /\ proofRows[e] = Rows(b, es, i)
            /\ es[i] = e
            /\ status[b] # "absent"
            /\ root[b] = Tree(es).rootHash

IInv == TypeOK /\ RunInv /\ BatchInv /\ RowInv /\ SubmittedOnce /\ AnchorIsTrue

-------------------------------------------------------------------------------
(* Lemmas.                                                                 *)

LEMMA RunKinds ==
    ASSUME NEW r \in Run
    PROVE  (r \in MockRun \/ r \in FabricRun) /\ ~(r \in MockRun /\ r \in FabricRun)
BY KindsDiffer DEF Run

\* A run at work has a batch that no other run has.
LEMMA Held ==
    ASSUME IInv, NEW r \in Run, pc[r] # "idle"
    PROVE  /\ held[r] \in Batch /\ held[r] # None
           /\ \A s \in Run \ {r} : held[s] # held[r]
BY DEF IInv, TypeOK, SubmittedOnce

LEMMA InitInv == Init => IInv
<1> SUFFICES ASSUME Init PROVE IInv
  OBVIOUS
<1>1. TypeOK
  BY DEF Init, TypeOK, AnchorStatus, Step
<1>2. RunInv /\ BatchInv /\ RowInv
  BY DEF Init, RunInv, RunOK, BatchInv, RowInv, Submitted
<1>3. SubmittedOnce /\ AnchorIsTrue
  BY DEF Init, SubmittedOnce, AnchorIsTrue
<1>4. QED
  BY <1>1, <1>2, <1>3 DEF IInv

\* A run that holds a batch has claimed it.
LEMMA HeldIsClaimed ==
    ASSUME IInv, NEW r \in Run, NEW b \in Batch, status[b] \in {"absent", "NOT_SENT"}
    PROVE  held[r] # b
<1>1. CASE pc[r] = "idle"
  BY <1>1, NamesDiffer DEF IInv, TypeOK, None
<1>2. CASE pc[r] # "idle"
  <2>1. status[held[r]] \in {"SENT", "CONFIRMED"}
    BY <1>2 DEF IInv, TypeOK, Step, RunInv, RunOK
  <2>2. QED
    BY <2>1
<1>3. QED
  BY <1>1, <1>2

-------------------------------------------------------------------------------
(* Each action preserves the invariant.                                    *)

\* Seal: the batch is new, so neither a run nor the chain knows it.
LEMMA SealStep ==
    ASSUME IInv, NEW b \in Batch, NEW es \in Leaves, Seal(b, es)
    PROVE  IInv'
<1> USE DEF IInv
<1>1. /\ status[b] = "absent"
      /\ status' = [status EXCEPT ![b] = "NOT_SENT"]
      /\ root' = [root EXCEPT ![b] = Tree(es).rootHash]
      /\ proofRows' = Proved(b, es)
      /\ UNCHANGED <<mode, ref, chain, announced, abandoned, pc, held, txOf>>
  BY DEF Seal, local
<1>2. /\ status'[b] = "NOT_SENT" /\ root'[b] = Tree(es).rootHash
      /\ \A c \in Batch \ {b} : status'[c] = status[c] /\ root'[c] = root[c]
  BY <1>1 DEF TypeOK
<1>3. \A e \in Event : proofRows[e] # None => proofRows'[e] = proofRows[e]
  BY <1>1 DEF Proved
<1>4. \A e \in Event : proofRows'[e] = proofRows[e]
          \/ \E i \in DOMAIN es : es[i] = e /\ proofRows'[e] = Rows(b, es, i)
  <2>1. ASSUME NEW e \in Event, proofRows[e] = None, \E i \in DOMAIN es : es[i] = e
        PROVE  \E i \in DOMAIN es : es[i] = e /\ proofRows'[e] = Rows(b, es, i)
    <3>1. PICK i \in DOMAIN es : i = CHOOSE j \in DOMAIN es : es[j] = e
      BY <2>1
    <3>2. es[i] = e
      BY <2>1, <3>1
    <3>3. proofRows'[e] = Rows(b, es, i)
      BY <1>1, <2>1, <3>1 DEF Proved
    <3>4. QED
      BY <3>2, <3>3
  <2>2. ASSUME NEW e \in Event, ~(proofRows[e] = None /\ \E i \in DOMAIN es : es[i] = e)
        PROVE  proofRows'[e] = proofRows[e]
    BY <1>1, <2>2 DEF Proved
  <2>3. QED
    BY <2>1, <2>2
<1>5. \A c \in Batch : Members(c) \subseteq Members(c)'
  BY <1>3 DEF Members
<1>6. ~Submitted(b) /\ \A r \in Run : held[r] # b
  BY <1>1, HeldIsClaimed DEF BatchInv
<1>7. TypeOK'
  <2>1. root' \in [Batch -> {Tree(fs).rootHash : fs \in Leaves} \cup {None}]
    BY <1>1 DEF TypeOK
  <2>2. status' \in [Batch -> AnchorStatus]
    BY <1>1 DEF TypeOK, AnchorStatus
  <2>3. \A e \in Event : proofRows'[e] = None \/ proofRows'[e].batch \in Batch
    <3>1. \A i \in DOMAIN es : Rows(b, es, i).batch = b
      BY DEF Rows
    <3>2. QED
      BY <1>4, <3>1 DEF TypeOK
  <2>4. \A c \in Batch : status'[c] = "CONFIRMED" <=> ref'[c] # None
    BY <1>1, <1>2 DEF TypeOK
  <2>5. QED
    BY <1>1, <2>1, <2>2, <2>3, <2>4 DEF TypeOK
<1>8. RunInv'
  <2>1. ASSUME NEW r \in Run PROVE RunOK(r)'
    <3>1. CASE pc[r] = "idle"
      BY <1>1, <3>1 DEF RunOK
    <3>2. CASE pc[r] # "idle"
      <4>1. status'[held[r]] = status[held[r]] /\ root'[held[r]] = root[held[r]]
        BY <1>2, <1>6, <3>2, Held
      <4>2. RunOK(r)
        BY DEF RunInv
      <4>3. QED
        BY <1>1, <4>1, <4>2 DEF RunOK, Submitted, OnChain
    <3>3. QED
      BY <3>1, <3>2
  <2>2. QED
    BY <2>1 DEF RunInv
<1>9. BatchInv'
  BY <1>1, <1>2, <1>6 DEF BatchInv, Submitted
<1>10. RowInv'
  <2>1. ASSUME NEW e \in Event, proofRows'[e] # None
        PROVE  \E c \in Batch, fs \in Leaves : \E i \in DOMAIN fs :
                   /\ proofRows'[e] = Rows(c, fs, i)
                   /\ fs[i] = e
                   /\ status'[c] # "absent"
                   /\ root'[c] = Tree(fs).rootHash
    <3>1. CASE proofRows'[e] = proofRows[e]
      <4>1. PICK c \in Batch, fs \in Leaves : \E i \in DOMAIN fs :
                /\ proofRows[e] = Rows(c, fs, i)
                /\ fs[i] = e
                /\ status[c] # "absent"
                /\ root[c] = Tree(fs).rootHash
        BY <2>1, <3>1 DEF RowInv
      <4>2. c # b /\ status'[c] = status[c] /\ root'[c] = root[c]
        BY <1>1, <1>2, <4>1
      <4>3. QED
        BY <3>1, <4>1, <4>2
    <3>2. CASE \E i \in DOMAIN es : es[i] = e /\ proofRows'[e] = Rows(b, es, i)
      BY <1>2, <3>2
    <3>3. QED
      BY <1>4, <3>1, <3>2
  <2>2. QED
    BY <2>1 DEF RowInv
<1>11. SubmittedOnce'
  BY <1>1, <1>2 DEF SubmittedOnce
<1>12. AnchorIsTrue'
  <2>1. ASSUME NEW c \in Batch, status'[c] = "CONFIRMED"
        PROVE  c # b /\ status[c] = "CONFIRMED" /\ root'[c] = root[c]
    BY <1>2, <2>1
  <2>2. \A a \in announced : a.batch # b
    BY <1>1 DEF AnchorIsTrue
  <2>3. QED
    BY <1>1, <1>2, <1>5, <2>1, <2>2 DEF AnchorIsTrue
<1>13. QED
  BY <1>7, <1>8, <1>9, <1>10, <1>11, <1>12

\* Rows stay as they are while no batch is sealed.
LEMMA RowsKept ==
    ASSUME RowInv, UNCHANGED <<proofRows, root>>,
           \A b \in Batch : status[b] # "absent" => status'[b] # "absent"
    PROVE  RowInv'
BY DEF RowInv

\* Claim: the batch has been in nobody's hands.
LEMMA ClaimStep ==
    ASSUME IInv, NEW r \in Run, Claim(r)
    PROVE  IInv'
<1> USE DEF IInv
<1>1. PICK b \in Batch :
          /\ status[b] = "NOT_SENT"
          /\ status' = [status EXCEPT ![b] = "SENT"]
          /\ held' = [held EXCEPT ![r] = b]
  BY DEF Claim
<1>2. /\ pc[r] = "idle"
      /\ pc' = [pc EXCEPT ![r] = IF r \in MockRun THEN "confirm" ELSE "submit"]
      /\ UNCHANGED <<root, mode, ref, proofRows, chain, announced, abandoned, txOf>>
  BY DEF Claim, Goto
<1>3. /\ status'[b] = "SENT"
      /\ \A c \in Batch \ {b} : status'[c] = status[c]
  BY <1>1 DEF TypeOK
<1>4. /\ pc'[r] = (IF r \in MockRun THEN "confirm" ELSE "submit") /\ held'[r] = b
      /\ \A s \in Run \ {r} : pc'[s] = pc[s] /\ held'[s] = held[s]
  BY <1>1, <1>2 DEF TypeOK
<1>5. ~Submitted(b) /\ \A s \in Run : held[s] # b
  BY <1>1, HeldIsClaimed DEF BatchInv
<1>6. b # None
  BY NamesDiffer DEF None
<1>7. TypeOK'
  <2>1. status' \in [Batch -> AnchorStatus]
    BY <1>1 DEF TypeOK, AnchorStatus
  <2>2. pc' \in [Run -> Step] /\ held' \in [Run -> Batch \cup {None}]
    BY <1>1, <1>2 DEF TypeOK, Step
  <2>3. \A s \in Run : pc'[s] = "idle" <=> held'[s] = None
    BY <1>4, <1>6 DEF TypeOK
  <2>4. \A c \in Batch : status'[c] = "CONFIRMED" <=> ref'[c] # None
    BY <1>1, <1>2, <1>3 DEF TypeOK
  <2>5. QED
    BY <1>2, <2>1, <2>2, <2>3, <2>4 DEF TypeOK
<1>8. RunInv'
  <2>1. RunOK(r)'
    BY <1>2, <1>3, <1>4, <1>5, RunKinds DEF RunOK, Submitted
  <2>2. ASSUME NEW s \in Run \ {r} PROVE RunOK(s)'
    <3>1. CASE pc[s] = "idle"
      BY <1>4, <3>1 DEF RunOK
    <3>2. CASE pc[s] # "idle"
      <4>1. status'[held[s]] = status[held[s]]
        BY <1>3, <1>5, <3>2, Held
      <4>2. RunOK(s)
        BY DEF RunInv
      <4>3. QED
        BY <1>2, <1>4, <4>1, <4>2 DEF RunOK, Submitted, OnChain
    <3>3. QED
      BY <3>1, <3>2
  <2>3. QED
    BY <2>1, <2>2 DEF RunInv
<1>9. BatchInv'
  BY <1>1, <1>2, <1>3 DEF BatchInv, Submitted
<1>10. RowInv'
  BY <1>2, <1>3, RowsKept
<1>11. SubmittedOnce'
  <2>1. \A s, t \in Run : held'[s] = held'[t] /\ held'[s] # None => s = t
    BY <1>4, <1>5 DEF SubmittedOnce
  <2>2. ASSUME NEW c \in Batch, status'[c] = "SENT", c # b
        PROVE  c \in abandoned'
                  \/ \E s \in Run : held'[s] = c /\ pc'[s] \in {"submit", "confirm"}
    <3>1. c \in abandoned \/ \E s \in Run : held[s] = c /\ pc[s] \in {"submit", "confirm"}
      BY <1>3, <2>2 DEF SubmittedOnce
    <3>2. QED
      BY <1>2, <1>4, <3>1
  <2>3. QED
    BY <1>2, <1>4, <2>1, <2>2 DEF SubmittedOnce
<1>12. AnchorIsTrue'
  <2>1. \A c \in Batch : status'[c] = "CONFIRMED" <=> status[c] = "CONFIRMED"
    BY <1>1, <1>3
  <2>2. \A s \in FabricRun : pc[s] = "mode" => pc'[s] = "mode" /\ held'[s] = held[s]
    BY <1>2, <1>4 DEF Run
  <2>3. \A c \in Batch : Members(c)' = Members(c)
    BY <1>2 DEF Members
  <2>4. QED
    BY <1>2, <2>1, <2>2, <2>3 DEF AnchorIsTrue
<1>13. QED
  BY <1>7, <1>8, <1>9, <1>10, <1>11, <1>12

\* The runs that are not the one that moves.
LEMMA OtherRuns ==
    ASSUME IInv, NEW r \in Run, NEW l \in Step,
           pc' = [pc EXCEPT ![r] = l],
           \/ UNCHANGED <<held, txOf>>
           \/ /\ held' = [held EXCEPT ![r] = None]
              /\ txOf' = [txOf EXCEPT ![r] = None]
           \/ UNCHANGED held /\ \E t \in TxId : txOf' = [txOf EXCEPT ![r] = t]
    PROVE  /\ pc'[r] = l
           /\ \A s \in Run \ {r} : pc'[s] = pc[s] /\ held'[s] = held[s] /\ txOf'[s] = txOf[s]
           /\ pc' \in [Run -> Step]
           /\ held' \in [Run -> Batch \cup {None}]
           /\ txOf' \in [Run -> TxId \cup {None}]
BY DEF IInv, TypeOK

\* A run leaves (Crash, ReadCompany, Announce): what holds of the batches and
\* of the other runs stays, if its batch is given up or settled.
LEMMA LeaveStep ==
    ASSUME IInv, NEW r \in Run, pc[r] # "idle", Leave(r),
           UNCHANGED <<batches, proofRows, chain>>,
           abandoned \subseteq abandoned', abandoned' \subseteq Batch,
           pc[r] \in {"submit", "confirm", "mode"} => held[r] \in abandoned',
           AnchorIsTrue => \A a \in announced' :
               /\ a.batch \in Batch /\ status[a.batch] = "CONFIRMED"
               /\ a.anchorRef = ref[a.batch] /\ a.rootHash = root[a.batch]
               /\ \E e \in Members(a.batch) : CompanyOf[e] = a.company
    PROVE  IInv'
<1> USE DEF IInv
<1>1. /\ pc' = [pc EXCEPT ![r] = "idle"]
      /\ held' = [held EXCEPT ![r] = None]
      /\ txOf' = [txOf EXCEPT ![r] = None]
      /\ UNCHANGED <<root, status, mode, ref, proofRows, chain>>
  BY DEF Leave, Goto, batches
<1>2. /\ pc'[r] = "idle"
      /\ \A s \in Run \ {r} : pc'[s] = pc[s] /\ held'[s] = held[s] /\ txOf'[s] = txOf[s]
      /\ pc' \in [Run -> Step]
      /\ held' \in [Run -> Batch \cup {None}]
      /\ txOf' \in [Run -> TxId \cup {None}]
  BY <1>1, OtherRuns DEF Step
<1>3. held'[r] = None
  BY <1>1 DEF TypeOK
<1>4. TypeOK'
  BY <1>1, <1>2, <1>3 DEF TypeOK
<1>5. RunInv'
  <2>1. RunOK(r)'
    BY <1>2 DEF RunOK
  <2>2. ASSUME NEW s \in Run \ {r} PROVE RunOK(s)'
    BY <1>1, <1>2 DEF RunInv, RunOK, Submitted, OnChain
  <2>3. QED
    BY <2>1, <2>2 DEF RunInv
<1>6. BatchInv' /\ RowInv'
  BY <1>1, RowsKept DEF BatchInv, Submitted
<1>7. SubmittedOnce'
  <2>1. \A s, t \in Run : held'[s] = held'[t] /\ held'[s] # None => s = t
    BY <1>2, <1>3 DEF SubmittedOnce
  <2>2. ASSUME NEW b \in Batch, status'[b] = "SENT"
        PROVE  b \in abandoned' \/ \E s \in Run : held'[s] = b /\ pc'[s] \in {"submit", "confirm"}
    <3>1. b \in abandoned \/ \E s \in Run : held[s] = b /\ pc[s] \in {"submit", "confirm"}
      BY <1>1, <2>2 DEF SubmittedOnce
    <3>2. QED
      BY <1>2, <3>1
  <2>3. QED
    BY <1>1, <2>1, <2>2 DEF SubmittedOnce
<1>8. AnchorIsTrue'
  <2>1. \A b \in Batch : Members(b)' = Members(b)
    BY <1>1 DEF Members
  <2>2. ASSUME NEW b \in Batch, status'[b] = "CONFIRMED"
        PROVE  \/ ref'[b] = b /\ mode'[b] = "MOCK" /\ \A x \in chain' : x.batch # b
               \/ /\ [tx |-> ref'[b], batch |-> b, rootHash |-> root'[b]] \in chain'
                  /\ \/ mode'[b] = "FABRIC"
                     \/ b \in abandoned'
                     \/ \E s \in FabricRun : held'[s] = b /\ pc'[s] = "mode"
    <3>1. \A s \in FabricRun : s \in Run
      BY DEF Run
    <3>2. QED
      BY <1>1, <1>2, <2>2, <3>1 DEF AnchorIsTrue
  <2>3. QED
    BY <1>1, <2>1, <2>2 DEF AnchorIsTrue
<1>9. QED
  BY <1>4, <1>5, <1>6, <1>7, <1>8

LEMMA CrashStep ==
    ASSUME IInv, NEW r \in Run, Crash(r)
    PROVE  IInv'
<1>1. pc[r] # "idle" /\ Leave(r) /\ UNCHANGED <<batches, proofRows, chain, announced>>
  BY DEF Crash
<1>2. held[r] \in Batch
  BY <1>1, Held
<1>3. /\ abandoned \subseteq abandoned' /\ abandoned' \subseteq Batch
      /\ pc[r] \in {"submit", "confirm", "mode"} => held[r] \in abandoned'
  BY <1>2 DEF Crash, IInv, TypeOK
<1>4. QED
  BY <1>1, <1>3, LeaveStep DEF AnchorIsTrue

\* Submit: the batch was not on the chain, and it is the run's alone.
LEMMA SubmitStep ==
    ASSUME IInv, NEW r \in Run, Submit(r)
    PROVE  IInv'
<1> USE DEF IInv
<1> DEFINE b == held[r]
<1>1. PICK t \in TxId :
          /\ chain' = chain \cup {[tx |-> t, batch |-> b, rootHash |-> root[b]]}
          /\ \/ /\ txOf' = [txOf EXCEPT ![r] = t]
                /\ pc' = [pc EXCEPT ![r] = "confirm"]
                /\ UNCHANGED <<held, abandoned>>
             \/ /\ pc' = [pc EXCEPT ![r] = "idle"]
                /\ held' = [held EXCEPT ![r] = None]
                /\ txOf' = [txOf EXCEPT ![r] = None]
                /\ abandoned' = abandoned \cup {b}
  BY DEF Submit, Leave, Goto
<1>2. /\ pc[r] = "submit"
      /\ UNCHANGED <<root, status, mode, ref, proofRows, announced>>
  BY DEF Submit, batches
<1>3. /\ b \in Batch /\ b # None
      /\ \A s \in Run \ {r} : held[s] # b
  BY <1>2, Held
<1>4. status[b] = "SENT" /\ r \in FabricRun /\ ~Submitted(b)
  BY <1>2 DEF RunInv, RunOK
<1>5. /\ pc'[r] \in {"idle", "confirm"}
      /\ \A s \in Run \ {r} : pc'[s] = pc[s] /\ held'[s] = held[s] /\ txOf'[s] = txOf[s]
      /\ pc' \in [Run -> Step]
      /\ held' \in [Run -> Batch \cup {None}]
      /\ txOf' \in [Run -> TxId \cup {None}]
  BY <1>1, OtherRuns DEF Step
<1>6. \/ pc'[r] = "confirm" /\ held'[r] = b /\ txOf'[r] = t /\ abandoned' = abandoned
      \/ pc'[r] = "idle" /\ held'[r] = None /\ abandoned' = abandoned \cup {b}
  BY <1>1 DEF TypeOK
<1>7. TypeOK'
  <2>1. \A s \in Run : pc'[s] = "idle" <=> held'[s] = None
    BY <1>3, <1>5, <1>6 DEF TypeOK
  <2>2. QED
    BY <1>2, <1>3, <1>5, <1>6, <2>1 DEF TypeOK
<1>8. RunInv'
  <2>1. ASSUME pc'[r] = "idle" PROVE RunOK(r)'
    BY <2>1 DEF RunOK
  <2>2. ASSUME pc'[r] = "confirm" PROVE RunOK(r)'
    <3>1. held'[r] = b /\ txOf'[r] = t
      BY <1>6, <2>2
    <3>2. ~(r \in MockRun) /\ status'[b] = "SENT"
      BY <1>2, <1>4, RunKinds
    <3>3. [tx |-> txOf'[r], batch |-> held'[r], rootHash |-> root'[held'[r]]] \in chain'
      BY <1>1, <1>2, <3>1
    <3>4. QED
      BY <2>2, <3>1, <3>2, <3>3 DEF RunOK, OnChain
  <2>3. ASSUME NEW s \in Run \ {r} PROVE RunOK(s)'
    <3>1. CASE pc[s] = "idle"
      BY <1>5, <3>1 DEF RunOK
    <3>2. CASE pc[s] # "idle"
      <4>1. Submitted(held[s])' => Submitted(held[s])
        BY <1>1, <1>3, <1>5 DEF Submitted
      <4>2. OnChain(txOf[s], held[s]) => OnChain(txOf[s], held[s])'
        BY <1>1, <1>2, <1>5 DEF OnChain
      <4>3. RunOK(s)
        BY DEF RunInv
      <4>4. QED
        BY <1>2, <1>5, <4>1, <4>2, <4>3 DEF RunOK
    <3>3. QED
      BY <3>1, <3>2
  <2>4. QED
    BY <1>5, <2>1, <2>2, <2>3 DEF RunInv
<1>9. BatchInv'
  BY <1>1, <1>2, <1>3, <1>4 DEF BatchInv, Submitted
<1>10. RowInv'
  BY <1>2, RowsKept
<1>11. SubmittedOnce'
  <2>1. \A s, u \in Run : held'[s] = held'[u] /\ held'[s] # None => s = u
    BY <1>3, <1>5, <1>6 DEF SubmittedOnce
  <2>2. \A x, y \in chain' : x.batch = y.batch => x = y
    BY <1>1, <1>4 DEF SubmittedOnce, Submitted
  <2>3. ASSUME NEW c \in Batch, status'[c] = "SENT"
        PROVE  c \in abandoned'
                  \/ \E s \in Run : held'[s] = c /\ pc'[s] \in {"submit", "confirm"}
    <3>1. c \in abandoned \/ \E s \in Run : held[s] = c /\ pc[s] \in {"submit", "confirm"}
      BY <1>2, <2>3 DEF SubmittedOnce
    <3>2. QED
      BY <1>5, <1>6, <3>1
  <2>4. QED
    BY <2>1, <2>2, <2>3 DEF SubmittedOnce
<1>12. AnchorIsTrue'
  <2>1. \A c \in Batch : Members(c)' = Members(c)
    BY <1>2 DEF Members
  <2>2. ASSUME NEW c \in Batch, status'[c] = "CONFIRMED"
        PROVE  \/ ref'[c] = c /\ mode'[c] = "MOCK" /\ \A x \in chain' : x.batch # c
               \/ /\ [tx |-> ref'[c], batch |-> c, rootHash |-> root'[c]] \in chain'
                  /\ \/ mode'[c] = "FABRIC"
                     \/ c \in abandoned'
                     \/ \E s \in FabricRun : held'[s] = c /\ pc'[s] = "mode"
    <3>1. c # b /\ \A s \in FabricRun : s \in Run
      BY <1>2, <1>4, <2>2 DEF Run
    <3>2. abandoned \subseteq abandoned'
      BY <1>6
    <3>3. \A s \in FabricRun : held[s] = c /\ pc[s] = "mode" => held'[s] = c /\ pc'[s] = "mode"
      BY <1>2, <1>5, <3>1
    <3>4. QED
      BY <1>1, <1>2, <2>2, <3>1, <3>2, <3>3 DEF AnchorIsTrue
  <2>3. QED
    BY <1>2, <2>1, <2>2 DEF AnchorIsTrue
<1>13. QED
  BY <1>7, <1>8, <1>9, <1>10, <1>11, <1>12

\* Confirm: a mock run's batch was never submitted, a Fabric run's is on the
\* chain with the transaction that the run was told.
LEMMA ConfirmStep ==
    ASSUME IInv, NEW r \in Run, Confirm(r)
    PROVE  IInv'
<1> USE DEF IInv
<1> DEFINE b == held[r]
           n == IF r \in MockRun THEN b ELSE txOf[r]
<1>1. /\ pc[r] = "confirm"
      /\ status' = [status EXCEPT ![b] = "CONFIRMED"]
      /\ ref' = [ref EXCEPT ![b] = n]
      /\ pc' = [pc EXCEPT ![r] = IF r \in MockRun THEN "company" ELSE "mode"]
      /\ UNCHANGED <<root, mode, proofRows, chain, announced, abandoned, held, txOf>>
  BY DEF Confirm, Goto
<1>2. /\ b \in Batch /\ b # None
      /\ \A s \in Run \ {r} : held[s] # b
  BY <1>1, Held
<1>3. status[b] = "SENT" /\ mode[b] = "MOCK"
  BY <1>1, <1>2 DEF RunInv, RunOK, BatchInv
<1>4. /\ r \in MockRun => ~Submitted(b)
      /\ r \in FabricRun => txOf[r] \in TxId /\ OnChain(txOf[r], b)
  BY <1>1 DEF RunInv, RunOK
<1>5. /\ status'[b] = "CONFIRMED" /\ ref'[b] = n
      /\ \A c \in Batch \ {b} : status'[c] = status[c] /\ ref'[c] = ref[c]
  BY <1>1, <1>2 DEF TypeOK
<1>6. /\ pc'[r] = IF r \in MockRun THEN "company" ELSE "mode"
      /\ \A s \in Run \ {r} : pc'[s] = pc[s]
      /\ pc' \in [Run -> Step]
  BY <1>1 DEF TypeOK, Step
<1>7. n \in Batch \cup TxId /\ n # None
  BY <1>2, <1>4, RunKinds, NamesDiffer DEF None
<1>8. TypeOK'
  <2>1. status' \in [Batch -> AnchorStatus] /\ ref' \in [Batch -> Batch \cup TxId \cup {None}]
    BY <1>1, <1>7 DEF TypeOK, AnchorStatus
  <2>2. \A s \in Run : pc'[s] = "idle" <=> held'[s] = None
    BY <1>1, <1>2, <1>6 DEF TypeOK
  <2>3. \A c \in Batch : status'[c] = "CONFIRMED" <=> ref'[c] # None
    BY <1>5, <1>7 DEF TypeOK
  <2>4. QED
    BY <1>1, <1>6, <2>1, <2>2, <2>3 DEF TypeOK
<1>9. RunInv'
  <2>1. RunOK(r)'
    BY <1>1, <1>4, <1>5, <1>6, RunKinds DEF RunOK, OnChain
  <2>2. ASSUME NEW s \in Run \ {r} PROVE RunOK(s)'
    <3>1. CASE pc[s] = "idle"
      BY <1>6, <3>1 DEF RunOK
    <3>2. CASE pc[s] # "idle"
      <4>1. status'[held[s]] = status[held[s]] /\ ref'[held[s]] = ref[held[s]]
        BY <1>2, <1>5, <3>2, Held
      <4>2. RunOK(s)
        BY DEF RunInv
      <4>3. QED
        BY <1>1, <1>6, <4>1, <4>2 DEF RunOK, Submitted, OnChain
    <3>3. QED
      BY <3>1, <3>2
  <2>3. QED
    BY <2>1, <2>2 DEF RunInv
<1>10. BatchInv'
  BY <1>1, <1>5 DEF BatchInv, Submitted
<1>11. RowInv'
  BY <1>1, <1>5, RowsKept
<1>12. SubmittedOnce'
  <2>1. ASSUME NEW c \in Batch, status'[c] = "SENT"
        PROVE  c \in abandoned'
                  \/ \E s \in Run : held'[s] = c /\ pc'[s] \in {"submit", "confirm"}
    <3>1. c # b /\ status[c] = "SENT"
      BY <1>5, <2>1
    <3>2. c \in abandoned \/ \E s \in Run : held[s] = c /\ pc[s] \in {"submit", "confirm"}
      BY <3>1 DEF SubmittedOnce
    <3>3. QED
      BY <1>1, <1>6, <3>1, <3>2
  <2>2. QED
    BY <1>1, <2>1 DEF SubmittedOnce
<1>13. AnchorIsTrue'
  <2>1. \A c \in Batch : Members(c)' = Members(c)
    BY <1>1 DEF Members
  <2>2. \A a \in announced : a.batch # b
    BY <1>3 DEF AnchorIsTrue
  <2>3. ASSUME NEW c \in Batch, status'[c] = "CONFIRMED"
        PROVE  \/ ref'[c] = c /\ mode'[c] = "MOCK" /\ \A x \in chain' : x.batch # c
               \/ /\ [tx |-> ref'[c], batch |-> c, rootHash |-> root'[c]] \in chain'
                  /\ \/ mode'[c] = "FABRIC"
                     \/ c \in abandoned'
                     \/ \E s \in FabricRun : held'[s] = c /\ pc'[s] = "mode"
    <3>1. CASE c = b /\ r \in MockRun
      BY <1>1, <1>3, <1>4, <1>5, <3>1 DEF Submitted
    <3>2. CASE c = b /\ r \in FabricRun
      BY <1>1, <1>4, <1>5, <1>6, <3>2, RunKinds DEF OnChain
    <3>3. CASE c # b
      <4>1. \A s \in FabricRun : s \in Run
        BY DEF Run
      <4>2. \A s \in FabricRun : held[s] = c /\ pc[s] = "mode" => held'[s] = c /\ pc'[s] = "mode"
        BY <1>1, <1>6, <3>3, <4>1
      <4>3. QED
        BY <1>1, <1>5, <2>3, <3>3, <4>2 DEF AnchorIsTrue
    <3>4. QED
      BY <3>1, <3>2, <3>3, RunKinds
  <2>4. QED
    BY <1>1, <1>5, <2>1, <2>2, <2>3 DEF AnchorIsTrue
<1>14. QED
  BY <1>8, <1>9, <1>10, <1>11, <1>12, <1>13

LEMMA SetModeStep ==
    ASSUME IInv, NEW r \in Run, SetMode(r)
    PROVE  IInv'
<1> USE DEF IInv
<1> DEFINE b == held[r]
<1>1. /\ pc[r] = "mode"
      /\ mode' = [mode EXCEPT ![b] = "FABRIC"]
      /\ pc' = [pc EXCEPT ![r] = "company"]
      /\ UNCHANGED <<root, status, ref, proofRows, chain, announced, abandoned, held, txOf>>
  BY DEF SetMode, Goto
<1>2. /\ b \in Batch /\ b # None
      /\ \A s \in Run \ {r} : held[s] # b
  BY <1>1, Held
<1>3. /\ status[b] = "CONFIRMED" /\ ref[b] = txOf[r] /\ r \in FabricRun
      /\ txOf[r] \in TxId /\ OnChain(txOf[r], b)
  BY <1>1 DEF RunInv, RunOK
<1>4. /\ mode'[b] = "FABRIC"
      /\ \A c \in Batch \ {b} : mode'[c] = mode[c]
  BY <1>1, <1>2 DEF TypeOK
<1>5. /\ pc'[r] = "company"
      /\ \A s \in Run \ {r} : pc'[s] = pc[s]
      /\ pc' \in [Run -> Step]
  BY <1>1 DEF TypeOK, Step
<1>6. TypeOK'
  <2>1. mode' \in [Batch -> {"MOCK", "FABRIC"}]
    BY <1>1 DEF TypeOK
  <2>2. \A s \in Run : pc'[s] = "idle" <=> held'[s] = None
    BY <1>1, <1>2, <1>5 DEF TypeOK
  <2>3. QED
    BY <1>1, <1>5, <2>1, <2>2 DEF TypeOK
<1>7. RunInv'
  <2>1. RunOK(r)'
    BY <1>1, <1>3, <1>5, RunKinds DEF RunOK, OnChain
  <2>2. ASSUME NEW s \in Run \ {r} PROVE RunOK(s)'
    BY <1>1, <1>5 DEF RunInv, RunOK, Submitted, OnChain
  <2>3. QED
    BY <2>1, <2>2 DEF RunInv
<1>8. BatchInv'
  BY <1>1, <1>3, <1>4 DEF BatchInv, Submitted
<1>9. RowInv'
  BY <1>1, RowsKept
<1>10. SubmittedOnce'
  BY <1>1, <1>5 DEF SubmittedOnce
<1>11. AnchorIsTrue'
  <2>1. \A c \in Batch : Members(c)' = Members(c)
    BY <1>1 DEF Members
  <2>2. ASSUME NEW c \in Batch, status'[c] = "CONFIRMED"
        PROVE  \/ ref'[c] = c /\ mode'[c] = "MOCK" /\ \A x \in chain' : x.batch # c
               \/ /\ [tx |-> ref'[c], batch |-> c, rootHash |-> root'[c]] \in chain'
                  /\ \/ mode'[c] = "FABRIC"
                     \/ c \in abandoned'
                     \/ \E s \in FabricRun : held'[s] = c /\ pc'[s] = "mode"
    <3>1. CASE c = b
      BY <1>1, <1>3, <1>4, <3>1 DEF OnChain
    <3>2. CASE c # b
      <4>1. \A s \in FabricRun : s \in Run
        BY DEF Run
      <4>2. \A s \in FabricRun : held[s] = c /\ pc[s] = "mode" => held'[s] = c /\ pc'[s] = "mode"
        BY <1>1, <1>5, <3>2, <4>1
      <4>3. QED
        BY <1>1, <1>4, <2>2, <3>2, <4>2 DEF AnchorIsTrue
    <3>3. QED
      BY <3>1, <3>2
  <2>3. QED
    BY <1>1, <2>1, <2>2 DEF AnchorIsTrue
<1>12. QED
  BY <1>6, <1>7, <1>8, <1>9, <1>10, <1>11

LEMMA ReadCompanyStep ==
    ASSUME IInv, NEW r \in Run, ReadCompany(r)
    PROVE  IInv'
<1>1. /\ pc[r] = "company"
      /\ UNCHANGED <<batches, proofRows, chain, announced, abandoned>>
  BY DEF ReadCompany
<1>2. CASE Leave(r)
  BY <1>1, <1>2, LeaveStep DEF AnchorIsTrue, IInv, TypeOK
<1>3. CASE Goto(r, "announce") /\ UNCHANGED <<held, txOf>>
  <2> USE DEF IInv
  <2>1. /\ pc' = [pc EXCEPT ![r] = "announce"]
        /\ UNCHANGED <<root, status, mode, ref, proofRows, chain, announced, abandoned, held, txOf>>
    BY <1>1, <1>3 DEF Goto, batches
  <2>2. /\ pc'[r] = "announce"
        /\ \A s \in Run \ {r} : pc'[s] = pc[s]
        /\ pc' \in [Run -> Step]
    BY <2>1 DEF TypeOK, Step
  <2>3. TypeOK'
    BY <1>1, <2>1, <2>2 DEF TypeOK
  <2>4. RunInv'
    <3>1. ASSUME NEW s \in Run PROVE RunOK(s)'
      <4>1. RunOK(s)
        BY DEF RunInv
      <4>2. CASE s = r
        BY <1>1, <2>1, <2>2, <4>1, <4>2 DEF RunOK, OnChain
      <4>3. CASE s # r
        BY <2>1, <2>2, <4>1, <4>3 DEF RunOK, Submitted, OnChain
      <4>4. QED
        BY <4>2, <4>3
    <3>2. QED
      BY <3>1 DEF RunInv
  <2>5. BatchInv' /\ RowInv'
    BY <2>1, RowsKept DEF BatchInv, Submitted
  <2>6. SubmittedOnce'
    BY <1>1, <2>1, <2>2 DEF SubmittedOnce
  <2>7. \A s \in FabricRun : pc[s] = "mode" => pc'[s] = "mode"
    BY <1>1, <2>2 DEF Run
  <2>8. AnchorIsTrue'
    BY <2>1, <2>7 DEF AnchorIsTrue, Members
  <2>9. QED
    BY <2>3, <2>4, <2>5, <2>6, <2>8
<1>4. QED
  BY <1>2, <1>3 DEF ReadCompany

\* Announce: the batch is confirmed with the reference that is announced.
LEMMA AnnounceStep ==
    ASSUME IInv, NEW r \in Run, Announce(r)
    PROVE  IInv'
<1> USE DEF IInv
<1>1. PICK e \in Members(held[r]) :
          announced' = announced \cup
              {[company |-> CompanyOf[e], batch |-> held[r], rootHash |-> root[held[r]],
                anchorRef |-> IF r \in MockRun THEN held[r] ELSE txOf[r]]}
  BY DEF Announce
<1>2. /\ pc[r] = "announce" /\ Leave(r)
      /\ UNCHANGED <<batches, proofRows, chain, abandoned>>
  BY DEF Announce
<1>3. /\ held[r] \in Batch /\ status[held[r]] = "CONFIRMED"
      /\ ref[held[r]] = IF r \in MockRun THEN held[r] ELSE txOf[r]
  BY <1>2, Held, RunKinds DEF RunInv, RunOK
<1>4. AnchorIsTrue => \A a \in announced' :
          /\ a.batch \in Batch /\ status[a.batch] = "CONFIRMED"
          /\ a.anchorRef = ref[a.batch] /\ a.rootHash = root[a.batch]
          /\ \E f \in Members(a.batch) : CompanyOf[f] = a.company
  BY <1>1, <1>3 DEF AnchorIsTrue
<1>5. QED
  BY <1>2, <1>4, LeaveStep DEF TypeOK

-------------------------------------------------------------------------------
(* The theorems.                                                           *)

LEMMA StutterStep ==
    ASSUME IInv, UNCHANGED vars
    PROVE  IInv'
<1> USE DEF vars, IInv
<1>1. TypeOK'
  BY DEF TypeOK
<1>2. RunInv'
  BY DEF RunInv, RunOK, Submitted, OnChain, Members
<1>3. BatchInv'
  BY DEF BatchInv, Submitted, OnChain, Members
<1>4. RowInv'
  BY DEF RowInv, Members
<1>5. SubmittedOnce' /\ AnchorIsTrue'
  BY DEF SubmittedOnce, AnchorIsTrue, Submitted, OnChain, Members
<1>6. QED
  BY <1>1, <1>2, <1>3, <1>4, <1>5

LEMMA NextStep == IInv /\ [Next]_vars => IInv'
<1> SUFFICES ASSUME IInv, [Next]_vars PROVE IInv'
  OBVIOUS
<1>1. ASSUME NEW b \in Batch, NEW es \in Leaves, Seal(b, es) PROVE IInv'
  BY <1>1, SealStep
<1>2. ASSUME NEW r \in Run, Proceed(r) PROVE IInv'
  BY <1>2, ClaimStep, SubmitStep, ConfirmStep, SetModeStep, ReadCompanyStep, AnnounceStep
  DEF Proceed
<1>3. ASSUME NEW r \in Run, Crash(r) PROVE IInv'
  BY <1>3, CrashStep
<1>4. CASE UNCHANGED vars
  BY <1>4, StutterStep
<1>5. QED
  BY <1>1, <1>2, <1>3, <1>4 DEF Next

\* The inductive invariant holds in every behaviour.
THEOREM AnchorInvariance == Spec => []IInv
<1>1. QED
  BY InitInv, NextStep, PTL DEF Spec

\* Every variable keeps its type; exactly the confirmed batches have a
\* reference.
THEOREM AnchorTypeCorrect == Spec => []TypeOK
<1>1. IInv => TypeOK
  BY DEF IInv
<1>2. QED
  BY <1>1, AnchorInvariance, PTL

\* However many mock and Fabric runs overlap and fail, a batch has one run at a
\* time and at most one transaction on the chain.
THEOREM BatchesSubmittedOnce == Spec => []SubmittedOnce
<1>1. IInv => SubmittedOnce
  BY DEF IInv
<1>2. QED
  BY <1>1, AnchorInvariance, PTL

\* A confirmed anchor is the transaction with the root of its batch or a mock
\* reference of a batch never submitted, and is announced as it is.
THEOREM AnchorsTrue == Spec => []AnchorIsTrue
<1>1. IInv => AnchorIsTrue
  BY DEF IInv
<1>2. QED
  BY <1>1, AnchorInvariance, PTL

LEMMA LeafSequence ==
    ASSUME NEW es \in Leaves, NEW leafHashes,
           leafHashes = [i \in DOMAIN es |-> LeafHash(es[i])]
    PROVE  /\ leafHashes \in Seq({LeafHash(e) : e \in Event}) /\ leafHashes # <<>>
           /\ DOMAIN leafHashes = DOMAIN es
           /\ \A i \in DOMAIN es : es[i] \in Event /\ leafHashes[i] = LeafHash(es[i])
           /\ AreLeaves(leafHashes)
           /\ Tree(es) = Build(leafHashes)
<1>1. es \in Seq(Event) /\ es # <<>>
  BY LeavesType
<1>2. PICK n \in Nat \ {0} : n = Len(es) /\ DOMAIN es = 1 .. n /\ es \in [1 .. n -> Event]
  BY <1>1, EmptySeq, LenProperties
<1>3. leafHashes \in [1 .. n -> {LeafHash(e) : e \in Event}]
  BY <1>2
<1>4. leafHashes \in Seq({LeafHash(e) : e \in Event})
  BY <1>2, <1>3, SeqDef
<1>5. leafHashes # <<>>
  <2>1. 1 \in DOMAIN leafHashes
    BY <1>2, <1>3
  <2>2. QED
    BY <2>1
<1>6. \A i \in DOMAIN es : es[i] \in Event /\ leafHashes[i] = LeafHash(es[i])
  BY <1>2
<1>7. QED
  BY <1>2, <1>3, <1>4, <1>5, <1>6 DEF AreLeaves, Tree

\* The tree algorithm is right on every batch there may be: this is PathsVerify
\* for leaves that are events.
THEOREM TreesAreRight == TreesVerify
<1> SUFFICES ASSUME NEW es \in Leaves, NEW i \in DOMAIN es, NEW e \in Event
             PROVE  Verify(LeafHash(e), Tree(es).proofs[i], Tree(es).rootHash) <=> e = es[i]
  BY DEF TreesVerify
<1>1. PICK leafHashes : leafHashes = [j \in DOMAIN es |-> LeafHash(es[j])]
  OBVIOUS
<1>2. /\ leafHashes \in Seq({LeafHash(f) : f \in Event}) /\ leafHashes # <<>>
      /\ i \in DOMAIN leafHashes /\ leafHashes[i] = LeafHash(es[i])
      /\ Tree(es) = Build(leafHashes)
  BY <1>1, LeafSequence
<1>3. Verify(LeafHash(e), Build(leafHashes).proofs[i], Build(leafHashes).rootHash)
         <=> LeafHash(e) = leafHashes[i]
  BY <1>2, PathsVerify
<1>4. LeafHash(e) = LeafHash(es[i]) <=> e = es[i]
  BY DEF LeafHash
<1>5. QED
  BY <1>2, <1>3, <1>4

\* What is served of an event proves it and nothing else, against the root that
\* is stored and anchored, even if the event is batched again.
THEOREM ProofsConvince == Spec => []ProofsVerify
<1>1. ASSUME IInv PROVE ProofsVerify
  <2>1. ASSUME NEW e \in Event, EventProof(e).proofStatus = "READY"
        PROVE  LET p == EventProof(e)
               IN  /\ p.leafHash = LeafHash(e)
                   /\ p.rootHash = root[p.batch]
                   /\ \A f \in Event : Verify(LeafHash(f), p.path, p.rootHash) <=> f = e
                   /\ p.anchorStatus = "CONFIRMED" /\ p.anchorRef # p.batch =>
                         [tx |-> p.anchorRef, batch |-> p.batch, rootHash |-> p.rootHash]
                            \in chain
    <3>1. proofRows[e] # None
      BY <2>1 DEF EventProof
    <3>2. PICK b \in Batch, es \in Leaves : \E i \in DOMAIN es :
              /\ proofRows[e] = Rows(b, es, i)
              /\ es[i] = e
              /\ status[b] # "absent"
              /\ root[b] = Tree(es).rootHash
      BY <1>1, <3>1 DEF IInv, RowInv
    <3>3. PICK i \in DOMAIN es : proofRows[e] = Rows(b, es, i) /\ es[i] = e
      BY <3>2
    <3>4. /\ EventProof(e).batch = b
          /\ EventProof(e).leafHash = LeafHash(e)
          /\ EventProof(e).path = Tree(es).proofs[i]
          /\ EventProof(e).rootHash = root[b]
          /\ EventProof(e).anchorStatus = status[b]
          /\ EventProof(e).anchorRef = ref[b]
      BY <3>1, <3>2, <3>3 DEF Rows, EventProof
    <3>5. \A f \in Event : Verify(LeafHash(f), Tree(es).proofs[i], root[b]) <=> f = e
      BY <3>2, <3>3, TreesAreRight DEF TreesVerify
    <3>6. status[b] = "CONFIRMED" /\ ref[b] # b =>
              [tx |-> ref[b], batch |-> b, rootHash |-> root[b]] \in chain
      BY <1>1 DEF IInv, AnchorIsTrue
    <3>7. QED
      BY <3>4, <3>5, <3>6
  <2>2. QED
    BY <2>1 DEF ProofsVerify
<1>2. QED
  BY <1>1, AnchorInvariance, PTL

-------------------------------------------------------------------------------
(* What an anchored root proves, to a verifier that has nothing else.      *)

\* A batch that has been sealed has the root of its tree.
RootsAreTrees ==
    \A b \in Batch : status[b] # "absent" => \E es \in Leaves : root[b] = Tree(es).rootHash

LEMMA RootsInit == Init => RootsAreTrees
BY DEF Init, RootsAreTrees

LEMMA RootsStep ==
    ASSUME IInv, RootsAreTrees, [Next]_vars
    PROVE  RootsAreTrees'
<1>1. ASSUME NEW b \in Batch, NEW es \in Leaves, Seal(b, es) PROVE RootsAreTrees'
  <2>1. /\ root' = [root EXCEPT ![b] = Tree(es).rootHash]
        /\ status' = [status EXCEPT ![b] = "NOT_SENT"]
    BY <1>1 DEF Seal
  <2>2. /\ root'[b] = Tree(es).rootHash
        /\ \A c \in Batch \ {b} : root'[c] = root[c] /\ status'[c] = status[c]
    BY <2>1 DEF IInv, TypeOK
  <2>3. QED
    BY <2>2 DEF RootsAreTrees
<1>2. ASSUME UNCHANGED root, \A b \in Batch : status'[b] # "absent" => status[b] # "absent"
      PROVE  RootsAreTrees'
  BY <1>2 DEF RootsAreTrees
<1>3. ASSUME NEW r \in Run, Proceed(r) \/ Crash(r) PROVE RootsAreTrees'
  <2>1. UNCHANGED root
    BY <1>3 DEF Proceed, Claim, Submit, Confirm, SetMode, ReadCompany, Announce, Crash, batches
  <2>2. CASE Claim(r)
    <3>1. PICK b \in Batch : status[b] = "NOT_SENT" /\ status' = [status EXCEPT ![b] = "SENT"]
      BY <2>2 DEF Claim
    <3>2. \A c \in Batch : status'[c] # "absent" => status[c] # "absent"
      BY <3>1 DEF IInv, TypeOK
    <3>3. QED
      BY <1>2, <2>1, <3>2
  <2>3. CASE Confirm(r)
    <3>1. status[held[r]] = "SENT" /\ held[r] \in Batch
      BY <2>3, Held DEF IInv, RunInv, RunOK, Confirm
    <3>2. status' = [status EXCEPT ![held[r]] = "CONFIRMED"]
      BY <2>3 DEF Confirm
    <3>3. \A c \in Batch : status'[c] # "absent" => status[c] # "absent"
      BY <3>1, <3>2 DEF IInv, TypeOK
    <3>4. QED
      BY <1>2, <2>1, <3>3
  <2>4. CASE UNCHANGED status
    BY <1>2, <2>1, <2>4
  <2>5. Claim(r) \/ Confirm(r) \/ UNCHANGED status
    BY <1>3 DEF Proceed, Submit, SetMode, ReadCompany, Announce, Crash, batches
  <2>6. QED
    BY <2>2, <2>3, <2>4, <2>5
<1>4. CASE UNCHANGED vars
  BY <1>2, <1>4 DEF vars
<1>5. QED
  BY <1>1, <1>3, <1>4 DEF Next

\* A transaction on the chain has the root of the tree of some events; an event
\* whose leaf verifies against it, along whatever path, is one of them, and so are
\* the events that are served with this batch.
OnlyMembersVerify ==
    \A x \in chain : \E es \in Leaves :
        /\ x.rootHash = Tree(es).rootHash
        /\ \A f \in Event : \A path :
              Len(path.hashes) \in Nat /\ Verify(LeafHash(f), path, x.rootHash) =>
                  \E i \in DOMAIN es : es[i] = f
        /\ \A e \in Members(x.batch) : \E i \in DOMAIN es : es[i] = e

LEMMA OnlyLeavesVerify ==
    ASSUME NEW es \in Leaves, NEW f \in Event, NEW path, Len(path.hashes) \in Nat,
           Verify(LeafHash(f), path, Tree(es).rootHash)
    PROVE  \E i \in DOMAIN es : es[i] = f
<1>1. PICK leafHashes : leafHashes = [j \in DOMAIN es |-> LeafHash(es[j])]
  OBVIOUS
<1>2. /\ leafHashes \in Seq({LeafHash(e) : e \in Event}) /\ leafHashes # <<>>
      /\ DOMAIN leafHashes = DOMAIN es
      /\ \A i \in DOMAIN es : leafHashes[i] = LeafHash(es[i])
      /\ AreLeaves(leafHashes)
      /\ Tree(es) = Build(leafHashes)
  BY <1>1, LeafSequence
<1>3. \E i \in DOMAIN leafHashes : leafHashes[i] = LeafHash(f)
  BY <1>2, PathsProveMembership
<1>4. \A e : LeafHash(e) = LeafHash(f) => e = f
  BY DEF LeafHash
<1>5. QED
  BY <1>2, <1>3, <1>4

LEMMA PathsAreFinite ==
    ASSUME NEW es \in Leaves, NEW i \in DOMAIN es
    PROVE  Len(Tree(es).proofs[i].hashes) \in Nat
<1>1. PICK leafHashes : leafHashes = [j \in DOMAIN es |-> LeafHash(es[j])]
  OBVIOUS
<1>2. /\ leafHashes \in Seq({LeafHash(e) : e \in Event}) /\ leafHashes # <<>>
      /\ i \in DOMAIN leafHashes
      /\ Tree(es) = Build(leafHashes)
  BY <1>1, LeafSequence
<1>3. IsPath(Build(leafHashes).proofs[i])
  BY <1>2, BuiltPaths
<1>4. QED
  BY <1>2, <1>3 DEF IsPath

\* The chain convinces without trust in the database: whoever shows a path from an
\* event's leaf to an anchored root shows an event of the batch that was sealed
\* with this root; no path can be made up for another event.
THEOREM ChainProvesMembership == Spec => []OnlyMembersVerify
<1>1. ASSUME IInv, RootsAreTrees PROVE OnlyMembersVerify
  <2>1. SUFFICES ASSUME NEW x \in chain
                 PROVE  \E es \in Leaves :
                            /\ x.rootHash = Tree(es).rootHash
                            /\ \A f \in Event : \A path :
                                  Len(path.hashes) \in Nat /\ Verify(LeafHash(f), path, x.rootHash)
                                     => \E i \in DOMAIN es : es[i] = f
                            /\ \A e \in Members(x.batch) : \E i \in DOMAIN es : es[i] = e
    BY DEF OnlyMembersVerify
  <2>2. PICK b \in Batch : b = x.batch /\ x.rootHash = root[b] /\ status[b] # "absent"
    BY <1>1 DEF IInv, BatchInv, Submitted
  <2>3. PICK es \in Leaves : root[b] = Tree(es).rootHash
    BY <1>1, <2>2 DEF RootsAreTrees
  <2>4. \A f \in Event : \A path :
            Len(path.hashes) \in Nat /\ Verify(LeafHash(f), path, x.rootHash) =>
                \E i \in DOMAIN es : es[i] = f
    BY <2>2, <2>3, OnlyLeavesVerify
  <2>5. ASSUME NEW e \in Members(b) PROVE \E i \in DOMAIN es : es[i] = e
    <3>1. e \in Event /\ proofRows[e] # None /\ proofRows[e].batch = b
      BY DEF Members
    <3>2. PICK c \in Batch, fs \in Leaves : \E i \in DOMAIN fs :
              /\ proofRows[e] = Rows(c, fs, i)
              /\ fs[i] = e
              /\ root[c] = Tree(fs).rootHash
      BY <1>1, <3>1 DEF IInv, RowInv
    <3>3. PICK i \in DOMAIN fs : proofRows[e] = Rows(c, fs, i) /\ fs[i] = e
                                 /\ root[c] = Tree(fs).rootHash
      BY <3>2
    <3>4. c = b
      BY <3>1, <3>3 DEF Rows
    <3>5. Verify(LeafHash(e), Tree(fs).proofs[i], Tree(fs).rootHash)
      BY <3>1, <3>3, TreesAreRight DEF TreesVerify
    <3>6. Verify(LeafHash(e), Tree(fs).proofs[i], x.rootHash)
      BY <2>2, <3>3, <3>4, <3>5
    <3>7. Len(Tree(fs).proofs[i].hashes) \in Nat
      BY PathsAreFinite
    <3>8. QED
      BY <2>4, <3>1, <3>6, <3>7
  <2>6. QED
    BY <2>2, <2>3, <2>4, <2>5
<1>2. Spec => [](IInv /\ RootsAreTrees)
  <2>1. IInv /\ RootsAreTrees /\ [Next]_vars => RootsAreTrees'
    BY RootsStep
  <2>2. QED
    BY <2>1, RootsInit, AnchorInvariance, PTL DEF Spec
<1>3. QED
  BY <1>1, <1>2, PTL

\* Two sequences with the same positions have the same length.
LEMMA SameLength ==
    ASSUME NEW m \in Nat, NEW n \in Nat, 1 .. m = 1 .. n
    PROVE  m = n
<1>1. CASE m = 0
  <2>1. 1 \notin 1 .. n
    BY <1>1
  <2>2. QED
    BY <1>1, <2>1
<1>2. CASE n = 0
  <2>1. 1 \notin 1 .. m
    BY <1>2
  <2>2. QED
    BY <1>2, <2>1
<1>3. CASE m # 0 /\ n # 0
  <2>1. m \in 1 .. n /\ n \in 1 .. m
    BY <1>3
  <2>2. QED
    BY <2>1
<1>4. QED
  BY <1>1, <1>2, <1>3

NoRepeats(es) == \A i, j \in DOMAIN es : i # j => es[i] # es[j]

\* The batch that an anchored root speaks of is one: two batches, neither of which
\* has an event twice, have different roots if they differ in an event or in the
\* order of the events.
THEOREM RootTellsBatch ==
    ASSUME NEW es \in Leaves, NoRepeats(es), NEW fs \in Leaves, NoRepeats(fs),
           Tree(es).rootHash = Tree(fs).rootHash
    PROVE  es = fs
<1>1. PICK g : g = [j \in DOMAIN es |-> LeafHash(es[j])]
  OBVIOUS
<1>2. PICK h : h = [j \in DOMAIN fs |-> LeafHash(fs[j])]
  OBVIOUS
<1>3. /\ g \in Seq({LeafHash(e) : e \in Event}) /\ g # <<>>
      /\ DOMAIN g = DOMAIN es /\ \A i \in DOMAIN es : g[i] = LeafHash(es[i])
      /\ AreLeaves(g) /\ Tree(es) = Build(g)
  BY <1>1, LeafSequence
<1>4. /\ h \in Seq({LeafHash(e) : e \in Event}) /\ h # <<>>
      /\ DOMAIN h = DOMAIN fs /\ \A i \in DOMAIN fs : h[i] = LeafHash(fs[i])
      /\ AreLeaves(h) /\ Tree(fs) = Build(h)
  BY <1>2, LeafSequence
<1>5. \A d, e : LeafHash(d) = LeafHash(e) => d = e
  BY DEF LeafHash
<1>6. \A i, j \in DOMAIN g : i # j => g[i] # g[j]
  BY <1>3, <1>5 DEF NoRepeats
<1>7. \A i, j \in DOMAIN h : i # j => h[i] # h[j]
  BY <1>4, <1>5 DEF NoRepeats
<1>8. g = h
  BY <1>3, <1>4, <1>6, <1>7, RootBinds
<1>9. Len(es) = Len(fs) /\ \A i \in 1 .. Len(es) : es[i] = fs[i]
  <2>1. es \in Seq(Event) /\ fs \in Seq(Event)
    BY LeavesType
  <2>2. /\ Len(es) \in Nat /\ DOMAIN es = 1 .. Len(es)
        /\ Len(fs) \in Nat /\ DOMAIN fs = 1 .. Len(fs)
    BY <2>1, LenProperties
  <2>3. DOMAIN es = DOMAIN fs
    BY <1>3, <1>4, <1>8
  <2>4. Len(es) = Len(fs)
    BY <2>2, <2>3, SameLength
  <2>5. QED
    BY <1>3, <1>4, <1>5, <1>8, <2>2, <2>3, <2>4
<1>10. QED
  BY <1>9, LeavesType, SeqEqual

-------------------------------------------------------------------------------
(* Every batch goes forward.                                               *)

Holders(b) == {r \in Run : held[r] = b}

\* The steps that a run has before it, at most.
RunStage(r) ==
    IF pc[r] = "submit" THEN 5
    ELSE IF pc[r] = "confirm" THEN 4
    ELSE IF pc[r] = "mode" THEN 3
    ELSE IF pc[r] = "company" THEN 2 ELSE 1

\* The steps that a batch has before it, at most.
Rank(b) ==
    IF status[b] = "absent" THEN 7
    ELSE IF status[b] = "NOT_SENT" THEN 6
    ELSE IF Holders(b) = {} THEN 0
    ELSE RunStage(CHOOSE r \in Run : held[r] = b)

\* What is stored of a batch, in the database and on the chain.
RowOf(b) == <<root[b], status[b], mode[b], ref[b], {x \in chain : x.batch = b}>>

\* The rank of a batch, by who has it.
Ranks ==
    \A b \in Batch :
        /\ status[b] = "absent" => Rank(b) = 7
        /\ status[b] = "NOT_SENT" => Rank(b) = 6
        /\ \A r \in Run : held[r] = b => Rank(b) = RunStage(r) /\ status[b] \in {"SENT", "CONFIRMED"}
        /\ status[b] \in {"SENT", "CONFIRMED"} /\ Holders(b) = {} => Rank(b) = 0

LEMMA RanksHold == IInv => Ranks
<1> SUFFICES ASSUME IInv, NEW b \in Batch
             PROVE  /\ status[b] = "absent" => Rank(b) = 7
                    /\ status[b] = "NOT_SENT" => Rank(b) = 6
                    /\ \A r \in Run : held[r] = b =>
                          Rank(b) = RunStage(r) /\ status[b] \in {"SENT", "CONFIRMED"}
                    /\ status[b] \in {"SENT", "CONFIRMED"} /\ Holders(b) = {} => Rank(b) = 0
  BY DEF Ranks
<1>1. ASSUME NEW r \in Run, held[r] = b
      PROVE  Rank(b) = RunStage(r) /\ status[b] \in {"SENT", "CONFIRMED"}
  <2>1. status[b] \in {"SENT", "CONFIRMED"}
    BY <1>1, HeldIsClaimed DEF IInv, TypeOK, AnchorStatus
  <2>2. b # None
    BY NamesDiffer DEF None
  <2>3. \A s \in Run : held[s] = b => s = r
    BY <1>1, <2>2 DEF IInv, SubmittedOnce
  <2>4. (CHOOSE s \in Run : held[s] = b) = r
    BY <1>1, <2>3
  <2>5. Holders(b) # {}
    BY <1>1 DEF Holders
  <2>6. QED
    BY <2>1, <2>4, <2>5 DEF Rank
<1>2. QED
  BY <1>1 DEF Rank

LEMMA StageRange ==
    ASSUME NEW r
    PROVE  RunStage(r) \in 1 .. 5
BY DEF RunStage

OthersRest(r) == \A s \in Run : s # r => pc'[s] = pc[s] /\ held'[s] = held[s]

\* A batch that the run neither had nor gets stays where it is.
LEMMA OtherStays ==
    ASSUME IInv, Ranks, Ranks', NEW r \in Run, OthersRest(r),
           NEW c \in Batch, held[r] # c, held'[r] # c, status'[c] = status[c]
    PROVE  Rank(c)' = Rank(c)
<1>1. \A s \in Run : held[s] = c <=> held'[s] = c
  BY DEF OthersRest
<1>2. CASE \E s \in Run : held[s] = c
  <2>1. PICK s \in Run : held[s] = c
    BY <1>2
  <2>2. s # r /\ pc'[s] = pc[s] /\ held'[s] = c
    BY <2>1 DEF OthersRest
  <2>3. RunStage(s)' = RunStage(s)
    BY <2>2 DEF RunStage
  <2>4. Rank(c) = RunStage(s) /\ Rank(c)' = RunStage(s)'
    BY <2>1, <2>2 DEF Ranks
  <2>5. QED
    BY <2>3, <2>4
<1>3. CASE \A s \in Run : held[s] # c
  <2>1. Holders(c) = {} /\ Holders(c)' = {}
    BY <1>1, <1>3 DEF Holders
  <2>2. status[c] \in AnchorStatus
    BY DEF IInv, TypeOK
  <2>3. QED
    BY <2>1, <2>2 DEF Ranks, AnchorStatus
<1>4. QED
  BY <1>2, <1>3

\* One batch goes forward and every other one stays as it is.
Forward(b) ==
    /\ Rank(b)' < Rank(b)
    /\ \A c \in Batch \ {b} : Rank(c)' = Rank(c) /\ RowOf(c)' = RowOf(c)

LEMMA SealAdvances ==
    ASSUME IInv, Ranks, Ranks', NEW b \in Batch, NEW es \in Leaves, Seal(b, es)
    PROVE  Forward(b)
<1>1. /\ status[b] = "absent"
      /\ status' = [status EXCEPT ![b] = "NOT_SENT"]
      /\ root' = [root EXCEPT ![b] = Tree(es).rootHash]
      /\ UNCHANGED <<mode, ref, chain, pc, held>>
  BY DEF Seal, local
<1>2. status'[b] = "NOT_SENT"
  BY <1>1 DEF IInv, TypeOK
<1>3. Rank(b) = 7 /\ Rank(b)' = 6
  BY <1>1, <1>2 DEF Ranks
<1>4. ASSUME NEW c \in Batch \ {b} PROVE Rank(c)' = Rank(c) /\ RowOf(c)' = RowOf(c)
  <2>1. status'[c] = status[c] /\ root'[c] = root[c]
    BY <1>1 DEF IInv, TypeOK
  <2>2. RowOf(c)' = RowOf(c)
    BY <1>1, <2>1 DEF RowOf
  <2>3. Rank(c)' = Rank(c)
    BY <1>1, <2>1 DEF Rank, RunStage, Holders
  <2>4. QED
    BY <2>2, <2>3
<1>5. QED
  BY <1>3, <1>4 DEF Forward

LEMMA ClaimAdvances ==
    ASSUME IInv, Ranks, Ranks', NEW r \in Run, Claim(r)
    PROVE  \E b \in Batch : Forward(b)
<1>1. PICK b \in Batch :
          /\ status[b] = "NOT_SENT"
          /\ status' = [status EXCEPT ![b] = "SENT"]
          /\ held' = [held EXCEPT ![r] = b]
  BY DEF Claim
<1>2. /\ pc[r] = "idle"
      /\ pc' = [pc EXCEPT ![r] = IF r \in MockRun THEN "confirm" ELSE "submit"]
      /\ UNCHANGED <<root, mode, ref, chain>>
  BY DEF Claim, Goto
<1>3. OthersRest(r) /\ held'[r] = b
  BY <1>1, <1>2 DEF OthersRest, IInv, TypeOK
<1>4. Rank(b) = 6
  BY <1>1 DEF Ranks
<1>5. Rank(b)' \in 1 .. 5
  <2>1. Rank(b)' = RunStage(r)'
    BY <1>3 DEF Ranks
  <2>2. RunStage(r)' \in 1 .. 5
    BY DEF RunStage
  <2>3. QED
    BY <2>1, <2>2
<1>6. ASSUME NEW c \in Batch \ {b} PROVE Rank(c)' = Rank(c) /\ RowOf(c)' = RowOf(c)
  <2>1. status'[c] = status[c]
    BY <1>1 DEF IInv, TypeOK
  <2>2. held[r] # c
    BY <1>2, NamesDiffer DEF IInv, TypeOK, None
  <2>3. Rank(c)' = Rank(c)
    BY <1>3, <2>1, <2>2, OtherStays
  <2>4. QED
    BY <1>2, <2>1, <2>3 DEF RowOf
<1>7. QED
  BY <1>4, <1>5, <1>6 DEF Forward

\* A run that is at work and goes on, or leaves.
LEMMA BusyAdvances ==
    ASSUME IInv, Ranks, Ranks', NEW r \in Run, pc[r] # "idle", OthersRest(r),
           (held'[r] = held[r] /\ RunStage(r)' < RunStage(r)) \/ held'[r] = None,
           status'[held[r]] \in {"SENT", "CONFIRMED"},
           \A c \in Batch \ {held[r]} : status'[c] = status[c] /\ RowOf(c)' = RowOf(c)
    PROVE  \E b \in Batch : Forward(b)
<1>1. PICK b \in Batch : b = held[r]
  BY Held
<1>2. Rank(b) = RunStage(r)
  BY <1>1 DEF Ranks
<1>3. Rank(b)' < Rank(b)
  <2>1. CASE held'[r] = held[r] /\ RunStage(r)' < RunStage(r)
    <3>1. Rank(b)' = RunStage(r)'
      BY <1>1, <2>1 DEF Ranks
    <3>2. QED
      BY <1>2, <2>1, <3>1
  <2>2. CASE held'[r] = None
    <3>1. b # None
      BY NamesDiffer DEF None
    <3>2. \A s \in Run : held'[s] # b
      BY <1>1, <2>2, <3>1, Held DEF OthersRest
    <3>3. Holders(b)' = {}
      BY <3>2 DEF Holders
    <3>4. Rank(b)' = 0
      BY <1>1, <3>3 DEF Ranks
    <3>5. RunStage(r) \in 1 .. 5
      BY StageRange
    <3>6. QED
      BY <1>2, <3>4, <3>5
  <2>3. QED
    BY <2>1, <2>2
<1>4. ASSUME NEW c \in Batch \ {b} PROVE Rank(c)' = Rank(c)
  <2>1. held[r] # c /\ held'[r] # c /\ status'[c] = status[c]
    BY <1>1, NamesDiffer DEF None
  <2>2. QED
    BY <2>1, OtherStays
<1>5. QED
  BY <1>1, <1>3, <1>4 DEF Forward

\* What a run writes of a batch, it writes of the batch it has.
LEMMA WorkAdvances ==
    ASSUME IInv, Ranks, Ranks', NEW r \in Run,
           Submit(r) \/ Confirm(r) \/ SetMode(r) \/ ReadCompany(r) \/ Announce(r) \/ Crash(r)
    PROVE  \E b \in Batch : Forward(b)
<1>1. pc[r] # "idle"
  BY DEF Submit, Confirm, SetMode, ReadCompany, Announce, Crash
<1>2. PICK b \in Batch : b = held[r]
  BY <1>1, Held
<1>3. status[b] \in {"SENT", "CONFIRMED"}
  BY <1>2 DEF Ranks
<1>4. OthersRest(r) /\ ((held'[r] = held[r] /\ RunStage(r)' < RunStage(r)) \/ held'[r] = None)
  <2>1. ASSUME Leave(r) PROVE OthersRest(r) /\ held'[r] = None
    BY <2>1 DEF Leave, Goto, OthersRest, IInv, TypeOK
  <2>2. ASSUME NEW l \in Step, Goto(r, l), UNCHANGED held
        PROVE  OthersRest(r) /\ held'[r] = held[r] /\ pc'[r] = l
    BY <2>2 DEF Goto, OthersRest, IInv, TypeOK
  <2>3. CASE Leave(r)
    BY <2>1, <2>3
  <2>4. CASE Submit(r) /\ ~Leave(r)
    <3>1. pc[r] = "submit" /\ Goto(r, "confirm") /\ UNCHANGED held
      BY <2>4 DEF Submit
    <3>2. QED
      BY <2>2, <3>1 DEF Step, RunStage
  <2>5. CASE Confirm(r)
    <3>1. /\ pc[r] = "confirm" /\ UNCHANGED held
          /\ Goto(r, "mode") \/ Goto(r, "company")
      BY <2>5 DEF Confirm
    <3>2. QED
      BY <2>2, <3>1 DEF Step, RunStage
  <2>6. CASE SetMode(r)
    <3>1. pc[r] = "mode" /\ Goto(r, "company") /\ UNCHANGED held
      BY <2>6 DEF SetMode
    <3>2. QED
      BY <2>2, <3>1 DEF Step, RunStage
  <2>7. CASE ReadCompany(r) /\ ~Leave(r)
    <3>1. pc[r] = "company" /\ Goto(r, "announce") /\ UNCHANGED held
      BY <2>7 DEF ReadCompany
    <3>2. QED
      BY <2>2, <3>1 DEF Step, RunStage
  <2>8. QED
    BY <2>3, <2>4, <2>5, <2>6, <2>7 DEF Announce, Crash
<1>5. /\ status' = status \/ status' = [status EXCEPT ![b] = "CONFIRMED"]
      /\ ref' = ref \/ \E x : ref' = [ref EXCEPT ![b] = x]
      /\ mode' = mode \/ mode' = [mode EXCEPT ![b] = "FABRIC"]
      /\ root' = root
  BY <1>2 DEF Submit, Confirm, SetMode, ReadCompany, Announce, Crash, batches
<1>6. chain' = chain \/ (\E x : x.batch = b /\ chain' = chain \cup {x})
  <2>1. CASE Submit(r)
    <3>1. PICK t \in TxId :
              chain' = chain \cup {[tx |-> t, batch |-> b, rootHash |-> root[b]]}
      BY <1>2, <2>1 DEF Submit
    <3>2. QED
      BY <3>1
  <2>2. QED
    BY <2>1 DEF Confirm, SetMode, ReadCompany, Announce, Crash
<1>7. status'[b] \in {"SENT", "CONFIRMED"}
  BY <1>3, <1>5 DEF IInv, TypeOK
<1>8. ASSUME NEW c \in Batch \ {b} PROVE status'[c] = status[c] /\ RowOf(c)' = RowOf(c)
  <2>1. status'[c] = status[c] /\ ref'[c] = ref[c] /\ mode'[c] = mode[c] /\ root'[c] = root[c]
    BY <1>5 DEF IInv, TypeOK
  <2>2. {x \in chain' : x.batch = c} = {x \in chain : x.batch = c}
    BY <1>6
  <2>3. QED
    BY <2>1, <2>2 DEF RowOf
<1>9. QED
  BY <1>1, <1>2, <1>4, <1>7, <1>8, BusyAdvances

LEMMA StepAdvances ==
    ASSUME IInv, Ranks, Ranks', Next
    PROVE  \E b \in Batch : Forward(b)
BY SealAdvances, ClaimAdvances, WorkAdvances DEF Next, Proceed

\* A batch has at most seven steps before it, and none exactly when it has been
\* claimed and no run has it any more; then it is confirmed or was left by a run
\* that was cut off.
RankMeasures ==
    \A b \in Batch :
        /\ Rank(b) \in 0 .. 7
        /\ Rank(b) = 0 <=> status[b] \in {"SENT", "CONFIRMED"} /\ Holders(b) = {}
        /\ Rank(b) = 0 => status[b] = "CONFIRMED" \/ b \in abandoned

\* Every step of the system, a failure included, is a step of one batch, which it
\* brings forward; the row, the transactions and the rank of every other batch are
\* left as they are.
BatchesAdvance == [][\E b \in Batch : Forward(b)]_vars

LEMMA RankBounds == IInv /\ Ranks => RankMeasures
<1> SUFFICES ASSUME IInv, Ranks, NEW b \in Batch
             PROVE  /\ Rank(b) \in 0 .. 7
                    /\ Rank(b) = 0 <=> status[b] \in {"SENT", "CONFIRMED"} /\ Holders(b) = {}
                    /\ Rank(b) = 0 => status[b] = "CONFIRMED" \/ b \in abandoned
  BY DEF RankMeasures
<1>1. status[b] \in AnchorStatus
  BY DEF IInv, TypeOK
<1>2. CASE Holders(b) # {}
  <2>1. PICK r \in Run : held[r] = b
    BY <1>2 DEF Holders
  <2>2. Rank(b) = RunStage(r) /\ RunStage(r) \in 1 .. 5
    BY <2>1, StageRange DEF Ranks
  <2>3. QED
    BY <1>2, <2>2
<1>3. CASE Holders(b) = {}
  <2>1. status[b] = "SENT" => b \in abandoned
    BY <1>3 DEF IInv, SubmittedOnce, Holders
  <2>2. QED
    BY <1>1, <1>3, <2>1 DEF Ranks, AnchorStatus
<1>4. QED
  BY <1>2, <1>3

\* Anchoring never goes round in circles, which is what EveryBatchEnds rests on besides
\* fairness: whoever claims, submits, fails or dies, a batch takes seven steps at most
\* from its sealing on, and when it has none left it is confirmed or was cut off.
THEOREM NeverAnchoredForever == Spec => []RankMeasures /\ BatchesAdvance
<1> DEFINE Facts == IInv /\ Ranks
<1>1. Facts /\ Facts' /\ [Next]_vars => [\E b \in Batch : Forward(b)]_vars
  BY StepAdvances
<1>2. Facts => RankMeasures
  BY RankBounds
<1>3. Spec => []Facts
  <2>1. IInv => Facts
    BY RanksHold
  <2> HIDE DEF Facts
  <2>2. QED
    BY <2>1, AnchorInvariance, PTL
<1> HIDE DEF Facts
<1>4. QED
  BY <1>1, <1>2, <1>3, PTL DEF Spec, BatchesAdvance

-------------------------------------------------------------------------------
(* What has been settled stays.                                            *)

\* A batch that was left by a run that was cut off is in nobody's hands.
LeftAlone ==
    \A b \in abandoned : Holders(b) = {} /\ status[b] \in {"SENT", "CONFIRMED"}

LEMMA AloneStep ==
    ASSUME IInv, LeftAlone, [Next]_vars
    PROVE  LeftAlone'
<1> USE DEF IInv
<1>1. ASSUME NEW b \in Batch, NEW es \in Leaves, Seal(b, es) PROVE LeftAlone'
  <2>1. /\ status[b] = "absent" /\ status' = [status EXCEPT ![b] = "NOT_SENT"]
        /\ UNCHANGED <<held, abandoned>>
    BY <1>1 DEF Seal, local
  <2>2. \A c \in abandoned : c # b /\ status'[c] = status[c]
    BY <2>1 DEF LeftAlone, TypeOK
  <2>3. QED
    BY <2>1, <2>2 DEF LeftAlone, Holders
<1>2. ASSUME NEW r \in Run, Claim(r) PROVE LeftAlone'
  <2>1. PICK b \in Batch : /\ status[b] = "NOT_SENT"
                           /\ status' = [status EXCEPT ![b] = "SENT"]
                           /\ held' = [held EXCEPT ![r] = b]
    BY <1>2 DEF Claim
  <2>2. abandoned' = abandoned
    BY <1>2 DEF Claim
  <2>3. \A c \in abandoned : c # b /\ status'[c] = status[c]
    BY <2>1 DEF LeftAlone, TypeOK
  <2>4. \A s \in Run : held'[s] = held[s] \/ held'[s] = b
    BY <2>1 DEF TypeOK
  <2>5. QED
    BY <2>2, <2>3, <2>4 DEF LeftAlone, Holders
<1>3. ASSUME NEW r \in Run,
             Submit(r) \/ Confirm(r) \/ SetMode(r) \/ ReadCompany(r) \/ Announce(r) \/ Crash(r)
      PROVE  LeftAlone'
  <2>1. PICK b \in Batch : b = held[r] /\ b # None /\ \A s \in Run \ {r} : held[s] # b
    <3>1. pc[r] # "idle"
      BY <1>3 DEF Submit, Confirm, SetMode, ReadCompany, Announce, Crash
    <3>2. QED
      BY <3>1, Held
  <2>2. status[b] \in {"SENT", "CONFIRMED"}
    BY <2>1, HeldIsClaimed DEF TypeOK, AnchorStatus
  <2>3. status' = status \/ status' = [status EXCEPT ![b] = "CONFIRMED"]
    BY <1>3, <2>1 DEF Submit, Confirm, SetMode, ReadCompany, Announce, Crash, batches
  <2>4. \A c \in Batch : status[c] \in {"SENT", "CONFIRMED"} => status'[c] \in {"SENT", "CONFIRMED"}
    BY <2>3 DEF TypeOK
  <2>5. held' = held \/ held' = [held EXCEPT ![r] = None]
    BY <1>3 DEF Submit, Confirm, SetMode, ReadCompany, Announce, Crash, Leave
  <2>6. \A c \in Batch : Holders(c) = {} => Holders(c)' = {}
    <3>1. \A s \in Run : held'[s] = held[s] \/ held'[s] = None
      BY <2>5 DEF TypeOK
    <3>2. \A c \in Batch : c # None
      BY NamesDiffer DEF None
    <3>3. QED
      BY <3>1, <3>2 DEF Holders
  <2>7. abandoned' = abandoned \/ (abandoned' = abandoned \cup {b} /\ held'[r] = None)
    <3>1. ASSUME Leave(r) PROVE held'[r] = None
      BY <3>1 DEF Leave, TypeOK
    <3>2. CASE Submit(r)
      <4>1. abandoned' = abandoned \/ (Leave(r) /\ abandoned' = abandoned \cup {held[r]})
        BY <3>2 DEF Submit
      <4>2. QED
        BY <2>1, <3>1, <4>1
    <3>3. CASE Crash(r)
      <4>1. Leave(r) /\ (abandoned' = abandoned \/ abandoned' = abandoned \cup {held[r]})
        BY <3>3 DEF Crash
      <4>2. QED
        BY <2>1, <3>1, <4>1
    <3>4. QED
      BY <1>3, <3>2, <3>3 DEF Confirm, SetMode, ReadCompany, Announce
  <2>8. ASSUME held'[r] = None PROVE Holders(b)' = {}
    <3>1. \A s \in Run \ {r} : held'[s] = held[s]
      BY <2>5 DEF TypeOK
    <3>2. QED
      BY <2>1, <2>8, <3>1 DEF Holders
  <2>9. QED
    BY <2>2, <2>4, <2>6, <2>7, <2>8 DEF LeftAlone, TypeOK
<1>4. CASE UNCHANGED vars
  BY <1>4 DEF vars, LeftAlone, Holders
<1>5. QED
  BY <1>1, <1>2, <1>3, <1>4 DEF Next, Proceed

\* Whatever is stored or served of a batch stays: its root, the reference of its
\* anchor, its Fabric mode, its transactions, the rows that prove its events.  What is
\* stored of a batch that was left by a run stays as it was left.
AnchorsFinal ==
    [][/\ \A b \in Batch :
             /\ status[b] # "absent" => root'[b] = root[b]
             /\ status[b] = "CONFIRMED" => status'[b] = "CONFIRMED" /\ ref'[b] = ref[b]
             /\ mode[b] = "FABRIC" => mode'[b] = "FABRIC"
             /\ b \in abandoned => b \in abandoned' /\ RowOf(b)' = RowOf(b)
       /\ \A e \in Event : proofRows[e] # None => proofRows'[e] = proofRows[e]
       /\ chain \subseteq chain']_vars

LEMMA FinalStep ==
    ASSUME IInv, LeftAlone, Next
    PROVE  /\ \A b \in Batch :
                 /\ status[b] # "absent" => root'[b] = root[b]
                 /\ status[b] = "CONFIRMED" => status'[b] = "CONFIRMED" /\ ref'[b] = ref[b]
                 /\ mode[b] = "FABRIC" => mode'[b] = "FABRIC"
                 /\ b \in abandoned => b \in abandoned' /\ RowOf(b)' = RowOf(b)
           /\ \A e \in Event : proofRows[e] # None => proofRows'[e] = proofRows[e]
           /\ chain \subseteq chain'
<1> USE DEF IInv
<1>1. ASSUME NEW b \in Batch, NEW es \in Leaves, Seal(b, es)
      PROVE  /\ \A c \in Batch \ {b} : RowOf(c)' = RowOf(c)
             /\ status[b] = "absent" /\ mode' = mode
             /\ abandoned' = abandoned /\ chain' = chain
             /\ \A e \in Event : proofRows[e] # None => proofRows'[e] = proofRows[e]
  <2>1. /\ status[b] = "absent" /\ status' = [status EXCEPT ![b] = "NOT_SENT"]
        /\ root' = [root EXCEPT ![b] = Tree(es).rootHash]
        /\ proofRows' = Proved(b, es)
        /\ UNCHANGED <<mode, ref, chain, abandoned>>
    BY <1>1 DEF Seal
  <2>2. \A c \in Batch \ {b} : RowOf(c)' = RowOf(c)
    BY <2>1 DEF RowOf, TypeOK
  <2>3. QED
    BY <2>1, <2>2 DEF Proved
<1>2. ASSUME NEW r \in Run, Claim(r)
      PROVE  \E b \in Batch :
                 /\ \A c \in Batch \ {b} : RowOf(c)' = RowOf(c)
                 /\ status[b] = "NOT_SENT" /\ root' = root /\ mode' = mode
                 /\ abandoned' = abandoned /\ chain' = chain /\ proofRows' = proofRows
  <2>1. PICK b \in Batch : status[b] = "NOT_SENT" /\ status' = [status EXCEPT ![b] = "SENT"]
    BY <1>2 DEF Claim
  <2>2. UNCHANGED <<root, mode, ref, proofRows, chain, abandoned>>
    BY <1>2 DEF Claim
  <2>3. \A c \in Batch \ {b} : RowOf(c)' = RowOf(c)
    BY <2>1, <2>2 DEF RowOf, TypeOK
  <2>4. QED
    BY <2>1, <2>2, <2>3
<1>3. ASSUME NEW r \in Run,
             Submit(r) \/ Confirm(r) \/ SetMode(r) \/ ReadCompany(r) \/ Announce(r) \/ Crash(r)
      PROVE  \E b \in Batch :
                 /\ \A c \in Batch \ {b} : RowOf(c)' = RowOf(c)
                 /\ Holders(b) # {} /\ root' = root /\ proofRows' = proofRows
                 /\ status[b] = "CONFIRMED" => status'[b] = "CONFIRMED" /\ ref'[b] = ref[b]
                 /\ mode[b] = "FABRIC" => mode'[b] = "FABRIC"
                 /\ abandoned \subseteq abandoned' /\ chain \subseteq chain'
  <2>1. PICK b \in Batch : b = held[r] /\ (pc[r] = "confirm" => status[b] = "SENT")
    <3>1. pc[r] # "idle"
      BY <1>3 DEF Submit, Confirm, SetMode, ReadCompany, Announce, Crash
    <3>2. QED
      BY <3>1, Held DEF RunInv, RunOK
  <2>2. /\ \/ UNCHANGED <<status, ref>>
           \/ /\ pc[r] = "confirm"
              /\ status' = [status EXCEPT ![b] = "CONFIRMED"]
              /\ \E x : ref' = [ref EXCEPT ![b] = x]
        /\ mode' = mode \/ mode' = [mode EXCEPT ![b] = "FABRIC"]
        /\ UNCHANGED <<root, proofRows>>
    BY <1>3, <2>1 DEF Submit, Confirm, SetMode, ReadCompany, Announce, Crash, batches
  <2>3. chain' = chain \/ (\E x : x.batch = b /\ chain' = chain \cup {x})
    <3>1. CASE Submit(r)
      <4>1. PICK t \in TxId :
                chain' = chain \cup {[tx |-> t, batch |-> b, rootHash |-> root[b]]}
        BY <2>1, <3>1 DEF Submit
      <4>2. QED
        BY <4>1
    <3>2. QED
      BY <1>3, <3>1 DEF Confirm, SetMode, ReadCompany, Announce, Crash
  <2>4. abandoned \subseteq abandoned'
    BY <1>3 DEF Submit, Confirm, SetMode, ReadCompany, Announce, Crash
  <2>5. Holders(b) # {}
    BY <2>1 DEF Holders
  <2>6. ASSUME NEW c \in Batch \ {b} PROVE RowOf(c)' = RowOf(c)
    <3>1. status'[c] = status[c] /\ ref'[c] = ref[c] /\ mode'[c] = mode[c] /\ root'[c] = root[c]
      BY <2>2 DEF TypeOK
    <3>2. {x \in chain' : x.batch = c} = {x \in chain : x.batch = c}
      BY <2>3
    <3>3. QED
      BY <3>1, <3>2 DEF RowOf
  <2>7. /\ status[b] = "CONFIRMED" => status'[b] = "CONFIRMED" /\ ref'[b] = ref[b]
        /\ mode[b] = "FABRIC" => mode'[b] = "FABRIC"
    BY <2>1, <2>2 DEF TypeOK
  <2>8. chain \subseteq chain'
    BY <2>3
  <2>9. QED
    BY <2>2, <2>4, <2>5, <2>6, <2>7, <2>8
<1>4. \A c \in Batch : RowOf(c)' = RowOf(c) =>
          /\ root'[c] = root[c] /\ status'[c] = status[c]
          /\ mode'[c] = mode[c] /\ ref'[c] = ref[c]
  BY DEF RowOf
<1>5. \A c \in abandoned : Holders(c) = {} /\ status[c] \notin {"absent", "NOT_SENT"}
  BY DEF LeftAlone
<1>6. CASE \E b \in Batch, es \in Leaves : Seal(b, es)
  BY <1>1, <1>4, <1>5, <1>6
<1>7. CASE \E r \in Run : Claim(r)
  <2>1. PICK b \in Batch :
            /\ \A c \in Batch \ {b} : RowOf(c)' = RowOf(c)
            /\ status[b] = "NOT_SENT" /\ root' = root /\ mode' = mode
            /\ abandoned' = abandoned /\ chain' = chain /\ proofRows' = proofRows
    BY <1>2, <1>7
  <2>2. QED
    BY <1>4, <1>5, <2>1
<1>8. CASE \E r \in Run : Submit(r) \/ Confirm(r) \/ SetMode(r) \/ ReadCompany(r)
                            \/ Announce(r) \/ Crash(r)
  <2>1. PICK b \in Batch :
            /\ \A c \in Batch \ {b} : RowOf(c)' = RowOf(c)
            /\ Holders(b) # {} /\ root' = root /\ proofRows' = proofRows
            /\ status[b] = "CONFIRMED" => status'[b] = "CONFIRMED" /\ ref'[b] = ref[b]
            /\ mode[b] = "FABRIC" => mode'[b] = "FABRIC"
            /\ abandoned \subseteq abandoned' /\ chain \subseteq chain'
    BY <1>3, <1>8
  <2>2. QED
    BY <1>4, <1>5, <2>1
<1>9. QED
  BY <1>6, <1>7, <1>8 DEF Next, Proceed

\* An anchor once confirmed, a root once stored and a proof once served are never
\* changed, by runs that overlap, repeat or fail; and nothing goes back to what a run
\* left behind when it was cut off: such an anchor is never retried.
THEOREM AnchoredForGood == Spec => AnchorsFinal
<1>1. Spec => [](IInv /\ LeftAlone)
  <2>1. Init => LeftAlone
    BY DEF Init, LeftAlone
  <2>2. QED
    BY <2>1, AloneStep, AnchorInvariance, PTL DEF Spec
<1>2. IInv /\ LeftAlone /\ [Next]_vars =>
          [ /\ \A b \in Batch :
                  /\ status[b] # "absent" => root'[b] = root[b]
                  /\ status[b] = "CONFIRMED" => status'[b] = "CONFIRMED" /\ ref'[b] = ref[b]
                  /\ mode[b] = "FABRIC" => mode'[b] = "FABRIC"
                  /\ b \in abandoned => b \in abandoned' /\ RowOf(b)' = RowOf(b)
            /\ \A e \in Event : proofRows[e] # None => proofRows'[e] = proofRows[e]
            /\ chain \subseteq chain' ]_vars
  BY FinalStep
<1>3. QED
  BY <1>1, <1>2, PTL DEF Spec, AnchorsFinal
===============================================================================
