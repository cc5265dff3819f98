----------------------------- MODULE AnchorWorkers -----------------------------
(***************************************************************************)
(* The anchor workers (mockAnchorWorkerService.ts,                         *)
(* fabricAnchorWorkerService.ts), the sealed batches they compete for and  *)
(* the proofs that are served from them (proofQueryService.ts).            *)
(*                                                                         *)
(* workerAnchorMock.ts and workerAnchorFabric.ts start a run of            *)
(* processNextBatch at every tick, whether the last one has ended or not;  *)
(* workers of both kinds may poll one database.  Each transaction and the  *)
(* submission to the chain is one action.  The batch transaction of the    *)
(* proof worker (ProofPipeline) is the action Seal here.  The chaincode    *)
(* AnchorBatch is not in the repository: chain is the transactions it has  *)
(* committed.                                                              *)
(***************************************************************************)
EXTENDS MerkleTree, FiniteSets

CONSTANTS
    Event,         \* events of the ledger
    Company,
    CompanyOf,     \* event -> its company
    Batch,         \* ids of batches
    Leaves,        \* the event sequences a batch may be made of
    MockRun,       \* runs of MockAnchorWorkerService.processNextBatch
    FabricRun,     \* runs of FabricAnchorWorkerService.processNextBatch
    TxId           \* transaction ids of the chain

ASSUME CompanyOfType == CompanyOf \in [Event -> Company]
ASSUME LeavesType == Leaves \subseteq Seq(Event) \ {<<>>}
ASSUME KindsDiffer == MockRun \cap FabricRun = {}
ASSUME NamesDiffer == Batch \cap TxId = {} /\ <<>> \notin Batch \cup TxId

VARIABLES
    root,       \* batch -> root_hash, of a batch that has been sealed
    status,     \* batch -> anchor_status, "absent" before it is sealed
    mode,       \* batch -> anchor_mode
    ref,        \* batch -> anchor_ref: the tx of the chain, or the batch itself
                \*          in the reference that the mock worker makes of it
    proofRows,  \* event -> its rows of proof_batch_events and proof_paths
    chain,      \* the committed transactions of AnchorBatch
    announced,  \* proof.anchor_confirmed payloads, each with its company
    abandoned,  \* batches of runs that ended before they were done with them
    pc,         \* run -> what it does next
    held,       \* run -> the batch it has claimed
    txOf        \* run -> fabricTxId

batches == <<root, status, mode, ref>>
local == <<pc, held, txOf>>
vars == <<root, status, mode, ref, proofRows, chain, announced, abandoned, pc, held, txOf>>

Run == MockRun \cup FabricRun

\* No batch, no transaction, no row.
None == <<>>

AnchorStatus == {"absent", "NOT_SENT", "SENT", "CONFIRMED"}

Step == {"idle", "submit", "confirm", "mode", "company", "announce"}

Init ==
    /\ root = [b \in Batch |-> None]
    /\ status = [b \in Batch |-> "absent"]
    /\ mode = [b \in Batch |-> "MOCK"]
    /\ ref = [b \in Batch |-> None]
    /\ proofRows = [e \in Event |-> None]
    /\ chain = {}
    /\ announced = {}
    /\ abandoned = {}
    /\ pc = [r \in Run |-> "idle"]
    /\ held = [r \in Run |-> None]
    /\ txOf = [r \in Run |-> None]

-------------------------------------------------------------------------------
(* Pieces of the actions.                                                  *)

Goto(r, label) == pc' = [pc EXCEPT ![r] = label]

\* processNextBatch returns or throws: the run is over and holds nothing.
Leave(r) ==
    /\ Goto(r, "idle")
    /\ held' = [held EXCEPT ![r] = None]
    /\ txOf' = [txOf EXCEPT ![r] = None]

\* The tree over the events of a batch.
Tree(es) == Build([i \in DOMAIN es |-> LeafHash(es[i])])

\* The rows of the event at place i of the batch b.
Rows(b, es, i) ==
    [batch |-> b, leafHash |-> LeafHash(es[i]), path |-> Tree(es).proofs[i],
     rootHash |-> Tree(es).rootHash]

\* ON CONFLICT (event_id) DO UPDATE of the path alone (mutated form).
PathReplaced(b, es) ==
    [e \in Event |->
        IF \E i \in DOMAIN es : es[i] = e
        THEN LET new == Rows(b, es, CHOOSE i \in DOMAIN es : es[i] = e)
             IN  IF proofRows[e] = None THEN new
                 ELSE [proofRows[e] EXCEPT !.path = new.path]
        ELSE proofRows[e]]

\* insertProofBatchEvent, insertProofPath and markEventProofReady leave the
\* rows of an event that has been batched before as they are.
Proved(b, es) ==
    [e \in Event |->
        IF proofRows[e] = None /\ \E i \in DOMAIN es : es[i] = e
        THEN Rows(b, es, CHOOSE i \in DOMAIN es : es[i] = e)
        ELSE proofRows[e]]

\* The events with a row in proof_batch_events for the batch.
Members(b) == {e \in Event : proofRows[e] # None /\ proofRows[e].batch = b}

-------------------------------------------------------------------------------
(* Mutated forms of actions: plausible bugs that show a property can fail. *)

\* The batches that are SENT are taken too, to retry them.
ClaimSent(r) ==
    /\ pc[r] = "idle"
    /\ \E b \in Batch :
          /\ status[b] \in {"NOT_SENT", "SENT"}
          /\ status' = [status EXCEPT ![b] = "SENT"]
          /\ held' = [held EXCEPT ![r] = b]
    /\ Goto(r, IF r \in MockRun THEN "confirm" ELSE "submit")
    /\ UNCHANGED <<root, mode, ref, proofRows, chain, announced, abandoned, txOf>>

\* The batch is confirmed before the chain has answered.
SubmitEarly(r) ==
    /\ pc[r] = "submit"
    /\ \E t \in TxId :
          /\ \A x \in chain : x.tx # t
          /\ txOf' = [txOf EXCEPT ![r] = t]
          /\ \/ UNCHANGED chain
             \/ chain' = chain \cup {[tx |-> t, batch |-> held[r], rootHash |-> root[held[r]]]}
    /\ Goto(r, "confirm")
    /\ UNCHANGED <<batches, proofRows, announced, abandoned, held>>

\* An answer that cannot be parsed is logged and the run goes on.
SubmitUnparsed(r) ==
    /\ pc[r] = "submit"
    /\ \E t \in TxId :
          /\ \A x \in chain : x.tx # t
          /\ chain' = chain \cup {[tx |-> t, batch |-> held[r], rootHash |-> root[held[r]]]}
          /\ UNCHANGED txOf \/ txOf' = [txOf EXCEPT ![r] = t]
    /\ Goto(r, "confirm")
    /\ UNCHANGED <<batches, proofRows, announced, abandoned, held>>

\* UPDATE ... AND anchor_mode is that of the worker, before the mode is set.
ConfirmOwnMode(r) ==
    /\ pc[r] = "confirm"
    /\ IF r \in MockRun
       THEN /\ status' = [status EXCEPT ![held[r]] = "CONFIRMED"]
            /\ ref' = [ref EXCEPT ![held[r]] = held[r]]
       ELSE UNCHANGED <<status, ref>>
    /\ Goto(r, IF r \in MockRun THEN "company" ELSE "mode")
    /\ UNCHANGED <<root, mode, proofRows, chain, announced, abandoned, held, txOf>>

-------------------------------------------------------------------------------
(* The batch transaction of the proof worker.                              *)

\* createProofBatch and the rows of the events of the batch; an event may have
\* been batched before.
Seal(b, es) ==
    /\ status[b] = "absent"
    /\ status' = [status EXCEPT ![b] = "NOT_SENT"]
    /\ root' = [root EXCEPT ![b] = Tree(es).rootHash]
    /\ proofRows' = Proved(b, es)
    /\ UNCHANGED <<mode, ref, chain, announced, abandoned, local>>

-------------------------------------------------------------------------------
(* A run of processNextBatch.                                              *)

\* claimSealedBatchForAnchor.  It takes the oldest by created_at, the start of
\* the transaction that sealed it, and skips rows that another claim has locked
\* and may not keep: any sealed batch can be the one.  state is SEALED until
\* confirmMockAnchor, so it says no more than anchor_status.
Claim(r) ==
    /\ pc[r] = "idle"
    /\ \E b \in Batch :
          /\ status[b] = "NOT_SENT"
          /\ status' = [status EXCEPT ![b] = "SENT"]
          /\ held' = [held EXCEPT ![r] = b]
    /\ Goto(r, IF r \in MockRun THEN "confirm" ELSE "submit")
    /\ UNCHANGED <<root, mode, ref, proofRows, chain, announced, abandoned, txOf>>

\* contract.submit: the transaction is committed.  Its id comes back, or the
\* answer is lost or cannot be parsed, and submit throws.
Submit(r) ==
    /\ pc[r] = "submit"
    /\ \E t \in TxId :
          /\ \A x \in chain : x.tx # t
          /\ chain' = chain \cup {[tx |-> t, batch |-> held[r], rootHash |-> root[held[r]]]}
          /\ \/ /\ txOf' = [txOf EXCEPT ![r] = t]
                /\ Goto(r, "confirm")
                /\ UNCHANGED <<held, abandoned>>
             \/ /\ Leave(r)
                /\ abandoned' = abandoned \cup {held[r]}
    /\ UNCHANGED <<batches, proofRows, announced>>

\* confirmMockAnchor, with the reference of the mock worker or the fabricTxId.
\* The row is updated whatever its status is.
Confirm(r) ==
    /\ pc[r] = "confirm"
    /\ status' = [status EXCEPT ![held[r]] = "CONFIRMED"]
    /\ ref' = [ref EXCEPT ![held[r]] = IF r \in MockRun THEN held[r] ELSE txOf[r]]
    /\ Goto(r, IF r \in MockRun THEN "company" ELSE "mode")
    /\ UNCHANGED <<root, mode, proofRows, chain, announced, abandoned, held, txOf>>

\* UPDATE ... SET anchor_mode = 'FABRIC', outside of that transaction.
SetMode(r) ==
    /\ pc[r] = "mode"
    /\ mode' = [mode EXCEPT ![held[r]] = "FABRIC"]
    /\ Goto(r, "company")
    /\ UNCHANGED <<root, status, ref, proofRows, chain, announced, abandoned, held, txOf>>

\* getProofBatchCompanyId: a batch whose events were all batched before has no
\* member and is not announced.
ReadCompany(r) ==
    /\ pc[r] = "company"
    /\ IF Members(held[r]) = {} THEN Leave(r)
       ELSE Goto(r, "announce") /\ UNCHANGED <<held, txOf>>
    /\ UNCHANGED <<batches, proofRows, chain, announced, abandoned>>

\* webhookEvent.enqueueEvent of proof.anchor_confirmed, to the company of one
\* of the members: members stay, so the choice may be made here.
Announce(r) ==
    /\ pc[r] = "announce"
    /\ \E e \in Members(held[r]) :
          announced' = announced \cup
              {[company |-> CompanyOf[e], batch |-> held[r], rootHash |-> root[held[r]],
                anchorRef |-> IF r \in MockRun THEN held[r] ELSE txOf[r]]}
    /\ Leave(r)
    /\ UNCHANGED <<batches, proofRows, chain, abandoned>>

\* The worker dies, or a transaction, the submission or a file it needs fails
\* and the run throws.  No statement takes a batch back that has been SENT.
Crash(r) ==
    /\ pc[r] # "idle"
    /\ Leave(r)
    /\ abandoned' = IF pc[r] \in {"submit", "confirm", "mode"}
                    THEN abandoned \cup {held[r]} ELSE abandoned
    /\ UNCHANGED <<batches, proofRows, chain, announced>>

-------------------------------------------------------------------------------
(* What is served of an event.                                             *)

\* getEventProof: one SELECT that joins the rows of the event with its batch.
\* That the rows of an event name one batch is ProofLinked of ProofPipeline.
EventProof(e) ==
    LET row == proofRows[e]
    IN  IF row = None THEN [proofStatus |-> "PENDING"]
        ELSE [proofStatus |-> "READY", batch |-> row.batch, rootHash |-> row.rootHash,
              leafHash |-> row.leafHash, path |-> row.path,
              anchorStatus |-> status[row.batch], anchorRef |-> ref[row.batch],
              anchorMode |-> mode[row.batch]]

-------------------------------------------------------------------------------
Proceed(r) ==
    Claim(r) \/ Submit(r) \/ Confirm(r) \/ SetMode(r) \/ ReadCompany(r) \/ Announce(r)

Next ==
    \/ \E b \in Batch, es \in Leaves : Seal(b, es)
    \/ \E r \in Run : Proceed(r) \/ Crash(r)

\* Workers keep polling and a run that is not cut off goes on.
Spec == Init /\ [][Next]_vars /\ \A r \in Run : WF_vars(Proceed(r))

-------------------------------------------------------------------------------
(* Properties.                                                             *)

\* The tree algorithm is right on the batches there may be: a path leads to the
\* root from the leaf of its own event and from no other.
TreesVerify ==
    \A es \in Leaves : \A i \in DOMAIN es : \A e \in Event :
        Verify(LeafHash(e), Tree(es).proofs[i], Tree(es).rootHash) <=> e = es[i]

\* Every variable has its type; a run at work has a batch, one that goes to
\* confirm a Fabric anchor has its transaction, and exactly the confirmed
\* batches have a reference.
TypeOK ==
    /\ root \in [Batch -> {Tree(es).rootHash : es \in Leaves} \cup {None}]
    /\ status \in [Batch -> AnchorStatus]
    /\ mode \in [Batch -> {"MOCK", "FABRIC"}]
    /\ ref \in [Batch -> Batch \cup TxId \cup {None}]
    /\ \A e \in Event : proofRows[e] = None \/ proofRows[e].batch \in Batch
    /\ abandoned \subseteq Batch
    /\ pc \in [Run -> Step]
    /\ held \in [Run -> Batch \cup {None}]
    /\ txOf \in [Run -> TxId \cup {None}]
    /\ \A r \in Run : pc[r] = "idle" <=> held[r] = None
    /\ \A b \in Batch : status[b] = "CONFIRMED" <=> ref[b] # None

\* Mock and Fabric workers share the batches: no two runs work on one, a batch
\* is submitted to the chain once at most, and one that is SENT is in the hands
\* of a run or was left by one that was cut off.  Nothing takes it back: an
\* anchor that failed is not retried.
SubmittedOnce ==
    /\ \A r, s \in Run : held[r] = held[s] /\ held[r] # None => r = s
    /\ \A x, y \in chain : x.batch = y.batch => x = y
    /\ \A b \in Batch : status[b] = "SENT" =>
          b \in abandoned \/ \E r \in Run : held[r] = b /\ pc[r] \in {"submit", "confirm"}

\* What is said of an anchor is true.  A confirmed batch has the reference of
\* the mock worker and was never submitted, or the transaction that has its
\* root on the chain; only a run between its two transactions, or one cut off
\* there, leaves such a batch in mode MOCK.  proof.anchor_confirmed names a
\* confirmed batch with its reference and root, and tells it to a company that
\* has an event in it.
AnchorIsTrue ==
    /\ \A b \in Batch : status[b] = "CONFIRMED" =>
          \/ ref[b] = b /\ mode[b] = "MOCK" /\ \A x \in chain : x.batch # b
          \/ /\ [tx |-> ref[b], batch |-> b, rootHash |-> root[b]] \in chain
             /\ \/ mode[b] = "FABRIC"
                \/ b \in abandoned
                \/ \E r \in FabricRun : held[r] = b /\ pc[r] = "mode"
    /\ \A a \in announced :
          /\ a.batch \in Batch /\ status[a.batch] = "CONFIRMED"
          /\ a.anchorRef = ref[a.batch] /\ a.rootHash = root[a.batch]
          /\ \E e \in Members(a.batch) : CompanyOf[e] = a.company

\* What is served for an event convinces a verifier: its path leads to the root
\* of its batch from its leaf and from no other event's, and a confirmed anchor
\* that names a transaction names the one that has put this root on the chain.
ProofsVerify ==
    \A e \in Event : EventProof(e).proofStatus = "READY" =>
        LET p == EventProof(e)
        IN  /\ p.leafHash = LeafHash(e)
            /\ p.rootHash = root[p.batch]
            /\ \A f \in Event : Verify(LeafHash(f), p.path, p.rootHash) <=> f = e
            /\ p.anchorStatus = "CONFIRMED" /\ p.anchorRef # p.batch =>
                  [tx |-> p.anchorRef, batch |-> p.batch, rootHash |-> p.rootHash] \in chain

\* Every sealed batch is anchored, unless a run is cut off while it has it.
EveryBatchEnds ==
    \A b \in Batch : status[b] = "NOT_SENT" ~> status[b] = "CONFIRMED" \/ b \in abandoned
===============================================================================
