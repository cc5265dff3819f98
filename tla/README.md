# Verification of Sammati Ledger

Sammati Ledger is a multi-tenant consent ledger: a Fastify server on PostgreSQL,
with background workers that prove, anchor and announce what was recorded. This
directory holds TLA+ modules translated from the source, the TLC configurations
that check them on small instances, and TLAPS proofs that hold for every
instance. Source paths below are relative to the repository root.

## The system

State lives in PostgreSQL; every process (the API server, the proof worker, the
anchor workers, the webhook worker) is a Node program that runs short
transactions (`withTx`, READ COMMITTED) with an `await`, hence an interleaving
point, between any two statements. Nothing else is shared.

| Part | State | Operations | Talks to |
|---|---|---|---|
| Consent ledger write path (`services/consentLifecycle`, `services/idempotency`, `domain/consent`) | `consents` (current version and status), `events` and `consent_versions` (append-only), `idempotency_keys`, `outbox` | `recordConsent` for GRANT, UPDATE, REVOKE | called by the API and by widget sessions; feeds the proof worker through `outbox`; enqueues `consent.recorded` |
| Proof worker (`services/proof/proofWorkerService.ts`) | `outbox` status, `proof_batches`, `proof_batch_events`, `proof_paths`, `events.proof_status` | `processNextBatch` on a timer | reads events, enqueues `proof.ready` |
| Merkle tree (`services/proof/merkleTree.ts`) | none | build, verify | proof worker, proof API |
| Anchor workers (mock, Fabric) | `proof_batches.state`, `anchor_status`, `anchor_mode`, the chain | `processNextBatch` on a timer | reads sealed batches, enqueues `proof.anchor_confirmed` |
| Webhooks (`services/webhooks`) | `webhook_endpoints`, `webhook_deliveries` | enqueue, deliver, retry; create, update, rotate endpoint | everything enqueues; subscribers over HTTP |
| Widget sessions (`services/widget`) | `widget_sessions` | create, bootstrap, submit, cancel, expire | policies (read), ledger (write) |
| Policies (`services/policy`) | `policy_artifacts` | draft, publish, list | widget sessions |
| Server SDK (`packages/server-sdk`, transport and errors of `packages/shared-core`) | the attempt of each call | create, get, submit, bootstrap, endpoints; each one a retry loop | the API, over HTTP |
| Queries, authentication, bootstrap, browser SDK, hosted page | none, or administrative rows | reads; one-shot inserts | |

### What is hard, and what makes each part correct

* **Ledger.** Concurrent calls on one timeline (above all two first GRANTs), on one
  idempotency key, and on both; retries after lost answers; a server or connection
  lost at any statement. Correct when timelines have no gaps, forks or illegal
  transitions, a key yields one entry and one answer, the outbox and the events
  commit together, nothing is announced that is not recorded, and no calls wait on
  each other for ever.
* **Proof worker.** Timer ticks overlap and workers run in parallel; errors, retries
  and crashes come between the transactions of a run; the catch block also
  rewrites rows that were finished. Correct when an event's leaf, path and batch
  belong together and never change, no row is held by two runs, retries are
  bounded, and every message is settled.
* **Anchor workers.** Crash or failure between claim, chain submission and
  confirmation; two kinds of workers on one table. Correct when a batch is
  submitted once at most, a confirmed batch names its own reference and mode, and every
  batch is anchored as long as no run is cut off while it has it.
* **Webhook delivery.** Lost answers, slow subscribers, crashes after the claim,
  endpoints paused or rotated meanwhile. Correct when a delivery is posted at most
  `max_attempts` times, is settled in the end, and DELIVERED means a 2xx was seen.
* **Widget sessions.** Three transactions per submit, with cancel, expiry, a second
  submit or a crash between them. Correct when a session records one consent at most
  and terminal states are terminal.
* **Policies.** Concurrent publish; published content immutable, so that what a session
  was created under is what its widget shows.
* **Server SDK.** Requests that were given up are still served, answers are lost, and the
  service does not use the `Idempotency-Key` of the routes that create. Correct when an
  answer is true, every call returns, and what takes effect is known to its caller or in
  doubt for him.
* **Merkle tree.** Odd levels, single leaf; every path verifies against its root and
  no other leaf does.

`PROJECT.json` lists every component, and every hazard with the line where it
bites and the property that covers it.

## Modules

```
ConsentLifecycle     rules and data                        (constants: Timeline, Details)
  ^        ^
  |        +-- ConsentTimeline     abstract: one atomic Record per key
  |                 ^      ^
  |                 |      +--- ConsentTimelineProofs
  |                 |              ^ INSTANCE in ConsentLedgerProofs, WidgetSessionProofs
  |                 | implements (PROPERTY ImplementsTimeline, THEOREM Refinement)
  +----------- ConsentLedger       transactions, locks, lost connections
                    ^       ^
     MCConsentLedger         ConsentLedgerProofs

ProofPipeline        runs of the proof worker over outbox and proof tables
     ^       ^
MCProofPipeline  ProofPipelineProofs

WidgetSession        sessions and submits; INSTANCE ConsentTimeline as the ledger
     ^       ^
MCWidgetSession  WidgetSessionProofs

WebhookDelivery      endpoints, deliveries and the runs that post them
     ^       ^
MCWebhookDelivery  WebhookDeliveryProofs

MerkleTree           build and verify  <--- MerkleTreeProofs
     ^                                            ^
AnchorWorkers        sealed batches, runs of      |
     ^       ^       both workers, the chain      |
MCAnchorWorkers  AnchorWorkersProofs -------------+

PolicyArtifacts      versions, publish calls, the trigger
     ^
SdkClient            calls of the SDK, the network and the routes they use
     ^       ^
MCSdkClient  SdkClientProofs
```

### ConsentLifecycle, ConsentTimeline

`ConsentLifecycle` is `nextStatusForAction` as a relation (`Allowed`, `NextStatus`),
the HTTP class of its refusals, and the data: a `Body` is what
`computeRequestHash` covers (so equal hashes are equal bodies), a `Row` is the
version and status of a row of `consents`, an `Entry` is what one action inserts
into `events` and `consent_versions`. A company's identities and keys are disjoint
from another company's, so one `Timeline` set and one `Key` set stand for all.

`ConsentTimeline` is the promise: `Record(k, b)` records body `b` under a fresh
key `k` as the next version, in one step. It also states what follows from it for the
recorded history (`TimelineIntact`, `OneEntryPerKey`, `Growing`), so that whatever
implements it is known to have it.

### ConsentLedger

One `Call` is one `recordConsent` in flight, and may be used again. `consents`,
`events`, `idem` and `outbox` are the committed tables; what an open transaction
has written is in its own `row` and `result` and reaches the tables at COMMIT.
`keyLock` and `rowLock` stand for row locks and for uncommitted INSERTs, on which
PostgreSQL makes others wait in the same way.

| Action | Code |
|---|---|
| `Begin` | the handler calls `recordConsent`, BEGIN |
| `ReserveMiss`, `ReserveConflict`, `ReserveReplay` | `getIdempotencyRowForUpdate` and the branches of `reserveIdempotencyKey` |
| `InsertKey`, `InsertKeyViolation` | `insertIdempotencyInProgress`; the unique constraint is its only guard |
| `LoadMissing`, `LoadNotFound`, `LockConsent` | `getConsentByIdentityForUpdate` and the `if (!consent)` branch; `LockConsent` is also the reload in `insertConsent` |
| `InsertConsent`, `InsertConsentConflict` | `INSERT ... ON CONFLICT DO NOTHING` |
| `Refuse` | `nextStatusForAction` throws |
| `Write` | `insertEvent` to `finalizeIdempotencyCompleted` |
| `CommitWrite`, `CommitReplay` | COMMIT |
| `Announce` | `webhookEvent.enqueueEvent`, then the reply |
| `Drop` | the process or its connection dies, or the enqueue throws |

Abstractions: the statements under `Write` touch only rows the transaction holds,
so nothing can come between them that matters, and `Drop` before or after stands
for a failure among them. `IN_PROGRESS` is never committed (reserve and finalize
share a transaction), so the branch for it has no action. `expires_at` of a key
is written and never read. Hashes and clocks are left out. A connection that is
lost while COMMIT is on its way is `Drop` just before or just after the commit.

### ProofPipeline

One `Run` is one `processNextBatch`. Several run at once because the timer does
not wait for the last run and because workers run in parallel. A message is
named by its `aggregate_id`; the members of `Poison` name no event. `status`,
`attempts` and `due` are the outbox row, `member`, `path` and `proof` are the three
places where an event refers to its batch, `batches` is the sequence of sealed
batches with the events in their leaves. `claimed`, `todo` and `sealed` are the
local variables of a run.

| Action | Code |
|---|---|
| `Enqueue` | `enqueueOutboxMessage` (or a row inserted by hand) |
| `BackoffOver` | `next_attempt_at` passes |
| `Claim` | `claimProofOutboxRows`, one transaction |
| `Fetch` | `fetchProofEventsByIds` and the choice between rejecting and batching |
| `Reject` | `failOutbox` for one poison row |
| `Seal` | the batch transaction |
| `Notify` | one `enqueueEvent` of `proof.ready` |
| `Err` | any statement of the try block throws |
| `Requeue`, `GiveUp` | one turn of the loop in the catch block |
| `Crash` | the process dies, or the catch block itself throws |

`abandoned` records the rows of runs that were cut off, for the properties; no action
reads it.

Abstractions: the batch transaction is one action, because overlapping batches
insert events in one order (`ORDER BY recorded_at, id`) and wait for each other's
uncommitted rows, so they cannot interleave visibly. `ORDER BY created_at` of the
claim is any choice of as many rows. What is in the tree is in `MerkleTree`.

### WidgetSession

One `Call` is one `submitSession` in flight. `consents`, `events` and `idem` are those
of `ConsentTimeline`, taken with INSTANCE: a call of `recordConsent` is one `Record`
step, a replay or a refusal, which `ConsentLedger` is shown to implement. A session is
its own idempotency key, as `widget-submit-<id>` is in the code; the keys of the
backend's own calls (`ApiKey`) are assumed to be others. `session` is the table,
`creation` says whether the creating call answered (the token is unknown to anyone
before), `elapsed` whether `expires_at` has passed.

| Action | Code |
|---|---|
| `Publish` | `publishPolicyArtifact` |
| `Create`, `AnswerCreate`, `LoseCreate` | `createSession`: transaction, then webhook and reply, or neither |
| `TtlElapses` | `expires_at` passes |
| `Bootstrap` | `bootstrap` with an expired token: ISSUED or STARTED becomes EXPIRED |
| `Expire`, `Cancel` | `expireSession`, `cancelSession` (no public route) |
| `RecordDirectly` | `POST /v1/consents/...` by the backend |
| `Submit`, `SubmitTooLate` | `verifyWidgetSessionToken` |
| `CheckOpen`, `CheckClosed`, `CheckExpired` | the first transaction and its errors |
| `Record`, `Replay`, `RecordFails` | `recordConsent` |
| `Consume` | `markWidgetSessionConsumed` |
| `Announce` | `widget.session.consumed`, then the reply |
| `Drop` | the server dies, or a statement throws |

Abstractions: each transaction locks one session row and is one action. Wrong tokens,
nonces, origins and companies are refused without a change and have no action; the
locale and the render hash are not modelled. The token's `exp` is `expires_at` rounded
down to seconds, here the same instant. `RecordFails` may also meet a used key with
the same body: the unique violation of finding 1.

### WebhookDelivery

One `Run` is one `processNext`; runs overlap as in the proof worker. A delivery is its
endpoint and its event, which are unique together. `state` and `secret` are the endpoint
row, `status`, `attempts`, `due`, `code` and `inactive` the delivery row
(`status`, `attempt_count`, `next_attempt_at`, `last_http_status`, `last_error`),
`chosen` what an open `enqueueEvent` has selected. `taken` holds a run's copies of the
rows it claimed, by which it decides on a retry; `at`, `key` and `answer` belong to the
turn of its loop. `posts`, `acked`, `abandoned` and `floor` record what happened, for
the properties; no action reads them.

| Action | Code |
|---|---|
| `CreateEndpoint`, `UpdateEndpoint`, `RotateSecret` | the management service, one transaction each |
| `SelectEndpoints`, `InsertRows`, `EnqueueFails` | `enqueueEvent`: the SELECT, then the inserts and COMMIT, or neither |
| `BackoffElapses` | `next_attempt_at` passes |
| `Claim` | `claimWebhookDeliveries`, one transaction |
| `ReadEndpoint` | the next turn of the loop: `getEndpointById`, the test of its status, the secret |
| `DropInactive` | `markDeliveryDeadLetter` without a call |
| `Post` | `fetch` |
| `MarkDelivered`, `MarkDeadLetter`, `Requeue` | the three outcomes |
| `Abandon` | a transaction throws, which ends `processNext`, or the process stops |

Abstractions: subscriptions decide only which endpoints an event is queued for, so any
nonempty set of ACTIVE endpoints may be selected. Payload, url and signature are left
out, save for which secret signs. An answer is an HTTP status, 0 when `fetch` throws;
a lost answer is a 0 of a consumer that has processed the call. `ORDER BY created_at`
of the claim is any choice of as many rows.

### MerkleTree

`buildMerkleTree` and `verifyMerkleProof` as functions, over hashes that are taken to be
injective with the two prefixes apart: a leaf's hash is a 1-tuple, a pair's a 2-tuple.
`Trees` has the tree after every turn of the `while` loop (`Bottom`, then `Grow` by
`NextLevel`, which pairs the odd node with itself), `Build` the last; `Verify` looks at the
end of the `Climb` along a path. `Reference` defines the root from above: of the least
height that has room for the leaves (`Height`), where a node with no leaf under its right
half is its left half paired with itself. `TreeCorrect(n)` says that both agree for `n`
different leaves, and that each path verifies its own leaf and no other one.

### AnchorWorkers

One run is one `processNextBatch` of the mock or of the Fabric worker; runs overlap and
both kinds may poll one database. `root`, `status`, `mode` and `ref` are the columns of
`proof_batches`, `proofRows` an event's rows of `proof_batch_events` and `proof_paths`,
with the path that `MerkleTree` builds. `chain` is what the chaincode `AnchorBatch`, which
is not in the repository, has committed. `abandoned` records the batches of runs that
were cut off, for the properties; no action reads it.

| Action | Code |
|---|---|
| `Seal` | the batch transaction of the proof worker; its events may have been batched before |
| `Claim` | `claimSealedBatchForAnchor` |
| `Submit` | `contract.submit`; the answer comes back, or is lost, or cannot be parsed |
| `Confirm` | `confirmMockAnchor`, which both workers use |
| `SetMode` | `UPDATE ... SET anchor_mode = 'FABRIC'`, a transaction of its own |
| `ReadCompany`, `Announce` | `getProofBatchCompanyId`; `proof.anchor_confirmed` |
| `Crash` | the process dies, or any step throws |

`EventProof` is what `getEventProof` serves. Abstractions: the mock reference is a
function of the batch, here the batch itself; which member's company `LIMIT 1` finds is
any. `state` of a batch follows `anchor_status` and is left out.

### PolicyArtifacts, SdkClient

`PolicyArtifacts` has the versions of policies, each with the content a hash was computed
from, and the publish calls: two statements of one READ COMMITTED transaction without a
lock, hence `ReadDraft` or `ReadPublished` and `UpdateForPublish`. `CreateDraft` is
`insertPolicyDraft`. No statement of the service changes the content of a version;
`Amend` is an UPDATE by hand, which the trigger allows on a DRAFT alone.

`SdkClient` extends it by the clients. A `Call` is one call of a method of the SDK, hence
of `runWithRetry`; a request is a call and an attempt, and a request that the client no
longer waits for stays in `sent` and may be served at any time.

| Action | Code |
|---|---|
| `Invoke` | a method is called |
| `Attempt`, `NoApiKey` | the top of the loop: the header, then `fetch`, or the key provider rejects |
| `Receive`, `GiveUp` | the transport returns or throws; the catch block retries or rethrows (`Conclude`) |
| `Vanish`, `Refuse` | a request is lost, or refused before it has any effect |
| `CreateSession`, `CreateEndpoint`, `Submit`, `Bootstrap`, `Read` | the routes the SDK uses |

An attempt that `GiveUp` ends may end in any class of error: a call without `timeoutMs`
hands the caller's `AbortSignal` to `fetch`, which rejects with the reason of the abort, and
`normalizeUnknownError` makes of it what it is (an AbortError is a timeout, another Error
network, a SammatiError itself, anything else unknown). Whatever the class, the request may
still be served, and its attempt is in `doubt`: the caller knows that it aborted.

Abstractions: error types are the three classes that `shouldRetry` and the properties tell
apart; `ErrorType` and `Refusals` say which is which. The SDK has no method to rotate a
secret or to manage policies, so those are no calls. A submit is one step that records
one consent for a session; its inside is `WidgetSession`. The delay between attempts is
left out, as time is.

## What is checked

Run `tlc -config X.cfg M` in this directory.

| Run | Module, configuration | Bounds | Shows |
|---|---|---|---|
| `ledger_safety` | `MCConsentLedger`, `ConsentLedgerSafety.cfg` | 1 timeline, 2 calls, 3 keys, 1 value of details, fresh keys alike | type, timelines, one entry per key, outbox, replies, announcements, row locks, refinement of `ConsentTimeline`, every call ends (`FairSpec`) |
| `ledger_duplicate` | `MCConsentLedger`, `ConsentLedgerDuplicate.cfg` | 2 keys | violated: a concurrent duplicate is not replayed |
| `pipeline_safety` | `MCProofPipeline`, `ProofPipelineSafety.cfg` | 2 events, 1 poison message, 2 runs, claim limit 2, 2 attempts | type, linked and final proofs, what is said to be proved is (leaves, DONE, `proof.ready`), exclusive rows, retry budget, every message of an event ends unless its run was cut off (`FairSpec`) |
| `pipeline_done` | `MCProofPipeline`, `ProofPipelineDone.cfg` | same | violated: DONE is not final |
| `pipeline_poison` | `MCProofPipeline`, `ProofPipelinePoison.cfg` | same | violated: poison is not always FAILED |
| `widget_safety` | `MCWidgetSession`, `WidgetSessionSafety.cfg` | 1 session, 2 submits, 1 backend key, 2 policy versions, 1 timeline | type, consents match their session, CONSUMED names the recorded consent and is final, submits agree, announcements, a recorded consent is shown |
| `widget_final` | `MCWidgetSession`, `WidgetSessionFinal.cfg` | 1 policy version | violated: EXPIRED and CANCELLED are not terminal |
| `webhook_safety` | `MCWebhookDelivery`, `WebhookDeliverySafety.cfg` | 1 endpoint, 2 events, 2 runs, claim limit 2, 2 attempts, 2 secrets, 5 answers | type, one holder per row, attempts count calls, outcomes deserved and final, no call after a 2xx, fresh secrets, every row settled (`FairSpec`) |
| `anchor_safety` | `MCAnchorWorkers`, `AnchorWorkersSafety.cfg` | 3 events of 2 companies, 2 batches of 1 to 3 leaves, 1 mock and 2 Fabric runs, 2 transaction ids; trees of 1 to 9 leaves | type, one submission per batch, anchors and announcements are true, served proofs verify, every batch is anchored unless a run was cut off with it |
| `client_safety` | `MCSdkClient`, `SdkClientSafety.cfg` | 2 calls of 2 attempts, one that creates and one that reads or uses a session, 2 publish calls, 1 version, 2 contents | type, what a call was answered is so and stays so, effects are known or in doubt, every call returns |
| `client_retry` | `MCSdkClient`, `SdkClientRetry.cfg` | same | violated: a create that is retried makes two rows |
| `client_publish` | `MCSdkClient`, `SdkClientPublish.cfg` | same | violated: the loser of two publish calls is answered DRAFT |

**Why the bounds are enough.** One timeline: calls on different timelines meet only
at keys, and a key used for another timeline is a key used for another body, which
differing actions already give. Two calls are the smallest race; three keys allow
GRANT, UPDATE or REVOKE, and a re-GRANT in one behaviour with a duplicate of any of
them. A call in `ConsentLedger` may begin again any number of times, bounded only
by the keys. `FreshKeysAlike` (an ACTION_CONSTRAINT) lets a call begin with one fixed key of
those that no row and no call has yet: to exchange two such keys changes neither the state
nor which call moves, so it only leaves out histories that differ in the names of keys, which
is sound for liveness where TLC's symmetry is not. In the pipeline two runs overlap, a run holds an event together with a
second event or with poison, the claim limit leaves one message behind, and two
attempts give a retry and a give-up. `MaxAttempts` is 10 in the code; `ClaimLimit` is
200. The proofs below cover the other values. `CHECK_DEADLOCK FALSE` in the pipeline:
when all messages are settled there is nothing left to do. In `WidgetSession` sessions
meet only in the ledger, where a consent of the backend does what another session's
would; calls may begin again any number of times, so two give overlapping and later
submits; its deadlock check is off because a lost `Create` ends everything. In `WebhookDelivery`
rows meet only in the batch of a run, so two rows and two runs give batches of one and
two and every overlap; two attempts give a retry and a give-up; the answers are the
boundaries of the worker's tests (0, 200, 300, 429, 500). Deadlock is not checked: after
the events of the model nothing needs to happen. In `AnchorWorkers` three runs of two kinds
meet at two batches, so that a run may work on the second batch while two compete for the
first; a second batch may repeat events of the first, or be made of repeated events only
and have no member. A batch is sent once, so two transaction ids are enough. The trees of
up to nine leaves have every pattern of complete and odd levels that eight leaves have,
and one level more. In `SdkClient` two attempts (the default) give a request given up and a
retry; the call that uses a session may do so while the call that made it is long over, and
calls meet only in sessions. The two contents tell an amended version from the original.
Neither model needs to go on when its batches or calls are done, so deadlock is not checked.

**Fairness.** In `ConsentLedger` a call whose next step stays enabled takes it (Node
runs ready continuations, statements return): weak fairness of `Proceed`. A
statement that waits for a lock is enabled and disabled as others take and release
it; PostgreSQL queues lock waiters, so none is passed over for ever: strong
fairness of `AwaitLock`. With weak fairness alone TLC finds a waiter starved by a
stream of newcomers. `Drop` and `Begin` are not fair. In `ProofPipeline` the timer
polls and time passes: weak fairness of each run and of each backoff. `Crash` is allowed
and not fair; nothing in the code resets a CLAIMED row, so the property excuses the rows
of a run that was cut off, and `ExclusiveHold` says that only those are left behind. In
`WidgetSession` a submit proceeds (weak fairness of `Proceed`): its transactions are
short, and calls of the ledger end by `EveryCallEnds`. `Drop` is allowed; the property
excuses a submit that was lost. In `WebhookDelivery` the timer polls and time passes; a
run that is not cut off goes on, because statements return and `fetch`, which sets no
timeout of its own, ends by those of the HTTP client. `Abandon` is allowed and not
fair; the property excuses the rows of the run, which nothing claims again. In
`AnchorWorkers` likewise: workers poll, a run that is not cut off goes on. In `SdkClient`
a call goes on because promises settle and timers fire, and a `fetch` without a timeout ends
by those of the HTTP client; nothing is asked of the network, of requests or of those who
draft and publish, but for the second statement of a publish call that has made its first.

**Findings.** (1) A concurrent duplicate request fails with a raw unique violation
(HTTP 500) where `docs/phase-a-api-contracts.md` promises a replay. (2) A webhook
failure after the batch transaction requeues DONE messages, where
`docs/architecture-diagrams.md` has DONE final; the event is batched again, the new
batch holds no proof of it, and `proof.ready` is announced with the wrong root.
The stored proof stays correct (`ProofLinked`, `ProofsFinal`). (3) A poison message
claimed beside a good one stays CLAIMED, where `docs/phase-b-runtime-validation.md`
has it FAILED. (4) A session that expires (when the widget is reloaded) or is
cancelled while a submit runs becomes CONSUMED, where
`docs/phase-c2-widget-session-contracts.md` has terminal states. Guarding that update
is no remedy by itself: the mutants `ConsumeIfStarted` and `ConsumeOrThrow` do, and
break `AnnouncedIsConsumed` and `RecordedIsConsumed`, because the consent is recorded
already. (5) The routes that create ask for an `Idempotency-Key` and do not use it, and the
SDK always sends one and retries on the strength of it: a lost or late answer makes two
sessions, or two endpoints that both receive every event, where `docs/phase-d1c-server-sdk.md` has POST retries require
idempotency safety. What holds all the same is that each row is of a request its caller
knows to be in doubt (`EffectsAccounted`). (6) Of two overlapping publish calls the loser
answers 200 with state DRAFT for a version that is PUBLISHED, where
`docs/phase-c1-policy-artifacts.md` and `docs/phase-c1-validation-checklist.md` have the
answer 200 say PUBLISHED.

One more divergence has no run, because a property about it would restate one action
(`CheckExpired`, with the rollback in it): a submit after the TTL leaves the session ISSUED
or STARTED, where `docs/phase-c2-validation-checklist.md:58-72` expects EXPIRED.

**Observations**, where the code does what no document plainly rules out. The model has each of
them, and the properties say what holds in spite of it.

* Pausing an endpoint dead-letters what is pending for it at the next poll, without a
  call, although `docs/phase-c3-retry-semantics.md` lists only refusals and exhausted
  attempts as terminal (`OutcomeIsDeserved` has it as a reason of its own).
* A batch that was SENT when its worker failed is never anchored (`SubmittedOnce`,
  `EveryBatchEnds`); `docs/HANDBOOK-BLOCKCHAIN-INTEGRATION.md:133` asks for a state that can be
  retried. Retrying as such is no remedy: the mutant `ClaimSent` submits a batch twice.
* A crash between confirming a Fabric anchor and setting its mode leaves it in mode MOCK
  with a Fabric reference (`AnchorIsTrue`).
* `createSession` may answer 400 although the session is there, when COMMIT's answer or the
  webhook fails (`EffectsAccounted` excepts 400 for this).
* The check of the hash in `publish` and its UPDATE are not atomic, which only an UPDATE by
  hand between them could show.
* `retry: { maxAttempts: undefined }` overrides the default and makes the bound of the loop
  always false; `MaxAttempts` is a number here.
* An abort by the caller is retried if its reason is an Error (it counts as a timeout or as
  network), although the caller wanted the call to end. Otherwise the call ends, in an error
  whose type does not say that the request may have been served.
* `proof.ready` of an event that is batched again names a root its stored proof does not lead
  to; `consent.recorded` is lost if the enqueue fails and the client does not retry, and sent
  again under a new id if it does; `proof.anchor_confirmed` goes to one company of the batch.
  The properties on announcements say that what is announced has happened, not that everyone
  is told, or once.
* A second submit that overlaps the first marks the session again, with the same consent but
  new `consumed_at` and `updated_at`; `ConsumedIsFinal` is about the columns that are modelled.
* `expires_at` of an idempotency key is never read: keys do not expire. `recorded_at` is
  hashed from the application's clock and stored from the database's.

Every property is paired in `PROJECT.json` with a mutant: a definition with a
plausible bug (kept in the module beside the definition it stands for, used by
nothing) under which TLC finds the property violated.

## What is proved

`tlapm M.tla` checks all proofs, for arbitrary constants.

**ConsentTimelineProofs** is about the promise alone. `TimelineInvariance`: with one
entry per key, every history is gap-free, fork-free and legal; `TimelineAppendOnly`: it only
grows, by one legal successor at a time (`Growing`). Both assume that `None` is no stored
answer, which those who take the module with INSTANCE prove of theirs.

**ConsentLedgerProofs** assumes only that `None` is not a value (`NoneIsNoValue`).
The properties are not inductive: that a commit extends a timeline by one needs to
know that the row it started from is still current. `CallInv` says, per call,
`KeyHeld` (a call past `InsertKey` has the key locked and still unused),
`RowHeld` (a row that was read is locked and unchanged), `Written` (what is to be
committed is the legal successor of that row) and `Answered` (what is to be
announced is stored). That is enough for `Refinement`: a `CommitWrite` is a `Record`,
every other step a stutter. What the tables say of each other (`TimelinesIntact`,
`EffectivelyOnce`) and that they only grow (`AppendOnly`) is then inherited from
`ConsentTimelineProofs`, and with it `IInv` gives `TypeCorrect`, `LockedRowCurrent`,
`OutboxAtomic`, `RepliesStored`, `AnnouncementsTrue` and `RetriesAgree` (two calls
answered OK have the same entry exactly if they have the same key). `NeverDeadlocked`
says of any set of calls that one of them waits for none of the others, by
`LocksInOrder`: a call takes its key before its row and nothing after its row.
`NeverStalls` goes on from there: of the calls in progress one is `Ready` (the guard of its
next statement holds; in the reload after a conflict because of `ReloadFinds`, the row that
was in the way is committed), and every step is one call's, which has begun or has fewer of
its at most eight statements before it.

**ProofPipelineProofs** assumes that poison names no event and that at least one
attempt is allowed. `IInv` adds `RunOK` (an idle run holds nothing, a rejecting run
holds only poison, a notifying run goes through the leaves of its own batch) and
`AttemptLeft`. The lemma `ShrinkKeeps` carries most steps: holding less
preserves what is known of a run. From it: `ProofsLinked`, `WhatIsSaidIsProved`,
`HoldsExclusive`, `RetriesBounded`, and the action property `PublishedForGood`.
`NeverRetriedForever` gives a measure (`Rank`) to what a message has before it: seven
steps for each attempt left, and those left of the present one (`Stage`: backoff, claim,
fetch, seal, a turn of the loop, the catch block). It is at most `7 * MaxAttempts + 1` and
0 exactly when the message is out of the queue and no run may still write it; no step
increases it, whatever changes a message's row decreases it, and every step of a run, an
error included, decreases some message's. That is so although the catch block puts DONE
rows back to NEW, because only `Claim` gets a row out of NEW and it counts an attempt, and
because a run is at work with claimed rows only (`BusyRuns`). `LostForGood` is the other
side of it: a message that a cut-off run has left CLAIMED stays so, in nobody's hands.

**WidgetSessionProofs** assumes that `None` is not a value and that backend keys are no
session's. `IInv` adds `SessionOK` (row, creation and recorded consent of a session fit),
`CallOK` (what a submit has established by the step it is at) and `Stored`. The lemma
`StepKeeps` says what no step undoes (`Kept`); what is known of a submit survives the
steps of others by it (`OtherCall`). From it: `WidgetTypeCorrect`, `ConsentsMatch`,
`ConsumedNames`, `SubmitsAgreeAlways`, `AnnouncedConsumed`, and the action property
`ConsumedForGood`. `LedgerBehaves` says that sessions and backend together use the ledger as
`ConsentTimeline` allows and in no other way, so that `LedgerStaysIntact` is inherited;
`ConsentsAreOwn` that the consent a session shows is no other session's and none of the
backend's, and `ConsentsStay` that it is never changed or removed, whatever becomes of the
session. `NeverStuck` says of a submit under way that some outcome of its next transaction
always applies, that its own steps, and nobody else's, take it nearer to its end, which is
at most four away, and that once it has recorded a consent it gets there by a session
that is CONSUMED or is lost.

**WebhookDeliveryProofs** assumes that answers are numbers, that `None` is no delivery and
that limits are positive. `IInv` adds `RowInv` (what is true of a row, whoever holds it: a
PENDING row has an attempt left, a CLAIMED row has a holder or was abandoned), `HoldInv`
(what a run knows of a row it holds: its copy is accurate, nobody else holds it, it has
been posted in this attempt exactly if the answer is at hand) and `TurnInv`. Every end of
a turn goes through the lemma `TurnEnds`. From it: `DeliveryTypeCorrect`, `Exclusive`,
`Counted`, `Deserved`, `Fresh`, and by `RowStep` the action properties `SettledForGood`
and `NeverReposted`. `NeverRetriedForever` is as in the proof worker, with five steps to an
attempt (backoff, claim, endpoint, call, answer) and at most `5 * MaxAttempts + 1` in all;
the measure is 0 exactly when the delivery is settled or its run was cut off, and by
`LostForGood` one that was cut off is never posted, delivered or dead-lettered afterwards.

**MerkleTreeProofs** assumes nothing but that hashes are injective, as `MerkleTree` has it.
The induction theorems of the library are out of reach, for their property is an operator;
here a property is the set of the numbers which have it, and `LeastNumber` (from `WFMin`)
and `Induction` are proved for sets. By them the recursive functions are shown to satisfy
their equations, and then: `PathsVerify` (each path that `Build` makes verifies exactly its
own leaf hash, for any number of leaves, even equal ones), `PathsProveMembership` (no path
at all, of whatever length, verifies the leaf hash of an event that is no leaf), `RootBinds`
(two lists of different leaves with one root are one list), `RootIsReference` (the root
computed level by level is that of the tree drawn from above) and `TreesAreCorrect`, the
`TreeCorrect` of the runs for every number of leaves. The invariant of the loop is that each
leaf is below one node of the level and its path so far leads to the hash of that node.

**AnchorWorkersProofs** assumes that the kinds of runs are apart, that batches, transactions
and `None` are different things, and that a batch is a nonempty sequence of events. `IInv`
adds `RunInv` (the status, reference and transaction of the batch a run has, at each step),
`BatchInv` (what is on the chain of a batch by its status) and `RowInv` (an event's rows are
those of its place in a sealed batch). From it: `AnchorTypeCorrect`, `BatchesSubmittedOnce`,
`AnchorsTrue` and, with `TreesAreRight` (the trees of all batches there may be, from
`PathsVerify`), `ProofsConvince`. What an anchored root is worth to somebody who has only the
chain: `ChainProvesMembership` (a path that verifies against it, whoever made it, shows an
event of the batch sealed with it) and `RootTellsBatch` (it is the root of no other batch
without repeated events; with repeats it may be, as the odd node out is paired with itself:
three leaves have the root of the four that repeat the last. The worker's
batches have none, for `fetchProofEventsByIds` returns an event once). `NeverAnchoredForever`
gives a batch at most seven steps before it (`Rank`), one for each status, event and
message still to come: every step is one batch's, lowers its measure and leaves the others
as they are, and at 0 a batch is claimed and held by nobody, that is CONFIRMED or left
behind. `AnchoredForGood` says what never changes: a root, the reference and mode of a
confirmed batch, the proof rows of an event and what is on the chain; and what a cut-off run
has left of a batch stays as it was left (by `LeftAlone`).

**SdkClientProofs** assumes that `Methods` and `MaxAttempts` have their types and that no
content is `None`. `IInv` adds `PolicyInv`, `Pinned` (the version of a session is PUBLISHED
and says what it said: the guard of `createSession` and the trigger are for this), `Told`
(a response or an answer says what is so), `Counted` (the loop goes round only with attempts
left and a request that may be repeated), `SentInv` (a request under way has made nothing,
and is waited for or in doubt) and `RowsInv` (a row is of one request, known or in doubt).
Every end of an attempt goes through `EndsInv`, every response through `ServesInv`. From it:
`ClientTypeCorrect`, `AnswersTrue` (about the calls of the SDK; what publish calls are
answered is finding 6) and `EffectsAccountedFor` (one request, one row; that a call may have
made several is finding 5). `NeverRetriedForever` gives a
call at most two steps to an attempt, and one, before it (`Left`); every step of the client
lowers the measure, nothing raises it, what the caller sees changes with it only, and a
request that was sent and is under way no more is not sent again. The same is said of the
calls that publish a policy.

Only model-checked:

* liveness, because fairness and ENABLED are beyond the prover: `EveryCallEnds`,
  `EveryMessageEnds`, `RecordedIsConsumed`, `Settles`, `EveryBatchEnds`, `EveryCallReturns`.
  What is proved is the safety half of each: `NeverDeadlocked` and `NeverStalls`, the two
  `NeverRetriedForever` of messages and of deliveries, `NeverStuck`, `NeverAnchoredForever`
  and the `NeverRetriedForever` of `SdkClientProofs`. A measure that every step of the actor
  lowers and no step of another raises bounds the work that is left; what is left to fairness
  is that something which can be done is done.
* the six violated properties, whose runs show a behaviour.

## Plan

What was planned is done but for keyset pagination over a growing timeline, which is a
single SELECT per page. Worth adding if the code grows into it: a statement that takes back
CLAIMED rows and SENT batches (then `abandoned` need not be excused), and replay of the
`Idempotency-Key` on the routes that create (then `RetriesAreSafe` holds).

## Not modelled

* Authentication, API keys, provisioning and company bootstrap: a lookup per request, which
  is one of the refusals of `SdkClient`, and one-shot inserts.
* Server wiring, configuration, the hosted page, scripts, the browser SDK and the signature
  check of the webhook utilities: no shared state and no steps that another actor could come
  between.
* Paged reads of timelines, versions and endpoints: a single SELECT that changes nothing.
* HTTP parsing, logging and cryptography: a hash is the value it is computed from.
* Clocks: a time is the event of its passing.
