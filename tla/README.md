# Verification of the tamper-evident audit log

TLA+ models, TLC runs and TLAPS proofs for the gateway of this repository:
operator actions are authorized, logged as events, batched, hashed into signed
blocks of two hash chains, and anchored on Ethereum, through network outages,
tampering and restarts. Paths below are relative to the repository.

## 1. The system

```
 POST /action        GET /batch/create                     every 10 s
 authorization  -->  createBatch (SQLite) --+--> MAIN  <--- merge <--- LOCAL chain
 audit event         Merkle root            |   (RPC up)    (epoch)    of an incident
                                            +--> LOCAL (RPC down)       ^
                                                                        | recover, acknowledge,
                     MAIN --> sync worker --> AccessLog.logRoot         | discard (admin)
                              sync worker --> NetworkIncidentLog.logNetworkFailure/-Recovery
```

| Component | State | Operations | What makes it correct |
|---|---|---|---|
| MAIN chain (`backend/services/merkleChain.service.js`) | collection `MerkleChain`: linked, signed blocks with a status | append, verify, read the tail | every block is signed as stored and follows the one before it |
| LOCAL chains (`backend/services/localChain.service.js`) | collection `LocalChain`: one chain (epoch) per network incident | stage, verify, merge into MAIN, recover with cascade re-chain, acknowledge, discard | no batch is lost or merged twice; what is quarantined or rejected never reaches MAIN; a closed epoch settles |
| Sync worker (`backend/workers/sync.worker.js`) | `workerRunning`, `consecutiveRpcFailures`, the `pending` block | ping, declare outage, resolve incident, merge, anchor the oldest block, return it to the queue | confirmed means anchored; the on-chain history is linked; everything is confirmed in the end |
| Nonce cache, AccessLog client (`backend/blockchain/`) | `currentNonce` | next nonce, send, wait for the receipt | the nonce agrees with the account |
| AccessLog, NetworkIncidentLog (`access-log/src/`) | stored roots, `rootHistory`; state of each incident | `logRoot`; `logNetworkFailure`, `logNetworkRecovery` | a root is stored once; failure before recovery |
| Network incidents (`backend/services/networkIncident*.js`) | collection `NetworkIncident`, in-memory `activeIncident` | declare, resolve with retry protection, close | incidents are logged on chain one after the other, also when a race leaves several OPEN; closed means logged; a staged block has one |
| Batches (`backend/services/batch.service.js`, `merkle.service.js`) | SQLite `events` (PENDING, BATCHED, `batchId`) | select, mark, hash | each event is in one block, no BATCHED event is forgotten |
| Identities, trust (`identity.service.js`, `trust.service.js`, `vc.service.js`) | one `IdentityStore` document: three identity lists, trusted issuers, cached DID documents | register, list, approve, trust an issuer, cache its document, issue a permit | no identity is lost or doubled; a cached key is there when the RPC is not, and is not older than the last refresh |
| Authorization, actions (`authorization.service.js`, `action.service.js`, `audit.controller.js`) | SQLite `events` / `denied_events` | check and perform an action; insert an event as it is posted | every event of an action had an approved machine and a genuine permit of its own, and a trusted issuer; of events posted to `/api/audit/event` nothing is checked |
| Factory registry | contract mapping | register, look up | - |
| Prototype gateway (`src/server.js`) | two JSON files with mirrors in Mongo, `global.buffer`, `global.isSending` | register, approve, issue a permit, collect actions, send a batch | listed identities are active; actions reach the chain once, in order; one sender at a time |

Components interact through the stores: `/create`, the admin's routes and the
worker are asynchronous functions of one process that write the same Mongo
collections without transactions or locks, and interleave at every `await`.
The worker guards only against itself (`workerRunning`).

Hard behaviours, which the properties aim at (`PROJECT.json`, `hazards`, lists
each at its line): the merge and the cascade interleave with requests at their
awaits; a restart between two of their writes; the tail of MAIN and lists of
blocks that are read once and used later; the RPC failing at any call, also
between a transaction and its receipt; a nonce that is cached while other
transactions of the account take theirs from the node; the order of the admin's
decisions.

## 2. The modules

| Module | What it is |
|---|---|
| `ChainBlocks` | roots, Merkle roots, signatures, blocks, the two checks of `verifyChain` |
| `AuditLedger` | abstract specification: the fate of each batch and the ledger it ends in |
| `LocalChain` | epochs, their merge into MAIN, the admin's decisions; implements `AuditLedger` |
| `MCLocalChain` | instances of `LocalChain` for TLC |
| `AnchorLog` | abstract specification: a block waits, is logged on chain once, and then confirmed; an outage is logged before it is closed |
| `SyncWorker` | the cycle of the worker, the nonce, the account's transactions, both contracts; implements `AnchorLog` |
| `BatchCreation`, `MCBatchCreation` | audit events to blocks: the SQLite rows, `/create` at its awaits, `createNetworkIncident` shared with the worker |
| `IdentityLifecycle` | abstract specification: a DID is registered, approved, active |
| `AccessControl`, `MCAccessControl` | the identity document, trust, cached documents, authorization of an action; implements `IdentityLifecycle` |
| `Gateway`, `MCGateway` | the prototype: two files, their mirrors, the action buffer and its sender |
| `Lists` | what `findIndex` and `splice` do to the lists of identities |
| `OrderLemmas` | least and greatest elements of sets of numbers; sequences that are cut, joined and searched |
| `LocalChainProofs`, `LocalChainSafety` | type correctness and safety of `LocalChain`, proved |
| `SyncWorkerProofs`, `SyncWorkerSafety` | type correctness and safety of `SyncWorker`, proved |
| `BatchCreationProofs`, `AccessControlProofs`, `GatewayProofs` | the same of those three modules |

Definitions whose comment begins "Mutant of" are plausible bugs: putting one in
the place of the definition it names makes the run it belongs to fail
(`PROJECT.json`, `mutants`). No specification uses them.

### ChainBlocks

A root is what it commits to: the sequence of Merkle roots hashed into it since
genesis. That is SHA-256 without collisions. A signature is the payload
`batchId|previousRoot|currentRoot|eventCount` it was made over, so it verifies
exactly when the stored fields are the signed ones; note that the payload does
not contain the Merkle root. The Merkle root of a batch is a pair of the batch
and the state of its rows: the rows are hashed with their own `status` and
`batchId` columns, so rows read before and after `createBatch` updates them give
different roots. `/create` hashes the first, a recover hashes the second.

### LocalChain

One action is one step between two awaits, of the worker's merge and of each
request. `request[r]` is the handler `r`: where it waits, and what it has read and
will write by, whatever happens meanwhile.

| Actions | Code |
|---|---|
| `CreateFind`, `CreateDeclare`, `CreateTail`, `CreateStage` | `/create` with the RPC down: look for the OPEN incident, insert one, read the last local block, insert the block |
| `AppendTail`, `AppendBlock` | `/create` with the RPC up: read the tail of MAIN, insert |
| `OutageFind`, `OutageDeclare`, `ResolveIncident`, `ListIncidents` | the cycle around the merge, `getIncidentsWithPendingLocalBlocks` |
| `MergeSkip` | the guard on unresolved TAMPERED blocks |
| `MergeRefuse`, `MergeVerify` | `verifyLocalChain` and its two outcomes |
| `MergeFlag`, `MergeFlagged` | the loop over `errors`: one `updateOne` to TAMPERED for each, in their order; then the incident is marked TAMPERED |
| `MergeRead` | the second query and the read of the tail of MAIN |
| `MergeAppend`, `MergeDuplicate` | one turn of the loop, and the E11000 of the unique `batchId` |
| `MergeRecord`, `MergeDrop` | root kept on the incident, then `deleteMany` |
| `RecoverFind`, `RecoverRead`, `RecoverWrite`, `RecoverList`, `CascadeRechain` | recover: the check (step 1), the reads (2 to 4), the write by `_id` (5 to 7), the list of subsequent blocks, one step per block of it |
| `Acknowledge`, `Discard`, `DecideWrite` | the other two decisions: the check, then the write by `_id` |
| `Alter`, `LoseRows`, `NetworkChange`, `Crash` | the environment: a stored `eventCount` is changed behind the program (as `backend/test-e2e.mjs` does), events are lost from SQLite, the RPC changes, the process restarts |

`Overlap` chooses whether handlers start while another one is between two
awaits. With `Overlap = FALSE` the worker and the requests run one after the
other, which separates what the logic guarantees from what only a lock would.
`LateAlteration` lets a block be altered also while another block of its epoch
waits for the admin.

A request writes by what it has checked an await or more before. The history `late`
keeps the block and the epoch of each write whose check held no more when it was made:
a block that `/create` inserts for an incident that was closed since it was found OPEN,
a verdict or a recover of a block that is TAMPERED no more. `Contested` are the blocks
written so. They are what the code protects by nothing, and `NoBatchLost`,
`QuarantineHolds`, `MergedEpochFrozen` and `ImplementsLedger` name them as their only
exception: section 5 says what becomes of them.

Abstractions: batches are numbered in the order their blocks are inserted, which
stands for `createdAt`; a Mongo write does not fail; the only field altered is
`eventCount`, which every field under the signature is represented by; a block staged
under no incident, which the memory `activeIncident` leads to, is the subject of
`BatchCreation`. Some pairs of adjacent reads are one step, because nothing that comes
between them gives an outcome of its own:

- the ping and the read after it: the RPC may change just before and just after;
- the look for an OPEN incident and the second look inside `createNetworkIncident`: an
  incident that is inserted in between is found by the joint look;
- the two `distinct` of `getIncidentsWithPendingLocalBlocks`, and `findOne` and the save
  of a resolution: only the worker closes incidents;
- the count of TAMPERED blocks and the find of `verifyLocalChain`: only the worker flags;
- rows and previous block of a recover: a loss of rows in between comes just after;
- blocks and tail of MAIN in `MergeRead`: an append in between touches no LOCAL block,
  so it comes just before.

### SyncWorker

One action is one step of the cycle between two awaits. Blocks are numbers
linked to their predecessor, `status` is their status on MAIN. Transactions of
the one account wait in `mempool` and are mined in nonce order (`Mine`), where
the requires of the contracts decide whether they succeed. Every RPC call fails
while the RPC is down. `currentNonce` is asked for once and then counted up, also
when the send fails; the two transactions of an incident take `PendingNonce` from
the node instead.

| Actions | Code |
|---|---|
| `PingFails`, `WorkerDeclares`, `PingSucceeds` | step 1, the failure threshold, the insert of an incident after the look, `markBatchForRetry` |
| `IncidentSend`, `IncidentReceipt`, `IncidentLogged`, `IncidentClose`, `IncidentFails` | `resolveNetworkIncident` with its retry protection: read the contract, send what is missing, wait, close |
| `MergeAll` | step 2b; its result is only logged |
| `Pick`, `GetNextNonce`, `Send`, `WaitReceipt`, `SaveConfirmed`, `SendFails` | step 3 and `sendMerkleRoot` |
| `CreateBlock` | a block reaches MAIN |
| `RouteLooks`, `RouteDeclares` | `/create` finds no OPEN incident, and inserts one |
| `NetworkChange`, `Mine`, `Crash` | the environment |

`openIncidents` is a set: worker and routes that looked before the first insert each
insert their own. `findOne` without a sort takes the one that was inserted first, and
`resolveNetworkIncident` closes that one only.

The contract does not compare `previousRoot` with the last stored root, so that
the linked history is the worker's doing, and a property of the model.

### BatchCreation

`LocalChain` takes the rows of a batch for granted and begins with the ping; this
module has the rows, the memory of the open incident and the times that identifiers
are made of, and no merge. One action is one database call with what the process computes until the
next one, for each `/create` request and for the worker's cycle, so both
interleave at every `await`. Events are the rows of SQLite by `id`; a batch is
the set of rows it selected; `clock` is `Date.now()`, from which `batchId` and
`incidentId` are made, so that two of them may be equal and the unique indexes
then refuse the second.

| Actions | Code |
|---|---|
| `CreateAuditEvent` | `createAuditEvent` |
| `SelectPending`, `MarkBatched` | the SELECT and the UPDATE of `createBatch` |
| `PingDecides` | `isNetworkUp` |
| `FindOpen` | the caller's own look for an OPEN incident, in the route and in the worker |
| `CheckActive`, `FindExisting`, `InsertIncident`, `Remember` | `createNetworkIncident`: memory, database, insert, memory |
| `ReadLocalTail`, `CreateLocalBlock`, `ReadMainTail`, `CreateMainBlock` | `createLocalChainedRoot`, `createChainedRoot` |
| `WorkerOutage`, `WorkerRecovers`, `AnchorFails`, `SaveClosed`, `ClearActive` | the cycle around `createNetworkIncident` and `resolveNetworkIncident`, with the await between the save of CLOSED and the reset of the memory |
| `NetworkChange`, `Tick`, `Crash` | the environment |

`schedule` chooses what overlaps: everything (`concurrent`), requests one at a
time beside the worker (`serial`), or one request or cycle at a time (`alone`).
Each property names the weakest of them under which the code keeps it; under
the weaker ones the hazards of section 5 appear. `failed` is the history of
events whose request was answered 500 or cut by a restart.

### AccessControl

All identity and trust routes read and write the one `IdentityStore` document.
One action is one call of Mongo, SQLite or the RPC. Two facts of Mongoose are
modelled and marked as such: the `save()` of a `push` sends `$push` whatever
`__v` is, the `save()` of a spliced array replaces it where `__v` is what was
read, and fails with a VersionError otherwise; that failure is what keeps
overlapping approvals from losing identities. Of an entry of a list only its DID
is kept, of a DID document its key, of `trustedIssuers` the set of DIDs
(`$addToSet` never finds a duplicate, because `addedAt` differs).

| Actions | Code |
|---|---|
| `CreateDid`, `FindStore`, `CreateStore`, `PushPending` | `registerIdentity` |
| `List` | `getAllIdentities`, which creates the document as well |
| `FindPending`, `SaveApproval` | `approveIdentity` |
| `AddTrustedIssuer`, `CacheRootKey`, `ResolveDocument`, `PullDocument`, `PushDocument`, `PushDocumentFails` | `addTrustedIssuer`, `cacheDidDocument` |
| `BeginAttempt`, `ResolveOperator`, `CheckMachine` | steps 1 and 2 of `performAction` |
| `VerifyCredential`, `VerifyCredentialOffline`, `CheckAuthorization` | `checkAuthorization` |
| `Grant`, `Deny` | the audit event, the denied event |
| `CreateEvent` | `POST /api/audit/event`: `createAuditEvent` with a row as it was posted |
| `RpcChange`, `RotateKey`, `Crash` | the environment |

`Grant` and `CreateEvent` insert rows that look alike. The history `sources` keeps for
each row the attempt it was recorded for, or `Posted`, so that `EventsPermitted` can ask
for the attempt's own permit: a forged one does not pass because a genuine one with the
same claims exists, nor does a posted row count for an action.

The permits that can be presented are a constant (`Attempts`): genuine and
forged, of an older and a newer key, for the right and the wrong holder,
machine and action, and one without `allowedActions`. An operator that is only
pending is found on chain when the RPC is up, as the code does. `overlap`
chooses whether two refreshes of cached documents run at once.

`IdentityLifecycle` is what the routes promise of one DID; `AccessControl`
implements it with `StatusOf`, read off the lists.

### Gateway

Registration reads, extends and writes `identity-store.json` without an await;
an approval awaits the mirror of `did-state.json` between its read and its
write, which is `ApproveNew` and `SaveApproval`. A file write is taken to be
atomic with respect to a restart; a write to a mirror may fail, which the code
only logs. `/api/blockchain` is `StartSending`, `Accepted`, `Confirmed` or
`SendFails`; the actions are numbered in the order of their answers, so that
the order on the chain can be compared with it. `inactiveDids` is never written
by the program, and the routes that only read have no action.

### The abstract ledger

`AuditLedger` knows only batches: each is new, staged in an epoch, quarantined,
rejected or on the ledger, and the ledger is a sequence. A staged batch is
published only when nothing of its epoch is quarantined and after the earlier
batches of its epoch. `LocalChain` instantiates it with `FateOf` (MAIN first, so
a block on both chains counts as published) and the batch numbers of MAIN;
`ImplementsLedger` says that each of its steps is a step of the ledger or
changes nothing the ledger sees. A rejected batch can be quarantined again: a
block that fails both checks is written twice, and the second write comes after
an admin's decision if that is taken between the two.

A batch leaves these promises in one way only: a batch that is not on the ledger
becomes contested when a request writes its block by a check that held no more
(`Contest`), and all that is promised of it then is that it is published at most once
and stays.

### The abstract log of anchors

`AnchorLog` knows of each block whether it is created, waiting or confirmed, the
blocks whose roots the chain has, in order, and how far each outage has come. A
root is logged once, a block is confirmed after its root is logged and stays so.
Several outages may be declared and not closed, since worker and routes insert side by
side, but they are logged one after the other: the failure of an outage once every
earlier one is closed, then its recovery, then it is closed. `SyncWorker`
implements it (`ImplementsAnchorLog`) with any RPC and any restarts: mempool,
nonces, receipts, failed sends and the worker's locals are what it leaves out.

## 3. The runs

| Run | Instance | What it shows |
|---|---|---|
| `local_merge` | 2 incidents, 3 batches, 1 restart, no overlap | `MainChainVerifies`, `NoBatchLost`, `EpochRecordMatchesMain`, `VerdictKeptUntilMerge` |
| `local_overlap` | 1 incident, 2 batches, the worker and 2 handlers interleaved at every await, no restart | `QuarantineHolds`, `OneHome`, `MainIsRooted`, `MergedEpochFrozen`, `EpochSettles`, and the refinement of the ledger |
| `local_cascade` | 1 epoch of 4 batches, no overlap, no restart | `RecoveryRestoresChain`: recovers in any order repair the epoch; `MainHoldsRecordedCounts` |
| `sync_anchoring` | 2 blocks, 2 incidents, also OPEN side by side, 1 restart, RPC failing anywhere | `HistoryIsLinked`, `NoRootDuringIncident`, and the refinement of the log of anchors |
| `sync_progress` | 3 blocks, 2 incidents, RPC stable within a cycle | `QueueIsUnsent`, `NonceGapFree`, `BlocksConfirmed`, `IncidentsResolved` |
| `batch_creation` | 2 requests and the worker, 3 events, 3 times, 1 restart, the three schedules | `NothingStranded` in any interleaving; `EventInOneBlock`, `RecoveryRowsExact`, `EpochsLinear` for requests one at a time; `StagedUnderIncident`, `OneIncidentOpen` for requests and cycles one at a time |
| `access_control` | 2 handlers, 1 operator, 1 machine, issuers and permits of `MCAccessControl`, 1 posted event, 1 rotation, 1 restart | `IdentityHeldOnce`, `CachedUnlessGap`, `RefreshTakesEffect`, `TrustedWhenRestricted`, `EventsPermitted`, and the refinement of `IdentityLifecycle` |
| `gateway` | 2 handlers, actions in batches, 1 restart | `IdentityKept`, `ListedAreActive`, `SendFlagOwned`, `ActionsSentInOrder` |
| `local_late_alteration` | violation | an altered block is re-signed by a cascade and merged |
| `local_overlap_fork` | violation | a `/create` during a merge forks MAIN |
| `local_crash_wedge` | violation | a restart during a merge leaves an epoch that no cycle can settle |
| `sync_lost_receipt` | violation | a missed receipt leaves a block WAITING_RETRY for ever |

Bounds of `LocalChain` and `SyncWorker`. Three batches give a block before, in and after the one that is altered,
and an epoch of two with a batch already on MAIN. The runs without overlap have one
handler, since a second one could not start. `local_overlap` has two handlers and the
worker, which is every pair of handlers that can meet over one block, and two batches:
one staged before and one during a merge, or a block and the one its cascade
re-chains. `TwoHandlers` keeps one handler to `/create` and recover and the other to
`/create` and decisions, so that two recovers or two decisions do not meet in the run;
the theorems of section 4 cover those as well. Two incidents give an epoch
that is skipped or refused while another merges in the same cycle. Four batches
are the fewest in which a cascade stops at a TAMPERED block and leaves a block
behind it (`FullEpoch` keeps that run to epochs that hold every batch). In
`sync_progress` three blocks on the chain give a first, a middle and a last root; two in
`sync_anchoring` are the fewest with an order, and leave room for two incidents that
the worker and a route declare side by side. `MaxMempool = 2`
allows a resent root next to the first one. `MaxNonce` is where the cached nonce
stops counting; it is above every nonce that the instance can use for a
transaction that is mined. `LoseRows` happens to
one batch at most, in `local_cascade`; `RowsKept` keeps the other
two to an event store that loses nothing, which only takes the choice of recover
away, and `OneOutage` keeps `local_overlap` to an RPC that stays up once its one
incident is closed: `EpochSettles` is about such behaviours only, and a `/create` that
was on its way since the outage still arrives after the close or the merge. Deadlock is not checked: with every
batch created and settled the model has nothing left to do.

Bounds of the other three. A `CONSTRAINT` named `Smaller` keeps each run to the
states in which something new can happen; each of its parts is reached from the
initial state without passing the others.

- `batch_creation`: two requests are the fewest that overlap, and `Limit = 2`
  with three events makes both a full and a partial batch. Three times allow two
  identifiers made at one time beside a later one. The schedule `concurrent`
  makes most of the states, and is kept to two events, two times and no restart;
  `alone` and `serial` have the whole instance. The two requests are symmetric.
- `access_control`: identities, and trust with the attempts, share nothing but the
  document they are in and its version. `Identities` explores every DID with trust
  untouched; `Permissions` has one machine, and attempts only where neither
  refreshes overlap nor the process restarts, which the properties of an attempt
  do not depend on. One attempt at a time, chosen from seven permits, may meet
  approvals, refreshes and one rotation of the platform root's key between any
  two of its steps. In that part the operator is found on chain. One row that no permit
  names is posted, just before or after an attempt records its own (`NonePosted`
  elsewhere).
- `gateway`: identities and the buffer share only the process, so each is explored
  while the other is untouched; overlapping identity requests are about at most two
  DIDs. `BatchSize = 2` and six actions allow a batch on the chain, one in flight and
  a full buffer that waits behind it.

Fairness. `FairSpec` of `LocalChain` is weak fairness of the worker's next step
and of the next step of each request that is under way: `setInterval` fires for as long
as the process runs, and an awaited Mongo call completes. `FairSpec` of `SyncWorker` is
weak fairness of the cycle and of mining. The network, the arrival of requests, the
admin and the restarts owe nothing; liveness is stated under `<>[]networkUp` and `<>[]rpcUp`.

`BlocksConfirmed` is checked with an RPC that does not change within a cycle and
without restarts. Otherwise it is false in the ways section 5 describes: a lost
receipt, a nonce gap, a block left PROCESSING.

## 4. The proofs

For every number of incidents, batches, blocks, requests, events, identities,
permits, restarts and pending transactions, every batch size and failure threshold:

| Theorem | Property | Assumes |
|---|---|---|
| `LocalChainProofs!TypeCorrect` | `TypeOK` | |
| `LocalChainSafety!MainAlwaysVerifies` | `MainChainVerifies` | `Overlap = FALSE` |
| `LocalChainSafety!BatchesKept` | `NoBatchLost` | |
| `LocalChainSafety!MainStaysRooted` | `MainIsRooted` | |
| `LocalChainSafety!QuarantineAlwaysHolds` | `QuarantineHolds` and `OneHome` | `NoRestartInMerge` |
| `LocalChainSafety!EveryBatchHasOneHome` | `OneHome` | `NoRestartInMerge` |
| `LocalChainSafety!MergeIsNeverRefused` | `MergeNeverRefused` (in no run) | `NoRestartInMerge` |
| `LocalChainSafety!LedgerImplemented` | `ImplementsLedger` (refinement of `AuditLedger`) | |
| `LocalChainSafety!MergedEpochsStayFrozen` | `MergedEpochFrozen` | `NoRestartInMerge` |
| `LocalChainSafety!VerdictsKept` | `VerdictKeptUntilMerge` | `Overlap = FALSE` |
| `LocalChainSafety!MainAlwaysHoldsRecordedCounts` | `MainHoldsRecordedCounts` | `Overlap = FALSE`, `LateAlteration = FALSE`, `NoRestartInFlagging` |
| `LocalChainSafety!RecordsAlwaysMatchMain` | `EpochRecordMatchesMain` | `Overlap = FALSE` |
| `LocalChainSafety!RecoveryAlwaysRestores` | `RecoveryRestoresChain` | `Overlap = FALSE`, `NoRestartInCascade` |
| `SyncWorkerProofs!TypeCorrect` | `TypeOK` | |
| `SyncWorkerSafety!AnchorLogImplemented` | `ImplementsAnchorLog` (refinement of `AnchorLog`) | |
| `SyncWorkerSafety!ConfirmedAlwaysAnchored` | `ConfirmedIsAnchored` (in no run) | |
| `SyncWorkerSafety!NeverAnchoredTwice` | `AnchoredOnce` (in no run) | |
| `SyncWorkerSafety!ClosedIncidentAlwaysLogged` | `ClosedIncidentIsLogged` (in no run) | |
| `SyncWorkerSafety!OutageBeforeRoots` | `NoRootDuringIncident` | |
| `SyncWorkerSafety!HistoryAlwaysLinked` | `HistoryIsLinked` | |
| `SyncWorkerSafety!ProcessingAlwaysOwned` | `ProcessingIsOwned` (in no run) | |
| `SyncWorkerSafety!QueueAlwaysUnsent` | `QueueIsUnsent` | an RPC stable within a cycle |
| `SyncWorkerSafety!NonceNeverAhead` | `NonceGapFree` | an RPC stable within a cycle |
| `BatchCreationProofs!BatchTyped` | `TypeOK` | |
| `BatchCreationProofs!NothingEverStranded` | `NothingStranded` | |
| `BatchCreationProofs!AlwaysStagedUnderIncident` | `StagedUnderIncident` | |
| `BatchCreationProofs!AlwaysOneIncidentOpen` | `OneIncidentOpen` | |
| `BatchCreationProofs!EventAlwaysInOneBlock` | `EventInOneBlock` | |
| `BatchCreationProofs!RecoveryRowsAlwaysExact` | `RecoveryRowsExact` | |
| `BatchCreationProofs!EpochsAlwaysLinear` | `EpochsLinear` | |
| `AccessControlProofs!AccessTyped` | `TypeOK` | |
| `AccessControlProofs!IdentityAlwaysHeldOnce` | `IdentityHeldOnce` | |
| `AccessControlProofs!LifecycleImplemented` | `ImplementsLifecycle` (refinement) | |
| `AccessControlProofs!AlwaysCachedUnlessGap` | `CachedUnlessGap` | |
| `AccessControlProofs!EventsAlwaysPermitted` | `EventsPermitted` | |
| `AccessControlProofs!AlwaysTrustedWhenRestricted` | `TrustedWhenRestricted` | |
| `AccessControlProofs!RefreshAlwaysTakesEffect` | `RefreshTakesEffect` | |
| `GatewayProofs!GatewayTyped` | `TypeOK` | |
| `GatewayProofs!ListedAlwaysActive` | `ListedAreActive` | |
| `GatewayProofs!SendFlagAlwaysOwned` | `SendFlagOwned` | |
| `GatewayProofs!ActionsAlwaysInOrder` | `ActionsSentInOrder` | |
| `GatewayProofs!IdentityAlwaysKept` | `IdentityKept` | |

The theorems of `LocalChain` without `Overlap = FALSE` are about any number of handlers
interleaved at each of their awaits. Four of the properties name an exception in their
own text, the blocks (`Contested`) and epochs that a request wrote by a check that held no
more: `NoBatchLost`, `QuarantineHolds`, `MergedEpochFrozen` and `ImplementsLedger`. Without
the exception each is false of the code (section 5); with it, the theorems say that
those writes are the only way to break it. `OneHome`, `MainIsRooted` and
`MergeNeverRefused` need no exception.

The named assumptions on the constants (`ASSUME` in the module that declares
them: bounds are naturals, switches are Booleans or schedules, the worker is not a
request, operators and machines have different DIDs) are the only others. They do
not use the constraints of the runs. The properties of `BatchCreation` but
`NothingStranded`, `RefreshTakesEffect` and `IdentityKept` name in their own text the
schedule under which they hold. The hypotheses in the table are
needed, as the following list shows.

The hypotheses on restarts are action properties of the behaviour, for any
`MaxCrashes`: `NoRestartInMerge` says that no restart comes between the first
append of a merge and its drop, `NoRestartInCascade` none between a recover and
the last write of its cascade, `NoRestartInFlagging` none between two flags of
an epoch. At any other point the process may be restarted, as often as one likes.

- Overlap: `local_overlap_fork` violates `MainChainVerifies`; a block altered between
  its verification and the second read is signed on MAIN as it was altered; a batch
  that `/create` adds to MAIN between two appends of a merge stands between the blocks
  of the record; two `/create` fork a LOCAL chain and two recovers rebuild onto the
  same block, which no later recover is asked to repair (`RecoveryRestoresChain`).
- Late alteration: `local_late_alteration` violates `MainHoldsRecordedCounts`.
- Restarts: after a restart during a merge a block that is already on MAIN can be
  altered, flagged and rejected, and its epoch recorded a second time; a restart during
  a cascade leaves blocks that follow a root that is gone; after a restart between two
  flags an altered block is still active, and the recover of an earlier one
  signs it again as it is. Between two flags a recover that overlaps does the
  same, and the second flag of a block overwrites a verdict that was given on it after
  the first: that is why `VerdictsKept` needs `Overlap = FALSE`.

Without overlap a handler runs from its first to its last step alone. `Solo` says so: at
most one request is under way, the worker is idle then, and what the request has read is
still so when it writes (`ReadsHold`), so that `late` stays empty. Under `Solo` every
step is one of `SerialNext` (`SerialStep`), in which a whole handler is one step taken
where it writes, but for the turns of a cascade. The invariants of the theorems that assume
`Overlap = FALSE` contain `Solo`, and their proofs are about the steps of `SerialNext`.

The inductive invariants of `LocalChain` and `SyncWorker`:

- `SerialInv` (MAIN verifies): `TypeOK` and `Solo`, and while the worker appends, its
  `mainTail` is the tail of MAIN. Every append chains onto that tail and signs
  what it stores (`AppendVerifies`).
- `KeepInv` (no batch lost): the incident that a handler is about to declare is new and
  no other one is about to declare it (`Reserved`); every block carries its own number;
  a batch without a block is on MAIN, rejected or contested; an ACKNOWLEDGED or DISCARDED
  block is in the history `rejected`; and while the worker holds an epoch, that epoch is
  closed and has no TAMPERED block, and each active block of it is on MAIN, in the
  worker's list or contested. The last part is what makes `deleteMany` safe for all but
  those: at that point the list is empty.
- `RootedInv` (MAIN is rooted): while the worker appends, the tail it read is the
  genesis root or the root of some block of MAIN, and so is the tail a `/create` goes on
  from (`ReadIsRooted`). A race moves a tail away from the end of MAIN and never off it.
- `HomesInv` (quarantine, one home): adds that a batch on both chains is a
  block of the epoch being merged, that rejected blocks are not on MAIN and are not made
  active, and that the worker's list names blocks of its epoch that are not on MAIN;
  uncontested ones are active. No block of that epoch is TAMPERED, because a flag
  needs a verification.
- `FateInv` (the ledger): adds to `KeepInv` that a batch that is somewhere, or was
  written late, has been created, that a rejected block keeps its verdict until it is
  dropped, and that what the worker has left to append are active blocks of its epoch,
  all but the contested ones. Under it each step maps
  to a step of `AuditLedger` or to a stutter (`LedgerStep`), with no hypothesis. A
  flag is a step of its own (`LedgerFlag`): on a staged block it quarantines, on one
  already on MAIN it changes nothing the ledger sees, and a rejected one it quarantines
  again. A late write is a `Contest` of its block, unless that is on MAIN already.
- `SettledInv` (merged epochs stay): adds that a merged epoch has no block left, except
  that the worker may be about to drop it, and that an epoch being flagged is not
  merged (`FlagsUnmerged`), each unless a request wrote late in that epoch
  (`Disturbed`). Nothing is then listed to merge in a merged epoch, and a new
  outage takes an incident that was never open.
- `DecidedInv` (verdicts): adds to `FateInv` that the cascade holds active blocks only,
  that what is about to be dropped is recorded as merged, that every block the worker
  has still to flag is active or TAMPERED (`FlagsStand`), and that no flag lies over a
  verdict (`VerdictsHold`). Without overlap the admin decides before the first or after the
  last flag, and the list of errors names no block with a verdict.
- `CountsInv` (event counts): a signature names the recorded count, so whatever
  verifies has it; an epoch with a TAMPERED block cannot be altered, so what a cascade
  signs again has it too. While an epoch is flagged, an active block has its count or
  is still to be flagged, which is what a restart at that point breaks.
- `RecordedInv` (records): between verification and record, the blocks appended so far
  and those left chain from the genesis root to the final root of the epoch
  (`LeadsOn`), and the appended ones stand at the end of MAIN. The fact that ties the
  two chains is that the merkle root of a block is kept when its other roots change.
- `RepairInv` (recovery): an active block follows the active block before it unless a
  TAMPERED one stands between them or the cascade has it on its list; that list is a stretch of
  the epoch that ends where a TAMPERED block cuts it, and the running root is the root
  before it. A flag makes a cut (`LinksFlag`), and recovering a block moves the cut to
  the next one, which is why the order of the recovers does not matter
  (`LinksRecover`, `LinksRechain`).
- `WellFormed` (types of the worker): adds that the worker's locals are set where
  they are used and that every transaction names an existing block or incident.
- `AnchorInv`: adds that a root with a successful receipt is stored, and that the
  block about to be saved as CONFIRMED is stored.
- `IncidentInv`: adds that the incident being resolved is the oldest OPEN one, and that
  the worker closes it only after the contract said CLOSED, which the contract never
  takes back.
- `OutageInv`: adds that only declared incidents are on the chain or on their way
  there, and none while an earlier one is OPEN, which is what keeps incidents that were
  declared side by side in order; and that in the part of a cycle after the incident no
  transaction of a failure is pending that could still succeed.
- `AnchorLogInv` (refinement): `AnchorInv`, `IncidentInv`, `OutageInv`, and
  `BlocksSent`: a root that is pending is of a block that exists, and the block in
  hand is not confirmed.
- `SendInv` with `UnsentInv` (nothing in the queue was sent): the account's nonces are used
  once, in order (`AccountInv`); while the RPC does not change within a cycle, a worker
  that is not idle has it up, so that no receipt is missed, and the only transaction of
  the block in hand is the one it waits for.
- `NonceInv` (no gap): every nonce below a pending one is used or pending (`Reached`),
  and below the cached one too, except while a transaction with the last of them is
  about to be sent.
- `Linked`: blocks are created in order, and until the first restart the n-th
  stored root is that of block n, and a block is picked or pending only when all
  smaller ones are stored.

The inductive invariants of `BatchCreation`:

- `Typed`: adds what a process holds at each step, such as that a request beyond
  `mark` has an identifier, and that its rows exist.
- For `NothingStranded`, the invariant is the property itself: the row's request
  carries it until its block is created or it fails.
- `Alone`: at most one process is under way, at most one incident is OPEN, the memory
  holds an OPEN incident except between the two writes of a close, and whoever is
  between the check of `createNetworkIncident` and its insert knows that none is
  OPEN. Each of these steps uses that nobody else moves, so it is an invariant of
  that schedule only; `concurrent` and `serial` break it, as section 5 tells.
- `Serial`: for the schedules in which requests are one at a time. Identifiers are
  times that have passed; a request between its SELECT and its UPDATE holds PENDING
  rows, and no row carries the present time; after the UPDATE its rows are those with
  its identifier, which neither chain has; so every block is made of exactly the
  rows with its identifier, and identifiers are unique over both chains. The last block
  it read is still the last of its LOCAL chain when it inserts, because only requests
  insert.

Of `AccessControl`:

- `Typed` adds the types of what each handler has read.
- `Held`: no DID is in two places of the document, a handler that will push was the
  one to create the DID, and a copy read at the current version is the current
  lists. The conflict on `__v` is what the last part needs, and without the
  modelled VersionError the invariant fails at `SaveApproval`.
- `FreshCache`, `KeysFresh`: the cached key is not older than the last refresh that
  ended, nor the key in the hand of a refresh under way, while refreshes do not
  overlap.
- `Earns`: an attempt has shown at each step what the steps before it checked. Lists of
  machines and trusted issuers only grow, so that what was shown stays true. An insert
  of an attempt's row has what `EventsPermitted` asks (`Allowed`), and one of a posted row
  leaves the other rows and their sources alone (`AuditEventPermitted`).

Of `Gateway`:

- `Flagged`: a handler that sends owns `isSending`, and the others hold no batch.
- `Secured`: the state file is the memory, and the document, the copies of it that
  requests hold and the permits name active DIDs only, so it does not matter which
  copy is written last.
- `Kept`: at most one identity request is under way, so what it has computed are the lists of the
  file with its own change; a DID being registered is in no list, one being approved is
  still pending, and a mirroring under way holds what the file has.
- `Ordered`: what is on the chain, in flight and in the buffer, in that order, grows, and
  is exactly what was accepted and not lost.

Every safety property and every refinement of the passing runs is proved. Only
model-checked are the liveness properties `EpochSettles`, `BlocksConfirmed` and
`IncidentsResolved`: liveness under fairness is out of the prover's reach.

## 5. Where code and documents disagree

Shown by a violation run (`PROJECT.json`, `findings`):

1. The cascade re-signs blocks without verifying them (`local_late_alteration`).
2. The tail of MAIN is read once before the merge loop (`local_overlap_fork`).
3. A merge that is interrupted cannot be resumed (`local_crash_wedge`).
4. A root whose receipt was missed can never be confirmed (`sync_lost_receipt`).

Noticed in the source; the models follow the code. The first two are what the properties of
`LocalChain` except by `Contested`:

- A `/create` that found the incident OPEN inserts its block whatever has become of the
  incident (`batch.routes.js:120`, `localChain.service.js:85`), so that "block staged on
  local chain, will be verified and merged on recovery" (`batch.routes.js:153-155`) is not
  always so. A block that arrives between the second read of the merge and
  `deleteMany` (`localChain.service.js:324`, `:407`) is deleted, on no chain; one that
  arrives after the merge is merged, or refused, over the record of its epoch.
- The decisions check TAMPERED, await, and write by `_id` with no condition on the status
  (`localChain.service.js:691`, `:821`, `:864`). A verdict that was checked before a
  recover and the read of a merge is written on a block on its way to MAIN, although "it
  is never anchored" (`localChain.service.js:798`); a recover that was checked before a
  verdict takes the verdict back; one whose block is written after the second read of the
  merge is deleted unpublished.
- `POST /api/audit/event` inserts any operator, machine and action into `events`
  (`audit.controller.js:8`), where they are batched and chained like the rows of an
  authorized action, and look the same.
- `deleteMany` at the end of a merge also drops ACKNOWLEDGED and DISCARDED blocks
  (`localChain.service.js:407`), a "permanent forensic record" in
  `API_Reference.md:327` and `:356`.
- A discarded or acknowledged block does break the chain of the block behind it:
  `verifyLocalChain` skips it and compares with the last active block
  (`localChain.service.js:119`, `API_Reference.md:347`). The innocent block is
  flagged and needs a recover of its own.
- `merkleRootMatch` of inspect is false for untouched events, because the rows
  have changed status since `/create` hashed them (`localChain.service.js:508`,
  `API_Reference.md:276`).
- Tampered blocks are flagged one write at a time (`localChain.service.js:295`). After a
  restart or a recover between two of them an altered block is still active, and the
  cascade signs it again as it is. A block that fails both checks is written twice, and
  the second write makes a block TAMPERED on which the admin has decided in between.
- A tampered epoch does not halt anchoring (`sync.worker.js:304`,
  `API_Reference.md:421`).
- A send that fails after `getNextNonce` leaves a gap that `resetNonce` would
  close, but nothing calls it (`nonce.service.js:29`); until the next restart the
  account's later roots wait behind it.
- A restart while a block is PROCESSING leaves it so: no query takes it up
  (`sync.worker.js:322`).
- Requests that overlap select the same PENDING rows: "Lock these events into this
  batch" (`batch.service.js:39`) happens an await after the SELECT. Both then
  hash the events into a block of their own, and only the second `batchId` stays
  on the rows. Two requests in one millisecond make the same `batchId`; the
  second block is refused (E11000) and its events stay BATCHED without a block.
- A cycle of the worker beside a request is enough for `createNetworkIncident` to
  insert a second OPEN incident, or to refuse one. A second one is resolved in a later
  cycle than the first, as an outage of its own on the chain.
- A permit without `allowedActions` makes `checkAuthorization` throw: the request is
  answered 500 and no denied event is written (`authorization.service.js:77`).
- An operator that is registered but not approved passes `resolveDid` while the RPC is
  up, because its DID is on chain.
- `$addToSet` of a trusted issuer never finds a duplicate, because `addedAt` differs.
- The prototype saves a copy of the state that it read before an await
  (`src/server.js:232`): identities stored in between by another request are lost.
- A batch whose send fails is not put back (`src/server.js:502`): its actions are lost, though
  they were answered as accepted.
- Between the save of a closed incident and the reset of `activeIncident`
  (`networkIncident.service.js:136-138`) a `/create` gets `null` for an incident,
  and stages a block that no merge will ever list.

## 6. Not modelled, and the plan

Not modelled for good: HTTP parsing and wiring, connections, the DID agent's
set-up, deployment scripts, the end-to-end tests, the prototype's command line
tools, the template contract `Counter` and the vendored forge-std.

Left out of modelled components, each named in `PROJECT.json`: the pairing of the
leaves in a Merkle tree, the factory registry, wording and reasons, transaction
hashes, block numbers and the times of an incident, file and key handling.

What would come next:

1. `MerkleTree`: the pairing of the leaves as a function on sequences, against a
   reference definition over bounded inputs; the duplicated odd leaf.
2. The rows of SQLite and the merge in one module, for what becomes of an event whose
   block is lost as section 5 tells.
3. Abstract specifications of the prototype's action buffer (an outbox) and of the
   events between SQLite and the two chains, with refinement proofs.
