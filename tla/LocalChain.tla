------------------------------ MODULE LocalChain ------------------------------
(***************************************************************************)
(* The LOCAL chains (epochs) of network incidents and their merge into     *)
(* MAIN: services/localChain.service.js with its callers, the /create and  *)
(* admin routes of routes/batch.routes.js and the merge step of            *)
(* workers/sync.worker.js.                                                 *)
(*                                                                         *)
(* One action is one step between two awaits, of the worker's merge and of *)
(* each request: /create, recover, acknowledge and discard.  A request     *)
(* keeps what it has read and writes by it, whatever happened meanwhile.   *)
(* Batches are numbered in the order their blocks are inserted, so the     *)
(* order of the numbers is the order of createdAt.                         *)
(***************************************************************************)
EXTENDS ChainBlocks, FiniteSets

CONSTANTS
    Incidents,       \* network incidents that may be declared
    Requests,        \* bound: requests under way at one time
    MaxBatches,      \* bound: batches that may be created
    BatchSize,       \* events in every batch
    Overlap,         \* TRUE: handlers and worker interleave at their awaits
    LateAlteration,  \* TRUE: a block may be altered while tampering is unresolved
    MaxCrashes       \* bound: restarts of the server process

ASSUME MaxBatchesAssumption == MaxBatches \in Nat
ASSUME BatchSizeAssumption == BatchSize \in Nat \ {0}
ASSUME SwitchesAssumption == Overlap \in BOOLEAN /\ LateAlteration \in BOOLEAN
ASSUME MaxCrashesAssumption == MaxCrashes \in Nat

Batches == 1 .. MaxBatches

VARIABLES
    networkUp,  \* whether provider.getBlockNumber() answers
    incident,   \* collection NetworkIncident
    local,      \* collection LocalChain, by batchId
    main,       \* collection MerkleChain, in createdAt order
    rows,       \* rows of SQLite table events with a given batchId
    nextBatch,  \* the next batch to be created
    worker,     \* the merge step of the sync worker's cycle
    request,    \* the handler of each request
    rejected,   \* history: batches whose last decision of the admin is a rejection
    late,       \* history: block and epoch of each write by a check that held no more
    crashes     \* restarts so far

vars == << networkUp, incident, local, main, rows, nextBatch,
           worker, request, rejected, late, crashes >>

-----------------------------------------------------------------------------
(* State *)

Null == "null"
Roots == Seq(Batches \X RowStates)
Signatures == Batches \X Roots \X Roots \X Nat

ActiveStatus == {"PENDING_VERIFICATION", "VERIFIED"}
LocalStatus == ActiveStatus \cup {"TAMPERED", "DISCARDED", "ACKNOWLEDGED"}

NoBlock == [status |-> "NONE"]

LocalBlock ==
    [ batchId: Batches, incidentId: Incidents, previousRoot: Roots, currentRoot: Roots,
      eventCount: Nat, signature: Signatures, merkleRoot: Batches \X RowStates,
      status: LocalStatus ]

MainBlock ==
    [ batchId: Batches, previousRoot: Roots, currentRoot: Roots,
      eventCount: Nat, signature: Signatures ]

\* localChainFinalRoot is null until a merge, written << >> here: the root
\* of a block is never empty.
IncidentDoc ==
    [ status: {"NONE", "OPEN", "CLOSED"}, localChainStatus: {"NONE", "MERGED", "TAMPERED"},
      localChainFinalRoot: Roots, mergedBatchIds: Seq(Batches) ]

\* What verifyLocalChain reports: a block and the number of the check it fails,
\* 1 its signature, 2 its continuity.
Errors == Batches \X {1, 2}

\* The worker between cycles, and its locals while it merges an incident.
WorkerIdle ==
    [ pc |-> "idle", todo |-> {}, incidentId |-> Null, errors |-> {}, finalRoot |-> << >>,
      blocks |-> {}, mainTail |-> << >>, mergedBatchIds |-> << >> ]

WorkerState ==
    [ pc: {"idle", "declare", "list", "cycle", "flag", "verified", "append", "drop"}, todo: SUBSET Incidents,
      incidentId: Incidents \cup {Null}, errors: SUBSET Errors, finalRoot: Roots,
      blocks: SUBSET LocalBlock, mainTail: Roots, mergedBatchIds: Seq(Batches) ]

Verdicts == {"ACKNOWLEDGED", "DISCARDED"}

\* No request, and the locals of a handler between its awaits: for /create the
\* incident and the tail it read, for a decision the block of the admin, and
\* for a recover the rebuilt root and count, then the running root and the
\* blocks of the cascade.
RequestIdle ==
    [ pc |-> "idle", incidentId |-> Null, batchId |-> 0, status |-> "NONE",
      root |-> << >>, eventCount |-> 0, blocks |-> {} ]

RequestLocals ==
    [ pc: {"idle", "declare", "tail", "stage", "append", "decide",
           "rebuild", "rewrite", "list", "cascade"},
      incidentId: Incidents \cup {Null}, batchId: 0 .. MaxBatches,
      status: Verdicts \cup {"NONE"}, root: Roots, eventCount: Nat,
      blocks: SUBSET LocalBlock ]

\* They are set where the handler uses them.
RequestState ==
    { q \in RequestLocals :
        /\ q.pc \in {"declare", "tail", "stage", "rebuild", "rewrite", "list"} =>
              q.incidentId \in Incidents
        /\ q.pc \in {"decide", "rebuild", "rewrite", "list"} => q.batchId \in Batches
        /\ q.pc = "decide" => q.status \in Verdicts
        /\ q.pc = "cascade" => q.blocks # {} }

TypeOK ==
    /\ networkUp \in BOOLEAN
    /\ incident \in [Incidents -> IncidentDoc]
    /\ local \in [Batches -> LocalBlock \cup {NoBlock}]
    /\ main \in Seq(MainBlock)
    /\ rows \in [Batches -> Nat]
    /\ nextBatch \in 1 .. (MaxBatches + 1)
    /\ worker \in WorkerState
    /\ request \in [Requests -> RequestState]
    /\ rejected \subseteq Batches
    /\ late \subseteq Batches \X Incidents
    /\ crashes \in 0 .. MaxCrashes

-----------------------------------------------------------------------------
(* Queries *)

WithStatus(i, S) ==
    { b \in Batches : local[b].status \in S /\ local[b].incidentId = i }

Active(i) == WithStatus(i, ActiveStatus)
Tampered(i) == WithStatus(i, {"TAMPERED"})
OnLocal == { b \in Batches : local[b] # NoBlock }
OnMain == { main[n].batchId : n \in DOMAIN main }

Latest(S) == CHOOSE b \in S : \A a \in S : a <= b
Earliest(S) == CHOOSE b \in S : \A a \in S : b <= a
Before(S, b) == { a \in S : a < b }

\* .sort({createdAt: -1}) of a find: its root, or LOCAL_GENESIS without a block.
LastLocalRoot(S) == IF S = {} THEN GENESIS_ROOT ELSE local[Latest(S)].currentRoot

\* Mutant of LocalErrors: check 1, the signature, is left out.
LocalErrorsWithoutSignature(i) ==
    { e \in Active(i) \X {2} : local[e[1]].previousRoot # LastLocalRoot(Before(Active(i), e[1])) }

\* verifyLocalChain: the checks that the active blocks fail.
LocalErrors(i) ==
    { e \in Active(i) \X {1, 2} :
        \/ e[2] = 1 /\ ~SignatureOk(local[e[1]])
        \/ e[2] = 2 /\ local[e[1]].previousRoot # LastLocalRoot(Before(Active(i), e[1])) }

\* Mutant of IncidentsToMerge: an epoch that was refused once is left out.
IncidentsNeverRefused ==
    { i \in Incidents : /\ incident[i].status = "CLOSED" /\ Active(i) # {}
                        /\ incident[i].localChainStatus # "TAMPERED" }

\* getIncidentsWithPendingLocalBlocks
IncidentsToMerge == { i \in Incidents : incident[i].status = "CLOSED" /\ Active(i) # {} }

OpenIncidents == { i \in Incidents : incident[i].status = "OPEN" }

\* Bound: an incident that may still be declared and that no handler is about to.
Unused ==
    { i \in Incidents : /\ incident[i].status = "NONE" /\ worker.incidentId # i
                        /\ \A r \in Requests : request[r].incidentId # i }

\* The batches with a block that was written by a check that held no more.
Contested == { p[1] : p \in late }

\* Without Overlap a handler starts only when none is between two awaits.
Quiet == worker.pc = "idle" /\ \A r \in Requests : request[r].pc = "idle"
MayStart == Overlap \/ Quiet

-----------------------------------------------------------------------------
(* Initial state *)

Init ==
    /\ networkUp = TRUE
    /\ incident = [i \in Incidents |->
                     [ status |-> "NONE", localChainStatus |-> "NONE",
                       localChainFinalRoot |-> << >>, mergedBatchIds |-> << >> ]]
    /\ local = [b \in Batches |-> NoBlock]
    /\ main = << >>
    /\ rows = [b \in Batches |-> 0]
    /\ nextBatch = 1
    /\ worker = WorkerIdle
    /\ request = [r \in Requests |-> RequestIdle]
    /\ rejected = {}
    /\ late = {}
    /\ crashes = 0

-----------------------------------------------------------------------------
(* Requests.  A handler that returns or throws is idle again. *)

Starts(r) == MayStart /\ request[r].pc = "idle"
Becomes(r, state) == request' = [request EXCEPT ![r] = state]
Ends(r) == Becomes(r, RequestIdle)

-----------------------------------------------------------------------------
(* Batches: GET /create.  The batch gets its number with its block. *)

\* The ping fails, and findOne({ status: "OPEN" }) finds an incident or none.
CreateFind(r) ==
    /\ Starts(r) /\ ~networkUp /\ nextBatch \in Batches
    /\ \/ \E i \in OpenIncidents : Becomes(r, [RequestIdle EXCEPT !.pc = "tail", !.incidentId = i])
       \/ /\ OpenIncidents = {}
          /\ \E i \in Unused : Becomes(r, [RequestIdle EXCEPT !.pc = "declare", !.incidentId = i])
    /\ UNCHANGED << networkUp, incident, local, main, rows, nextBatch, worker, rejected, late, crashes >>

OpenIncidentDoc(i) == [incident EXCEPT ![i].status = "OPEN"]

\* createNetworkIncident inserts, also beside an incident that was declared
\* since the look.
CreateDeclare(r) ==
    /\ request[r].pc = "declare"
    /\ incident' = OpenIncidentDoc(request[r].incidentId)
    /\ Becomes(r, [request[r] EXCEPT !.pc = "tail"])
    /\ UNCHANGED << networkUp, local, main, rows, nextBatch, worker, rejected, late, crashes >>

\* createLocalChainedRoot reads the last block of the incident, whatever the
\* status of that block.
CreateTail(r) ==
    /\ request[r].pc = "tail"
    /\ Becomes(r, [request[r] EXCEPT !.pc = "stage",
                     !.root = LastLocalRoot(WithStatus(request[r].incidentId, LocalStatus))])
    /\ UNCHANGED << networkUp, incident, local, main, rows, nextBatch, worker, rejected, late, crashes >>

NextBatchStored ==
    /\ nextBatch \in Batches
    /\ nextBatch' = nextBatch + 1
    /\ rows' = [rows EXCEPT ![nextBatch] = BatchSize]

\* The block of the next batch, chained onto previousRoot in the epoch of i.
StagedBlock(i, previousRoot) ==
    LET merkleRoot == MerkleRoot(nextBatch, "PENDING")
        block      == ChainedBlock(nextBatch, previousRoot, merkleRoot, BatchSize)
    IN [ batchId |-> nextBatch, incidentId |-> i, previousRoot |-> block.previousRoot,
         currentRoot |-> block.currentRoot, eventCount |-> block.eventCount,
         signature |-> block.signature, merkleRoot |-> merkleRoot,
         status |-> "PENDING_VERIFICATION" ]

\* LocalChain.create.  It comes late when the incident was closed since the look.
CreateStage(r) ==
    LET i == request[r].incidentId IN
    /\ request[r].pc = "stage"
    /\ NextBatchStored
    /\ local' = [local EXCEPT ![nextBatch] = StagedBlock(i, request[r].root)]
    /\ late' = IF incident[i].status = "OPEN" THEN late ELSE late \cup {<< nextBatch, i >>}
    /\ Ends(r)
    /\ UNCHANGED << networkUp, incident, main, worker, rejected, crashes >>

\* The ping succeeds, and createChainedRoot reads the tail of MAIN.
AppendTail(r) ==
    /\ Starts(r) /\ networkUp /\ nextBatch \in Batches
    /\ Becomes(r, [RequestIdle EXCEPT !.pc = "append", !.root = LastRoot(main)])
    /\ UNCHANGED << networkUp, incident, local, main, rows, nextBatch, worker, rejected, late, crashes >>

\* MerkleChain.create
AppendBlock(r) ==
    /\ request[r].pc = "append"
    /\ NextBatchStored
    /\ main' = Append(main, ChainedBlock(nextBatch, request[r].root,
                                         MerkleRoot(nextBatch, "PENDING"), BatchSize))
    /\ Ends(r)
    /\ UNCHANGED << networkUp, incident, local, worker, rejected, late, crashes >>

-----------------------------------------------------------------------------
(* The sync worker's cycle up to the end of the merge *)

\* RPC down: at the failure threshold the worker looks for an OPEN incident.
OutageFind ==
    /\ MayStart /\ worker.pc = "idle" /\ ~networkUp
    /\ OpenIncidents = {}
    /\ \E i \in Unused :
          worker' = [WorkerIdle EXCEPT !.pc = "declare", !.incidentId = i]
    /\ UNCHANGED << networkUp, incident, local, main, rows, nextBatch, request, rejected, late, crashes >>

\* It found none and declares one.
OutageDeclare ==
    /\ worker.pc = "declare"
    /\ incident' = OpenIncidentDoc(worker.incidentId)
    /\ worker' = WorkerIdle
    /\ UNCHANGED << networkUp, local, main, rows, nextBatch, request, rejected, late, crashes >>

\* RPC up, resolveNetworkIncident: an OPEN incident, if there is one, is
\* anchored and becomes CLOSED.
ResolveIncident ==
    /\ MayStart /\ worker.pc = "idle" /\ networkUp
    /\ \/ OpenIncidents = {} /\ UNCHANGED incident
       \/ \E i \in OpenIncidents : incident' = [incident EXCEPT ![i].status = "CLOSED"]
    /\ worker' = [WorkerIdle EXCEPT !.pc = "list"]
    /\ UNCHANGED << networkUp, local, main, rows, nextBatch, request, rejected, late, crashes >>

\* The worker has the incidents in todo left to merge; after the last it goes
\* on to anchoring, which ends the cycle.
MergesLeft(todo) ==
    IF todo = {} THEN WorkerIdle ELSE [WorkerIdle EXCEPT !.pc = "cycle", !.todo = todo]

\* The incidents to merge are listed, once for the whole cycle.
ListIncidents ==
    /\ worker.pc = "list"
    /\ worker' = MergesLeft(IncidentsToMerge)
    /\ UNCHANGED << networkUp, incident, local, main, rows, nextBatch, request, rejected, late, crashes >>

\* The for loop of mergeAllPendingLocalChains moves on to the next incident.
NextIncident(i) == MergesLeft(worker.todo \ {i})

\* Guard of mergeIncidentLocalChain: unresolved tampering, the incident waits.
MergeSkip(i) ==
    /\ worker.pc = "cycle" /\ i \in worker.todo
    /\ Tampered(i) # {}
    /\ worker' = NextIncident(i)
    /\ UNCHANGED << networkUp, incident, local, main, rows, nextBatch, request, rejected, late, crashes >>

\* Step 2: the chain does not verify.
MergeRefuse(i) ==
    /\ worker.pc = "cycle" /\ i \in worker.todo
    /\ Tampered(i) = {} /\ LocalErrors(i) # {}
    /\ worker' = [worker EXCEPT !.pc = "flag", !.incidentId = i, !.errors = LocalErrors(i)]
    /\ UNCHANGED << networkUp, incident, local, main, rows, nextBatch, request, rejected, late, crashes >>

\* One write for each error in their order, so two for a block that fails both
\* checks: the block becomes TAMPERED, whatever was decided on it meanwhile.
MergeFlag ==
    \E e \in worker.errors :
        /\ worker.pc = "flag"
        /\ \A f \in worker.errors : e[1] < f[1] \/ (e[1] = f[1] /\ e[2] <= f[2])
        /\ local' = IF local[e[1]] = NoBlock THEN local
                    ELSE [local EXCEPT ![e[1]] = [@ EXCEPT !.status = "TAMPERED"]]
        /\ worker' = [worker EXCEPT !.errors = @ \ {e}]
        /\ UNCHANGED << networkUp, incident, main, rows, nextBatch, request, rejected, late, crashes >>

\* The incident is marked when all of them are written.
MergeFlagged ==
    /\ worker.pc = "flag" /\ worker.errors = {}
    /\ incident' = [incident EXCEPT ![worker.incidentId].localChainStatus = "TAMPERED"]
    /\ worker' = NextIncident(worker.incidentId)
    /\ UNCHANGED << networkUp, local, main, rows, nextBatch, request, rejected, late, crashes >>

\* Mutant of MergeVerify: the guard on unresolved tampering is dropped.
MergeVerifyUnguarded(i) ==
    /\ worker.pc = "cycle" /\ i \in worker.todo
    /\ LocalErrors(i) = {}
    /\ worker' = [worker EXCEPT !.pc = "verified", !.incidentId = i,
                                !.finalRoot = LastLocalRoot(Active(i))]
    /\ UNCHANGED << networkUp, incident, local, main, rows, nextBatch, request, rejected, late, crashes >>

\* Mutant of MergeVerify: the final root is that of the last block of any status.
MergeVerifyAnyFinalRoot(i) ==
    /\ worker.pc = "cycle" /\ i \in worker.todo
    /\ Tampered(i) = {} /\ LocalErrors(i) = {}
    /\ worker' = [worker EXCEPT !.pc = "verified", !.incidentId = i,
                                !.finalRoot = LastLocalRoot(WithStatus(i, LocalStatus))]
    /\ UNCHANGED << networkUp, incident, local, main, rows, nextBatch, request, rejected, late, crashes >>

\* Step 1 succeeds: verifyLocalChain returns the final root of the epoch.
MergeVerify(i) ==
    /\ worker.pc = "cycle" /\ i \in worker.todo
    /\ Tampered(i) = {} /\ LocalErrors(i) = {}
    /\ worker' = [worker EXCEPT !.pc = "verified", !.incidentId = i,
                                !.finalRoot = LastLocalRoot(Active(i))]
    /\ UNCHANGED << networkUp, incident, local, main, rows, nextBatch, request, rejected, late, crashes >>

\* Mutant of MergeRead: the second find has no filter on the status.
MergeReadEveryStatus ==
    LET i == worker.incidentId
        found == WithStatus(i, LocalStatus)
    IN
    /\ worker.pc = "verified"
    /\ worker' = IF found = {} THEN NextIncident(i)
                 ELSE [worker EXCEPT !.pc = "append", !.mainTail = LastRoot(main),
                                     !.blocks = { local[b] : b \in found }]
    /\ UNCHANGED << networkUp, incident, local, main, rows, nextBatch, request, rejected, late, crashes >>

\* Mutant of MergeRead: the merge goes on from the final root of the epoch.
MergeReadTailOfEpoch ==
    LET i == worker.incidentId IN
    /\ worker.pc = "verified"
    /\ worker' = IF Active(i) = {} THEN NextIncident(i)
                 ELSE [worker EXCEPT !.pc = "append", !.mainTail = worker.finalRoot,
                                     !.blocks = { local[b] : b \in Active(i) }]
    /\ UNCHANGED << networkUp, incident, local, main, rows, nextBatch, request, rejected, late, crashes >>

\* Step 3: the blocks are read again, then the tail of MAIN.
MergeRead ==
    LET i == worker.incidentId IN
    /\ worker.pc = "verified"
    /\ worker' = IF Active(i) = {} THEN NextIncident(i)
                 ELSE [worker EXCEPT !.pc = "append", !.mainTail = LastRoot(main),
                                     !.blocks = { local[b] : b \in Active(i) }]
    /\ UNCHANGED << networkUp, incident, local, main, rows, nextBatch, request, rejected, late, crashes >>

\* Mutant of OldestOf: .sort({ createdAt: -1 }).
NewestOf(blocks) == CHOOSE d \in blocks : \A e \in blocks : e.batchId <= d.batchId

OldestOf(blocks) == CHOOSE d \in blocks : \A e \in blocks : d.batchId <= e.batchId

\* Mutant of MergeAppend: mainTail is not moved on to the new root.
MergeAppendStaleTail ==
    LET d     == OldestOf(worker.blocks)
        block == ChainedBlock(d.batchId, worker.mainTail, d.merkleRoot, d.eventCount)
    IN
    /\ worker.pc = "append" /\ worker.blocks # {}
    /\ d.batchId \notin OnMain
    /\ main' = Append(main, block)
    /\ worker' = [worker EXCEPT !.blocks = @ \ {d}, !.mergedBatchIds = Append(@, d.batchId)]
    /\ UNCHANGED << networkUp, incident, local, rows, nextBatch, request, rejected, late, crashes >>

\* One turn of the merge loop: re-chain, re-sign, MerkleChain.create.
MergeAppend ==
    LET d     == OldestOf(worker.blocks)
        block == ChainedBlock(d.batchId, worker.mainTail, d.merkleRoot, d.eventCount)
    IN
    /\ worker.pc = "append" /\ worker.blocks # {}
    /\ d.batchId \notin OnMain
    /\ main' = Append(main, block)
    /\ worker' = [worker EXCEPT !.blocks = @ \ {d}, !.mainTail = block.currentRoot,
                                !.mergedBatchIds = Append(@, d.batchId)]
    /\ UNCHANGED << networkUp, incident, local, rows, nextBatch, request, rejected, late, crashes >>

\* The unique index on batchId rejects the block: the cycle is abandoned.
MergeDuplicate ==
    /\ worker.pc = "append" /\ worker.blocks # {}
    /\ OldestOf(worker.blocks).batchId \in OnMain
    /\ worker' = WorkerIdle
    /\ UNCHANGED << networkUp, incident, local, main, rows, nextBatch, request, rejected, late, crashes >>

\* The epoch root is saved on the incident before the blocks are dropped.
MergeRecord ==
    /\ worker.pc = "append" /\ worker.blocks = {}
    /\ incident' = [incident EXCEPT ![worker.incidentId] =
          [@ EXCEPT !.localChainFinalRoot = worker.finalRoot,
                    !.mergedBatchIds = worker.mergedBatchIds,
                    !.localChainStatus = "MERGED"]]
    /\ worker' = [worker EXCEPT !.pc = "drop"]
    /\ UNCHANGED << networkUp, local, main, rows, nextBatch, request, rejected, late, crashes >>

\* Mutant of MergeDrop: the blocks are kept after the merge.
MergeDropForgotten ==
    /\ worker.pc = "drop"
    /\ worker' = NextIncident(worker.incidentId)
    /\ UNCHANGED << networkUp, incident, local, main, rows, nextBatch, request, rejected, late, crashes >>

\* LocalChain.deleteMany({ incidentId }): blocks of every status go.
MergeDrop ==
    LET i == worker.incidentId IN
    /\ worker.pc = "drop"
    /\ local' = [b \in Batches |-> IF b \in WithStatus(i, LocalStatus) THEN NoBlock ELSE local[b]]
    /\ worker' = NextIncident(i)
    /\ UNCHANGED << networkUp, incident, main, rows, nextBatch, request, rejected, late, crashes >>

-----------------------------------------------------------------------------
(* The admin's decisions on a TAMPERED block *)

\* Step 1: the block of the batch is TAMPERED.
RecoverFind(r, b) ==
    /\ Starts(r) /\ local[b].status = "TAMPERED"
    /\ Becomes(r, [RequestIdle EXCEPT !.pc = "rebuild", !.batchId = b,
                                      !.incidentId = local[b].incidentId])
    /\ UNCHANGED << networkUp, incident, local, main, rows, nextBatch, worker, rejected, late, crashes >>

\* TAMPERED, DISCARDED and ACKNOWLEDGED blocks are not in the active chain.
ActiveBefore(i, b) == Before(Active(i), b)

\* Steps 2 to 4: the events of the batch and the previous active block.
RecoverRead(r) ==
    LET b == request[r].batchId IN
    /\ request[r].pc = "rebuild"
    /\ IF rows[b] = 0 THEN Ends(r)
       ELSE Becomes(r, [request[r] EXCEPT !.pc = "rewrite", !.eventCount = rows[b],
                         !.root = LastLocalRoot(ActiveBefore(request[r].incidentId, b))])
    /\ UNCHANGED << networkUp, incident, local, main, rows, nextBatch, worker, rejected, late, crashes >>

\* The block of batch b rebuilt onto previousRoot from eventCount events.
Rebuilt(b, previousRoot, eventCount) ==
    LET merkleRoot == MerkleRoot(b, "BATCHED")
        block      == ChainedBlock(b, previousRoot, merkleRoot, eventCount)
    IN [local[b] EXCEPT !.previousRoot = block.previousRoot, !.currentRoot = block.currentRoot,
                        !.merkleRoot = merkleRoot, !.eventCount = block.eventCount,
                        !.signature = block.signature, !.status = "PENDING_VERIFICATION"]

\* Steps 5 to 7: the block is rebuilt, unless it was deleted, also when it is
\* not TAMPERED any more.
RecoverWrite(r) ==
    LET b == request[r].batchId IN
    /\ request[r].pc = "rewrite"
    /\ IF local[b] = NoBlock THEN UNCHANGED << local, rejected, late >>
       ELSE /\ local' = [local EXCEPT ![b] = Rebuilt(b, request[r].root, request[r].eventCount)]
            /\ rejected' = rejected \ {b}
            /\ late' = IF local[b].status = "TAMPERED" THEN late
                       ELSE late \cup {<< b, local[b].incidentId >>}
    /\ Becomes(r, [request[r] EXCEPT !.pc = "list", !.eventCount = 0,
                     !.root = ChainHash(request[r].root, MerkleRoot(b, "BATCHED"))])
    /\ UNCHANGED << networkUp, incident, main, rows, nextBatch, worker, crashes >>

\* Mutant of CascadeTargets: only the next block is re-chained.
CascadeNextOnly(i, b) ==
    LET after == { s \in Active(i) : s > b /\ ~\E t \in Tampered(i) : b < t /\ t < s }
    IN { s \in after : s = Earliest(after) }

\* Mutant of CascadeTargets: blocks with a verdict are not skipped.
CascadeEveryBlock(i, b) ==
    { s \in WithStatus(i, LocalStatus \ {"TAMPERED"}) :
        s > b /\ ~\E t \in Tampered(i) : b < t /\ t < s }

\* The blocks of epoch i the cascade re-chains: those after b that are active,
\* up to the first TAMPERED one.
CascadeTargets(i, b) ==
    { s \in Active(i) : s > b /\ ~\E t \in Tampered(i) : b < t /\ t < s }

\* The cascade has blocks left to re-chain onto root.
CascadeLeft(root, blocks) ==
    IF blocks = {} THEN RequestIdle
    ELSE [RequestIdle EXCEPT !.pc = "cascade", !.root = root, !.blocks = blocks]

\* The read of the subsequent blocks.
RecoverList(r) ==
    /\ request[r].pc = "list"
    /\ Becomes(r, CascadeLeft(request[r].root,
                     { local[s] : s \in CascadeTargets(request[r].incidentId, request[r].batchId) }))
    /\ UNCHANGED << networkUp, incident, local, main, rows, nextBatch, worker, rejected, late, crashes >>

\* Mutant of CascadeRechain: the write is an upsert.
CascadeRechainUpserts(r) ==
    LET d     == OldestOf(request[r].blocks)
        block == ChainedBlock(d.batchId, request[r].root, d.merkleRoot, d.eventCount)
    IN
    /\ request[r].pc = "cascade"
    /\ local' = [local EXCEPT ![d.batchId] =
                   [d EXCEPT !.previousRoot = block.previousRoot,
                             !.currentRoot = block.currentRoot, !.signature = block.signature]]
    /\ Becomes(r, CascadeLeft(block.currentRoot, request[r].blocks \ {d}))
    /\ UNCHANGED << networkUp, incident, main, rows, nextBatch, worker, rejected, late, crashes >>

\* Step 8, one block: the fields are those read with the list, the write is
\* to a block that may have been deleted since.
CascadeRechain(r) ==
    LET d     == OldestOf(request[r].blocks)
        b     == d.batchId
        block == ChainedBlock(b, request[r].root, d.merkleRoot, d.eventCount)
    IN
    /\ request[r].pc = "cascade"
    /\ local' = IF local[b] = NoBlock THEN local
                ELSE [local EXCEPT ![b] =
                       [@ EXCEPT !.previousRoot = block.previousRoot,
                                 !.currentRoot = block.currentRoot,
                                 !.signature = block.signature]]
    /\ Becomes(r, CascadeLeft(block.currentRoot, request[r].blocks \ {d}))
    /\ UNCHANGED << networkUp, incident, main, rows, nextBatch, worker, rejected, late, crashes >>

\* acknowledgeLocalBlock and discardLocalBlock: the block is TAMPERED.
DecideFind(r, b, status) ==
    /\ Starts(r) /\ local[b].status = "TAMPERED"
    /\ Becomes(r, [RequestIdle EXCEPT !.pc = "decide", !.batchId = b, !.status = status])
    /\ UNCHANGED << networkUp, incident, local, main, rows, nextBatch, worker, rejected, late, crashes >>

Acknowledge(r, b) == DecideFind(r, b, "ACKNOWLEDGED")

\* Mutant of Discard: a status that the schema does not have, which
\* findByIdAndUpdate does not validate.
DiscardOutsideEnum(r, b) == DecideFind(r, b, "DELETED")

Discard(r, b) == DecideFind(r, b, "DISCARDED")

\* Their write, unless the block was deleted, also when it is not TAMPERED any
\* more.
DecideWrite(r) ==
    LET b == request[r].batchId IN
    /\ request[r].pc = "decide"
    /\ IF local[b] = NoBlock THEN UNCHANGED << local, rejected, late >>
       ELSE /\ local' = [local EXCEPT ![b] = [@ EXCEPT !.status = request[r].status]]
            /\ rejected' = rejected \cup {b}
            /\ late' = IF local[b].status = "TAMPERED" THEN late
                       ELSE late \cup {<< b, local[b].incidentId >>}
    /\ Ends(r)
    /\ UNCHANGED << networkUp, incident, main, rows, nextBatch, worker, crashes >>

-----------------------------------------------------------------------------
(* The environment *)

\* The RPC endpoint goes down or comes back.
NetworkChange ==
    /\ networkUp' = ~networkUp
    /\ UNCHANGED << incident, local, main, rows, nextBatch, worker, request, rejected, late, crashes >>

\* The stored eventCount of a staged block is changed behind the program, as
\* the end-to-end test does; once per signature.
Alter(b) ==
    /\ MayStart
    /\ local[b].status \in ActiveStatus
    /\ local[b].eventCount = BatchSize
    /\ LateAlteration \/ Tampered(local[b].incidentId) = {}
    /\ local' = [local EXCEPT ![b] = [@ EXCEPT !.eventCount = BatchSize + 1]]
    /\ UNCHANGED << networkUp, incident, main, rows, nextBatch, worker, request,
                    rejected, late, crashes >>

\* The events of a batch are lost from SQLite.  Only a recover reads them
\* again, so the loss is taken while the block is TAMPERED.  Bound: it happens
\* to one batch.
LoseRows(b) ==
    /\ \A a \in 1 .. (nextBatch - 1) : rows[a] > 0
    /\ local[b].status = "TAMPERED"
    /\ rows' = [rows EXCEPT ![b] = 0]
    /\ UNCHANGED << networkUp, incident, local, main, nextBatch, worker, request, rejected, late, crashes >>

\* The server stops and starts again: what was between two awaits is gone.
Crash ==
    /\ crashes < MaxCrashes
    /\ crashes' = crashes + 1
    /\ worker' = WorkerIdle
    /\ request' = [r \in Requests |-> RequestIdle]
    /\ UNCHANGED << networkUp, incident, local, main, rows, nextBatch, rejected, late >>

-----------------------------------------------------------------------------

MergeStep ==
    \/ \E i \in Incidents : MergeSkip(i) \/ MergeRefuse(i) \/ MergeVerify(i)
    \/ MergeFlag \/ MergeFlagged
    \/ MergeRead \/ MergeAppend \/ MergeDuplicate \/ MergeRecord \/ MergeDrop

WorkerStep ==
    OutageFind \/ OutageDeclare \/ ResolveIncident \/ ListIncidents \/ MergeStep

\* A request arrives.
RequestStart(r) ==
    \/ CreateFind(r) \/ AppendTail(r)
    \/ \E b \in Batches : RecoverFind(r, b) \/ Acknowledge(r, b) \/ Discard(r, b)

\* Its handler takes its next step.
RequestStep(r) ==
    \/ CreateDeclare(r) \/ CreateTail(r) \/ CreateStage(r) \/ AppendBlock(r)
    \/ RecoverRead(r) \/ RecoverWrite(r) \/ RecoverList(r) \/ CascadeRechain(r)
    \/ DecideWrite(r)

Next ==
    \/ WorkerStep
    \/ \E r \in Requests : RequestStart(r) \/ RequestStep(r)
    \/ NetworkChange \/ Crash
    \/ \E b \in Batches : Alter(b) \/ LoseRows(b)

Spec == Init /\ [][Next]_vars

\* setInterval runs the worker for ever, and an awaited read or write completes.
\* The network and those who send requests owe nothing.
Fairness ==
    /\ WF_vars(WorkerStep)
    /\ \A r \in Requests : WF_vars(RequestStep(r))

FairSpec == Spec /\ Fairness

-----------------------------------------------------------------------------
(* Properties *)

\* GET /verify on MAIN finds nothing: every block is signed as stored and
\* follows the one before it, also across the blocks a merge re-chained.
\* Needs handlers that do not overlap (without it: run local_overlap_fork).
MainChainVerifies == ChainErrors(main) = {}

\* The event count of every MAIN block is the number of events its batch was
\* created with: what was altered while staged was found by verifyLocalChain,
\* or replaced from SQLite by a recover, before it could be merged.  Needs the
\* blocks of a refused epoch to be flagged together: a restart between two flags
\* leaves an altered block active, and the next cascade signs what it finds.
MainHoldsRecordedCounts == \A n \in DOMAIN main : main[n].eventCount = BatchSize

\* The merge appends a staged block to MAIN before deleteMany drops it, so a
\* batch that was created is on MAIN, staged, or was rejected by the admin.  The
\* code keeps this for every batch but those whose block was written by a check
\* that held no more: a block that /create adds to an incident that was closed
\* since, or one that is recovered after it was decided on, is deleted unread
\* when it comes between the read of the merge and deleteMany.
NoBatchLost ==
    \A b \in 1 .. (nextBatch - 1) : b \in OnMain \cup OnLocal \cup rejected \cup Contested

\* A block that is quarantined, or was rejected by the admin, is not on MAIN
\* and is not among the blocks the worker is appending to it.  Excepted are the
\* blocks on which a request wrote by a check that held no more: a verdict
\* checked before a recover and a merge read lands on a block on its way to MAIN.
QuarantineHolds ==
    \A b \in (rejected \cup UNION { Tampered(i) : i \in Incidents }) \ Contested :
        /\ b \notin OnMain
        /\ \A d \in worker.blocks : d.batchId # b

\* A batch has one block on MAIN, and a block on both chains only while the
\* worker is between appending its epoch and dropping it.
OneHome ==
    /\ \A m, n \in DOMAIN main : main[m].batchId = main[n].batchId => m = n
    /\ \A b \in OnMain \cap OnLocal : local[b].incidentId = worker.incidentId

\* The tree is dropped and the root kept: the record of a merged incident
\* names blocks that stand side by side on MAIN, and its final root commits
\* to exactly the merkle roots those blocks were chained with, in their order.
EpochRecordMatchesMain ==
    \A i \in Incidents : incident[i].localChainStatus = "MERGED" =>
        LET ids == incident[i].mergedBatchIds IN
        \E offset \in 0 .. Len(main) :
            /\ offset + Len(ids) <= Len(main)
            /\ \A k \in DOMAIN ids : main[offset + k].batchId = ids[k]
            /\ incident[i].localChainFinalRoot =
                  [ k \in DOMAIN ids |->
                      main[offset + k].currentRoot[Len(main[offset + k].currentRoot)] ]

\* Recovering, in any order the admin likes, repairs the epoch: once no block
\* of it is quarantined, rejected or altered, verifyLocalChain passes.  Needs
\* handlers that do not overlap: two /create fork the epoch.
RecoveryRestoresChain ==
    \A i \in Incidents :
        ( /\ \A r \in Requests : request[r].pc \notin {"list", "cascade"}
          /\ WithStatus(i, {"TAMPERED", "DISCARDED", "ACKNOWLEDGED"}) = {}
          /\ \A b \in Active(i) : local[b].eventCount = BatchSize )
        => LocalErrors(i) = {}

\* What is left of the chain when requests append to MAIN during a merge, and
\* whatever is restarted: MAIN may fork, but every block is signed as stored and
\* follows the genesis root or a block that was appended before it.
MainIsRooted ==
    \A n \in DOMAIN main :
        /\ SignatureOk(main[n])
        /\ \/ main[n].previousRoot = GENESIS_ROOT
           \/ \E m \in 1 .. (n - 1) : main[n].previousRoot = main[m].currentRoot

\* Until a restart cuts a merge, the unique index on batchId never refuses a
\* block of the worker: the merge of an epoch runs to its end, and with it the
\* cycle (MergeAll of SyncWorker throws only after a restart).
MergeNeverRefused ==
    worker.pc = "append" => \A d \in worker.blocks : d.batchId \notin OnMain

\* What the admin has decided on is not written again: a block with a verdict
\* keeps every field, through the cascades and refusals of the blocks around
\* it, until the merge of its epoch deletes it.
VerdictKeptUntilMerge ==
    [][\A b \in rejected : local'[b] # local[b] =>
          /\ local'[b] = NoBlock
          /\ incident[local[b].incidentId].localChainStatus = "MERGED"]_vars

\* Once merged, an epoch is closed for good: its record never changes again.
\* Excepted are the epochs in which a request wrote by a check that held no
\* more: a /create that found the incident OPEN adds its block after the merge,
\* and the next cycle merges or refuses that block over the record.
MergedEpochFrozen ==
    [][\A i \in Incidents :
          incident[i].localChainStatus = "MERGED" =>
              incident'[i] = incident[i] \/ \E b \in Batches : << b, i >> \in late]_vars

\* With the RPC back for good, a closed epoch does not stay half way: the
\* worker merges its staged blocks or flags some of them for the admin.
EpochSettles ==
    <>[]networkUp =>
        \A i \in Incidents :
            (incident[i].status = "CLOSED" /\ Active(i) # {})
                ~> (Active(i) = {} \/ Tampered(i) # {})

-----------------------------------------------------------------------------
(* The epochs and their merge implement the abstract ledger *)

FateOf(b) ==
    IF b \in OnMain THEN <<"ledgered">>
    ELSE IF b \in Contested THEN <<"contested">>
    ELSE IF local[b].status = "TAMPERED" THEN <<"quarantined", local[b].incidentId>>
    ELSE IF b \in rejected THEN <<"rejected">>
    ELSE IF local[b] = NoBlock THEN <<"new">>
    ELSE <<"staged", local[b].incidentId>>

Ledger == INSTANCE AuditLedger WITH
    Epochs <- Incidents,
    fate   <- [b \in Batches |-> FateOf(b)],
    ledger <- [n \in DOMAIN main |-> main[n].batchId]

\* Every step of the program is a step of the ledger or leaves it unchanged:
\* no batch is lost, published early, out of its epoch's order, or twice, until
\* a request writes its block by a check that holds no more.
ImplementsLedger == Ledger!Spec

=============================================================================
