--------------------------- MODULE LocalChainProofs ---------------------------
(***************************************************************************)
(* Type correctness of LocalChain, for every number of incidents, batches  *)
(* and restarts and for both settings of its switches.  Other proofs about *)
(* the module build on TypeCorrect and on the lemmas about the two CHOOSEs *)
(* of the module, Latest and OldestOf.                                     *)
(***************************************************************************)
EXTENDS LocalChain, OrderLemmas, SequenceTheorems, TLAPS

\* Latest, the sort({createdAt: -1}) of a query, picks a member of its set.
LEMMA LatestInSet ==
    ASSUME NEW S, S \subseteq Batches, S # {}
    PROVE  Latest(S) \in S /\ \A a \in S : a <= Latest(S)
BY MaxBatchesAssumption, GreatestElement DEF Latest, Batches

\* OldestOf, the sort({createdAt: 1}) of a list of blocks, picks a block of it.
LEMMA OldestInSet ==
    ASSUME NEW D, D \subseteq LocalBlock, D # {}
    PROVE  OldestOf(D) \in D /\ \A e \in D : OldestOf(D).batchId <= e.batchId
<1> DEFINE I == { d.batchId : d \in D }
<1>1. I \subseteq Nat
  BY MaxBatchesAssumption DEF LocalBlock, Batches
<1>2. I # {}
  <2>1. PICK d \in D : TRUE
    OBVIOUS
  <2>2. d.batchId \in I
    BY <2>1
  <2> QED
    BY <2>2
<1>3. PICK m \in I : \A n \in I : m <= n
  <2> HIDE DEF I
  <2> QED
    BY <1>1, <1>2, LeastElement
<1>4. PICK d \in D : m = d.batchId
  BY <1>3
<1>5. \A e \in D : d.batchId <= e.batchId
  BY <1>3, <1>4
<1> QED
  BY <1>5 DEF OldestOf

\* A chained block is a MAIN block, its signature verifies, and it holds what
\* it was made from.
LEMMA ChainedBlockType ==
    ASSUME NEW b \in Batches, NEW p \in Roots, NEW m \in Batches \X RowStates, NEW c \in Nat
    PROVE  /\ ChainedBlock(b, p, m, c) \in MainBlock
           /\ SignatureOk(ChainedBlock(b, p, m, c))
           /\ ChainedBlock(b, p, m, c).batchId = b
           /\ ChainedBlock(b, p, m, c).previousRoot = p
           /\ ChainedBlock(b, p, m, c).eventCount = c
           /\ ChainedBlock(b, p, m, c).currentRoot \in Roots
<1>1. Append(p, m) \in Roots
  BY AppendProperties DEF Roots
<1>2. << b, p, Append(p, m), c >> \in Signatures
  BY <1>1 DEF Signatures
<1> QED
  BY <1>1, <1>2 DEF ChainedBlock, ChainHash, MainBlock, SignatureOk, SignablePayload

\* The tail of MAIN is a root.
LEMMA LastRootType ==
    ASSUME main \in Seq(MainBlock)
    PROVE  LastRoot(main) \in Roots
<1>1. CASE main = << >>
  BY <1>1, EmptySeq DEF LastRoot, GENESIS_ROOT, Roots
<1>2. CASE main # << >>
  <2>1. Len(main) \in 1 .. Len(main) /\ main[Len(main)] \in MainBlock
    BY <1>2
  <2> QED
    BY <1>2, <2>1 DEF LastRoot, MainBlock
<1> QED
  BY <1>1, <1>2

\* The last root of a set of staged blocks is a root.
LEMMA LastLocalRootType ==
    ASSUME TypeOK, NEW S, S \subseteq OnLocal
    PROVE  LastLocalRoot(S) \in Roots
<1>1. CASE S = {}
  BY <1>1, EmptySeq DEF LastLocalRoot, GENESIS_ROOT, Roots
<1>2. CASE S # {}
  <2>1. Latest(S) \in S
    BY <1>2, LatestInSet DEF OnLocal
  <2>2. local[Latest(S)] \in LocalBlock
    BY <2>1 DEF TypeOK, OnLocal
  <2> QED
    BY <1>2, <2>2 DEF LastLocalRoot, LocalBlock
<1> QED
  BY <1>1, <1>2

\* A query by status finds only blocks that exist.
LEMMA WithStatusOnLocal ==
    ASSUME TypeOK, NEW i, NEW S, S \subseteq LocalStatus
    PROVE  /\ WithStatus(i, S) \subseteq OnLocal
           /\ \A b \in WithStatus(i, S) : local[b] \in LocalBlock
BY DEF TypeOK, WithStatus, OnLocal, NoBlock, LocalStatus, ActiveStatus

\* The active chain of an incident consists of blocks that exist.
LEMMA ActiveOnLocal ==
    ASSUME TypeOK, NEW i
    PROVE  /\ Active(i) \subseteq OnLocal
           /\ \A b \in Active(i) : local[b] \in LocalBlock
BY WithStatusOnLocal DEF Active, LocalStatus

\* The values a restart or the end of a cycle sets are well typed.
LEMMA ConstantTypes ==
    /\ GENESIS_ROOT \in Roots /\ << >> \in Roots /\ << >> \in Seq(Batches)
    /\ WorkerIdle \in WorkerState
    /\ RequestIdle \in RequestState
BY EmptySeq, MaxBatchesAssumption
DEF GENESIS_ROOT, Roots, WorkerIdle, WorkerState, RequestIdle, RequestLocals, RequestState

\* The worker is well typed when it moves on to its next incident.
LEMMA MergesLeftType ==
    ASSUME NEW todo \in SUBSET Incidents
    PROVE  MergesLeft(todo) \in WorkerState
BY ConstantTypes DEF MergesLeft, WorkerState, WorkerIdle

LEMMA NextIncidentType ==
    ASSUME TypeOK, NEW i
    PROVE  NextIncident(i) \in WorkerState
<1>1. worker.todo \ {i} \in SUBSET Incidents
  BY DEF TypeOK, WorkerState
<1> QED
  BY <1>1, MergesLeftType DEF NextIncident

\* A handler takes a step, and no other one is disturbed.
LEMMA RequestBecomes ==
    ASSUME TypeOK, NEW r \in Requests, NEW state \in RequestState, Becomes(r, state)
    PROVE  /\ request' \in [Requests -> RequestState]
           /\ request'[r] = state
           /\ \A q \in Requests \ {r} : request'[q] = request[q]
BY DEF TypeOK, Becomes

LEMMA RequestEnds ==
    ASSUME TypeOK, NEW r \in Requests, Ends(r)
    PROVE  /\ request' \in [Requests -> RequestState]
           /\ request'[r] = RequestIdle
           /\ \A q \in Requests \ {r} : request'[q] = request[q]
BY RequestBecomes, ConstantTypes DEF Ends

\* Declaring an incident, and closing one, keep the documents typed.
LEMMA IncidentDocType ==
    ASSUME TypeOK, NEW i
    PROVE  /\ OpenIncidentDoc(i) \in [Incidents -> IncidentDoc]
           /\ [incident EXCEPT ![i].status = "CLOSED"] \in [Incidents -> IncidentDoc]
<1>1. incident \in [Incidents -> IncidentDoc]
  BY DEF TypeOK
<1>2. \A j \in Incidents, status \in {"OPEN", "CLOSED"} :
         [incident[j] EXCEPT !.status = status] \in IncidentDoc
  BY <1>1 DEF IncidentDoc
<1>3. CASE i \in Incidents
  BY <1>1, <1>2, <1>3 DEF OpenIncidentDoc
<1>4. CASE i \notin Incidents
  <2>1. \A status : [incident EXCEPT ![i] = status] = incident
    BY <1>1, <1>4
  <2> QED
    BY <1>1, <2>1 DEF OpenIncidentDoc
<1> QED
  BY <1>3, <1>4

\* The initial state is well typed.
LEMMA TypeInit == Init => TypeOK
<1> SUFFICES ASSUME Init PROVE TypeOK
  OBVIOUS
<1>1. main \in Seq(MainBlock)
  BY EmptySeq DEF Init
<1> QED
  BY <1>1, ConstantTypes, MaxBatchesAssumption, MaxCrashesAssumption
  DEF Init, TypeOK, IncidentDoc, Batches

\* The block of a new batch, chained onto any root.
LEMMA StagedBlockType ==
    ASSUME NEW i \in Incidents, NEW p \in Roots, nextBatch \in Batches
    PROVE  /\ StagedBlock(i, p) \in LocalBlock
           /\ StagedBlock(i, p).batchId = nextBatch
           /\ StagedBlock(i, p).incidentId = i
           /\ StagedBlock(i, p).status = "PENDING_VERIFICATION"
           /\ StagedBlock(i, p).eventCount = BatchSize
           /\ SignatureOk(StagedBlock(i, p))
<1> DEFINE m == MerkleRoot(nextBatch, "PENDING")
           block == ChainedBlock(nextBatch, p, m, BatchSize)
<1>1. m \in Batches \X RowStates
  BY DEF MerkleRoot, RowStates
<1>2. /\ block \in MainBlock /\ SignatureOk(block) /\ block.batchId = nextBatch
      /\ block.eventCount = BatchSize
  BY <1>1, ChainedBlockType, BatchSizeAssumption
<1>3. StagedBlock(i, p) =
        [ batchId |-> nextBatch, incidentId |-> i, previousRoot |-> block.previousRoot,
          currentRoot |-> block.currentRoot, eventCount |-> block.eventCount,
          signature |-> block.signature, merkleRoot |-> m, status |-> "PENDING_VERIFICATION" ]
  BY DEF StagedBlock
<1> HIDE DEF block, m
<1> QED
  BY <1>1, <1>2, <1>3 DEF LocalBlock, MainBlock, LocalStatus, ActiveStatus, SignatureOk

\* A batch gets its number and its rows.
LEMMA NextBatchType ==
    ASSUME TypeOK, NextBatchStored
    PROVE  /\ nextBatch \in Batches
           /\ nextBatch' \in 1 .. (MaxBatches + 1) /\ rows' \in [Batches -> Nat]
BY MaxBatchesAssumption, BatchSizeAssumption DEF NextBatchStored, TypeOK, Batches

\* The steps of /create keep the types.
LEMMA TypeCreate ==
    ASSUME TypeOK, NEW r \in Requests,
           \/ CreateFind(r) \/ CreateDeclare(r) \/ CreateTail(r) \/ CreateStage(r)
           \/ AppendTail(r) \/ AppendBlock(r)
    PROVE  TypeOK'
<1>0. /\ request[r] \in RequestState /\ RequestIdle \in RequestState
      /\ request[r].root \in Roots
      /\ request[r].pc \in {"declare", "tail", "stage"} => request[r].incidentId \in Incidents
  BY ConstantTypes DEF TypeOK, RequestState, RequestLocals
<1>1. CASE CreateFind(r)
  <2>1. PICK i \in Incidents, pc \in {"tail", "declare"} :
          Becomes(r, [RequestIdle EXCEPT !.pc = pc, !.incidentId = i])
    BY <1>1 DEF CreateFind, OpenIncidents, Unused
  <2>2. [RequestIdle EXCEPT !.pc = pc, !.incidentId = i] \in RequestState
    BY <1>0 DEF RequestIdle, RequestLocals, RequestState
  <2>3. request' \in [Requests -> RequestState]
    BY <2>1, <2>2, RequestBecomes
  <2> QED
    BY <1>1, <2>3 DEF CreateFind, TypeOK
<1>2. CASE CreateDeclare(r)
  <2>1. incident' \in [Incidents -> IncidentDoc]
    BY <1>2, IncidentDocType DEF CreateDeclare
  <2>2. [request[r] EXCEPT !.pc = "tail"] \in RequestState
    BY <1>0, <1>2 DEF CreateDeclare, RequestLocals, RequestState
  <2>3. request' \in [Requests -> RequestState]
    BY <1>2, <2>2, RequestBecomes DEF CreateDeclare
  <2> QED
    BY <1>2, <2>1, <2>3 DEF CreateDeclare, TypeOK
<1>3. CASE CreateTail(r)
  <2> DEFINE root == LastLocalRoot(WithStatus(request[r].incidentId, LocalStatus))
  <2>1. root \in Roots
    BY WithStatusOnLocal, LastLocalRootType
  <2>2. [request[r] EXCEPT !.pc = "stage", !.root = root] \in RequestState
    <3> HIDE DEF root
    <3> QED
      BY <1>0, <1>3, <2>1 DEF CreateTail, RequestLocals, RequestState
  <2>3. request' \in [Requests -> RequestState]
    BY <1>3, <2>2, RequestBecomes DEF CreateTail
  <2> QED
    BY <1>3, <2>3 DEF CreateTail, TypeOK
<1>4. CASE CreateStage(r)
  <2> DEFINE i == request[r].incidentId
  <2>1. i \in Incidents /\ nextBatch \in Batches
    BY <1>0, <1>4, NextBatchType DEF CreateStage
  <2>2. StagedBlock(i, request[r].root) \in LocalBlock
    BY <1>0, <2>1, StagedBlockType
  <2>3. local' \in [Batches -> LocalBlock \cup {NoBlock}]
    BY <1>4, <2>2 DEF CreateStage, TypeOK
  <2>4. late' \subseteq Batches \X Incidents
    BY <1>4, <2>1 DEF CreateStage, TypeOK
  <2>5. request' \in [Requests -> RequestState]
    BY <1>4, RequestEnds DEF CreateStage
  <2> QED
    BY <1>4, <2>3, <2>4, <2>5, NextBatchType DEF CreateStage, TypeOK
<1>5. CASE AppendTail(r)
  <2>1. LastRoot(main) \in Roots
    BY LastRootType DEF TypeOK
  <2>2. [RequestIdle EXCEPT !.pc = "append", !.root = LastRoot(main)] \in RequestState
    BY <1>0, <2>1 DEF RequestIdle, RequestLocals, RequestState
  <2>3. request' \in [Requests -> RequestState]
    BY <1>5, <2>2, RequestBecomes DEF AppendTail
  <2> QED
    BY <1>5, <2>3 DEF AppendTail, TypeOK
<1>6. CASE AppendBlock(r)
  <2> DEFINE block == ChainedBlock(nextBatch, request[r].root, MerkleRoot(nextBatch, "PENDING"), BatchSize)
  <2>1. nextBatch \in Batches /\ MerkleRoot(nextBatch, "PENDING") \in Batches \X RowStates
    BY <1>6, NextBatchType DEF AppendBlock, MerkleRoot, RowStates
  <2>2. block \in MainBlock
    BY <1>0, <2>1, ChainedBlockType, BatchSizeAssumption
  <2>3. main' \in Seq(MainBlock)
    <3>1. main' = Append(main, block)
      BY <1>6 DEF AppendBlock
    <3> HIDE DEF block
    <3> QED
      BY <2>2, <3>1, AppendProperties DEF TypeOK
  <2>4. request' \in [Requests -> RequestState]
    BY <1>6, RequestEnds DEF AppendBlock
  <2> QED
    BY <1>6, <2>3, <2>4, NextBatchType DEF AppendBlock, TypeOK
<1> QED
  BY <1>1, <1>2, <1>3, <1>4, <1>5, <1>6

\* Declaring and closing incidents and starting a merge keep the types.
LEMMA TypeCycle ==
    ASSUME TypeOK, OutageFind \/ OutageDeclare \/ ResolveIncident \/ ListIncidents
    PROVE  TypeOK'
<1>1. CASE OutageFind
  <2>1. worker' \in WorkerState
    BY <1>1, ConstantTypes DEF OutageFind, Unused, WorkerState, WorkerIdle
  <2> QED
    BY <1>1, <2>1 DEF OutageFind, TypeOK
<1>2. CASE OutageDeclare
  BY <1>2, IncidentDocType, ConstantTypes DEF OutageDeclare, TypeOK
<1>3. CASE ResolveIncident
  <2>1. worker' \in WorkerState
    BY <1>3, ConstantTypes DEF ResolveIncident, WorkerState, WorkerIdle
  <2>2. incident' \in [Incidents -> IncidentDoc]
    BY <1>3, IncidentDocType DEF ResolveIncident, TypeOK
  <2> QED
    BY <1>3, <2>1, <2>2 DEF ResolveIncident, TypeOK
<1>4. CASE ListIncidents
  <2>1. IncidentsToMerge \in SUBSET Incidents
    BY DEF IncidentsToMerge
  <2> QED
    BY <1>4, <2>1, MergesLeftType DEF ListIncidents, TypeOK
<1> QED
  BY <1>1, <1>2, <1>3, <1>4

\* A flag is written to the block it names, if that exists; the rest of local
\* stays as it is.
LEMMA FlagWrites ==
    ASSUME TypeOK, MergeFlag
    PROVE  /\ local' \in [Batches -> LocalBlock \cup {NoBlock}]
           /\ worker' \in WorkerState
           /\ worker'.pc = "flag" /\ worker'.incidentId = worker.incidentId
           /\ worker'.todo = worker.todo /\ worker'.blocks = worker.blocks
           /\ \E e \in worker.errors :
                 /\ e \in Errors /\ worker'.errors = worker.errors \ {e}
                 /\ \A b \in Batches \ {e[1]} : local'[b] = local[b]
                 /\ \/ local[e[1]] = NoBlock /\ local'[e[1]] = NoBlock
                    \/ /\ local[e[1]] \in LocalBlock
                       /\ local'[e[1]] = [local[e[1]] EXCEPT !.status = "TAMPERED"]
<1>1. local \in [Batches -> LocalBlock \cup {NoBlock}] /\ worker \in WorkerState
  BY DEF TypeOK
<1>2. PICK e \in worker.errors :
        /\ local' = IF local[e[1]] = NoBlock THEN local
                    ELSE [local EXCEPT ![e[1]] = [@ EXCEPT !.status = "TAMPERED"]]
        /\ worker' = [worker EXCEPT !.errors = @ \ {e}]
  BY DEF MergeFlag
<1>3. worker.pc = "flag"
  BY DEF MergeFlag
<1>4. e \in Errors /\ e[1] \in Batches
  BY <1>1 DEF WorkerState, Errors
<1>5. /\ worker' \in WorkerState
      /\ worker'.pc = "flag" /\ worker'.incidentId = worker.incidentId
      /\ worker'.todo = worker.todo /\ worker'.blocks = worker.blocks
      /\ worker'.errors = worker.errors \ {e}
  BY <1>1, <1>2, <1>3 DEF WorkerState
<1>6. CASE local[e[1]] = NoBlock
  BY <1>1, <1>2, <1>4, <1>5, <1>6
<1>7. CASE local[e[1]] # NoBlock
  <2>1. local[e[1]] \in LocalBlock
    BY <1>1, <1>4, <1>7
  <2>2. [local[e[1]] EXCEPT !.status = "TAMPERED"] \in LocalBlock
    BY <2>1 DEF LocalBlock, LocalStatus
  <2>3. local' = [local EXCEPT ![e[1]] = [local[e[1]] EXCEPT !.status = "TAMPERED"]]
    BY <1>2, <1>7
  <2>4. local' \in [Batches -> LocalBlock \cup {NoBlock}]
    BY <1>1, <1>4, <2>2, <2>3
  <2>5. /\ \A b \in Batches \ {e[1]} : local'[b] = local[b]
        /\ local'[e[1]] = [local[e[1]] EXCEPT !.status = "TAMPERED"]
    BY <1>1, <1>4, <2>3
  <2> QED
    BY <1>4, <1>5, <2>1, <2>4, <2>5
<1> QED
  BY <1>6, <1>7

\* Every step of the merge keeps the types.
LEMMA TypeMerge ==
    ASSUME TypeOK, MergeStep PROVE TypeOK'
<1>1. ASSUME NEW i \in Incidents, MergeSkip(i) PROVE TypeOK'
  BY <1>1, NextIncidentType DEF MergeSkip, TypeOK
<1>2. ASSUME NEW i \in Incidents, MergeRefuse(i) PROVE TypeOK'
  <2>1. LocalErrors(i) \subseteq Errors
    BY DEF LocalErrors, Active, WithStatus, Errors
  <2>2. worker' \in WorkerState
    BY <1>2, <2>1 DEF MergeRefuse, TypeOK, WorkerState
  <2> QED
    BY <1>2, <2>2 DEF MergeRefuse, TypeOK
<1>3. ASSUME NEW i \in Incidents, MergeVerify(i) PROVE TypeOK'
  <2>1. LastLocalRoot(Active(i)) \in Roots
    BY ActiveOnLocal, LastLocalRootType
  <2>2. worker' \in WorkerState
    BY <1>3, <2>1 DEF MergeVerify, TypeOK, WorkerState
  <2> QED
    BY <1>3, <2>2 DEF MergeVerify, TypeOK
<1>4. CASE MergeRead
  <2>1. { local[b] : b \in Active(worker.incidentId) } \subseteq LocalBlock
    BY ActiveOnLocal
  <2>2. LastRoot(main) \in Roots
    BY LastRootType DEF TypeOK
  <2>3. worker' \in WorkerState
    BY <1>4, <2>1, <2>2, NextIncidentType DEF MergeRead, TypeOK, WorkerState
  <2> QED
    BY <1>4, <2>3 DEF MergeRead, TypeOK
<1>5. CASE MergeAppend
  <2> DEFINE d == OldestOf(worker.blocks)
             block == ChainedBlock(d.batchId, worker.mainTail, d.merkleRoot, d.eventCount)
  <2>1. worker \in WorkerState /\ worker.blocks \subseteq LocalBlock
    BY DEF TypeOK, WorkerState
  <2>2. d \in LocalBlock
    BY <1>5, <2>1, OldestInSet DEF MergeAppend
  <2>3. block \in MainBlock /\ block.currentRoot \in Roots
    <3> HIDE DEF d
    <3> QED
      BY <2>1, <2>2, ChainedBlockType DEF LocalBlock, WorkerState
  <2>4. main' \in Seq(MainBlock)
    <3> HIDE DEF block
    <3>1. main' = Append(main, block)
      BY <1>5 DEF MergeAppend, block
    <3> QED
      BY <2>3, <3>1, AppendProperties DEF TypeOK
  <2>5. Append(worker.mergedBatchIds, d.batchId) \in Seq(Batches)
    <3> HIDE DEF d
    <3> QED
      BY <2>1, <2>2, AppendProperties DEF LocalBlock, WorkerState
  <2>6. worker' \in WorkerState
    <3>1. worker' = [worker EXCEPT !.blocks = @ \ {d}, !.mainTail = block.currentRoot,
                                   !.mergedBatchIds = Append(@, d.batchId)]
      BY <1>5 DEF MergeAppend
    <3> HIDE DEF d, block
    <3> QED
      BY <2>1, <2>3, <2>5, <3>1 DEF WorkerState
  <2> QED
    BY <1>5, <2>4, <2>6 DEF MergeAppend, TypeOK
<1>6. CASE MergeDuplicate
  BY <1>6, ConstantTypes DEF MergeDuplicate, TypeOK
<1>7. CASE MergeRecord
  <2>1. worker \in WorkerState
    BY DEF TypeOK
  <2>2. incident' \in [Incidents -> IncidentDoc]
    <3>1. worker.finalRoot \in Roots /\ worker.mergedBatchIds \in Seq(Batches)
      BY <2>1 DEF WorkerState
    <3>2. /\ incident \in [Incidents -> IncidentDoc]
          /\ incident' = [incident EXCEPT ![worker.incidentId] =
                [@ EXCEPT !.localChainFinalRoot = worker.finalRoot,
                          !.mergedBatchIds = worker.mergedBatchIds,
                          !.localChainStatus = "MERGED"]]
      BY <1>7 DEF MergeRecord, TypeOK
    <3>3. \A doc \in IncidentDoc :
             [doc EXCEPT !.localChainFinalRoot = worker.finalRoot,
                         !.mergedBatchIds = worker.mergedBatchIds,
                         !.localChainStatus = "MERGED"] \in IncidentDoc
      BY <3>1 DEF IncidentDoc
    <3> QED
      BY <3>2, <3>3
  <2>3. worker' \in WorkerState
    BY <1>7, <2>1 DEF MergeRecord, WorkerState
  <2> QED
    BY <1>7, <2>2, <2>3 DEF MergeRecord, TypeOK
<1>8. CASE MergeDrop
  <2>1. local' \in [Batches -> LocalBlock \cup {NoBlock}]
    BY <1>8 DEF MergeDrop, TypeOK
  <2> QED
    BY <1>8, <2>1, NextIncidentType DEF MergeDrop, TypeOK
<1>9. CASE MergeFlag
  <2>1. local' \in [Batches -> LocalBlock \cup {NoBlock}] /\ worker' \in WorkerState
    BY <1>9, FlagWrites
  <2> QED
    BY <1>9, <2>1 DEF MergeFlag, TypeOK
<1>10. CASE MergeFlagged
  <2>1. incident' \in [Incidents -> IncidentDoc]
    <3>1. /\ incident \in [Incidents -> IncidentDoc]
          /\ incident' = [incident EXCEPT ![worker.incidentId] =
                              [@ EXCEPT !.localChainStatus = "TAMPERED"]]
      BY <1>10 DEF MergeFlagged, TypeOK
    <3>2. \A doc \in IncidentDoc : [doc EXCEPT !.localChainStatus = "TAMPERED"] \in IncidentDoc
      BY DEF IncidentDoc
    <3> QED
      BY <3>1, <3>2
  <2> QED
    BY <1>10, <2>1, NextIncidentType DEF MergeFlagged, TypeOK
<1> QED
  BY <1>1, <1>2, <1>3, <1>4, <1>5, <1>6, <1>7, <1>8, <1>9, <1>10 DEF MergeStep

\* What is left of a cascade is a request.
LEMMA CascadeLeftType ==
    ASSUME NEW root \in Roots, NEW blocks \in SUBSET LocalBlock
    PROVE  CascadeLeft(root, blocks) \in RequestState
BY ConstantTypes DEF CascadeLeft, RequestIdle, RequestLocals, RequestState

\* A block that is rebuilt is a block of the same batch and epoch.
LEMMA RebuiltType ==
    ASSUME TypeOK, NEW b \in Batches, local[b] # NoBlock, NEW p \in Roots, NEW c \in Nat
    PROVE  /\ local[b] \in LocalBlock
           /\ Rebuilt(b, p, c) \in LocalBlock
           /\ Rebuilt(b, p, c).batchId = local[b].batchId
           /\ Rebuilt(b, p, c).incidentId = local[b].incidentId
           /\ Rebuilt(b, p, c).status = "PENDING_VERIFICATION"
<1> DEFINE m == MerkleRoot(b, "BATCHED")
           block == ChainedBlock(b, p, m, c)
<1>1. m \in Batches \X RowStates
  BY DEF MerkleRoot, RowStates
<1>2. block \in MainBlock
  BY <1>1, ChainedBlockType
<1>3. local[b] \in LocalBlock
  BY DEF TypeOK
<1>4. Rebuilt(b, p, c) =
        [local[b] EXCEPT !.previousRoot = block.previousRoot, !.currentRoot = block.currentRoot,
                         !.merkleRoot = m, !.eventCount = block.eventCount,
                         !.signature = block.signature, !.status = "PENDING_VERIFICATION"]
  BY DEF Rebuilt
<1> HIDE DEF block, m
<1> QED
  BY <1>1, <1>2, <1>3, <1>4 DEF LocalBlock, MainBlock, LocalStatus, ActiveStatus

\* The steps of a recover keep the types.
LEMMA TypeRecover ==
    ASSUME TypeOK, NEW r \in Requests,
           \/ \E b \in Batches : RecoverFind(r, b)
           \/ RecoverRead(r) \/ RecoverWrite(r) \/ RecoverList(r) \/ CascadeRechain(r)
    PROVE  TypeOK'
<1>0. /\ request[r] \in RequestState /\ RequestIdle \in RequestState
      /\ request[r].root \in Roots /\ request[r].eventCount \in Nat
      /\ request[r].blocks \subseteq LocalBlock
      /\ request[r].pc \in {"rebuild", "rewrite", "list"} =>
            request[r].incidentId \in Incidents /\ request[r].batchId \in Batches
      /\ request[r].pc = "cascade" => request[r].blocks # {}
  BY ConstantTypes DEF TypeOK, RequestState, RequestLocals
<1>1. ASSUME NEW b \in Batches, RecoverFind(r, b) PROVE TypeOK'
  <2>1. local[b] \in LocalBlock
    <3>1. local[b].status = "TAMPERED"
      BY <1>1 DEF RecoverFind
    <3>2. local[b] # NoBlock
      BY <3>1 DEF NoBlock
    <3> QED
      BY <3>2 DEF TypeOK
  <2>2. [RequestIdle EXCEPT !.pc = "rebuild", !.batchId = b, !.incidentId = local[b].incidentId]
          \in RequestState
    <3>1. RequestIdle \in RequestLocals
      BY <1>0 DEF RequestState
    <3>2. b \in 0 .. MaxBatches /\ local[b].incidentId \in Incidents
      BY <2>1, MaxBatchesAssumption DEF Batches, LocalBlock
    <3> QED
      BY <3>1, <3>2 DEF RequestLocals, RequestState
  <2>3. request' \in [Requests -> RequestState]
    <3>1. Becomes(r, [RequestIdle EXCEPT !.pc = "rebuild", !.batchId = b,
                                         !.incidentId = local[b].incidentId])
      BY <1>1 DEF RecoverFind
    <3> QED
      BY <2>2, <3>1, RequestBecomes
  <2> QED
    BY <1>1, <2>3 DEF RecoverFind, TypeOK
<1>2. CASE RecoverRead(r)
  <2> DEFINE b == request[r].batchId
             root == LastLocalRoot(ActiveBefore(request[r].incidentId, b))
             state == [request[r] EXCEPT !.pc = "rewrite", !.eventCount = rows[b], !.root = root]
  <2>1. root \in Roots
    BY ActiveOnLocal, LastLocalRootType DEF ActiveBefore, Before
  <2>2. rows[b] \in Nat
    BY <1>0, <1>2 DEF RecoverRead, TypeOK
  <2>3. state \in RequestState
    <3> HIDE DEF root
    <3> QED
      BY <1>0, <1>2, <2>1, <2>2 DEF RecoverRead, RequestLocals, RequestState
  <2>4. Ends(r) \/ Becomes(r, state)
    BY <1>2 DEF RecoverRead
  <2>5. request' \in [Requests -> RequestState]
    <3> HIDE DEF state
    <3> QED
      BY <2>3, <2>4, RequestBecomes, RequestEnds
  <2> QED
    BY <1>2, <2>5 DEF RecoverRead, TypeOK
<1>3. CASE RecoverWrite(r)
  <2> DEFINE b == request[r].batchId
             root == ChainHash(request[r].root, MerkleRoot(b, "BATCHED"))
             state == [request[r] EXCEPT !.pc = "list", !.eventCount = 0, !.root = root]
  <2>0. b \in Batches
    BY <1>0, <1>3 DEF RecoverWrite
  <2>1. root \in Roots
    BY <1>0, <2>0, AppendProperties DEF Roots, ChainHash, MerkleRoot, RowStates
  <2>2. state \in RequestState
    <3> HIDE DEF root
    <3> QED
      BY <1>0, <1>3, <2>1 DEF RecoverWrite, RequestLocals, RequestState
  <2>3. request' \in [Requests -> RequestState]
    <3>1. Becomes(r, state)
      BY <1>3 DEF RecoverWrite
    <3> HIDE DEF state
    <3> QED
      BY <2>2, <3>1, RequestBecomes
  <2>4. CASE local[b] = NoBlock
    <3>1. UNCHANGED << local, rejected, late >>
      BY <1>3, <2>4 DEF RecoverWrite
    <3> QED
      BY <1>3, <2>3, <3>1 DEF RecoverWrite, TypeOK
  <2>5. CASE local[b] # NoBlock
    <3>1. Rebuilt(b, request[r].root, request[r].eventCount) \in LocalBlock /\ local[b] \in LocalBlock
      BY <1>0, <2>0, <2>5, RebuiltType
    <3>2. /\ local' = [local EXCEPT ![b] = Rebuilt(b, request[r].root, request[r].eventCount)]
          /\ rejected' = rejected \ {b}
          /\ late' = late \/ late' = late \cup {<< b, local[b].incidentId >>}
      BY <1>3, <2>5 DEF RecoverWrite
    <3>3. local' \in [Batches -> LocalBlock \cup {NoBlock}]
      BY <2>0, <3>1, <3>2 DEF TypeOK
    <3>4. late' \subseteq Batches \X Incidents
      BY <2>0, <3>1, <3>2 DEF TypeOK, LocalBlock
    <3> QED
      BY <1>3, <2>3, <3>2, <3>3, <3>4 DEF RecoverWrite, TypeOK
  <2> QED
    BY <2>4, <2>5
<1>4. CASE RecoverList(r)
  <2> DEFINE blocks == { local[s] : s \in CascadeTargets(request[r].incidentId, request[r].batchId) }
  <2>1. blocks \subseteq LocalBlock
    BY ActiveOnLocal DEF CascadeTargets
  <2>2. CascadeLeft(request[r].root, blocks) \in RequestState
    <3> HIDE DEF blocks
    <3> QED
      BY <1>0, <2>1, CascadeLeftType
  <2>3. request' \in [Requests -> RequestState]
    BY <1>4, <2>2, RequestBecomes DEF RecoverList
  <2> QED
    BY <1>4, <2>3 DEF RecoverList, TypeOK
<1>5. CASE CascadeRechain(r)
  <2> DEFINE d == OldestOf(request[r].blocks)
             b == d.batchId
             block == ChainedBlock(b, request[r].root, d.merkleRoot, d.eventCount)
             left == CascadeLeft(block.currentRoot, request[r].blocks \ {d})
  <2>2. d \in LocalBlock
    BY <1>0, <1>5, OldestInSet DEF CascadeRechain
  <2>3. block \in MainBlock
    <3> HIDE DEF d
    <3> QED
      BY <1>0, <2>2, ChainedBlockType DEF LocalBlock
  <2>4. local' \in [Batches -> LocalBlock \cup {NoBlock}]
    <3>1. local' = IF local[b] = NoBlock THEN local
                   ELSE [local EXCEPT ![b] =
                          [@ EXCEPT !.previousRoot = block.previousRoot,
                                    !.currentRoot = block.currentRoot,
                                    !.signature = block.signature]]
      BY <1>5 DEF CascadeRechain
    <3>2. b \in Batches
      BY <2>2 DEF LocalBlock
    <3> HIDE DEF block, b
    <3>3. local \in [Batches -> LocalBlock \cup {NoBlock}]
      BY DEF TypeOK
    <3>4. CASE local[b] = NoBlock
      BY <3>1, <3>3, <3>4
    <3>5. CASE local[b] # NoBlock
      <4> DEFINE doc == [local[b] EXCEPT !.previousRoot = block.previousRoot,
                                         !.currentRoot = block.currentRoot,
                                         !.signature = block.signature]
      <4>1. local[b] \in LocalBlock
        BY <3>2, <3>3, <3>5
      <4>2. doc \in LocalBlock
        BY <2>3, <4>1 DEF LocalBlock, MainBlock
      <4>3. local' = [local EXCEPT ![b] = doc]
        BY <3>1, <3>5
      <4> HIDE DEF doc
      <4> QED
        BY <3>3, <4>2, <4>3
    <3> QED
      BY <3>4, <3>5
  <2>5. request' \in [Requests -> RequestState]
    <3>1. Becomes(r, left)
      BY <1>5 DEF CascadeRechain
    <3>2. left \in RequestState
      <4> HIDE DEF block, d
      <4> QED
        BY <1>0, <2>3, CascadeLeftType DEF MainBlock
    <3> HIDE DEF left
    <3> QED
      BY <3>1, <3>2, RequestBecomes
  <2> QED
    BY <1>5, <2>4, <2>5 DEF CascadeRechain, TypeOK
<1> QED
  BY <1>1, <1>2, <1>3, <1>4, <1>5

\* The steps of a decision keep the types.
LEMMA TypeDecide ==
    ASSUME TypeOK, NEW r \in Requests,
           \/ \E b \in Batches : Acknowledge(r, b) \/ Discard(r, b)
           \/ DecideWrite(r)
    PROVE  TypeOK'
<1>0. /\ request[r] \in RequestState /\ RequestIdle \in RequestState
      /\ request[r].pc = "decide" => request[r].batchId \in Batches /\ request[r].status \in Verdicts
  BY ConstantTypes DEF TypeOK, RequestState, RequestLocals
<1>1. ASSUME NEW b \in Batches, NEW status \in Verdicts, DecideFind(r, b, status) PROVE TypeOK'
  <2>2. [RequestIdle EXCEPT !.pc = "decide", !.batchId = b, !.status = status] \in RequestState
    <3>1. RequestIdle \in RequestLocals
      BY <1>0 DEF RequestState
    <3>2. b \in 0 .. MaxBatches
      BY MaxBatchesAssumption DEF Batches
    <3> QED
      BY <3>1, <3>2 DEF RequestLocals, RequestState
  <2>3. request' \in [Requests -> RequestState]
    BY <1>1, <2>2, RequestBecomes DEF DecideFind
  <2> QED
    BY <1>1, <2>3 DEF DecideFind, TypeOK
<1>2. CASE DecideWrite(r)
  <2> DEFINE b == request[r].batchId
  <2>0. b \in Batches /\ request[r].status \in Verdicts
    BY <1>0, <1>2 DEF DecideWrite
  <2>1. request' \in [Requests -> RequestState]
    BY <1>2, RequestEnds DEF DecideWrite
  <2>2. CASE local[b] = NoBlock
    BY <1>2, <2>1, <2>2 DEF DecideWrite, TypeOK
  <2>3. CASE local[b] # NoBlock
    <3>1. local[b] \in LocalBlock
      BY <2>0, <2>3 DEF TypeOK
    <3>2. [local[b] EXCEPT !.status = request[r].status] \in LocalBlock
      BY <2>0, <3>1 DEF LocalBlock, LocalStatus, Verdicts
    <3>3. /\ local' = [local EXCEPT ![b] = [@ EXCEPT !.status = request[r].status]]
          /\ rejected' = rejected \cup {b}
          /\ late' = late \/ late' = late \cup {<< b, local[b].incidentId >>}
      BY <1>2, <2>3 DEF DecideWrite
    <3>4. local' \in [Batches -> LocalBlock \cup {NoBlock}]
      BY <2>0, <3>2, <3>3 DEF TypeOK
    <3>5. late' \subseteq Batches \X Incidents
      BY <2>0, <3>1, <3>3 DEF TypeOK, LocalBlock
    <3> QED
      BY <1>2, <2>0, <2>1, <3>3, <3>4, <3>5 DEF DecideWrite, TypeOK
  <2> QED
    BY <2>2, <2>3
<1> QED
  BY <1>1, <1>2 DEF Acknowledge, Discard, Verdicts

\* Network, restarts and changes behind the program's back keep the types.
LEMMA TypeEnvironment ==
    ASSUME TypeOK, \/ NetworkChange \/ Crash
                   \/ \E b \in Batches : Alter(b) \/ LoseRows(b)
    PROVE  TypeOK'
<1>1. CASE NetworkChange
  BY <1>1 DEF NetworkChange, TypeOK
<1>2. CASE Crash
  BY <1>2, ConstantTypes, MaxCrashesAssumption DEF Crash, TypeOK
<1>3. ASSUME NEW b \in Batches, Alter(b) PROVE TypeOK'
  <2>1. local[b] \in LocalBlock
    BY <1>3 DEF Alter, TypeOK, NoBlock, ActiveStatus
  <2>2. [local[b] EXCEPT !.eventCount = BatchSize + 1] \in LocalBlock
    BY <2>1, BatchSizeAssumption DEF LocalBlock
  <2>3. local' \in [Batches -> LocalBlock \cup {NoBlock}]
    BY <1>3, <2>2 DEF Alter, TypeOK
  <2> QED
    BY <1>3, <2>3 DEF Alter, TypeOK
<1>4. ASSUME NEW b \in Batches, LoseRows(b) PROVE TypeOK'
  BY <1>4 DEF LoseRows, TypeOK
<1> QED
  BY <1>1, <1>2, <1>3, <1>4

\* TypeOK is inductive.
LEMMA TypeStep == TypeOK /\ [Next]_vars => TypeOK'
<1> SUFFICES ASSUME TypeOK, [Next]_vars PROVE TypeOK'
  OBVIOUS
<1>1. CASE UNCHANGED vars
  BY <1>1 DEF vars, TypeOK
<1>2. CASE Next
  BY <1>2, TypeCreate, TypeCycle, TypeMerge, TypeRecover, TypeDecide, TypeEnvironment
  DEF Next, WorkerStep, RequestStart, RequestStep
<1> QED
  BY <1>1, <1>2

\* Every reachable state is well typed, for any number of incidents, batches
\* and restarts and for both settings of the switches.
THEOREM TypeCorrect == Spec => []TypeOK
BY TypeInit, TypeStep, PTL DEF Spec

=============================================================================
