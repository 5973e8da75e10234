--------------------------- MODULE LocalChainSafety ---------------------------
(***************************************************************************)
(* Safety of LocalChain for every number of incidents, batches and         *)
(* requests.  With the worker and any number of requests interleaving at   *)
(* every await:                                                            *)
(*   - MAIN stays rooted, whatever is restarted;                           *)
(*   - no batch is lost, but a contested one, whatever is restarted;       *)
(*   - a quarantined or rejected batch that is not contested does not      *)
(*     reach MAIN, no batch has two homes, no merge is refused by the      *)
(*     unique index, and the record of a merged epoch changes only by a    *)
(*     late write in that epoch, unless a restart cuts a merge;            *)
(*   - the epochs and their merge implement the abstract ledger, in which  *)
(*     a batch may become contested, whatever is restarted.                *)
(* A batch is contested from the moment a request has written its block    *)
(* by a check that held no more (history `late').                          *)
(*                                                                         *)
(* With one handler at a time (Overlap = FALSE) nothing is ever contested, *)
(* and                                                                     *)
(*   - MAIN verifies, however often the server is restarted;               *)
(*   - a verdict of the admin stands until its epoch is merged, and the    *)
(*     records of merged epochs match MAIN;                                *)
(*   - MAIN holds the recorded event counts, if no block is altered in an  *)
(*     epoch with a TAMPERED one and no restart cuts the flagging of an    *)
(*     epoch;                                                              *)
(*   - recovering in any order repairs an epoch, unless a restart cuts a   *)
(*     cascade.                                                            *)
(* These go by way of SerialNext: what a request has read is still so when *)
(* it writes (Solo), so that its handler is as good as one step.           *)
(***************************************************************************)
EXTENDS LocalChainProofs

-----------------------------------------------------------------------------
(* One handler at a time *)

\* Without Overlap a handler runs from its first to its last step alone, so all
\* of it is as good as one step, taken where it writes.  The proofs about
\* Overlap = FALSE are about those steps, SerialNext, over the variables of
\* LocalChain without the locals of the requests, of which only the cascade of
\* a recover is left.

\* What a request has still to re-chain.
CascadeBlocks(q) ==
    CASE q.pc = "list"    -> { local[s] : s \in CascadeTargets(q.incidentId, q.batchId) }
      [] q.pc = "cascade" -> q.blocks
      [] OTHER            -> {}

CascadeIdle == [runningRoot |-> << >>, blocks |-> {}]

Cascades == { r \in Requests : CascadeBlocks(request[r]) # {} }

cascade ==
    IF Cascades = {} THEN CascadeIdle
    ELSE LET r == CHOOSE r \in Cascades : TRUE
         IN [runningRoot |-> request[r].root, blocks |-> CascadeBlocks(request[r])]

serialVars == << networkUp, incident, local, main, rows, nextBatch,
                 worker, cascade, rejected, crashes >>

Alone == worker.pc = "idle" /\ cascade.blocks = {}

\* /create on an OPEN incident, and on MAIN.
CreateLocal(i) ==
    /\ Alone /\ i \in OpenIncidents
    /\ NextBatchStored
    /\ local' = [local EXCEPT ![nextBatch] =
                   StagedBlock(i, LastLocalRoot(WithStatus(i, LocalStatus)))]
    /\ UNCHANGED << networkUp, incident, main, worker, cascade, rejected, crashes >>

CreateMain ==
    /\ Alone
    /\ NextBatchStored
    /\ main' = Append(main, ChainedBlock(nextBatch, LastRoot(main),
                                         MerkleRoot(nextBatch, "PENDING"), BatchSize))
    /\ UNCHANGED << networkUp, incident, local, worker, cascade, rejected, crashes >>

\* The declaration of an incident, by /create or by the worker.
DeclareOutage(i) ==
    /\ worker.pc \in {"idle", "declare"} /\ incident[i].status = "NONE"
    /\ incident' = OpenIncidentDoc(i)
    /\ worker' \in {worker, WorkerIdle}
    /\ UNCHANGED << networkUp, local, main, rows, nextBatch, cascade, rejected, crashes >>

\* The decisions of the admin.
Recover(b) ==
    LET i    == local[b].incidentId
        root == LastLocalRoot(ActiveBefore(i, b))
    IN
    /\ Alone /\ local[b].status = "TAMPERED"
    /\ local' = [local EXCEPT ![b] = Rebuilt(b, root, BatchSize)]
    /\ cascade' = [ blocks |-> { local[s] : s \in CascadeTargets(i, b) },
                    runningRoot |-> IF CascadeTargets(i, b) = {} THEN << >>
                                    ELSE ChainHash(root, MerkleRoot(b, "BATCHED")) ]
    /\ rejected' = rejected \ {b}
    /\ UNCHANGED << networkUp, incident, main, rows, nextBatch, worker, crashes >>

Reject(b, status) ==
    /\ Alone /\ local[b].status = "TAMPERED"
    /\ local' = [local EXCEPT ![b] = [@ EXCEPT !.status = status]]
    /\ rejected' = rejected \cup {b}
    /\ UNCHANGED << networkUp, incident, main, rows, nextBatch, worker, cascade, crashes >>

\* One turn of the cascade.
CascadeTurn ==
    LET d     == OldestOf(cascade.blocks)
        b     == d.batchId
        block == ChainedBlock(b, cascade.runningRoot, d.merkleRoot, d.eventCount)
        rest  == cascade.blocks \ {d}
    IN
    /\ worker.pc = "idle" /\ cascade.blocks # {}
    /\ local' = IF local[b] = NoBlock THEN local
                ELSE [local EXCEPT ![b] =
                       [@ EXCEPT !.previousRoot = block.previousRoot,
                                 !.currentRoot = block.currentRoot,
                                 !.signature = block.signature]]
    /\ cascade' = [ blocks |-> rest,
                    runningRoot |-> IF rest = {} THEN << >> ELSE block.currentRoot ]
    /\ UNCHANGED << networkUp, incident, main, rows, nextBatch, worker, rejected, crashes >>

\* The cycle of the worker up to its merges: it changes nothing but incidents.
CycleStep == OutageFind \/ ResolveIncident \/ ListIncidents

SerialNext ==
    \/ \E i \in Incidents : CreateLocal(i) \/ DeclareOutage(i)
    \/ CreateMain
    \/ (CycleStep \/ MergeStep) /\ UNCHANGED cascade
    \/ \E b \in Batches : Recover(b) \/ Reject(b, "ACKNOWLEDGED") \/ Reject(b, "DISCARDED")
    \/ CascadeTurn
    \/ NetworkChange /\ UNCHANGED cascade
    \/ Crash /\ cascade' = CascadeIdle
    \/ \E b \in Batches : (Alter(b) \/ LoseRows(b)) /\ UNCHANGED cascade

\* What the request that runs has read is still so when it writes.
ReadsHold(q) ==
    /\ q.pc = "declare" => incident[q.incidentId].status = "NONE"
    /\ q.pc \in {"tail", "stage"} => q.incidentId \in OpenIncidents
    /\ q.pc = "stage" => q.root = LastLocalRoot(WithStatus(q.incidentId, LocalStatus))
    /\ q.pc = "append" => q.root = LastRoot(main)
    /\ q.pc \in {"decide", "rebuild", "rewrite"} => local[q.batchId].status = "TAMPERED"
    /\ q.pc \in {"rebuild", "rewrite"} => local[q.batchId].incidentId = q.incidentId
    /\ q.pc = "rewrite" =>
          /\ q.eventCount = BatchSize
          /\ q.root = LastLocalRoot(ActiveBefore(q.incidentId, q.batchId))

AllIdle == \A r \in Requests : request[r].pc = "idle"

Solo ==
    /\ late = {}
    /\ \A r \in Requests : request[r].pc # "idle" =>
          /\ worker.pc = "idle"
          /\ \A q \in Requests \ {r} : request[q].pc = "idle"
          /\ ReadsHold(request[r])
    /\ worker.pc = "declare" =>
          worker.incidentId \in Incidents /\ incident[worker.incidentId].status = "NONE"
    /\ \A b \in Batches : rows[b] \in {0, BatchSize}

SerialTypeOK == TypeOK /\ Solo

\* The cascade of the request that runs, and none when no request does.
LEMMA CascadeOfOne ==
    ASSUME NEW r \in Requests, \A q \in Requests \ {r} : CascadeBlocks(request[q]) = {}
    PROVE  cascade = IF CascadeBlocks(request[r]) = {} THEN CascadeIdle
                     ELSE [ runningRoot |-> request[r].root, blocks |-> CascadeBlocks(request[r]) ]
<1>1. CASE CascadeBlocks(request[r]) = {}
  <2>1. Cascades = {}
    BY <1>1 DEF Cascades
  <2> QED
    BY <1>1, <2>1 DEF cascade
<1>2. CASE CascadeBlocks(request[r]) # {}
  <2>1. Cascades = {r}
    BY <1>2 DEF Cascades
  <2> QED
    BY <1>2, <2>1 DEF cascade
<1> QED
  BY <1>1, <1>2

LEMMA CascadeOfNone ==
    ASSUME \A q \in Requests : CascadeBlocks(request[q]) = {}
    PROVE  cascade = CascadeIdle
BY DEF Cascades, cascade

LEMMA IdleCascadesNot ==
    ASSUME NEW q, q.pc \notin {"list", "cascade"}
    PROVE  CascadeBlocks(q) = {}
BY DEF CascadeBlocks

\* Where all requests are idle no block is left to re-chain.
LEMMA IdleCascade ==
    ASSUME AllIdle
    PROVE  cascade = CascadeIdle
BY CascadeOfNone, IdleCascadesNot DEF AllIdle

\* The cascade is a matter of the requests and the LOCAL blocks.
LEMMA CascadeStays ==
    ASSUME UNCHANGED << request, local >>
    PROVE  UNCHANGED cascade
BY DEF cascade, Cascades, CascadeBlocks, CascadeTargets, Active, Tampered, WithStatus

\* A request that arrives finds nothing under way, and changes nothing.
LEMMA SoloStart ==
    ASSUME SerialTypeOK, Overlap = FALSE, NEW r \in Requests, RequestStart(r)
    PROVE  Solo' /\ UNCHANGED serialVars
<1> DEFINE Arrives ==
             /\ UNCHANGED << networkUp, incident, local, main, rows, nextBatch,
                            worker, rejected, late, crashes >>
             /\ MayStart
             /\ \E q : /\ Becomes(r, q)
                       /\ q.pc \notin {"stage", "rewrite", "list", "cascade"}
                       /\ ReadsHold(q)
<1>1. Arrives
  <2>1. CASE CreateFind(r)
    <3>1. PICK i \in Incidents, pc \in {"tail", "declare"} :
            /\ Becomes(r, [RequestIdle EXCEPT !.pc = pc, !.incidentId = i])
            /\ pc = "tail" => i \in OpenIncidents
            /\ pc = "declare" => incident[i].status = "NONE"
      BY <2>1 DEF CreateFind, OpenIncidents, Unused
    <3> DEFINE q == [RequestIdle EXCEPT !.pc = pc, !.incidentId = i]
    <3>2. q.pc = pc /\ q.incidentId = i
      BY DEF RequestIdle
    <3> HIDE DEF q
    <3>3. ReadsHold(q)
      BY <3>1, <3>2 DEF ReadsHold
    <3>4. Becomes(r, q)
      BY <3>1 DEF q
    <3> QED
      BY <2>1, <3>2, <3>3, <3>4 DEF CreateFind, Starts
  <2>2. CASE AppendTail(r)
    <3> DEFINE q == [RequestIdle EXCEPT !.pc = "append", !.root = LastRoot(main)]
    <3>1. q.pc = "append" /\ q.root = LastRoot(main)
      BY DEF RequestIdle
    <3>2. Becomes(r, q)
      BY <2>2 DEF AppendTail
    <3> HIDE DEF q
    <3>3. ReadsHold(q)
      BY <3>1 DEF ReadsHold
    <3> QED
      BY <2>2, <3>1, <3>2, <3>3 DEF AppendTail, Starts
  <2>3. ASSUME NEW b \in Batches, RecoverFind(r, b) PROVE Arrives
    <3> DEFINE q == [RequestIdle EXCEPT !.pc = "rebuild", !.batchId = b,
                                        !.incidentId = local[b].incidentId]
    <3>1. q.pc = "rebuild" /\ q.batchId = b /\ q.incidentId = local[b].incidentId
      BY DEF RequestIdle
    <3>2. Becomes(r, q) /\ local[b].status = "TAMPERED"
      BY <2>3 DEF RecoverFind
    <3> HIDE DEF q
    <3>3. ReadsHold(q)
      BY <3>1, <3>2 DEF ReadsHold
    <3> QED
      BY <2>3, <3>1, <3>2, <3>3 DEF RecoverFind, Starts
  <2>4. ASSUME NEW b \in Batches, NEW status, DecideFind(r, b, status) PROVE Arrives
    <3> DEFINE q == [RequestIdle EXCEPT !.pc = "decide", !.batchId = b, !.status = status]
    <3>1. q.pc = "decide" /\ q.batchId = b
      BY DEF RequestIdle
    <3>2. Becomes(r, q) /\ local[b].status = "TAMPERED"
      BY <2>4 DEF DecideFind
    <3> HIDE DEF q
    <3>3. ReadsHold(q)
      BY <3>1, <3>2 DEF ReadsHold
    <3> QED
      BY <2>4, <3>1, <3>2, <3>3 DEF DecideFind, Starts
  <2> QED
    BY <2>1, <2>2, <2>3, <2>4 DEF RequestStart, Acknowledge, Discard
<1>2. worker.pc = "idle" /\ AllIdle
  BY <1>1 DEF MayStart, Quiet, AllIdle
<1>3. PICK q : /\ Becomes(r, q) /\ ReadsHold(q)
               /\ q.pc \notin {"stage", "rewrite", "list", "cascade"}
  BY <1>1
<1>4. request'[r] = q /\ \A p \in Requests \ {r} : request'[p] = request[p] /\ request[p].pc = "idle"
  BY <1>2, <1>3 DEF Becomes, SerialTypeOK, TypeOK, AllIdle
<1>5. ReadsHold(request[r])'
  BY <1>1, <1>3, <1>4 DEF ReadsHold, OpenIncidents, LastRoot
<1>6. Solo'
  BY <1>1, <1>2, <1>4, <1>5 DEF Solo, SerialTypeOK
<1>7. \A p \in Requests : CascadeBlocks(request[p])' = {}
  BY <1>3, <1>4 DEF CascadeBlocks
<1>8. cascade = CascadeIdle /\ cascade' = CascadeIdle
  BY <1>2, <1>7, IdleCascade DEF cascade, Cascades
<1> QED
  BY <1>1, <1>6, <1>8 DEF serialVars

\* The request that runs takes a step: it is the only one still.
LEMMA SoloMoves ==
    ASSUME SerialTypeOK, NEW r \in Requests, request[r].pc # "idle", NEW q, Becomes(r, q),
           late' = {}, worker' = worker,
           \A b \in Batches : rows'[b] \in {0, BatchSize},
           ReadsHold(request[r])'
    PROVE  /\ Solo'
           /\ request'[r] = q
           /\ worker.pc = "idle"
           /\ cascade = IF CascadeBlocks(request[r]) = {} THEN CascadeIdle
                        ELSE [ runningRoot |-> request[r].root, blocks |-> CascadeBlocks(request[r]) ]
           /\ cascade' = IF CascadeBlocks(request[r])' = {} THEN CascadeIdle
                         ELSE [ runningRoot |-> q.root, blocks |-> CascadeBlocks(request[r])' ]
<1>1. /\ worker.pc = "idle" /\ request'[r] = q
      /\ \A p \in Requests \ {r} : request'[p] = request[p] /\ request[p].pc = "idle"
  BY DEF Becomes, SerialTypeOK, TypeOK, Solo
<1>2. Solo'
  BY <1>1 DEF Solo, SerialTypeOK
<1>3. \A p \in Requests \ {r} : CascadeBlocks(request[p]) = {} /\ CascadeBlocks(request[p])' = {}
  BY <1>1 DEF CascadeBlocks
<1>4. cascade' = IF CascadeBlocks(request[r])' = {} THEN CascadeIdle
                 ELSE [ runningRoot |-> request'[r].root, blocks |-> CascadeBlocks(request[r])' ]
  <2>1. CASE CascadeBlocks(request[r])' = {}
    <3>1. Cascades' = {}
      BY <1>3, <2>1 DEF Cascades
    <3> QED
      BY <2>1, <3>1 DEF cascade
  <2>2. CASE CascadeBlocks(request[r])' # {}
    <3>1. Cascades' = {r}
      BY <1>3, <2>2 DEF Cascades
    <3> QED
      BY <2>2, <3>1 DEF cascade
  <2> QED
    BY <2>1, <2>2
<1> QED
  BY <1>1, <1>2, <1>3, <1>4, CascadeOfOne

\* The request that runs returns or throws.
LEMMA SoloEnds ==
    ASSUME SerialTypeOK, NEW r \in Requests, request[r].pc # "idle", Ends(r),
           late' = {}, worker' = worker,
           \A b \in Batches : rows'[b] \in {0, BatchSize}
    PROVE  /\ Solo' /\ worker.pc = "idle" /\ cascade' = CascadeIdle
           /\ cascade = IF CascadeBlocks(request[r]) = {} THEN CascadeIdle
                        ELSE [ runningRoot |-> request[r].root, blocks |-> CascadeBlocks(request[r]) ]
<1>1. Becomes(r, RequestIdle) /\ request'[r] = RequestIdle
  BY DEF Ends, Becomes, SerialTypeOK, TypeOK
<1>2. RequestIdle.pc = "idle"
  BY DEF RequestIdle
<1>3. ReadsHold(request[r])'
  BY <1>1, <1>2 DEF ReadsHold
<1>4. CascadeBlocks(request[r])' = {}
  BY <1>1, <1>2 DEF CascadeBlocks
<1> QED
  BY <1>1, <1>3, <1>4, SoloMoves

\* A new batch has its rows.
LEMMA NewRows ==
    ASSUME SerialTypeOK, NextBatchStored
    PROVE  \A b \in Batches : rows'[b] \in {0, BatchSize}
BY DEF NextBatchStored, SerialTypeOK, Solo, TypeOK

\* /create, without overlap: what it has read is still so when it writes.
LEMMA SoloCreate ==
    ASSUME SerialTypeOK, NEW r \in Requests,
           CreateDeclare(r) \/ CreateTail(r) \/ CreateStage(r) \/ AppendBlock(r)
    PROVE  Solo' /\ (SerialNext \/ UNCHANGED serialVars)
<1>0. /\ request[r] \in RequestState
      /\ late = {} /\ \A b \in Batches : rows[b] \in {0, BatchSize}
  BY DEF SerialTypeOK, TypeOK, Solo
<1>1. CASE CreateDeclare(r)
  <2> DEFINE i == request[r].incidentId
             q == [request[r] EXCEPT !.pc = "tail"]
  <2>1. i \in Incidents /\ request[r].pc = "declare" /\ incident[i].status = "NONE"
    BY <1>0, <1>1 DEF CreateDeclare, RequestState, SerialTypeOK, Solo, ReadsHold
  <2>2. q.pc = "tail" /\ q.incidentId = i
    BY <1>0 DEF RequestState, RequestLocals
  <2>3. Becomes(r, q) /\ incident' = OpenIncidentDoc(i)
    BY <1>1 DEF CreateDeclare
  <2>4. request'[r] = q
    BY <2>3 DEF Becomes, SerialTypeOK, TypeOK
  <2>5. i \in OpenIncidents'
    BY <2>1, <2>3 DEF OpenIncidentDoc, OpenIncidents, SerialTypeOK, TypeOK, IncidentDoc
  <2> HIDE DEF q
  <2>6. ReadsHold(request[r])'
    BY <2>2, <2>4, <2>5 DEF ReadsHold
  <2>7. CascadeBlocks(request[r]) = {} /\ CascadeBlocks(request[r])' = {}
    BY <2>1, <2>2, <2>4 DEF CascadeBlocks
  <2>8. Solo' /\ worker.pc = "idle" /\ UNCHANGED cascade
    BY <1>0, <1>1, <2>1, <2>3, <2>6, <2>7, SoloMoves DEF CreateDeclare
  <2>9. DeclareOutage(i)
    BY <1>1, <2>1, <2>3, <2>8 DEF CreateDeclare, DeclareOutage
  <2> QED
    BY <2>1, <2>8, <2>9 DEF SerialNext
<1>2. CASE CreateTail(r)
  <2>0. PICK i, root, q :
          /\ i = request[r].incidentId /\ root = LastLocalRoot(WithStatus(i, LocalStatus))
          /\ q = [request[r] EXCEPT !.pc = "stage", !.root = root]
    OBVIOUS
  <2>1. request[r].pc = "tail" /\ i \in OpenIncidents
    BY <1>2, <2>0 DEF CreateTail, SerialTypeOK, Solo, ReadsHold
  <2>2. q.pc = "stage" /\ q.incidentId = i /\ q.root = root
    BY <1>0, <2>0 DEF RequestState, RequestLocals
  <2>3. Becomes(r, q) /\ UNCHANGED << incident, local >>
    BY <1>2, <2>0 DEF CreateTail
  <2>4. request'[r] = q
    BY <2>3 DEF Becomes, SerialTypeOK, TypeOK
  <2>5. root = LastLocalRoot(WithStatus(i, LocalStatus))'
    BY <2>0, <2>3 DEF LastLocalRoot, WithStatus
  <2>6. ReadsHold(request[r])'
    BY <2>1, <2>2, <2>3, <2>4, <2>5 DEF ReadsHold, OpenIncidents
  <2>7. CascadeBlocks(request[r]) = {} /\ CascadeBlocks(request[r])' = {}
    BY <2>1, <2>2, <2>4 DEF CascadeBlocks
  <2>8. Solo' /\ worker.pc = "idle" /\ UNCHANGED cascade
    BY <1>0, <1>2, <2>1, <2>3, <2>6, <2>7, SoloMoves DEF CreateTail
  <2> QED
    BY <1>2, <2>8 DEF CreateTail, serialVars
<1>3. CASE CreateStage(r)
  <2> DEFINE i == request[r].incidentId
  <2>1. /\ request[r].pc = "stage" /\ i \in OpenIncidents
        /\ request[r].root = LastLocalRoot(WithStatus(i, LocalStatus))
    BY <1>3 DEF CreateStage, SerialTypeOK, Solo, ReadsHold
  <2>2. late' = {} /\ NextBatchStored /\ Ends(r) /\ worker' = worker
    BY <1>0, <1>3, <2>1 DEF CreateStage, OpenIncidents
  <2>3. CascadeBlocks(request[r]) = {}
    BY <2>1 DEF CascadeBlocks
  <2>4. Solo' /\ worker.pc = "idle" /\ cascade = CascadeIdle /\ UNCHANGED cascade
    BY <2>1, <2>2, <2>3, NewRows, SoloEnds
  <2>5. CreateLocal(i)
    BY <1>3, <2>1, <2>4 DEF CreateStage, CreateLocal, Alone, CascadeIdle
  <2> QED
    BY <2>1, <2>4, <2>5 DEF SerialNext, OpenIncidents
<1>4. CASE AppendBlock(r)
  <2>1. request[r].pc = "append" /\ request[r].root = LastRoot(main)
    BY <1>4 DEF AppendBlock, SerialTypeOK, Solo, ReadsHold
  <2>2. late' = {} /\ NextBatchStored /\ Ends(r) /\ worker' = worker
    BY <1>0, <1>4 DEF AppendBlock
  <2>3. CascadeBlocks(request[r]) = {}
    BY <2>1 DEF CascadeBlocks
  <2>4. Solo' /\ worker.pc = "idle" /\ cascade = CascadeIdle /\ UNCHANGED cascade
    BY <2>1, <2>2, <2>3, NewRows, SoloEnds
  <2>5. CreateMain
    BY <1>4, <2>1, <2>4 DEF AppendBlock, CreateMain, Alone, CascadeIdle
  <2> QED
    BY <2>4, <2>5 DEF SerialNext
<1> QED
  BY <1>1, <1>2, <1>3, <1>4

\* A block that is rebuilt keeps its epoch, and the active blocks after it.
LEMMA RebuiltTargets ==
    ASSUME TypeOK, NEW b \in Batches, local[b].status = "TAMPERED", NEW i, local[b].incidentId = i,
           NEW doc \in LocalBlock, doc.incidentId = i, doc.status = "PENDING_VERIFICATION",
           local' = [local EXCEPT ![b] = doc]
    PROVE  /\ CascadeTargets(i, b)' = CascadeTargets(i, b)
           /\ \A s \in CascadeTargets(i, b) : local'[s] = local[s]
<1>1. /\ local'[b] = doc
      /\ \A s \in Batches : s # b => local'[s] = local[s]
  BY DEF TypeOK
<1>2. \A s \in Batches : s > b =>
         (s \in Active(i) <=> s \in Active(i)') /\ (s \in Tampered(i) <=> s \in Tampered(i)')
  BY <1>1 DEF Active, Tampered, WithStatus, Batches
<1>3. \A s : s \in CascadeTargets(i, b) <=> s \in CascadeTargets(i, b)'
  <2>1. \A s, t \in Batches : b < t /\ t < s => b < s
    BY MaxBatchesAssumption DEF Batches
  <2> QED
    BY <1>2, <2>1 DEF CascadeTargets, Active, Tampered, WithStatus
<1>4. \A s \in CascadeTargets(i, b) : s \in Batches /\ s # b
  BY MaxBatchesAssumption DEF CascadeTargets, Active, WithStatus, Batches
<1> QED
  BY <1>1, <1>3, <1>4

\* A recover, without overlap: the previous block it has read is still the
\* previous one when it writes, and the list of the blocks after it is known then.
LEMMA SoloRecover ==
    ASSUME SerialTypeOK, NEW r \in Requests, RecoverRead(r) \/ RecoverWrite(r) \/ RecoverList(r)
    PROVE  Solo' /\ (SerialNext \/ UNCHANGED serialVars)
<1>0. /\ request[r] \in RequestState
      /\ late = {} /\ \A b \in Batches : rows[b] \in {0, BatchSize}
  BY DEF SerialTypeOK, TypeOK, Solo
<1>1. CASE RecoverRead(r)
  <2>0. PICK b, i, root, q :
          /\ b = request[r].batchId /\ i = request[r].incidentId
          /\ root = LastLocalRoot(ActiveBefore(i, b))
          /\ q = [request[r] EXCEPT !.pc = "rewrite", !.eventCount = rows[b], !.root = root]
    OBVIOUS
  <2>1. request[r].pc = "rebuild" /\ local[b].status = "TAMPERED" /\ local[b].incidentId = i
    BY <1>1, <2>0 DEF RecoverRead, SerialTypeOK, Solo, ReadsHold
  <2>2. CascadeBlocks(request[r]) = {}
    BY <2>1 DEF CascadeBlocks
  <2>3. CASE rows[b] = 0
    <3>1. Ends(r)
      BY <1>1, <2>0, <2>3 DEF RecoverRead
    <3>2. Solo' /\ UNCHANGED cascade
      BY <1>0, <1>1, <2>1, <2>2, <3>1, SoloEnds DEF RecoverRead
    <3> QED
      BY <1>1, <3>2 DEF RecoverRead, serialVars
  <2>4. CASE rows[b] # 0
    <3>1. Becomes(r, q) /\ UNCHANGED local
      BY <1>1, <2>0, <2>4 DEF RecoverRead
    <3>2. /\ q.pc = "rewrite" /\ q.batchId = b /\ q.incidentId = i
          /\ q.eventCount = rows[b] /\ q.root = root
      BY <1>0, <2>0 DEF RequestState, RequestLocals
    <3>3. b \in Batches
      BY <1>0, <2>0, <2>1 DEF RequestState
    <3>4. request'[r] = q
      BY <3>1 DEF Becomes, SerialTypeOK, TypeOK
    <3>5. root = LastLocalRoot(ActiveBefore(i, b))'
      BY <2>0, <3>1 DEF LastLocalRoot, ActiveBefore, Active, WithStatus
    <3>6. ReadsHold(request[r])'
      BY <1>0, <2>1, <2>4, <3>1, <3>2, <3>3, <3>4, <3>5 DEF ReadsHold
    <3>7. CascadeBlocks(request[r])' = {}
      BY <3>2, <3>4 DEF CascadeBlocks
    <3>8. Solo' /\ UNCHANGED cascade
      BY <1>0, <1>1, <2>1, <2>2, <3>1, <3>6, <3>7, SoloMoves DEF RecoverRead
    <3> QED
      BY <1>1, <3>8 DEF RecoverRead, serialVars
  <2> QED
    BY <2>3, <2>4
<1>2. CASE RecoverWrite(r)
  <2>0. PICK b, i, root, new, q :
          /\ b = request[r].batchId /\ i = request[r].incidentId
          /\ root = request[r].root /\ new = ChainHash(root, MerkleRoot(b, "BATCHED"))
          /\ q = [request[r] EXCEPT !.pc = "list", !.eventCount = 0, !.root = new]
    OBVIOUS
  <2>1. /\ request[r].pc = "rewrite" /\ local[b].status = "TAMPERED" /\ local[b].incidentId = i
        /\ request[r].eventCount = BatchSize /\ root = LastLocalRoot(ActiveBefore(i, b))
    BY <1>2, <2>0 DEF RecoverWrite, SerialTypeOK, Solo, ReadsHold
  <2>2. b \in Batches /\ local[b] # NoBlock /\ root \in Roots
    <3>1. b \in Batches /\ root \in Roots
      BY <1>0, <2>0, <2>1 DEF RequestState, RequestLocals
    <3>2. local[b] # NoBlock
      BY <2>1 DEF NoBlock
    <3> QED
      BY <3>1, <3>2
  <2>3. PICK doc : doc = Rebuilt(b, root, BatchSize)
    OBVIOUS
  <2>4. /\ local' = [local EXCEPT ![b] = doc] /\ rejected' = rejected \ {b} /\ late' = {}
    BY <1>0, <1>2, <2>0, <2>1, <2>2, <2>3 DEF RecoverWrite
  <2>5. doc \in LocalBlock /\ doc.incidentId = i /\ doc.status = "PENDING_VERIFICATION"
    BY <2>1, <2>2, <2>3, RebuiltType, BatchSizeAssumption DEF SerialTypeOK
  <2>6. /\ CascadeTargets(i, b)' = CascadeTargets(i, b)
        /\ \A s \in CascadeTargets(i, b) : local'[s] = local[s]
    BY <2>1, <2>2, <2>4, <2>5, RebuiltTargets DEF SerialTypeOK
  <2>7. q.pc = "list" /\ q.batchId = b /\ q.incidentId = i /\ q.root = new
    BY <1>0, <2>0 DEF RequestState, RequestLocals
  <2>8. Becomes(r, q)
    BY <1>2, <2>0 DEF RecoverWrite
  <2>9. request'[r] = q
    BY <2>8 DEF Becomes, SerialTypeOK, TypeOK
  <2>10. ReadsHold(request[r])'
    BY <2>7, <2>9 DEF ReadsHold
  <2>11. CascadeBlocks(request[r])' = { local[s] : s \in CascadeTargets(i, b) }
    <3>1. CascadeBlocks(request[r])' = { local'[s] : s \in CascadeTargets(i, b)' }
      <4>1. CascadeBlocks(request[r])' = { local[s] : s \in CascadeTargets(request[r].incidentId, request[r].batchId) }'
        BY <2>7, <2>9 DEF CascadeBlocks
      <4>2. CascadeTargets(request[r].incidentId, request[r].batchId)' = CascadeTargets(i, b)'
        BY <2>7, <2>9 DEF CascadeTargets, Active, Tampered, WithStatus
      <4> QED
        BY <4>1, <4>2
    <3> QED
      BY <2>6, <3>1
  <2>12. CascadeBlocks(request[r]) = {}
    BY <2>1 DEF CascadeBlocks
  <2>13. /\ Solo' /\ worker.pc = "idle" /\ cascade = CascadeIdle
         /\ cascade' = IF CascadeBlocks(request[r])' = {} THEN CascadeIdle
                       ELSE [ runningRoot |-> new, blocks |-> CascadeBlocks(request[r])' ]
    BY <1>0, <1>2, <2>1, <2>4, <2>7, <2>8, <2>10, <2>12, SoloMoves DEF RecoverWrite
  <2>14. cascade' = [ blocks |-> { local[s] : s \in CascadeTargets(i, b) },
                      runningRoot |-> IF CascadeTargets(i, b) = {} THEN << >> ELSE new ]
    <3>1. { local[s] : s \in CascadeTargets(i, b) } = {} <=> CascadeTargets(i, b) = {}
      OBVIOUS
    <3> QED
      BY <2>11, <2>13, <3>1 DEF CascadeIdle
  <2>15. Recover(b)
    <3>1. Alone
      BY <2>13 DEF Alone, CascadeIdle
    <3> QED
      BY <1>2, <2>0, <2>1, <2>3, <2>4, <2>14, <3>1 DEF RecoverWrite, Recover
  <2> QED
    BY <2>2, <2>13, <2>15 DEF SerialNext
<1>3. CASE RecoverList(r)
  <2>0. PICK b, i, root, blocks, q :
          /\ b = request[r].batchId /\ i = request[r].incidentId /\ root = request[r].root
          /\ blocks = { local[s] : s \in CascadeTargets(i, b) }
          /\ q = CascadeLeft(root, blocks)
    OBVIOUS
  <2>1. request[r].pc = "list" /\ Becomes(r, q)
    BY <1>3, <2>0 DEF RecoverList
  <2>2. request'[r] = q
    BY <2>1 DEF Becomes, SerialTypeOK, TypeOK
  <2>3. CascadeBlocks(request[r]) = blocks
    BY <2>0, <2>1 DEF CascadeBlocks
  <2>4. /\ q.pc \in {"idle", "cascade"} /\ (q.pc = "idle" <=> blocks = {})
        /\ q.blocks = blocks /\ (blocks # {} => q.root = root)
    BY <2>0 DEF CascadeLeft, RequestIdle
  <2>5. ReadsHold(request[r])'
    BY <2>2, <2>4 DEF ReadsHold
  <2>6. CascadeBlocks(request[r])' = blocks
    BY <2>2, <2>4 DEF CascadeBlocks
  <2>7. Solo' /\ UNCHANGED cascade
    <3>1. request[r].pc # "idle" /\ UNCHANGED << late, worker, rows >>
      BY <1>3, <2>1 DEF RecoverList
    <3>2. /\ Solo'
          /\ cascade = IF blocks = {} THEN CascadeIdle
                       ELSE [runningRoot |-> root, blocks |-> blocks]
          /\ cascade' = IF blocks = {} THEN CascadeIdle
                        ELSE [runningRoot |-> q.root, blocks |-> blocks]
      BY <1>0, <2>0, <2>1, <2>3, <2>5, <2>6, <3>1, SoloMoves
    <3> QED
      BY <2>4, <3>2
  <2> QED
    BY <1>3, <2>7 DEF RecoverList, serialVars
<1> QED
  BY <1>1, <1>2, <1>3

\* One turn of the cascade of the request that runs.
LEMMA SoloRechain ==
    ASSUME SerialTypeOK, NEW r \in Requests, CascadeRechain(r)
    PROVE  Solo' /\ CascadeTurn
<1>0. /\ request[r] \in RequestState
      /\ late = {} /\ \A b \in Batches : rows[b] \in {0, BatchSize}
  BY DEF SerialTypeOK, TypeOK, Solo
<1> DEFINE d     == OldestOf(request[r].blocks)
           block == ChainedBlock(d.batchId, request[r].root, d.merkleRoot, d.eventCount)
<1>1. PICK rest, root, q :
        rest = request[r].blocks \ {d} /\ root = block.currentRoot /\ q = CascadeLeft(root, rest)
  OBVIOUS
<1>2. request[r].pc = "cascade" /\ request[r].blocks # {} /\ Becomes(r, q)
  BY <1>0, <1>1 DEF CascadeRechain, RequestState
<1>3. request'[r] = q
  BY <1>2 DEF Becomes, SerialTypeOK, TypeOK
<1>4. CascadeBlocks(request[r]) = request[r].blocks
  BY <1>2 DEF CascadeBlocks
<1>5. /\ q.pc \in {"idle", "cascade"} /\ (q.pc = "idle" <=> rest = {})
      /\ q.blocks = rest /\ (rest # {} => q.root = root)
  BY <1>1 DEF CascadeLeft, RequestIdle
<1>6. ReadsHold(request[r])'
  BY <1>3, <1>5 DEF ReadsHold
<1>7. CascadeBlocks(request[r])' = rest
  BY <1>3, <1>5 DEF CascadeBlocks
<1>8. /\ Solo' /\ worker.pc = "idle"
      /\ cascade = [ runningRoot |-> request[r].root, blocks |-> request[r].blocks ]
      /\ cascade' = IF rest = {} THEN CascadeIdle ELSE [ runningRoot |-> q.root, blocks |-> rest ]
  <2>1. late' = {} /\ UNCHANGED << worker, rows >>
    BY <1>0 DEF CascadeRechain
  <2> QED
    BY <1>0, <1>2, <1>4, <1>6, <1>7, <2>1, SoloMoves
<1>9. cascade.blocks = request[r].blocks /\ cascade.runningRoot = request[r].root
  BY <1>8
<1>10. cascade' = [ blocks |-> rest, runningRoot |-> IF rest = {} THEN << >> ELSE root ]
  BY <1>5, <1>8 DEF CascadeIdle
<1>11. /\ local' = IF local[d.batchId] = NoBlock THEN local
                   ELSE [local EXCEPT ![d.batchId] =
                          [@ EXCEPT !.previousRoot = block.previousRoot,
                                    !.currentRoot = block.currentRoot,
                                    !.signature = block.signature]]
       /\ UNCHANGED << networkUp, incident, main, rows, nextBatch, worker, rejected, crashes >>
  BY DEF CascadeRechain
<1>12. CascadeTurn
  <2> DEFINE e == OldestOf(cascade.blocks)
             next == ChainedBlock(e.batchId, cascade.runningRoot, e.merkleRoot, e.eventCount)
  <2>1. e = d /\ next = block /\ cascade.blocks \ {e} = rest
    BY <1>1, <1>9
  <2> HIDE DEF d, block
  <2>2. /\ local' = IF local[e.batchId] = NoBlock THEN local
                    ELSE [local EXCEPT ![e.batchId] =
                           [@ EXCEPT !.previousRoot = next.previousRoot,
                                     !.currentRoot = next.currentRoot,
                                     !.signature = next.signature]]
        /\ cascade' = [ blocks |-> cascade.blocks \ {e},
                        runningRoot |-> IF cascade.blocks \ {e} = {} THEN << >> ELSE next.currentRoot ]
    <3> HIDE DEF e, next
    <3> QED
      BY <1>1, <1>10, <1>11, <2>1
  <2> QED
    BY <1>2, <1>8, <1>9, <1>11, <2>2 DEF CascadeTurn
<1> QED
  BY <1>8, <1>12

\* A decision: the block is still TAMPERED when the verdict is written.
LEMMA SoloDecide ==
    ASSUME SerialTypeOK, NEW r \in Requests, DecideWrite(r)
    PROVE  Solo' /\ SerialNext
<1>0. /\ request[r] \in RequestState
      /\ late = {} /\ \A b \in Batches : rows[b] \in {0, BatchSize}
  BY DEF SerialTypeOK, TypeOK, Solo
<1>1. PICK b, status : b = request[r].batchId /\ status = request[r].status
  OBVIOUS
<1>2. request[r].pc = "decide" /\ local[b].status = "TAMPERED"
  BY <1>1 DEF DecideWrite, SerialTypeOK, Solo, ReadsHold
<1>3. b \in Batches /\ status \in Verdicts /\ local[b] # NoBlock
  <2>1. local[b] # NoBlock
    BY <1>2 DEF NoBlock
  <2> QED
    BY <1>0, <1>1, <1>2, <2>1 DEF RequestState
<1>4. CascadeBlocks(request[r]) = {}
  BY <1>2 DEF CascadeBlocks
<1>5. /\ local' = [local EXCEPT ![b] = [@ EXCEPT !.status = status]]
      /\ rejected' = rejected \cup {b} /\ late' = {} /\ Ends(r)
      /\ UNCHANGED << networkUp, incident, main, rows, nextBatch, worker, crashes >>
  BY <1>0, <1>1, <1>2, <1>3 DEF DecideWrite
<1>6. Solo' /\ worker.pc = "idle" /\ cascade = CascadeIdle /\ UNCHANGED cascade
  BY <1>0, <1>2, <1>4, <1>5, SoloEnds
<1>7. Reject(b, status)
  BY <1>2, <1>5, <1>6 DEF Reject, Alone, CascadeIdle
<1> QED
  BY <1>3, <1>6, <1>7 DEF SerialNext, Verdicts

\* What has been read still holds when neither documents nor requests change.
LEMMA ReadsStay ==
    ASSUME UNCHANGED << incident, local, main, request >>, NEW r, ReadsHold(request[r])
    PROVE  ReadsHold(request[r])'
<1>1. UNCHANGED OpenIncidents
  BY DEF OpenIncidents
<1>2. UNCHANGED LastLocalRoot(WithStatus(request[r].incidentId, LocalStatus))
  BY DEF LastLocalRoot, WithStatus
<1>3. UNCHANGED LastLocalRoot(ActiveBefore(request[r].incidentId, request[r].batchId))
  BY DEF LastLocalRoot, ActiveBefore, Active, WithStatus
<1> QED
  BY <1>1, <1>2, <1>3 DEF ReadsHold

\* The worker and the environment.
LEMMA SoloOther ==
    ASSUME SerialTypeOK, Overlap = FALSE,
           \/ WorkerStep \/ NetworkChange \/ Crash
           \/ \E b \in Batches : Alter(b) \/ LoseRows(b)
    PROVE  Solo' /\ SerialNext
<1>0. late = {} /\ \A b \in Batches : rows[b] \in {0, BatchSize}
  BY DEF SerialTypeOK, Solo
<1>1. CASE NetworkChange
  <2>1. UNCHANGED cascade
    BY <1>1, CascadeStays DEF NetworkChange
  <2>2. Solo'
    BY <1>1, ReadsStay DEF NetworkChange, SerialTypeOK, Solo
  <2> QED
    BY <1>1, <2>1, <2>2 DEF SerialNext
<1>2. ASSUME NEW b \in Batches, LoseRows(b) PROVE Solo' /\ SerialNext
  <2>1. UNCHANGED cascade
    BY <1>2, CascadeStays DEF LoseRows
  <2>2. \A a \in Batches : rows'[a] \in {0, BatchSize}
    BY <1>0, <1>2 DEF LoseRows, SerialTypeOK, TypeOK
  <2>3. UNCHANGED << incident, local, main, worker, request, late >>
    BY <1>2 DEF LoseRows
  <2>4. Solo'
    BY <2>2, <2>3, ReadsStay DEF SerialTypeOK, Solo
  <2> QED
    BY <1>2, <2>1, <2>4 DEF SerialNext
<1>3. CASE Crash
  <2>1. request' = [r \in Requests |-> RequestIdle] /\ worker' = WorkerIdle
        /\ late' = late /\ rows' = rows
    BY <1>3 DEF Crash
  <2>2. \A r \in Requests : request'[r].pc = "idle" /\ CascadeBlocks(request[r])' = {}
    BY <2>1 DEF RequestIdle, CascadeBlocks
  <2>3. cascade' = CascadeIdle
    BY <2>2 DEF cascade, Cascades
  <2>4. Solo'
    BY <1>0, <2>1, <2>2 DEF Solo, WorkerIdle
  <2> QED
    BY <1>3, <2>3, <2>4 DEF SerialNext
<1>4. ASSUME NEW b \in Batches, Alter(b) PROVE Solo' /\ SerialNext
  <2>1. worker.pc = "idle" /\ AllIdle /\ AllIdle' /\ UNCHANGED << worker, late, rows >>
    BY <1>4 DEF Alter, MayStart, Quiet, AllIdle
  <2>2. UNCHANGED cascade
    <3>1. \A r \in Requests : CascadeBlocks(request[r])' = {}
      BY <2>1 DEF AllIdle, CascadeBlocks
    <3> QED
      BY <2>1, <3>1, IdleCascade DEF cascade, Cascades
  <2>3. Solo'
    BY <1>0, <2>1 DEF Solo, AllIdle
  <2> QED
    BY <1>4, <2>2, <2>3 DEF SerialNext
<1>5. CASE WorkerStep
  <2>1. AllIdle
    <3>1. worker.pc # "idle" \/ MayStart
      BY <1>5 DEF WorkerStep, OutageFind, OutageDeclare, ResolveIncident, ListIncidents, MergeStep,
                  MergeSkip, MergeRefuse, MergeVerify, MergeFlag, MergeFlagged, MergeRead,
                  MergeAppend, MergeDuplicate, MergeRecord, MergeDrop
    <3> QED
      BY <3>1 DEF MayStart, Quiet, AllIdle, SerialTypeOK, Solo
  <2>2. UNCHANGED << request, rows, late >>
    BY <1>5 DEF WorkerStep, OutageFind, OutageDeclare, ResolveIncident, ListIncidents, MergeStep,
                MergeSkip, MergeRefuse, MergeVerify, MergeFlag, MergeFlagged, MergeRead,
                MergeAppend, MergeDuplicate, MergeRecord, MergeDrop
  <2>3. UNCHANGED cascade
    <3>1. \A r \in Requests : CascadeBlocks(request[r])' = {}
      BY <2>1, <2>2 DEF AllIdle, CascadeBlocks
    <3> QED
      BY <2>1, <3>1, IdleCascade DEF cascade, Cascades
  <2>4. worker'.pc = "declare" => OutageFind
    <3>0. worker \in WorkerState
      BY DEF SerialTypeOK, TypeOK
    <3>1. \A todo : MergesLeft(todo).pc # "declare" /\ WorkerIdle.pc # "declare"
      BY DEF MergesLeft, WorkerIdle
    <3>2. CASE OutageDeclare \/ ResolveIncident \/ ListIncidents
      BY <3>1, <3>2 DEF OutageDeclare, ResolveIncident, ListIncidents, WorkerIdle
    <3>3. CASE MergeStep
      <4>1. worker.pc # "declare"
        BY <3>3 DEF MergeStep, MergeSkip, MergeRefuse, MergeVerify, MergeFlag, MergeFlagged,
                    MergeRead, MergeAppend, MergeDuplicate, MergeRecord, MergeDrop
      <4>2. CASE MergeFlag
        BY <3>0, <4>1, <4>2, FlagWrites DEF SerialTypeOK
      <4>3. CASE MergeStep /\ ~MergeFlag
        BY <3>0, <3>1, <4>1, <4>3 DEF MergeStep, MergeSkip, MergeRefuse, MergeVerify,
           MergeFlagged, MergeRead, MergeAppend, MergeDuplicate, MergeRecord, MergeDrop,
           NextIncident, WorkerState
      <4> QED
        BY <3>3, <4>2, <4>3
    <3> QED
      BY <1>5, <3>2, <3>3 DEF WorkerStep
  <2>5. Solo'
    <3>1. CASE OutageFind
      BY <1>0, <2>1, <2>2, <3>1 DEF OutageFind, Unused, Solo, AllIdle, WorkerIdle
    <3>2. CASE ~OutageFind
      BY <1>0, <2>1, <2>2, <2>4, <3>2 DEF Solo, AllIdle
    <3> QED
      BY <3>1, <3>2
  <2>6. CASE OutageDeclare
    <3>1. worker.pc = "declare"
      BY <2>6 DEF OutageDeclare
    <3>2. worker.incidentId \in Incidents /\ DeclareOutage(worker.incidentId)
      BY <2>3, <2>6, <3>1 DEF OutageDeclare, DeclareOutage, SerialTypeOK, Solo
    <3> QED
      BY <2>5, <3>2 DEF SerialNext
  <2> QED
    BY <1>5, <2>3, <2>5, <2>6 DEF WorkerStep, SerialNext, CycleStep
<1> QED
  BY <1>1, <1>2, <1>3, <1>4, <1>5

\* Every step without overlap is one of SerialNext, or changes nothing else
\* than what a request has read.
LEMMA SerialStep ==
    ASSUME Overlap = FALSE, SerialTypeOK, [Next]_vars
    PROVE  SerialTypeOK' /\ [SerialNext]_serialVars
<1>1. TypeOK'
  BY TypeStep DEF SerialTypeOK
<1>2. Solo' /\ [SerialNext]_serialVars
  <2>1. CASE UNCHANGED vars
    <3>1. Solo'
      BY <2>1, ReadsStay DEF vars, SerialTypeOK, Solo
    <3>2. UNCHANGED serialVars
      BY <2>1, CascadeStays DEF vars, serialVars
    <3> QED
      BY <3>1, <3>2
  <2>2. ASSUME NEW r \in Requests, RequestStart(r) PROVE Solo' /\ [SerialNext]_serialVars
    BY <2>2, SoloStart
  <2>3. ASSUME NEW r \in Requests, RequestStep(r) PROVE Solo' /\ [SerialNext]_serialVars
    BY <2>3, SoloCreate, SoloRecover, SoloRechain, SoloDecide DEF RequestStep, SerialNext
  <2>4. CASE WorkerStep \/ NetworkChange \/ Crash \/ \E b \in Batches : Alter(b) \/ LoseRows(b)
    BY <2>4, SoloOther
  <2> QED
    BY <2>1, <2>2, <2>3, <2>4 DEF Next
<1> QED
  BY <1>1, <1>2 DEF SerialTypeOK

LEMMA SerialInit == Init => SerialTypeOK /\ cascade = CascadeIdle
<1> SUFFICES ASSUME Init PROVE SerialTypeOK /\ cascade = CascadeIdle
  OBVIOUS
<1>1. \A r \in Requests : request[r].pc = "idle"
  BY DEF Init, RequestIdle
<1>2. Solo
  BY <1>1 DEF Init, Solo, WorkerIdle
<1> QED
  BY <1>1, <1>2, TypeInit, IdleCascade DEF SerialTypeOK, AllIdle

-----------------------------------------------------------------------------
(* MAIN verifies *)

\* What the merge knows of MAIN: the tail it read is still the tail.
TailIsCurrent == worker.pc = "append" => worker.mainTail = LastRoot(main)

SerialInv == SerialTypeOK /\ TailIsCurrent /\ MainChainVerifies

\* Appending a block that is signed and follows the tail keeps verifyChain
\* content, and makes the block the tail.
LEMMA AppendVerifies ==
    ASSUME TypeOK, MainChainVerifies, NEW block \in MainBlock, SignatureOk(block),
           block.previousRoot = LastRoot(main)
    PROVE  /\ ChainErrors(Append(main, block)) = {}
           /\ LastRoot(Append(main, block)) = block.currentRoot
<1> DEFINE new == Append(main, block)
<1>1. main \in Seq(MainBlock)
  BY DEF TypeOK
<1>2. /\ new \in Seq(MainBlock) /\ Len(new) = Len(main) + 1 /\ new # << >>
      /\ new[Len(main) + 1] = block
      /\ \A n \in 1 .. Len(main) : new[n] = main[n]
      /\ Len(main) \in Nat
      /\ DOMAIN new = 1 .. (Len(main) + 1) /\ DOMAIN main = 1 .. Len(main)
  BY <1>1, AppendProperties, LenProperties
<1>3. LastRoot(new) = block.currentRoot
  <2> HIDE DEF new
  <2> QED
    BY <1>2 DEF LastRoot
<1>4. \A n \in 1 .. Len(main) :
         SignatureOk(main[n]) /\ main[n].previousRoot = ExpectedPreviousRoot(main, n)
  BY <1>2 DEF MainChainVerifies, ChainErrors
<1>5. ASSUME NEW n \in DOMAIN new
      PROVE  SignatureOk(new[n]) /\ new[n].previousRoot = ExpectedPreviousRoot(new, n)
  <2> HIDE DEF new
  <2>1. CASE n \in 1 .. Len(main)
    <3>1. n # 1 => n - 1 \in 1 .. Len(main)
      BY <1>2, <2>1
    <3>2. ExpectedPreviousRoot(new, n) = ExpectedPreviousRoot(main, n)
      BY <1>2, <2>1, <3>1 DEF ExpectedPreviousRoot
    <3> QED
      BY <1>2, <1>4, <2>1, <3>2
  <2>2. CASE n = Len(main) + 1
    <3>1. ExpectedPreviousRoot(new, n) = LastRoot(main)
      <4>1. CASE main = << >>
        <5>1. Len(main) = 0
          BY <4>1
        <5> QED
          BY <2>2, <4>1, <5>1 DEF ExpectedPreviousRoot, LastRoot
      <4>2. CASE main # << >>
        <5>1. Len(main) \in 1 .. Len(main) /\ n # 1 /\ n - 1 = Len(main)
          BY <1>1, <1>2, <2>2, <4>2
        <5> QED
          BY <1>2, <4>2, <5>1 DEF ExpectedPreviousRoot, LastRoot
      <4> QED
        BY <4>1, <4>2
    <3> QED
      BY <1>2, <2>2, <3>1
  <2> QED
    BY <1>2, <1>5, <2>1, <2>2
<1>6. ChainErrors(new) = {}
  <2> HIDE DEF new
  <2> QED
    BY <1>5 DEF ChainErrors
<1> QED
  BY <1>3, <1>6

\* /create with the RPC up keeps MAIN verifiable: nothing overlaps it.
LEMMA SerialCreateMain ==
    ASSUME SerialInv, CreateMain
    PROVE  TailIsCurrent' /\ MainChainVerifies'
<1> DEFINE block == ChainedBlock(nextBatch, LastRoot(main), MerkleRoot(nextBatch, "PENDING"), BatchSize)
<1>1. LastRoot(main) \in Roots
  BY LastRootType DEF SerialInv, SerialTypeOK, TypeOK
<1>2. nextBatch \in Batches /\ MerkleRoot(nextBatch, "PENDING") \in Batches \X RowStates
  BY DEF CreateMain, NextBatchStored, MerkleRoot, RowStates
<1>3. block \in MainBlock /\ SignatureOk(block) /\ block.previousRoot = LastRoot(main)
  BY <1>1, <1>2, ChainedBlockType, BatchSizeAssumption
<1>4. main' = Append(main, block) /\ worker' = worker
  BY DEF CreateMain
<1> HIDE DEF block
<1>5. MainChainVerifies'
  BY <1>3, <1>4, AppendVerifies DEF SerialInv, SerialTypeOK, MainChainVerifies
<1>6. worker.pc = "idle"
  BY DEF CreateMain, Alone
<1> QED
  BY <1>4, <1>5, <1>6 DEF TailIsCurrent

\* One turn of the merge loop chains onto the tail that was read, or onto the
\* block of the turn before.
LEMMA SerialMergeAppend ==
    ASSUME SerialInv, MergeAppend
    PROVE  TailIsCurrent' /\ MainChainVerifies'
<1> DEFINE d == OldestOf(worker.blocks)
           block == ChainedBlock(d.batchId, worker.mainTail, d.merkleRoot, d.eventCount)
<1>1. worker \in WorkerState /\ worker.blocks \subseteq LocalBlock
  BY DEF SerialInv, SerialTypeOK, TypeOK, WorkerState
<1>2. d \in LocalBlock
  BY <1>1, OldestInSet DEF MergeAppend
<1>3. worker.mainTail = LastRoot(main) /\ worker.mainTail \in Roots
  BY <1>1 DEF SerialInv, TailIsCurrent, MergeAppend, WorkerState
<1>4. block \in MainBlock /\ SignatureOk(block) /\ block.previousRoot = LastRoot(main)
  <2> HIDE DEF d
  <2> QED
    BY <1>2, <1>3, ChainedBlockType DEF LocalBlock
<1>5. main' = Append(main, block)
  BY DEF MergeAppend
<1>6. worker'.mainTail = block.currentRoot
  <2>1. worker' = [worker EXCEPT !.blocks = @ \ {d}, !.mainTail = block.currentRoot,
                                 !.mergedBatchIds = Append(@, d.batchId)]
    BY DEF MergeAppend
  <2> HIDE DEF d, block
  <2> QED
    BY <1>1, <2>1 DEF WorkerState
<1> HIDE DEF block
<1> QED
  BY <1>4, <1>5, <1>6, AppendVerifies DEF SerialInv, SerialTypeOK, MainChainVerifies, TailIsCurrent

\* No other step appends to MAIN, and only the read of the tail starts the
\* merge loop.
LEMMA MergeAlone ==
    ASSUME TypeOK, [SerialNext]_serialVars, ~CreateMain, ~MergeAppend
    PROVE  main' = main /\ (worker' = worker \/ worker'.pc # "append" \/ MergeRead)
<1>0. worker \in WorkerState
  BY DEF TypeOK
<1>1. main' = main
  BY DEF SerialNext, serialVars, CreateLocal, DeclareOutage, CycleStep, OutageFind,
         ResolveIncident, ListIncidents, MergeStep,
         MergeSkip, MergeRefuse, MergeFlag, MergeFlagged, MergeVerify, MergeRead, MergeDuplicate,
         MergeRecord, MergeDrop, Recover, Reject, CascadeTurn,
         NetworkChange, Crash, Alter, LoseRows
<1>2. \A todo : MergesLeft(todo).pc # "append" /\ WorkerIdle.pc # "append"
  BY DEF MergesLeft, WorkerIdle
<1>3. CASE CycleStep
  BY <1>2, <1>3 DEF CycleStep, OutageFind, ResolveIncident, ListIncidents, WorkerIdle
<1>4. ASSUME NEW i \in Incidents, MergeVerify(i) \/ MergeRefuse(i) PROVE worker'.pc # "append"
  BY <1>0, <1>4 DEF MergeVerify, MergeRefuse, WorkerState
<1>5. CASE MergeRecord
  BY <1>0, <1>5 DEF MergeRecord, WorkerState
<1>6. CASE MergeDuplicate \/ MergeDrop \/ Crash \/ MergeFlagged \/ \E i \in Incidents : MergeSkip(i)
  BY <1>2, <1>6 DEF MergeDuplicate, MergeDrop, Crash, MergeFlagged, MergeSkip, NextIncident
<1>7. CASE MergeFlag
  BY <1>1, <1>7, FlagWrites
<1>8. ASSUME NEW i, DeclareOutage(i) PROVE worker' = worker \/ worker'.pc # "append"
  BY <1>2, <1>8 DEF DeclareOutage
<1>9. CASE UNCHANGED worker
  BY <1>1, <1>9
<1>10. \/ UNCHANGED worker \/ CycleStep \/ \E i \in Incidents : MergeVerify(i) \/ MergeRefuse(i)
       \/ MergeRecord \/ MergeDuplicate \/ MergeDrop \/ Crash \/ MergeFlagged
       \/ \E i \in Incidents : MergeSkip(i) \/ DeclareOutage(i)
       \/ MergeFlag \/ MergeRead
  BY DEF SerialNext, serialVars, CreateLocal, MergeStep, Recover, Reject, CascadeTurn,
         NetworkChange, Alter, LoseRows
<1> QED
  BY <1>1, <1>3, <1>4, <1>5, <1>6, <1>7, <1>8, <1>10

\* The merge reads the tail just before its loop.
LEMMA SerialOther ==
    ASSUME SerialInv, [SerialNext]_serialVars, ~CreateMain, ~MergeAppend
    PROVE  TailIsCurrent' /\ MainChainVerifies'
<1>1. main' = main /\ (worker' = worker \/ worker'.pc # "append" \/ MergeRead)
  BY MergeAlone DEF SerialInv, SerialTypeOK
<1>2. CASE MergeRead
  <2>1. worker \in WorkerState
    BY DEF SerialInv, SerialTypeOK, TypeOK
  <2>2. worker'.pc # "append" \/ worker'.mainTail = LastRoot(main)
    BY <1>2, <2>1 DEF MergeRead, WorkerState, NextIncident, MergesLeft, WorkerIdle
  <2> QED
    BY <1>1, <2>2 DEF SerialInv, TailIsCurrent, MainChainVerifies
<1> QED
  BY <1>1, <1>2 DEF SerialInv, TailIsCurrent, MainChainVerifies

\* Without overlapping handlers GET /verify never reports an error on MAIN,
\* whatever is merged, altered, recovered, rejected or restarted.
THEOREM MainAlwaysVerifies ==
    ASSUME Overlap = FALSE
    PROVE  Spec => []MainChainVerifies
<1>1. Init => SerialInv
  <2>1. Init => TailIsCurrent /\ MainChainVerifies
    BY DEF Init, TailIsCurrent, MainChainVerifies, ChainErrors, WorkerIdle
  <2> QED
    BY <2>1, SerialInit DEF SerialInv
<1>2. SerialInv /\ [Next]_vars => SerialInv'
  <2> SUFFICES ASSUME SerialInv, [Next]_vars PROVE SerialInv'
    OBVIOUS
  <2>1. SerialTypeOK' /\ [SerialNext]_serialVars
    BY SerialStep DEF SerialInv
  <2>2. TailIsCurrent' /\ MainChainVerifies'
    BY <2>1, SerialCreateMain, SerialMergeAppend, SerialOther
  <2> QED
    BY <2>1, <2>2 DEF SerialInv
<1>3. SerialInv => MainChainVerifies
  BY DEF SerialInv
<1> QED
  BY <1>1, <1>2, <1>3, PTL DEF Spec

-----------------------------------------------------------------------------
(* MAIN is rooted, whatever overlaps *)

\* A root that a block appended to a chain may follow.
IsRootOf(chain, root) == root = GENESIS_ROOT \/ \E m \in DOMAIN chain : root = chain[m].currentRoot

\* The tail that the merge goes on from has been on MAIN, if it is not its end.
TailIsRooted == worker.pc = "append" => IsRootOf(main, worker.mainTail)

\* And so has the tail that a /create goes on from.
ReadIsRooted ==
    \A r \in Requests : request[r].pc = "append" => IsRootOf(main, request[r].root)

RootedInv == TypeOK /\ TailIsRooted /\ ReadIsRooted /\ MainIsRooted

\* The tail of MAIN is such a root.
LEMMA LastRootIsRoot ==
    ASSUME TypeOK
    PROVE  IsRootOf(main, LastRoot(main))
<1>1. main # << >> => Len(main) \in DOMAIN main
  BY DEF TypeOK
<1> QED
  BY <1>1 DEF IsRootOf, LastRoot

\* Appending a signed block to such a root leaves MAIN rooted, and more roots
\* to follow.
LEMMA AppendRooted ==
    ASSUME TypeOK, MainIsRooted, NEW block \in MainBlock, SignatureOk(block),
           IsRootOf(main, block.previousRoot), main' = Append(main, block)
    PROVE  /\ MainIsRooted'
           /\ IsRootOf(main', block.currentRoot)
           /\ \A root : IsRootOf(main, root) => IsRootOf(main', root)
<1>1. /\ DOMAIN main = 1 .. Len(main) /\ Len(main) \in Nat
      /\ DOMAIN main' = 1 .. (Len(main) + 1)
      /\ main'[Len(main) + 1] = block
      /\ \A n \in 1 .. Len(main) : main'[n] = main[n]
  BY AppendProperties, LenProperties DEF TypeOK
<1>2. ASSUME NEW n \in 1 .. Len(main)
      PROVE  /\ SignatureOk(main'[n])
             /\ \/ main'[n].previousRoot = GENESIS_ROOT
                \/ \E m \in 1 .. (n - 1) : main'[n].previousRoot = main'[m].currentRoot
  <2>1. \A m \in 1 .. (n - 1) : m \in 1 .. Len(main)
    BY <1>1
  <2> QED
    BY <1>1, <2>1 DEF MainIsRooted
<1>3. \/ block.previousRoot = GENESIS_ROOT
      \/ \E m \in 1 .. ((Len(main) + 1) - 1) : block.previousRoot = main'[m].currentRoot
  BY <1>1 DEF IsRootOf
<1>4. \A n \in 1 .. (Len(main) + 1) : n \in 1 .. Len(main) \/ n = Len(main) + 1
  BY <1>1
<1>5. MainIsRooted'
  BY <1>1, <1>2, <1>3, <1>4 DEF MainIsRooted
<1>6. IsRootOf(main', block.currentRoot) /\ \A root : IsRootOf(main, root) => IsRootOf(main', root)
  BY <1>1 DEF IsRootOf
<1> QED
  BY <1>5, <1>6

\* /create appends to the tail it has read.
LEMMA RootedAppendBlock ==
    ASSUME RootedInv, NEW r \in Requests, AppendBlock(r)
    PROVE  TailIsRooted' /\ ReadIsRooted' /\ MainIsRooted'
<1> DEFINE block == ChainedBlock(nextBatch, request[r].root, MerkleRoot(nextBatch, "PENDING"), BatchSize)
<1>1. request[r].root \in Roots /\ IsRootOf(main, request[r].root)
  BY DEF RootedInv, ReadIsRooted, AppendBlock, TypeOK, RequestState, RequestLocals
<1>2. nextBatch \in Batches /\ MerkleRoot(nextBatch, "PENDING") \in Batches \X RowStates
  BY DEF AppendBlock, NextBatchStored, MerkleRoot, RowStates
<1>3. block \in MainBlock /\ SignatureOk(block) /\ block.previousRoot = request[r].root
  BY <1>1, <1>2, ChainedBlockType, BatchSizeAssumption
<1>4. main' = Append(main, block) /\ worker' = worker /\ Ends(r)
  BY DEF AppendBlock
<1>5. request'[r].pc = "idle" /\ \A q \in Requests \ {r} : request'[q] = request[q]
  BY <1>4, RequestEnds DEF RootedInv, RequestIdle
<1> HIDE DEF block
<1>6. MainIsRooted' /\ \A root : IsRootOf(main, root) => IsRootOf(main', root)
  BY <1>1, <1>3, <1>4, AppendRooted DEF RootedInv
<1> QED
  BY <1>4, <1>5, <1>6 DEF RootedInv, TailIsRooted, ReadIsRooted

\* One turn of the merge appends to the tail it was left with.
LEMMA RootedMergeAppend ==
    ASSUME RootedInv, MergeAppend
    PROVE  TailIsRooted' /\ ReadIsRooted' /\ MainIsRooted'
<1> DEFINE d == OldestOf(worker.blocks)
           block == ChainedBlock(d.batchId, worker.mainTail, d.merkleRoot, d.eventCount)
<1>1. worker \in WorkerState /\ worker.blocks \subseteq LocalBlock
  BY DEF RootedInv, TypeOK, WorkerState
<1>2. d \in LocalBlock
  BY <1>1, OldestInSet DEF MergeAppend
<1>3. IsRootOf(main, worker.mainTail) /\ worker.mainTail \in Roots
  BY <1>1 DEF RootedInv, TailIsRooted, MergeAppend, WorkerState
<1>4. block \in MainBlock /\ SignatureOk(block) /\ block.previousRoot = worker.mainTail
  <2> HIDE DEF d
  <2> QED
    BY <1>2, <1>3, ChainedBlockType DEF LocalBlock
<1>5. main' = Append(main, block)
  BY DEF MergeAppend
<1>6. worker'.mainTail = block.currentRoot
  <2>1. worker' = [worker EXCEPT !.blocks = @ \ {d}, !.mainTail = block.currentRoot,
                                 !.mergedBatchIds = Append(@, d.batchId)]
    BY DEF MergeAppend
  <2> HIDE DEF d, block
  <2> QED
    BY <1>1, <2>1 DEF WorkerState
<1> HIDE DEF d, block
<1>7. /\ MainIsRooted' /\ IsRootOf(main', block.currentRoot)
      /\ \A root : IsRootOf(main, root) => IsRootOf(main', root)
  BY <1>3, <1>4, <1>5, AppendRooted DEF RootedInv
<1>8. IsRootOf(main', worker'.mainTail)
  BY <1>5, <1>6, <1>7 DEF IsRootOf
<1>9. ReadIsRooted'
  <2>1. request' = request
    BY DEF MergeAppend
  <2> QED
    BY <1>7, <2>1 DEF RootedInv, ReadIsRooted
<1> QED
  BY <1>7, <1>8, <1>9 DEF TailIsRooted

\* The steps of requests, the network and the rows that write no chain.
ReadStep ==
    \/ \E r \in Requests : RequestStart(r) \/ CreateTail(r) \/ RecoverRead(r) \/ RecoverList(r)
    \/ NetworkChange \/ \E b \in Batches : LoseRows(b)
    \/ UNCHANGED vars

chainVars == << incident, local, main, nextBatch, worker, rejected, late, crashes >>

LEMMA ReadsWriteNothing == ReadStep => UNCHANGED chainVars
BY DEF ReadStep, chainVars, RequestStart, CreateFind, AppendTail, RecoverFind, Acknowledge, Discard,
       DecideFind, CreateTail, RecoverRead, RecoverList, NetworkChange, LoseRows, vars

\* Where the handler of a request goes on: only the look for an incident leads
\* to a declaration, only the read of the tail to an append.
LEMMA RequestMoves ==
    ASSUME TypeOK, NEW r \in Requests, RequestStart(r) \/ RequestStep(r)
    PROVE  /\ \A q \in Requests \ {r} : request'[q] = request[q]
           /\ request'[r].pc = "append" => request'[r].root = LastRoot(main)
           /\ request'[r].pc = "declare" => CreateFind(r)
<1>0. request \in [Requests -> RequestLocals]
  BY DEF TypeOK, RequestState
<1>1. request'[r].pc \notin {"append", "declare"} \/ CreateFind(r)
        \/ (request'[r].pc = "append" /\ request'[r].root = LastRoot(main))
  <2>1. CASE AppendTail(r)
    BY <1>0, <2>1 DEF AppendTail, Becomes, RequestIdle
  <2>2. ASSUME NEW b \in Batches, RecoverFind(r, b) \/ Acknowledge(r, b) \/ Discard(r, b)
        PROVE  request'[r].pc \notin {"append", "declare"}
    BY <1>0, <2>2 DEF RecoverFind, Acknowledge, Discard, DecideFind, Becomes, RequestIdle
  <2>3. CASE CreateDeclare(r) \/ CreateTail(r)
    BY <1>0, <2>3 DEF CreateDeclare, CreateTail, Becomes, RequestLocals
  <2>4. CASE RecoverWrite(r)
    <3>1. PICK root : Becomes(r, [request[r] EXCEPT !.pc = "list", !.eventCount = 0, !.root = root])
      BY <2>4 DEF RecoverWrite
    <3> QED
      BY <1>0, <3>1 DEF Becomes, RequestLocals
  <2>5. CASE RecoverRead(r)
    <3>1. PICK root :
            \/ Ends(r)
            \/ Becomes(r, [request[r] EXCEPT !.pc = "rewrite", !.eventCount = rows[request[r].batchId],
                                             !.root = root])
      BY <2>5 DEF RecoverRead
    <3>2. CASE Ends(r)
      BY <1>0, <3>2 DEF Becomes, Ends, RequestIdle
    <3>3. CASE ~Ends(r)
      BY <1>0, <3>1, <3>3 DEF Becomes, RequestLocals
    <3> QED
      BY <3>2, <3>3
  <2>6. CASE CreateStage(r) \/ AppendBlock(r) \/ DecideWrite(r)
    BY <1>0, <2>6 DEF CreateStage, AppendBlock, DecideWrite, Ends, Becomes, RequestIdle
  <2>7. CASE RecoverList(r) \/ CascadeRechain(r)
    <3>1. \A root, blocks : CascadeLeft(root, blocks).pc \in {"idle", "cascade"}
      BY DEF CascadeLeft, RequestIdle
    <3> QED
      BY <1>0, <2>7, <3>1 DEF RecoverList, CascadeRechain, Becomes
  <2> QED
    BY <2>1, <2>2, <2>3, <2>4, <2>5, <2>6, <2>7 DEF RequestStart, RequestStep
<1>2. CreateFind(r) => request'[r].pc # "append"
  BY <1>0 DEF CreateFind, Becomes, RequestIdle
<1>3. \A q \in Requests \ {r} : request'[q] = request[q]
  BY <1>0 DEF RequestStart, RequestStep, CreateFind, AppendTail, RecoverFind, Acknowledge,
     Discard, DecideFind, CreateDeclare, CreateTail, CreateStage, AppendBlock, RecoverRead,
     RecoverWrite, RecoverList, CascadeRechain, DecideWrite, Ends, Becomes
<1> QED
  BY <1>1, <1>2, <1>3

\* A request waits while the worker or the environment takes a step.
LEMMA RequestsWait ==
    ASSUME [Next]_vars
    PROVE  \/ request' = request
           \/ Crash
           \/ \E r \in Requests : RequestStart(r) \/ RequestStep(r)
BY DEF Next, vars, WorkerStep, OutageFind, OutageDeclare, ResolveIncident,
   ListIncidents, MergeStep, MergeSkip, MergeRefuse, MergeFlag, MergeFlagged, MergeVerify,
   MergeRead, MergeAppend, MergeDuplicate, MergeRecord, MergeDrop, NetworkChange, Alter, LoseRows

\* Nothing else touches MAIN, and the merge and /create read its tail.
LEMMA RootedOther ==
    ASSUME RootedInv, [Next]_vars, ~MergeAppend, \A r \in Requests : ~AppendBlock(r)
    PROVE  TailIsRooted' /\ ReadIsRooted' /\ MainIsRooted'
<1>0. worker \in WorkerState /\ TypeOK
  BY DEF RootedInv, TypeOK
<1>1. main' = main
  BY ReadsWriteNothing
  DEF Next, ReadStep, chainVars, RequestStep, WorkerStep, OutageFind, OutageDeclare, ResolveIncident,
      ListIncidents, MergeStep, MergeSkip, MergeRefuse, MergeFlag, MergeFlagged, MergeVerify,
      MergeRead, MergeDuplicate, MergeRecord, MergeDrop, CreateDeclare, CreateStage, RecoverWrite,
      CascadeRechain, DecideWrite, Crash, Alter
<1>2. IsRootOf(main, LastRoot(main)) /\ \A root : IsRootOf(main, root) => IsRootOf(main', root)
  BY <1>0, <1>1, LastRootIsRoot DEF IsRootOf
<1>3. worker' = worker \/ worker'.pc # "append" \/ MergeRead
  <2>1. \A todo : MergesLeft(todo).pc # "append" /\ WorkerIdle.pc # "append"
    BY DEF MergesLeft, WorkerIdle
  <2>2. CASE OutageFind \/ OutageDeclare \/ ResolveIncident \/ ListIncidents
    BY <2>1, <2>2 DEF OutageFind, OutageDeclare, ResolveIncident, ListIncidents, WorkerIdle
  <2>3. ASSUME NEW i \in Incidents, MergeVerify(i) \/ MergeRefuse(i) PROVE worker'.pc # "append"
    BY <1>0, <2>3 DEF MergeVerify, MergeRefuse, WorkerState
  <2>4. CASE MergeRecord
    BY <1>0, <2>4 DEF MergeRecord, WorkerState
  <2>5. CASE MergeDuplicate \/ MergeDrop \/ Crash \/ MergeFlagged \/ \E i \in Incidents : MergeSkip(i)
    BY <2>1, <2>5 DEF MergeDuplicate, MergeDrop, Crash, MergeFlagged, MergeSkip, NextIncident
  <2>6. CASE MergeFlag
    BY <1>0, <2>6, FlagWrites
  <2>7. CASE worker' = worker
    BY <2>7
  <2>8. \/ worker' = worker \/ OutageFind \/ OutageDeclare \/ ResolveIncident \/ ListIncidents
        \/ \E i \in Incidents : MergeVerify(i) \/ MergeRefuse(i) \/ MergeSkip(i)
        \/ MergeRecord \/ MergeDuplicate \/ MergeDrop \/ Crash \/ MergeFlagged
        \/ MergeFlag \/ MergeRead
    BY ReadsWriteNothing
    DEF Next, ReadStep, chainVars, RequestStep, WorkerStep, MergeStep, CreateDeclare, CreateStage,
        RecoverWrite, CascadeRechain, DecideWrite, Alter
  <2> QED
    BY <2>2, <2>3, <2>4, <2>5, <2>6, <2>8
<1>4. MergeRead => worker'.pc # "append" \/ worker'.mainTail = LastRoot(main)
  BY <1>0 DEF MergeRead, WorkerState, NextIncident, MergesLeft, WorkerIdle
<1>5. TailIsRooted' /\ MainIsRooted'
  BY <1>1, <1>2, <1>3, <1>4 DEF RootedInv, MainIsRooted, TailIsRooted, IsRootOf
<1>6. ASSUME NEW r \in Requests, request'[r].pc = "append"
      PROVE  IsRootOf(main', request'[r].root)
  <2>1. request'[r] = request[r] \/ request'[r].root = LastRoot(main)
    <3>2. CASE request' = request
      BY <3>2
    <3>3. CASE Crash
      BY <1>6, <3>3 DEF Crash, RequestIdle
    <3>4. ASSUME NEW q \in Requests, RequestStart(q) \/ RequestStep(q)
          PROVE  request'[r] = request[r] \/ request'[r].root = LastRoot(main)
      BY <1>0, <1>6, <3>4, RequestMoves
    <3> QED
      BY <3>2, <3>3, <3>4, RequestsWait
  <2> QED
    BY <1>2, <1>6, <2>1 DEF RootedInv, ReadIsRooted
<1> QED
  BY <1>5, <1>6 DEF ReadIsRooted

\* Whatever overlaps and whatever is restarted, every block of MAIN is signed as
\* stored and follows the genesis root or an earlier block.
THEOREM MainStaysRooted == Spec => []MainIsRooted
<1>1. Init => RootedInv
  <2>1. Init => TailIsRooted /\ ReadIsRooted /\ MainIsRooted
    BY DEF Init, TailIsRooted, ReadIsRooted, MainIsRooted, WorkerIdle, RequestIdle
  <2> QED
    BY <2>1, TypeInit DEF RootedInv
<1>2. RootedInv /\ [Next]_vars => RootedInv'
  <2> SUFFICES ASSUME RootedInv, [Next]_vars PROVE RootedInv'
    OBVIOUS
  <2>1. TypeOK'
    BY TypeStep DEF RootedInv
  <2>2. TailIsRooted' /\ ReadIsRooted' /\ MainIsRooted'
    BY RootedAppendBlock, RootedMergeAppend, RootedOther
  <2> QED
    BY <2>1, <2>2 DEF RootedInv
<1>3. RootedInv => MainIsRooted
  BY DEF RootedInv
<1> QED
  BY <1>1, <1>2, <1>3, PTL DEF Spec
-----------------------------------------------------------------------------
(* An incident is declared once *)

\* The steps by kind: those that only read, and the writes.
LEMMA StepKinds ==
    ASSUME [Next]_vars
    PROVE  \/ ReadStep \/ WorkerStep \/ Crash \/ \E b \in Batches : Alter(b)
           \/ \E r \in Requests :
                 \/ CreateDeclare(r) \/ CreateStage(r) \/ AppendBlock(r)
                 \/ RecoverWrite(r) \/ CascadeRechain(r) \/ DecideWrite(r)
BY DEF Next, ReadStep, RequestStep

\* The incident that a handler or the worker is about to declare is new, and no
\* other one is about to declare it.
Reserved ==
    /\ \A r \in Requests : request[r].pc = "declare" =>
          /\ incident[request[r].incidentId].status = "NONE"
          /\ worker.pc = "declare" => worker.incidentId # request[r].incidentId
          /\ \A q \in Requests \ {r} :
                request[q].pc = "declare" => request[q].incidentId # request[r].incidentId
    /\ worker.pc = "declare" =>
          worker.incidentId \in Incidents /\ incident[worker.incidentId].status = "NONE"

\* A step of the worker other than its look leaves nothing to declare.
LEMMA WorkerDeclares ==
    ASSUME TypeOK, WorkerStep, ~OutageFind
    PROVE  worker'.pc # "declare"
<1>0. worker \in WorkerState
  BY DEF TypeOK
<1>1. \A todo : MergesLeft(todo).pc # "declare" /\ WorkerIdle.pc # "declare"
  BY DEF MergesLeft, WorkerIdle
<1>2. CASE OutageDeclare \/ ResolveIncident \/ ListIncidents
  BY <1>1, <1>2 DEF OutageDeclare, ResolveIncident, ListIncidents, WorkerIdle
<1>3. CASE MergeFlag
  BY <1>3, FlagWrites
<1>4. CASE MergeStep /\ ~MergeFlag
  BY <1>0, <1>1, <1>4 DEF MergeStep, MergeSkip, MergeRefuse, MergeVerify,
     MergeFlagged, MergeRead, MergeAppend, MergeDuplicate, MergeRecord, MergeDrop,
     NextIncident, WorkerState
<1> QED
  BY <1>2, <1>3, <1>4 DEF WorkerStep

\* Incidents are closed or marked by the worker, which changes nothing about
\* one that was not declared yet.
LEMMA WorkerDeclaresOnce ==
    ASSUME TypeOK, WorkerStep, ~OutageDeclare, NEW i \in Incidents
    PROVE  /\ incident[i].status = "NONE" => incident'[i].status = "NONE"
           /\ incident[i].status = "CLOSED" => incident'[i].status = "CLOSED"
           /\ incident[i].status = "OPEN" => incident'[i].status \in {"OPEN", "CLOSED"}
<1>1. incident \in [Incidents -> IncidentDoc]
  BY DEF TypeOK
<1>2. CASE incident' = incident
  BY <1>2
<1>3. CASE ResolveIncident
  BY <1>1, <1>3 DEF ResolveIncident, OpenIncidents, IncidentDoc
<1>4. CASE MergeFlagged
  BY <1>1, <1>4 DEF MergeFlagged, IncidentDoc
<1>5. CASE MergeRecord
  BY <1>1, <1>5 DEF MergeRecord, IncidentDoc
<1> QED
  BY <1>2, <1>3, <1>4, <1>5 DEF WorkerStep, OutageFind, ListIncidents, MergeStep, MergeSkip,
     MergeRefuse, MergeFlag, MergeVerify, MergeRead, MergeAppend, MergeDuplicate, MergeDrop

\* A declaration opens the incident, and leaves the others.
LEMMA DeclareOpens ==
    ASSUME TypeOK, NEW i \in Incidents, incident' = OpenIncidentDoc(i)
    PROVE  /\ incident'[i].status = "OPEN"
           /\ \A j \in Incidents \ {i} : incident'[j] = incident[j]
BY DEF TypeOK, OpenIncidentDoc, IncidentDoc

LEMMA ReservedStep ==
    ASSUME TypeOK, Reserved, [Next]_vars
    PROVE  Reserved'
<1>0. /\ request \in [Requests -> RequestState]
      /\ \A r \in Requests : request[r].pc = "declare" => request[r].incidentId \in Incidents
  BY DEF TypeOK, RequestState
<1>1. ASSUME NEW r \in Requests, CreateFind(r) PROVE Reserved'
  <2>0. OpenIncidents \subseteq Incidents /\ Unused \subseteq Incidents
    BY DEF OpenIncidents, Unused
  <2>1. PICK i \in Incidents :
          \/ Becomes(r, [RequestIdle EXCEPT !.pc = "tail", !.incidentId = i])
          \/ i \in Unused /\ Becomes(r, [RequestIdle EXCEPT !.pc = "declare", !.incidentId = i])
    BY <1>1, <2>0, ZenonT(20) DEF CreateFind
  <2>2. \/ request'[r].pc = "tail"
        \/ i \in Unused /\ request'[r].incidentId = i
    <3>1. CASE Becomes(r, [RequestIdle EXCEPT !.pc = "tail", !.incidentId = i])
      BY <1>0, <3>1 DEF Becomes, RequestIdle
    <3>2. CASE i \in Unused /\ Becomes(r, [RequestIdle EXCEPT !.pc = "declare", !.incidentId = i])
      BY <1>0, <3>2 DEF Becomes, RequestIdle
    <3> QED
      BY <2>1, <3>1, <3>2
  <2>3. \A q \in Requests \ {r} : request'[q] = request[q]
    BY <1>1, RequestMoves DEF RequestStart
  <2>4. UNCHANGED << incident, worker >>
    BY <1>1 DEF CreateFind
  <2>5. CASE request'[r].pc = "tail"
    BY <2>3, <2>4, <2>5 DEF Reserved
  <2>6. CASE i \in Unused /\ request'[r].incidentId = i
    BY <2>3, <2>4, <2>6 DEF Reserved, Unused
  <2> QED
    BY <2>2, <2>5, <2>6
<1>2. ASSUME NEW r \in Requests, CreateDeclare(r) PROVE Reserved'
  <2>1. /\ request[r].pc = "declare" /\ incident' = OpenIncidentDoc(request[r].incidentId)
        /\ worker' = worker
    BY <1>2 DEF CreateDeclare
  <2>2. /\ request'[r].pc # "declare"
        /\ \A q \in Requests \ {r} : request'[q] = request[q]
    <3>1. ~CreateFind(r)
      BY <2>1 DEF CreateFind, Starts
    <3> QED
      BY <1>2, <3>1, RequestMoves DEF RequestStep
  <2>3. \A j \in Incidents \ {request[r].incidentId} : incident'[j] = incident[j]
    BY <1>0, <2>1, DeclareOpens
  <2> QED
    BY <1>0, <2>1, <2>2, <2>3 DEF Reserved
<1>3. ASSUME NEW r \in Requests, RequestStart(r) \/ RequestStep(r), ~CreateFind(r), ~CreateDeclare(r)
      PROVE  Reserved'
  <2>1. /\ request'[r].pc # "declare"
        /\ \A q \in Requests \ {r} : request'[q] = request[q]
    BY <1>3, RequestMoves
  <2>2. UNCHANGED << incident, worker >>
    BY <1>3 DEF RequestStart, RequestStep, AppendTail, RecoverFind, Acknowledge,
       Discard, DecideFind, CreateTail, CreateStage, AppendBlock, RecoverRead,
       RecoverWrite, RecoverList, CascadeRechain, DecideWrite
  <2> QED
    BY <2>1, <2>2 DEF Reserved
<1>4. CASE OutageFind
  BY <1>4 DEF OutageFind, Unused, Reserved, WorkerIdle
<1>5. CASE OutageDeclare
  <2>1. /\ worker.pc = "declare" /\ incident' = OpenIncidentDoc(worker.incidentId)
        /\ worker'.pc = "idle" /\ request' = request
    BY <1>5 DEF OutageDeclare, WorkerIdle
  <2>2. \A j \in Incidents \ {worker.incidentId} : incident'[j] = incident[j]
    BY <2>1, DeclareOpens DEF Reserved
  <2> QED
    BY <1>0, <2>1, <2>2 DEF Reserved
<1>6. CASE WorkerStep /\ ~OutageFind /\ ~OutageDeclare
  <2>1. worker'.pc # "declare"
    BY <1>6, WorkerDeclares
  <2>2. \A i \in Incidents : incident[i].status = "NONE" => incident'[i].status = "NONE"
    BY <1>6, WorkerDeclaresOnce
  <2>3. request' = request
    BY <1>6 DEF WorkerStep, ResolveIncident, ListIncidents, MergeStep, MergeSkip,
       MergeRefuse, MergeFlag, MergeFlagged, MergeVerify, MergeRead, MergeAppend, MergeDuplicate,
       MergeRecord, MergeDrop
  <2> QED
    BY <1>0, <2>1, <2>2, <2>3 DEF Reserved
<1>7. CASE Crash
  BY <1>7 DEF Crash, Reserved, WorkerIdle, RequestIdle
<1>8. CASE UNCHANGED << incident, worker, request >>
  BY <1>8 DEF Reserved
<1> QED
  BY <1>1, <1>2, <1>3, <1>4, <1>5, <1>6, <1>7, <1>8
  DEF Next, vars, WorkerStep, NetworkChange, Alter, LoseRows

LEMMA ReservedInit == Init => Reserved
BY DEF Init, Reserved, RequestIdle, WorkerIdle

-----------------------------------------------------------------------------
(* What the actions do to the staged blocks *)

\* A block stays what it is: its number, its epoch and its status.
Kept(b) ==
    /\ local'[b].batchId = local[b].batchId
    /\ local'[b].incidentId = local[b].incidentId
    /\ local'[b].status = local[b].status

\* A block changes its status and nothing else that the invariants look at.
Moves(b, from, to) ==
    /\ local[b].status \in from /\ local'[b].status = to
    /\ local'[b].batchId = local[b].batchId
    /\ local'[b].incidentId = local[b].incidentId

OthersKept(b) == \A c \in Batches \ {b} : Kept(c)

\* /create with the RPC down adds the block nextBatch, late if its incident is
\* not OPEN.
LEMMA StageEffect ==
    ASSUME TypeOK, NEW r \in Requests, CreateStage(r)
    PROVE  /\ nextBatch \in Batches /\ OthersKept(nextBatch)
           /\ request[r].incidentId \in Incidents
           /\ local'[nextBatch].batchId = nextBatch
           /\ local'[nextBatch].incidentId = request[r].incidentId
           /\ local'[nextBatch].status = "PENDING_VERIFICATION"
           /\ late \subseteq late' /\ late' \subseteq late \cup {<< nextBatch, request[r].incidentId >>}
           /\ \/ incident[request[r].incidentId].status = "OPEN" /\ late' = late
              \/ << nextBatch, request[r].incidentId >> \in late'
<1>1. nextBatch \in Batches
  BY DEF CreateStage, NextBatchStored
<1>2. request[r].incidentId \in Incidents /\ request[r].root \in Roots
  BY DEF CreateStage, TypeOK, RequestState, RequestLocals
<1>3. PICK doc : doc = StagedBlock(request[r].incidentId, request[r].root)
  OBVIOUS
<1>4. /\ doc.batchId = nextBatch /\ doc.incidentId = request[r].incidentId
      /\ doc.status = "PENDING_VERIFICATION"
  BY <1>1, <1>2, <1>3, StagedBlockType
<1>5. local' = [local EXCEPT ![nextBatch] = doc]
  BY <1>3 DEF CreateStage
<1>6. local'[nextBatch] = doc /\ \A c \in Batches \ {nextBatch} : local'[c] = local[c]
  BY <1>1, <1>5 DEF TypeOK
<1> QED
  BY <1>1, <1>2, <1>4, <1>6 DEF CreateStage, OthersKept, Kept

\* A flag makes its block TAMPERED, whatever the block has become meanwhile.
LEMMA FlagEffect ==
    ASSUME TypeOK, MergeFlag
    PROVE  \A b \in Batches : Kept(b) \/ Moves(b, LocalStatus, "TAMPERED")
<1>1. PICK e \in worker.errors :
         /\ e \in Errors
         /\ \A b \in Batches \ {e[1]} : local'[b] = local[b]
         /\ \/ local[e[1]] = NoBlock /\ local'[e[1]] = NoBlock
            \/ /\ local[e[1]] \in LocalBlock
               /\ local'[e[1]] = [local[e[1]] EXCEPT !.status = "TAMPERED"]
  BY FlagWrites
<1> SUFFICES ASSUME NEW b \in Batches PROVE Kept(b) \/ Moves(b, LocalStatus, "TAMPERED")
  OBVIOUS
<1>2. CASE local'[b] = local[b]
  BY <1>2 DEF Kept
<1>3. CASE local[b] \in LocalBlock /\ local'[b] = [local[b] EXCEPT !.status = "TAMPERED"]
  BY <1>3 DEF Moves, LocalBlock
<1> QED
  BY <1>1, <1>2, <1>3

\* A decision is written to the block it names, if that exists: the block is
\* staged again or keeps the verdict.  The write is late if the block is not
\* TAMPERED any more.
LEMMA DecisionEffect ==
    ASSUME TypeOK, NEW r \in Requests, RecoverWrite(r) \/ DecideWrite(r)
    PROVE  \E b \in Batches :
             /\ OthersKept(b) /\ late \subseteq late'
             /\ late' \subseteq late \cup {<< b, local[b].incidentId >>}
             /\ local[b].status = "TAMPERED" => late' = late
             /\ \/ local[b].status = "NONE" /\ Kept(b) /\ rejected' = rejected /\ late' = late
                \/ /\ Moves(b, LocalStatus, "PENDING_VERIFICATION")
                   /\ RecoverWrite(r) /\ rejected' = rejected \ {b}
                   /\ local[b].status = "TAMPERED" \/ << b, local[b].incidentId >> \in late'
                \/ /\ \E st \in Verdicts : Moves(b, LocalStatus, st)
                   /\ DecideWrite(r) /\ rejected' = rejected \cup {b}
                   /\ local[b].status = "TAMPERED" \/ << b, local[b].incidentId >> \in late'
<1>0. /\ local \in [Batches -> LocalBlock \cup {NoBlock}] /\ request[r] \in RequestState
      /\ request[r].root \in Roots /\ request[r].eventCount \in Nat
  BY DEF TypeOK, RequestState, RequestLocals
<1>1. PICK b : b = request[r].batchId
  OBVIOUS
<1>2. b \in Batches
  BY <1>0, <1>1 DEF RecoverWrite, DecideWrite, RequestState
<1>3. CASE local[b] = NoBlock
  <2>1. local[b].status = "NONE"
    BY <1>3 DEF NoBlock
  <2>2. UNCHANGED << local, rejected, late >>
    BY <1>1, <1>3 DEF RecoverWrite, DecideWrite
  <2> QED
    BY <1>2, <2>1, <2>2 DEF OthersKept, Kept
<1>4. CASE local[b] # NoBlock /\ RecoverWrite(r)
  <2>1. PICK doc : doc = Rebuilt(b, request[r].root, request[r].eventCount)
    OBVIOUS
  <2>2. /\ local[b] \in LocalBlock /\ doc.batchId = local[b].batchId
        /\ doc.incidentId = local[b].incidentId /\ doc.status = "PENDING_VERIFICATION"
    BY <1>0, <1>2, <1>4, <2>1, RebuiltType
  <2>3. local' = [local EXCEPT ![b] = doc] /\ rejected' = rejected \ {b}
    BY <1>1, <1>4, <2>1 DEF RecoverWrite
  <2>4. local'[b] = doc /\ \A c \in Batches \ {b} : local'[c] = local[c]
    BY <1>0, <1>2, <2>3
  <2>5. /\ late \subseteq late' /\ (local[b].status = "TAMPERED" \/ << b, local[b].incidentId >> \in late')
        /\ late' \subseteq late \cup {<< b, local[b].incidentId >>}
        /\ local[b].status = "TAMPERED" => late' = late
    BY <1>1, <1>4 DEF RecoverWrite
  <2>6. local[b].status \in LocalStatus
    BY <2>2 DEF LocalBlock
  <2>7. OthersKept(b) /\ Moves(b, LocalStatus, "PENDING_VERIFICATION")
    BY <2>2, <2>4, <2>6 DEF OthersKept, Kept, Moves
  <2> QED
    BY <1>2, <1>4, <2>3, <2>5, <2>7
<1>5. CASE local[b] # NoBlock /\ DecideWrite(r)
  <2>1. PICK st : st = request[r].status
    OBVIOUS
  <2>2. st \in Verdicts /\ local[b] \in LocalBlock
    BY <1>0, <1>2, <1>5, <2>1 DEF DecideWrite, RequestState
  <2>3. local' = [local EXCEPT ![b] = [@ EXCEPT !.status = st]] /\ rejected' = rejected \cup {b}
    BY <1>1, <1>5, <2>1 DEF DecideWrite
  <2>4. OthersKept(b) /\ Moves(b, LocalStatus, st)
    BY <1>0, <1>2, <2>2, <2>3 DEF OthersKept, Kept, Moves, LocalBlock
  <2>5. /\ late \subseteq late' /\ (local[b].status = "TAMPERED" \/ << b, local[b].incidentId >> \in late')
        /\ late' \subseteq late \cup {<< b, local[b].incidentId >>}
        /\ local[b].status = "TAMPERED" => late' = late
    BY <1>1, <1>5 DEF DecideWrite
  <2> QED
    BY <1>2, <1>5, <2>2, <2>3, <2>4, <2>5
<1> QED
  BY <1>3, <1>4, <1>5

\* Re-chaining and altering a block leave it where it is.
LEMMA RewriteEffect ==
    ASSUME TypeOK, \/ \E r \in Requests : CascadeRechain(r)
                   \/ \E b \in Batches : Alter(b),
           NEW c \in Batches
    PROVE  Kept(c)
<1>1. local \in [Batches -> LocalBlock \cup {NoBlock}]
  BY DEF TypeOK
<1>2. ASSUME NEW r \in Requests, CascadeRechain(r) PROVE Kept(c)
  <2> DEFINE d == OldestOf(request[r].blocks)
             b == d.batchId
             block == ChainedBlock(b, request[r].root, d.merkleRoot, d.eventCount)
             doc == [local[b] EXCEPT !.previousRoot = block.previousRoot,
                                     !.currentRoot = block.currentRoot,
                                     !.signature = block.signature]
  <2>1. local' = IF local[b] = NoBlock THEN local ELSE [local EXCEPT ![b] = doc]
    BY <1>2 DEF CascadeRechain
  <2> HIDE DEF block, b
  <2>2. CASE local[b] = NoBlock \/ c # b
    BY <1>1, <2>1, <2>2 DEF Kept
  <2>3. CASE local[b] # NoBlock /\ c = b
    <3>1. local[b] \in LocalBlock
      BY <1>1, <2>3
    <3>2. doc.batchId = local[b].batchId /\ doc.incidentId = local[b].incidentId /\ doc.status = local[b].status
      BY <3>1 DEF LocalBlock
    <3>3. local'[b] = doc
      BY <1>1, <2>1, <2>3
    <3> QED
      BY <2>3, <3>2, <3>3 DEF Kept
  <2> QED
    BY <2>2, <2>3
<1>3. ASSUME NEW b \in Batches, Alter(b) PROVE Kept(c)
  <2>1. local[b] \in LocalBlock
    BY <1>1, <1>3 DEF Alter, NoBlock, ActiveStatus
  <2> QED
    BY <1>1, <1>3, <2>1 DEF Alter, Kept, LocalBlock
<1> QED
  BY <1>2, <1>3

-----------------------------------------------------------------------------
(* No batch is lost *)

\* The worker is between two awaits of the merge of worker.incidentId.
Holding == worker.pc \in {"verified", "append", "drop"}

InEpoch(b, i, S) == local[b].status \in S /\ local[b].incidentId = i

\* The document found under a batch number is the one of that batch.
BlocksNamed == \A b \in Batches : local[b].status # "NONE" => local[b].batchId = b

\* The admin's verdicts on staged blocks are remembered.
VerdictsRecorded ==
    \A b \in Batches : local[b].status \in {"ACKNOWLEDGED", "DISCARDED"} => b \in rejected

\* The worker merges closed epochs only, and an epoch that it has found clean
\* stays clean: only the worker flags.
EpochClosed ==
    /\ \A i \in worker.todo : incident[i].status = "CLOSED"
    /\ Holding =>
          /\ worker.incidentId \in Incidents
          /\ incident[worker.incidentId].status = "CLOSED"
          /\ \A b \in Batches : ~InEpoch(b, worker.incidentId, {"TAMPERED"})

\* What deleteMany is going to delete is on MAIN, or about to be appended, or
\* was written late.
MergeCovers ==
    \A b \in Batches \ Contested : InEpoch(b, worker.incidentId, ActiveStatus) =>
        /\ worker.pc = "append" => b \in OnMain \/ \E d \in worker.blocks : d.batchId = b
        /\ worker.pc = "drop" => b \in OnMain

Accounted ==
    \A b \in 1 .. (nextBatch - 1) :
        b \in OnMain \/ local[b].status # "NONE" \/ b \in rejected \/ b \in Contested

Keep == BlocksNamed /\ VerdictsRecorded /\ EpochClosed /\ MergeCovers /\ Accounted

KeepInv == TypeOK /\ Reserved /\ Keep

\* Appending to MAIN adds the batch of the block, and nothing leaves MAIN.
LEMMA OnMainAppend ==
    ASSUME TypeOK, NEW block, main' = Append(main, block), block \in MainBlock
    PROVE  OnMain' = OnMain \cup {block.batchId}
<1>1. main \in Seq(MainBlock)
  BY DEF TypeOK
<1>2. /\ DOMAIN main = 1 .. Len(main) /\ Len(main) \in Nat
      /\ DOMAIN main' = 1 .. (Len(main) + 1)
      /\ main'[Len(main) + 1] = block
      /\ \A n \in 1 .. Len(main) : main'[n] = main[n]
  BY <1>1, AppendProperties, LenProperties
<1>3. OnMain' = { main'[n].batchId : n \in DOMAIN main' }
  BY DEF OnMain
<1>4. 1 .. (Len(main) + 1) = (1 .. Len(main)) \cup {Len(main) + 1}
  BY <1>2
<1> QED
  BY <1>2, <1>3, <1>4 DEF OnMain

\* A closed incident stays closed.
LEMMA ClosedStays ==
    ASSUME TypeOK, Reserved, [Next]_vars, NEW i \in Incidents, incident[i].status = "CLOSED"
    PROVE  incident'[i].status = "CLOSED"
<1>1. CASE incident' = incident
  BY <1>1
<1>2. ASSUME NEW r \in Requests, CreateDeclare(r)
      PROVE  incident'[i].status = "CLOSED"
  <2>1. /\ request[r].incidentId \in Incidents /\ incident[request[r].incidentId].status = "NONE"
        /\ incident' = OpenIncidentDoc(request[r].incidentId)
    BY <1>2 DEF CreateDeclare, Reserved, TypeOK, RequestState
  <2> QED
    BY <2>1, DeclareOpens
<1>3. CASE OutageDeclare
  BY <1>3, DeclareOpens DEF OutageDeclare, Reserved
<1>4. CASE WorkerStep /\ ~OutageDeclare
  BY <1>4, WorkerDeclaresOnce
<1>5. \/ incident' = incident \/ WorkerStep \/ \E r \in Requests : CreateDeclare(r)
  BY StepKinds, ReadsWriteNothing
  DEF chainVars, CreateStage, AppendBlock, RecoverWrite, CascadeRechain, DecideWrite, Crash, Alter
<1> QED
  BY <1>1, <1>2, <1>3, <1>4, <1>5

\* What was written late stays so.
LEMMA LateStays ==
    ASSUME [Next]_vars
    PROVE  late \subseteq late' /\ Contested \subseteq Contested'
<1>1. late \subseteq late'
  BY StepKinds, ReadsWriteNothing
  DEF chainVars, CreateDeclare, CreateStage, AppendBlock, RecoverWrite, CascadeRechain, DecideWrite,
      Crash, Alter, WorkerStep, OutageFind, OutageDeclare, ResolveIncident,
      ListIncidents, MergeStep, MergeSkip, MergeRefuse, MergeFlag, MergeFlagged, MergeVerify,
      MergeRead, MergeAppend, MergeDuplicate, MergeRecord, MergeDrop
<1> QED
  BY <1>1 DEF Contested

\* Only /create and the decisions write late.
LEMMA LateSteps ==
    ASSUME [Next]_vars
    PROVE  \/ late' = late
           \/ \E r \in Requests : CreateStage(r) \/ RecoverWrite(r) \/ DecideWrite(r)
BY StepKinds, ReadsWriteNothing
DEF chainVars, CreateDeclare, AppendBlock, CascadeRechain, Crash, Alter, WorkerStep, OutageFind,
    OutageDeclare, ResolveIncident, ListIncidents, MergeStep, MergeSkip, MergeRefuse, MergeFlag,
    MergeFlagged, MergeVerify, MergeRead, MergeAppend, MergeDuplicate, MergeRecord, MergeDrop

\* Between two incidents of a cycle, and after the last, nothing is held.
LEMMA NextIncidentHoldsNothing ==
    ASSUME TypeOK, NEW i, worker' = NextIncident(i)
    PROVE  ~Holding' /\ worker'.pc \notin {"append", "drop"} /\ worker'.todo \subseteq worker.todo
BY DEF TypeOK, NextIncident, MergesLeft, WorkerIdle, Holding, WorkerState

\* Steps that leave the staged blocks where they are, and the worker too.
LEMMA KeepQuietly ==
    ASSUME KeepInv, [Next]_vars, TypeOK', \A b \in Batches : Kept(b), worker' = worker,
           OnMain \subseteq OnMain', rejected' = rejected,
           nextBatch' = nextBatch \/ (nextBatch' = nextBatch + 1 /\ nextBatch \in OnMain')
    PROVE  Keep'
<1>1. worker \in WorkerState /\ worker.todo \subseteq Incidents
  BY DEF KeepInv, TypeOK, WorkerState
<1>2. BlocksNamed' /\ VerdictsRecorded'
  BY DEF KeepInv, Keep, BlocksNamed, VerdictsRecorded, Kept
<1>3. EpochClosed'
  BY <1>1, ClosedStays DEF KeepInv, Keep, EpochClosed, Kept, Holding, InEpoch
<1>4. MergeCovers'
  BY LateStays DEF KeepInv, Keep, MergeCovers, Kept, InEpoch
<1>5. Accounted'
  <2>1. nextBatch \in 1 .. (MaxBatches + 1) /\ nextBatch' \in 1 .. (MaxBatches + 1)
    BY DEF KeepInv, TypeOK
  <2>2. nextBatch' - 1 \in Nat /\ nextBatch' - 1 <= MaxBatches
    <3>1. \A m \in Nat : \A n \in 1 .. (m + 1) : n - 1 \in Nat /\ n - 1 <= m
      OBVIOUS
    <3> QED
      BY <2>1, <3>1, MaxBatchesAssumption
  <2>3. CASE nextBatch' = nextBatch
    <3>1. \A b \in 1 .. (nextBatch - 1) : b \in Batches
      BY <2>2, <2>3, MaxBatchesAssumption DEF Batches
    <3> QED
      BY <2>3, <3>1, LateStays DEF KeepInv, Keep, Accounted, Kept
  <2>4. CASE nextBatch' = nextBatch + 1 /\ nextBatch \in OnMain'
    <3>1. \A b \in 1 .. nextBatch : b \in Batches /\ (b \in 1 .. (nextBatch - 1) \/ b = nextBatch)
      BY <2>1, <2>2, <2>4, MaxBatchesAssumption DEF Batches
    <3>2. nextBatch' - 1 = nextBatch
      BY <2>1, <2>4
    <3> QED
      BY <2>4, <3>1, <3>2, LateStays DEF KeepInv, Keep, Accounted, Kept
  <2> QED
    BY <2>3, <2>4
<1> QED
  BY <1>2, <1>3, <1>4, <1>5 DEF Keep

\* Steps of the worker that leave the staged blocks and MAIN where they are,
\* and do not put the worker between two awaits of a merge.
LEMMA KeepReleased ==
    ASSUME KeepInv, [Next]_vars, TypeOK', \A b \in Batches : Kept(b), main' = main,
           rejected' = rejected, nextBatch' = nextBatch, ~Holding',
           \A i \in worker'.todo : incident'[i].status = "CLOSED"
    PROVE  Keep'
<1>1. OnMain' = OnMain
  BY DEF OnMain
<1>2. BlocksNamed' /\ VerdictsRecorded'
  BY DEF KeepInv, Keep, BlocksNamed, VerdictsRecorded, Kept
<1>3. EpochClosed' /\ MergeCovers'
  BY DEF EpochClosed, MergeCovers, Holding
<1>4. \A b \in 1 .. (nextBatch - 1) : b \in Batches
  BY MaxBatchesAssumption DEF KeepInv, TypeOK, Batches
<1>5. Accounted'
  BY <1>1, <1>4, LateStays DEF KeepInv, Keep, Accounted, Kept
<1> QED
  BY <1>2, <1>3, <1>5 DEF Keep

\* /create accounts for its batch: on MAIN, or staged.
LEMMA KeepAppendBlock ==
    ASSUME KeepInv, TypeOK', [Next]_vars, NEW r \in Requests, AppendBlock(r)
    PROVE  Keep'
<1> DEFINE block == ChainedBlock(nextBatch, request[r].root, MerkleRoot(nextBatch, "PENDING"), BatchSize)
<1>1. nextBatch \in Batches /\ MerkleRoot(nextBatch, "PENDING") \in Batches \X RowStates
  BY DEF AppendBlock, NextBatchStored, MerkleRoot, RowStates
<1>2. block \in MainBlock /\ block.batchId = nextBatch
  <2>1. request[r].root \in Roots
    BY DEF KeepInv, TypeOK, RequestState, RequestLocals
  <2> QED
    BY <1>1, <2>1, ChainedBlockType, BatchSizeAssumption
<1>3. main' = Append(main, block)
  BY DEF AppendBlock
<1> HIDE DEF block
<1>4. OnMain' = OnMain \cup {nextBatch}
  BY <1>2, <1>3, OnMainAppend DEF KeepInv
<1>5. \A b \in Batches : Kept(b)
  BY DEF AppendBlock, Kept
<1> QED
  BY <1>4, <1>5, KeepQuietly DEF AppendBlock, NextBatchStored

LEMMA KeepStage ==
    ASSUME KeepInv, TypeOK', [Next]_vars, NEW r \in Requests, CreateStage(r)
    PROVE  Keep'
<1> DEFINE i == request[r].incidentId
<1>1. /\ nextBatch \in Batches /\ OthersKept(nextBatch)
      /\ local'[nextBatch].batchId = nextBatch /\ local'[nextBatch].incidentId = i
      /\ local'[nextBatch].status = "PENDING_VERIFICATION"
      /\ incident[i].status = "OPEN" \/ << nextBatch, i >> \in late'
  BY StageEffect DEF KeepInv
<1>2. /\ OnMain' = OnMain /\ worker' = worker /\ rejected' = rejected
      /\ nextBatch' = nextBatch + 1
  BY DEF CreateStage, NextBatchStored, OnMain
<1> HIDE DEF i
<1>3. << nextBatch, i >> \in late' => nextBatch \in Contested'
  BY DEF Contested
<1>4. worker \in WorkerState /\ worker.todo \subseteq Incidents
  BY DEF KeepInv, TypeOK, WorkerState
<1>5. Holding => worker.incidentId # i \/ nextBatch \in Contested'
  BY <1>1, <1>3 DEF KeepInv, Keep, EpochClosed
<1>6. BlocksNamed' /\ VerdictsRecorded'
  BY <1>1, <1>2 DEF KeepInv, Keep, BlocksNamed, VerdictsRecorded, OthersKept, Kept
<1>7. EpochClosed'
  <2>1. \A j \in worker'.todo : incident'[j].status = "CLOSED"
    BY <1>2, <1>4, ClosedStays DEF KeepInv, Keep, EpochClosed
  <2>2. Holding => /\ worker.incidentId \in Incidents
                   /\ incident'[worker.incidentId].status = "CLOSED"
    BY ClosedStays DEF KeepInv, Keep, EpochClosed
  <2>3. \A b \in Batches : Holding => ~InEpoch(b, worker.incidentId, {"TAMPERED"})'
    BY <1>1, <1>2 DEF KeepInv, Keep, EpochClosed, OthersKept, Kept, InEpoch
  <2> QED
    BY <1>2, <2>1, <2>2, <2>3 DEF EpochClosed, Holding, InEpoch
<1>8. MergeCovers'
  BY <1>1, <1>2, <1>5, LateStays DEF KeepInv, Keep, MergeCovers, OthersKept, Kept, InEpoch, Holding
<1>9. Accounted'
  <2>1. nextBatch \in Nat /\ nextBatch <= MaxBatches /\ nextBatch' = nextBatch + 1
    BY <1>1, <1>2, MaxBatchesAssumption DEF Batches
  <2>2. \A b \in 1 .. (nextBatch' - 1) : b \in Batches /\ (b \in 1 .. (nextBatch - 1) \/ b = nextBatch)
    BY <2>1, MaxBatchesAssumption DEF Batches
  <2> QED
    BY <1>1, <1>2, <2>2, LateStays DEF KeepInv, Keep, Accounted, OthersKept, Kept
<1> QED
  BY <1>6, <1>7, <1>8, <1>9 DEF Keep

\* The merge keeps every batch accounted for, up to deleteMany.
LEMMA KeepMerge ==
    ASSUME KeepInv, TypeOK', [Next]_vars, MergeStep
    PROVE  Keep'
<1>1. /\ worker \in WorkerState /\ worker.todo \subseteq Incidents
      /\ worker.blocks \subseteq LocalBlock
  BY DEF KeepInv, TypeOK, WorkerState
<1>2. \A i \in worker.todo : incident'[i].status = "CLOSED"
  BY <1>1, ClosedStays DEF KeepInv, Keep, EpochClosed
<1>3. local' = local => \A b \in Batches : Kept(b)
  BY DEF Kept
<1>4. ASSUME NEW i \in Incidents, MergeSkip(i) PROVE Keep'
  BY <1>2, <1>3, <1>4, NextIncidentHoldsNothing, KeepReleased DEF MergeSkip, KeepInv
<1>5. ASSUME NEW i \in Incidents, MergeRefuse(i) PROVE Keep'
  <2>1. worker'.pc = "flag" /\ worker'.todo = worker.todo
    BY <1>1, <1>5 DEF MergeRefuse, WorkerState
  <2> QED
    BY <1>2, <1>3, <1>5, <2>1, KeepReleased DEF MergeRefuse, Holding
<1>12. CASE MergeFlag
  <2>1. \A b \in Batches : Kept(b) \/ Moves(b, LocalStatus, "TAMPERED")
    BY <1>12, FlagEffect DEF KeepInv
  <2>2. /\ OnMain' = OnMain /\ rejected' = rejected /\ nextBatch' = nextBatch
        /\ worker'.pc = "flag" /\ worker'.todo = worker.todo
    BY <1>12, FlagWrites DEF MergeFlag, OnMain, KeepInv
  <2>3. BlocksNamed' /\ VerdictsRecorded'
    BY <2>1, <2>2 DEF KeepInv, Keep, BlocksNamed, VerdictsRecorded, Kept, Moves, LocalStatus, ActiveStatus
  <2>4. EpochClosed' /\ MergeCovers'
    BY <1>2, <2>2 DEF EpochClosed, MergeCovers, Holding
  <2>5. \A b \in 1 .. (nextBatch - 1) : b \in Batches
    BY MaxBatchesAssumption DEF KeepInv, TypeOK, Batches
  <2>6. Accounted'
    BY <2>1, <2>2, <2>5, LateStays DEF KeepInv, Keep, Accounted, Kept, Moves
  <2> QED
    BY <2>3, <2>4, <2>6 DEF Keep
<1>13. CASE MergeFlagged
  BY <1>2, <1>3, <1>13, NextIncidentHoldsNothing, KeepReleased DEF MergeFlagged, KeepInv
<1>6. ASSUME NEW i \in Incidents, MergeVerify(i) PROVE Keep'
  <2>1. worker'.pc = "verified" /\ worker'.incidentId = i /\ worker'.todo = worker.todo
    BY <1>1, <1>6 DEF MergeVerify, WorkerState
  <2>2. /\ local' = local /\ OnMain' = OnMain /\ rejected' = rejected /\ nextBatch' = nextBatch
        /\ incident' = incident
    BY <1>6 DEF MergeVerify, OnMain
  <2>3. /\ incident[i].status = "CLOSED"
        /\ \A b \in Batches : ~InEpoch(b, i, {"TAMPERED"})
    BY <1>6 DEF MergeVerify, Tampered, WithStatus, InEpoch, KeepInv, Keep, EpochClosed
  <2>4. EpochClosed'
    BY <1>2, <2>1, <2>2, <2>3 DEF EpochClosed, InEpoch
  <2>5. MergeCovers'
    BY <2>1 DEF MergeCovers
  <2> QED
    BY <2>2, <2>4, <2>5, LateStays DEF KeepInv, Keep, BlocksNamed, VerdictsRecorded, Accounted
<1>7. CASE MergeRead
  <2>1. CASE Active(worker.incidentId) = {}
    BY <1>2, <1>3, <1>7, <2>1, NextIncidentHoldsNothing, KeepReleased DEF MergeRead, KeepInv
  <2>2. CASE Active(worker.incidentId) # {}
    <3>1. /\ worker'.pc = "append" /\ worker'.incidentId = worker.incidentId
          /\ worker'.todo = worker.todo
          /\ worker'.blocks = { local[b] : b \in Active(worker.incidentId) }
      BY <1>1, <1>7, <2>2 DEF MergeRead, WorkerState
    <3>2. /\ local' = local /\ OnMain' = OnMain /\ rejected' = rejected /\ nextBatch' = nextBatch
          /\ incident' = incident
      BY <1>7 DEF MergeRead, OnMain
    <3>3. EpochClosed'
      BY <1>7, <3>1, <3>2 DEF MergeRead, KeepInv, Keep, EpochClosed, Holding, InEpoch
    <3>4. MergeCovers'
      <4>1. \A b \in Batches : InEpoch(b, worker.incidentId, ActiveStatus)
               => local[b] \in worker'.blocks /\ local[b].batchId = b
        BY <3>1 DEF InEpoch, Active, WithStatus, KeepInv, Keep, BlocksNamed, ActiveStatus
      <4> QED
        BY <3>1, <3>2, <4>1 DEF MergeCovers, InEpoch
    <3> QED
      BY <3>2, <3>3, <3>4, LateStays DEF KeepInv, Keep, BlocksNamed, VerdictsRecorded, Accounted
  <2> QED
    BY <2>1, <2>2
<1>8. CASE MergeAppend
  <2> DEFINE d == OldestOf(worker.blocks)
             block == ChainedBlock(d.batchId, worker.mainTail, d.merkleRoot, d.eventCount)
  <2>1. d \in LocalBlock
    BY <1>1, <1>8, OldestInSet DEF MergeAppend
  <2>2. block \in MainBlock /\ block.batchId = d.batchId
    <3> HIDE DEF d
    <3> QED
      BY <1>1, <2>1, ChainedBlockType DEF LocalBlock, WorkerState
  <2>3. main' = Append(main, block) /\ worker.pc = "append"
    BY <1>8 DEF MergeAppend
  <2>4. /\ local' = local /\ rejected' = rejected /\ nextBatch' = nextBatch /\ incident' = incident
    BY <1>8 DEF MergeAppend
  <2>5. /\ worker'.pc = "append" /\ worker'.incidentId = worker.incidentId
        /\ worker'.todo = worker.todo /\ worker'.blocks = worker.blocks \ {d}
    BY <1>1, <1>8 DEF MergeAppend, WorkerState
  <2> HIDE DEF block, d
  <2>6. OnMain' = OnMain \cup {d.batchId}
    BY <2>2, <2>3, OnMainAppend DEF KeepInv
  <2>7. EpochClosed'
    BY <2>3, <2>4, <2>5 DEF KeepInv, Keep, EpochClosed, Holding, InEpoch
  <2>8. MergeCovers'
    BY <2>3, <2>4, <2>5, <2>6, LateStays DEF KeepInv, Keep, MergeCovers, InEpoch
  <2>9. Accounted'
    BY <2>4, <2>6, LateStays DEF KeepInv, Keep, Accounted
  <2> QED
    BY <2>4, <2>7, <2>8, <2>9 DEF KeepInv, Keep, BlocksNamed, VerdictsRecorded
<1>9. CASE MergeDuplicate
  BY <1>3, <1>9, KeepReleased DEF MergeDuplicate, WorkerIdle, Holding
<1>10. CASE MergeRecord
  <2>1. /\ worker.pc = "append" /\ worker.blocks = {} /\ local' = local /\ OnMain' = OnMain
        /\ rejected' = rejected /\ nextBatch' = nextBatch
    BY <1>10 DEF MergeRecord, OnMain
  <2>2. /\ worker'.pc = "drop" /\ worker'.incidentId = worker.incidentId
        /\ worker'.todo = worker.todo
    BY <1>1, <1>10 DEF MergeRecord, WorkerState
  <2>3. EpochClosed'
    BY <1>2, <2>1, <2>2, ClosedStays DEF KeepInv, Keep, EpochClosed, Holding, InEpoch
  <2>4. MergeCovers'
    BY <2>1, <2>2, LateStays DEF KeepInv, Keep, MergeCovers, InEpoch
  <2> QED
    BY <2>1, <2>3, <2>4, LateStays DEF KeepInv, Keep, BlocksNamed, VerdictsRecorded, Accounted
<1>11. CASE MergeDrop
  <2> DEFINE i == worker.incidentId
  <2>1. /\ worker.pc = "drop" /\ OnMain' = OnMain /\ rejected' = rejected /\ nextBatch' = nextBatch
        /\ ~Holding' /\ worker'.pc \notin {"append", "drop"} /\ worker'.todo \subseteq worker.todo
    BY <1>11, NextIncidentHoldsNothing DEF MergeDrop, OnMain, KeepInv
  <2>2. \A b \in Batches : local'[b] = IF b \in WithStatus(i, LocalStatus) THEN NoBlock ELSE local[b]
    BY <1>11 DEF MergeDrop
  <2>3. BlocksNamed' /\ VerdictsRecorded'
    BY <2>1, <2>2 DEF KeepInv, Keep, BlocksNamed, VerdictsRecorded, NoBlock
  <2>4. EpochClosed' /\ MergeCovers'
    BY <1>2, <2>1 DEF EpochClosed, MergeCovers
  <2>5. \A b \in Batches : b \in WithStatus(i, LocalStatus) => b \in OnMain \/ b \in rejected \/ b \in Contested
    <3> SUFFICES ASSUME NEW b \in Batches, b \in WithStatus(i, LocalStatus)
                 PROVE  b \in OnMain \/ b \in rejected \/ b \in Contested
      OBVIOUS
    <3>1. CASE local[b].status \in ActiveStatus
      BY <2>1, <3>1 DEF WithStatus, InEpoch, KeepInv, Keep, MergeCovers
    <3>2. CASE local[b].status = "TAMPERED"
      BY <2>1, <3>2 DEF WithStatus, InEpoch, KeepInv, Keep, EpochClosed, Holding
    <3>3. CASE local[b].status \in {"ACKNOWLEDGED", "DISCARDED"}
      BY <3>3 DEF KeepInv, Keep, VerdictsRecorded
    <3> QED
      BY <3>1, <3>2, <3>3 DEF WithStatus, LocalStatus
  <2>6. \A b \in 1 .. (nextBatch - 1) : b \in Batches
    BY MaxBatchesAssumption DEF KeepInv, TypeOK, Batches
  <2>7. Accounted'
    BY <2>1, <2>2, <2>5, <2>6, LateStays DEF KeepInv, Keep, Accounted
  <2> QED
    BY <2>3, <2>4, <2>7 DEF Keep
<1> QED
  BY <1>4, <1>5, <1>6, <1>7, <1>8, <1>9, <1>10, <1>11, <1>12, <1>13 DEF MergeStep

\* A decision written late leaves its block to the merge, and out of the covers.
LEMMA KeepDecision ==
    ASSUME KeepInv, TypeOK', [Next]_vars, NEW r \in Requests, RecoverWrite(r) \/ DecideWrite(r)
    PROVE  Keep'
<1>1. PICK b \in Batches :
         /\ OthersKept(b)
         /\ \/ Kept(b) /\ rejected' = rejected
            \/ /\ \E st \in LocalStatus : Moves(b, LocalStatus, st)
               /\ \/ local'[b].status = "PENDING_VERIFICATION" /\ rejected' = rejected \ {b}
                  \/ local'[b].status \in Verdicts /\ rejected' = rejected \cup {b}
               /\ local[b].status = "TAMPERED" \/ << b, local[b].incidentId >> \in late'
  <2>1. PICK b \in Batches :
          /\ OthersKept(b)
          /\ \/ Kept(b) /\ rejected' = rejected
             \/ /\ Moves(b, LocalStatus, "PENDING_VERIFICATION") /\ rejected' = rejected \ {b}
                /\ local[b].status = "TAMPERED" \/ << b, local[b].incidentId >> \in late'
             \/ /\ \E st \in Verdicts : Moves(b, LocalStatus, st)
                /\ rejected' = rejected \cup {b}
                /\ local[b].status = "TAMPERED" \/ << b, local[b].incidentId >> \in late'
    BY DecisionEffect DEF KeepInv
  <2>2. Verdicts \cup {"PENDING_VERIFICATION"} \subseteq LocalStatus
    BY DEF Verdicts, LocalStatus, ActiveStatus
  <2> QED
    BY <2>1, <2>2 DEF Moves
<1>2. OnMain' = OnMain /\ worker' = worker /\ nextBatch' = nextBatch /\ incident' = incident
  BY DEF RecoverWrite, DecideWrite, OnMain
<1>3. BlocksNamed' /\ VerdictsRecorded'
  BY <1>1 DEF KeepInv, Keep, BlocksNamed, VerdictsRecorded, OthersKept, Kept, Moves, LocalStatus,
              ActiveStatus, Verdicts
<1>4. Holding => Kept(b) \/ local[b].incidentId # worker.incidentId \/ b \in Contested'
  BY <1>1 DEF KeepInv, Keep, EpochClosed, InEpoch, Contested
<1>5. EpochClosed'
  <2>1. \A c \in Batches : Holding => ~InEpoch(c, worker.incidentId, {"TAMPERED"})'
    BY <1>1, <1>2 DEF KeepInv, Keep, EpochClosed, OthersKept, Kept, Moves, InEpoch, Verdicts
  <2> QED
    BY <1>2, <2>1 DEF KeepInv, Keep, EpochClosed, Holding, InEpoch
<1>6. MergeCovers'
  <2>1. \A c \in Batches \ Contested' : Holding =>
          Kept(c) \/ local'[c].incidentId # worker.incidentId
    BY <1>1, <1>4 DEF OthersKept, Moves
  <2> QED
    BY <1>2, <2>1, LateStays DEF KeepInv, Keep, MergeCovers, Kept, InEpoch, Holding
<1>7. \A c \in 1 .. (nextBatch - 1) : c \in Batches
  BY MaxBatchesAssumption DEF KeepInv, TypeOK, Batches
<1>8. Accounted'
  BY <1>1, <1>2, <1>7, LateStays
  DEF KeepInv, Keep, Accounted, OthersKept, Kept, Moves, Verdicts
<1> QED
  BY <1>3, <1>5, <1>6, <1>8 DEF Keep

\* So do all the other steps.
LEMMA KeepStep == KeepInv /\ [Next]_vars => KeepInv'
<1> SUFFICES ASSUME KeepInv, [Next]_vars PROVE Keep'
  BY TypeStep, ReservedStep DEF KeepInv
<1>1. TypeOK'
  BY TypeStep DEF KeepInv
<1>2. ASSUME NEW r \in Requests, CreateStage(r) \/ AppendBlock(r) PROVE Keep'
  BY <1>1, <1>2, KeepStage, KeepAppendBlock
<1>3. CASE MergeStep
  BY <1>1, <1>3, KeepMerge
<1>4. ASSUME NEW r \in Requests, RecoverWrite(r) \/ DecideWrite(r) PROVE Keep'
  BY <1>1, <1>4, KeepDecision
<1>5. CASE \/ \E r \in Requests : CascadeRechain(r)
           \/ \E b \in Batches : Alter(b)
  <2>1. \A b \in Batches : Kept(b)
    BY <1>5, RewriteEffect DEF KeepInv
  <2>2. worker' = worker /\ OnMain' = OnMain /\ rejected' = rejected /\ nextBatch' = nextBatch
    BY <1>5 DEF CascadeRechain, Alter, OnMain
  <2> QED
    BY <1>1, <2>1, <2>2, KeepQuietly
<1>6. CASE ReadStep \/ \E r \in Requests : CreateDeclare(r)
  <2>1. /\ local' = local /\ worker' = worker /\ OnMain' = OnMain /\ rejected' = rejected
        /\ nextBatch' = nextBatch
    BY <1>6, ReadsWriteNothing DEF chainVars, CreateDeclare, OnMain
  <2>2. \A b \in Batches : Kept(b)
    BY <2>1 DEF Kept
  <2> QED
    BY <1>1, <2>1, <2>2, KeepQuietly
<1>7. CASE OutageFind \/ OutageDeclare \/ ResolveIncident \/ ListIncidents \/ Crash
  <2>1. /\ worker'.pc \in {"idle", "declare", "list", "cycle"}
        /\ worker'.todo = {} \/ (worker'.todo = IncidentsToMerge /\ incident' = incident)
    <3>1. CASE OutageFind \/ ResolveIncident
      BY <3>1 DEF OutageFind, ResolveIncident, WorkerIdle
    <3>2. CASE OutageDeclare \/ Crash
      BY <3>2 DEF OutageDeclare, Crash, WorkerIdle
    <3>3. CASE ListIncidents
      BY <3>3 DEF ListIncidents, MergesLeft, WorkerIdle
    <3> QED
      BY <1>7, <3>1, <3>2, <3>3
  <2>2. (\A i \in worker'.todo : incident'[i].status = "CLOSED") /\ ~Holding'
    BY <2>1 DEF IncidentsToMerge, Holding
  <2>3. local' = local /\ main' = main /\ rejected' = rejected /\ nextBatch' = nextBatch
    BY <1>7 DEF OutageFind, OutageDeclare, ResolveIncident, ListIncidents, Crash
  <2>4. \A b \in Batches : Kept(b)
    BY <2>3 DEF Kept
  <2> QED
    BY <1>1, <2>2, <2>3, <2>4, KeepReleased
<1> QED
  BY <1>2, <1>3, <1>4, <1>5, <1>6, <1>7, StepKinds DEF WorkerStep

LEMMA KeepInit == Init => KeepInv
<1> SUFFICES ASSUME Init PROVE Keep
  BY TypeInit, ReservedInit DEF KeepInv
<1>1. \A b \in Batches : local[b].status = "NONE"
  BY DEF Init, NoBlock
<1>2. nextBatch = 1 /\ worker.pc = "idle" /\ worker.todo = {}
  BY DEF Init, WorkerIdle
<1> QED
  BY <1>1, <1>2 DEF Keep, BlocksNamed, VerdictsRecorded, EpochClosed, Holding, MergeCovers,
                    InEpoch, Accounted, ActiveStatus

\* Every batch that was created is on MAIN, staged or rejected, for ever, also
\* when handlers overlap and when the server is restarted during a merge, but
\* for the batches whose block was written by a check that held no more.
THEOREM BatchesKept == Spec => []NoBatchLost
<1>1. KeepInv => NoBatchLost
  <2>1. ASSUME KeepInv, NEW b \in 1 .. (nextBatch - 1)
        PROVE  b \in OnMain \cup OnLocal \cup rejected \cup Contested
    <3>1. b \in Batches
      BY <2>1, MaxBatchesAssumption DEF KeepInv, TypeOK, Batches
    <3>2. local[b].status # "NONE" => b \in OnLocal
      BY <3>1 DEF OnLocal, NoBlock
    <3> QED
      BY <2>1, <3>2 DEF KeepInv, Keep, Accounted
  <2> QED
    BY <2>1 DEF NoBatchLost
<1> QED
  BY <1>1, KeepInit, KeepStep, PTL DEF Spec

-----------------------------------------------------------------------------
(* One home per batch, and quarantine holds *)

\* A batch that is somewhere has been created.
Numbered ==
    /\ \A b \in Batches : local[b].status # "NONE" => b < nextBatch
    /\ \A b \in OnMain \cup rejected : b < nextBatch

MainDistinct == \A m, n \in DOMAIN main : main[m].batchId = main[n].batchId => m = n

\* On both chains are only blocks of the epoch being merged, active ones unless
\* one was written late.
BothWhileMerging ==
    \A b \in Batches : b \in OnMain /\ local[b].status # "NONE" =>
        /\ worker.pc \in {"append", "drop"} /\ InEpoch(b, worker.incidentId, LocalStatus)
        /\ b \in Contested \/ local[b].status \in ActiveStatus

\* A rejected block is not on MAIN, and no step but a recover makes it active.
VerdictsStand ==
    \A b \in rejected \ Contested :
        b \notin OnMain /\ local[b].status \in {"NONE", "TAMPERED", "ACKNOWLEDGED", "DISCARDED"}

\* The worker's list names blocks of the epoch that are not on MAIN yet, active
\* ones but for those written late.
ListIsActive ==
    /\ \A d \in worker.blocks :
          /\ worker.pc = "append"
          /\ InEpoch(d.batchId, worker.incidentId, LocalStatus)
          /\ d.batchId \in Contested \/ local[d.batchId].status \in ActiveStatus
          /\ d.batchId \notin OnMain
    /\ \A d, e \in worker.blocks : d.batchId = e.batchId => d = e

\* The server is not stopped between the first block a merge appends to MAIN and
\* the end of deleteMany.
NoRestartInMerge == crashes' # crashes => worker.pc \notin {"append", "drop"}

Homes == Numbered /\ MainDistinct /\ BothWhileMerging /\ VerdictsStand /\ ListIsActive

HomesInv == KeepInv /\ Homes

\* Names of the batches on the three lists are batches.
LEMMA HomesTypes ==
    ASSUME TypeOK
    PROVE  /\ OnMain \subseteq Batches /\ rejected \subseteq Batches
           /\ \A d \in worker.blocks : d.batchId \in Batches
           /\ nextBatch \in Nat
<1>1. \A n \in DOMAIN main : main[n] \in MainBlock
  BY DEF TypeOK
<1>2. nextBatch \in 1 .. (MaxBatches + 1) /\ rejected \subseteq Batches
      /\ worker.blocks \subseteq LocalBlock
  BY DEF TypeOK, WorkerState
<1> QED
  BY <1>1, <1>2, MaxBatchesAssumption DEF OnMain, MainBlock, LocalBlock

\* Steps that leave both chains and the worker where they are.
LEMMA HomesQuietly ==
    ASSUME HomesInv, [Next]_vars, \A b \in Batches : Kept(b), worker' = worker, main' = main,
           rejected' = rejected, nextBatch' = nextBatch
    PROVE  Homes'
<1>1. OnMain' = OnMain
  BY DEF OnMain
<1>2. TypeOK
  BY DEF HomesInv, KeepInv
<1>3. Numbered' /\ MainDistinct' /\ BothWhileMerging' /\ VerdictsStand'
  BY <1>1, <1>2, HomesTypes, LateStays
  DEF HomesInv, Homes, Numbered, MainDistinct, BothWhileMerging, VerdictsStand, Kept, InEpoch
<1>4. ListIsActive'
  BY <1>1, <1>2, HomesTypes, LateStays DEF HomesInv, Homes, ListIsActive, Kept, InEpoch
<1> QED
  BY <1>3, <1>4 DEF Homes

\* Steps of the worker outside its merge loop that leave both chains alone.
LEMMA HomesReleased ==
    ASSUME HomesInv, [Next]_vars, \A b \in Batches : Kept(b), main' = main,
           rejected' = rejected, nextBatch' = nextBatch, worker.pc \notin {"append", "drop"}, worker'.blocks = {}
    PROVE  Homes'
<1>1. OnMain' = OnMain
  BY DEF OnMain
<1>2. TypeOK
  BY DEF HomesInv, KeepInv
<1>3. Numbered' /\ MainDistinct' /\ VerdictsStand'
  BY <1>1, <1>2, HomesTypes, LateStays
  DEF HomesInv, Homes, Numbered, MainDistinct, VerdictsStand, Kept
<1>4. BothWhileMerging' /\ ListIsActive'
  BY <1>1 DEF HomesInv, Homes, BothWhileMerging, ListIsActive, Kept
<1> QED
  BY <1>3, <1>4 DEF Homes

\* Appending a batch that is not on MAIN keeps the batches of MAIN distinct.
LEMMA AppendDistinct ==
    ASSUME TypeOK, MainDistinct, NEW block \in MainBlock, main' = Append(main, block),
           block.batchId \notin OnMain
    PROVE  MainDistinct'
<1>1. main \in Seq(MainBlock)
  BY DEF TypeOK
<1>2. /\ DOMAIN main = 1 .. Len(main) /\ Len(main) \in Nat
      /\ DOMAIN main' = 1 .. (Len(main) + 1)
      /\ main'[Len(main) + 1] = block
      /\ \A n \in 1 .. Len(main) : main'[n] = main[n]
  BY <1>1, AppendProperties, LenProperties
<1>3. \A n \in 1 .. Len(main) : main[n].batchId \in OnMain
  BY <1>2 DEF OnMain
<1>4. \A n \in 1 .. (Len(main) + 1) : n \in 1 .. Len(main) \/ n = Len(main) + 1
  BY <1>2
<1> QED
  BY <1>2, <1>3, <1>4 DEF MainDistinct

\* /create gives a new batch one home.
LEMMA HomesCreate ==
    ASSUME HomesInv, [Next]_vars, NEW r \in Requests, CreateStage(r) \/ AppendBlock(r)
    PROVE  Homes'
<1>1. TypeOK /\ nextBatch \in Nat /\ ~(nextBatch < nextBatch)
  BY HomesTypes DEF HomesInv, KeepInv
<1>2. nextBatch \in Batches /\ nextBatch' = nextBatch + 1
  BY DEF CreateStage, AppendBlock, NextBatchStored
<1>3. /\ nextBatch \notin OnMain \cup rejected /\ local[nextBatch].status = "NONE"
      /\ \A d \in worker.blocks : d.batchId # nextBatch
  BY <1>1, <1>2 DEF HomesInv, Homes, Numbered, ListIsActive, InEpoch, LocalStatus, ActiveStatus
<1>4. OnMain \subseteq Batches /\ rejected \subseteq Batches
      /\ \A b \in Batches : b \in Nat /\ (b < nextBatch => b < nextBatch + 1)
  BY <1>1, HomesTypes, MaxBatchesAssumption DEF Batches
<1>5. CASE AppendBlock(r)
  <2> DEFINE block == ChainedBlock(nextBatch, request[r].root, MerkleRoot(nextBatch, "PENDING"), BatchSize)
  <2>1. MerkleRoot(nextBatch, "PENDING") \in Batches \X RowStates
    BY <1>2 DEF MerkleRoot, RowStates
  <2>2. block \in MainBlock /\ block.batchId = nextBatch
    <3>1. request[r].root \in Roots
      BY <1>1 DEF TypeOK, RequestState, RequestLocals
    <3> QED
      BY <1>2, <2>1, <3>1, ChainedBlockType, BatchSizeAssumption
  <2>3. main' = Append(main, block) /\ local' = local /\ worker' = worker /\ rejected' = rejected
    BY <1>5 DEF AppendBlock
  <2> HIDE DEF block
  <2>4. OnMain' = OnMain \cup {nextBatch}
    BY <1>1, <2>2, <2>3, OnMainAppend
  <2>5. MainDistinct'
    BY <1>1, <1>3, <2>2, <2>3, AppendDistinct DEF HomesInv, Homes
  <2>6. Numbered'
    BY <1>1, <1>2, <1>4, <2>3, <2>4 DEF HomesInv, Homes, Numbered
  <2>7. BothWhileMerging' /\ VerdictsStand' /\ ListIsActive'
    BY <1>3, <2>3, <2>4, LateStays
    DEF HomesInv, Homes, BothWhileMerging, VerdictsStand, ListIsActive, InEpoch
  <2> QED
    BY <2>5, <2>6, <2>7 DEF Homes
<1>6. CASE CreateStage(r)
  <2>1. OthersKept(nextBatch) /\ local'[nextBatch].status = "PENDING_VERIFICATION"
    BY <1>1, <1>6, StageEffect
  <2>2. main' = main /\ worker' = worker /\ rejected' = rejected /\ OnMain' = OnMain
    BY <1>6 DEF CreateStage, OnMain
  <2>3. Numbered'
    BY <1>1, <1>2, <1>4, <2>1, <2>2 DEF HomesInv, Homes, Numbered, OthersKept, Kept
  <2>4. MainDistinct'
    BY <2>2 DEF HomesInv, Homes, MainDistinct
  <2>5. BothWhileMerging' /\ VerdictsStand'
    BY <1>3, <1>4, <2>1, <2>2, LateStays
    DEF HomesInv, Homes, BothWhileMerging, VerdictsStand, OthersKept, Kept, InEpoch
  <2>6. ListIsActive'
    BY <1>1, <1>3, <2>1, <2>2, HomesTypes, LateStays
    DEF HomesInv, Homes, ListIsActive, OthersKept, Kept, InEpoch
  <2> QED
    BY <2>3, <2>4, <2>5, <2>6 DEF Homes
<1> QED
  BY <1>5, <1>6

\* The merge moves the blocks of one epoch, each of them once.
LEMMA HomesMerge ==
    ASSUME HomesInv, [Next]_vars, MergeStep
    PROVE  Homes'
<1>1. /\ TypeOK /\ worker \in WorkerState /\ worker.blocks \subseteq LocalBlock
      /\ OnMain \subseteq Batches /\ rejected \subseteq Batches
  BY HomesTypes DEF HomesInv, KeepInv, TypeOK, WorkerState
<1>2. local' = local => \A b \in Batches : Kept(b)
  BY DEF Kept
<1>3. worker.pc # "append" => worker.blocks = {}
  BY DEF HomesInv, Homes, ListIsActive
<1>4. \A i : NextIncident(i).blocks = {}
  BY DEF NextIncident, MergesLeft, WorkerIdle
<1>5. ASSUME NEW i \in Incidents, MergeSkip(i) PROVE Homes'
  BY <1>2, <1>4, <1>5, HomesReleased DEF MergeSkip
<1>6. ASSUME NEW i \in Incidents, MergeRefuse(i) PROVE Homes'
  <2>1. worker'.blocks = worker.blocks /\ worker.pc = "cycle"
    BY <1>1, <1>6 DEF MergeRefuse, WorkerState
  <2> QED
    BY <1>2, <1>3, <1>6, <2>1, HomesReleased DEF MergeRefuse
<1>13. CASE MergeFlag
  <2>1. \A b \in Batches : Kept(b) \/ Moves(b, LocalStatus, "TAMPERED")
    BY <1>1, <1>13, FlagEffect
  <2>7. /\ main' = main /\ OnMain' = OnMain /\ rejected' = rejected /\ nextBatch' = nextBatch
        /\ worker.pc = "flag"
    BY <1>13 DEF MergeFlag, OnMain
  <2>8. worker'.blocks = worker.blocks
    BY <1>1, <1>13, FlagWrites
  <2>2. /\ main' = main /\ OnMain' = OnMain /\ rejected' = rejected /\ nextBatch' = nextBatch
        /\ worker.pc = "flag" /\ worker'.blocks = {}
    BY <1>3, <2>7, <2>8
  <2>3. \A b \in OnMain : local[b].status = "NONE"
    BY <1>1, <2>2 DEF HomesInv, Homes, BothWhileMerging
  <2>4. \A b \in Batches : Moves(b, LocalStatus, "TAMPERED") => local[b].status # "NONE"
    BY DEF Moves, LocalStatus, ActiveStatus
  <2>5. Numbered' /\ MainDistinct'
    BY <1>1, <2>1, <2>2, <2>4 DEF HomesInv, Homes, Numbered, MainDistinct, Kept
  <2>6. BothWhileMerging' /\ VerdictsStand' /\ ListIsActive'
    BY <1>1, <2>1, <2>2, <2>3, <2>4, LateStays
    DEF HomesInv, Homes, BothWhileMerging, VerdictsStand, ListIsActive, Kept, Moves
  <2> QED
    BY <2>5, <2>6 DEF Homes
<1>14. CASE MergeFlagged
  <2>1. worker.pc = "flag"
    BY <1>14 DEF MergeFlagged
  <2> QED
    BY <1>2, <1>4, <1>14, <2>1, HomesReleased DEF MergeFlagged
<1>7. ASSUME NEW i \in Incidents, MergeVerify(i) PROVE Homes'
  <2>1. worker'.blocks = worker.blocks /\ worker.pc = "cycle"
    BY <1>1, <1>7 DEF MergeVerify, WorkerState
  <2> QED
    BY <1>2, <1>3, <1>7, <2>1, HomesReleased DEF MergeVerify
<1>8. CASE MergeRead
  <2>1. CASE Active(worker.incidentId) = {}
    BY <1>2, <1>4, <1>8, <2>1, HomesReleased DEF MergeRead
  <2>2. CASE Active(worker.incidentId) # {}
    <3>1. /\ worker'.pc = "append" /\ worker'.incidentId = worker.incidentId
          /\ worker'.blocks = { local[b] : b \in Active(worker.incidentId) }
          /\ worker.pc = "verified"
      BY <1>1, <1>8, <2>2 DEF MergeRead, WorkerState
    <3>2. /\ local' = local /\ main' = main /\ OnMain' = OnMain /\ rejected' = rejected
          /\ nextBatch' = nextBatch
      BY <1>8 DEF MergeRead, OnMain
    <3>3. \A b \in Active(worker.incidentId) :
             /\ b \in Batches /\ InEpoch(b, worker.incidentId, LocalStatus)
             /\ local[b].status \in ActiveStatus
             /\ local[b].batchId = b /\ b \notin OnMain
      BY <3>1 DEF Active, WithStatus, InEpoch, HomesInv, Homes, BothWhileMerging,
                  KeepInv, Keep, BlocksNamed, LocalStatus, ActiveStatus
    <3>4. ListIsActive'
      BY <3>1, <3>2, <3>3 DEF ListIsActive, InEpoch
    <3>5. BothWhileMerging'
      BY <3>1, <3>2 DEF HomesInv, Homes, BothWhileMerging
    <3> QED
      BY <3>2, <3>4, <3>5, LateStays DEF HomesInv, Homes, Numbered, MainDistinct, VerdictsStand
  <2> QED
    BY <2>1, <2>2
<1>9. CASE MergeAppend
  <2> DEFINE d == OldestOf(worker.blocks)
             block == ChainedBlock(d.batchId, worker.mainTail, d.merkleRoot, d.eventCount)
  <2>1. d \in LocalBlock /\ d \in worker.blocks
    BY <1>1, <1>9, OldestInSet DEF MergeAppend
  <2>2. block \in MainBlock /\ block.batchId = d.batchId
    <3> HIDE DEF d
    <3> QED
      BY <1>1, <2>1, ChainedBlockType DEF LocalBlock, WorkerState
  <2>3. /\ main' = Append(main, block) /\ worker.pc = "append"
        /\ local' = local /\ rejected' = rejected /\ nextBatch' = nextBatch
    BY <1>9 DEF MergeAppend
  <2>4. /\ worker'.pc = "append" /\ worker'.incidentId = worker.incidentId
        /\ worker'.blocks = worker.blocks \ {d}
    BY <1>1, <1>9 DEF MergeAppend, WorkerState
  <2> HIDE DEF block, d
  <2>5. OnMain' = OnMain \cup {d.batchId}
    BY <1>1, <2>2, <2>3, OnMainAppend
  <2>6. /\ d.batchId \in Batches /\ InEpoch(d.batchId, worker.incidentId, LocalStatus)
        /\ d.batchId \in Contested \/ local[d.batchId].status \in ActiveStatus
        /\ d.batchId \notin OnMain
    BY <2>1 DEF HomesInv, Homes, ListIsActive, LocalBlock
  <2>7. MainDistinct'
    BY <1>1, <2>2, <2>3, <2>6, AppendDistinct DEF HomesInv, Homes
  <2>8. Numbered'
    BY <2>3, <2>5, <2>6 DEF HomesInv, Homes, Numbered, InEpoch, LocalStatus, ActiveStatus
  <2>9. BothWhileMerging'
    BY <2>3, <2>4, <2>5, <2>6, LateStays DEF HomesInv, Homes, BothWhileMerging, InEpoch
  <2>10. VerdictsStand'
    BY <2>3, <2>5, <2>6, LateStays DEF HomesInv, Homes, VerdictsStand, InEpoch, ActiveStatus
  <2>11. ListIsActive'
    BY <2>1, <2>3, <2>4, <2>5, LateStays DEF HomesInv, Homes, ListIsActive, InEpoch
  <2> QED
    BY <2>7, <2>8, <2>9, <2>10, <2>11 DEF Homes
<1>10. ~MergeDuplicate
  <2>1. ASSUME MergeDuplicate PROVE FALSE
    <3>1. OldestOf(worker.blocks) \in worker.blocks /\ OldestOf(worker.blocks).batchId \in OnMain
      BY <1>1, <2>1, OldestInSet DEF MergeDuplicate
    <3> QED
      BY <3>1 DEF HomesInv, Homes, ListIsActive
  <2> QED
    BY <2>1
<1>11. CASE MergeRecord
  <2>1. /\ worker.blocks = {} /\ local' = local /\ main' = main /\ OnMain' = OnMain
        /\ rejected' = rejected /\ nextBatch' = nextBatch
    BY <1>11 DEF MergeRecord, OnMain
  <2>2. /\ worker'.pc = "drop" /\ worker'.incidentId = worker.incidentId
        /\ worker'.blocks = worker.blocks
    BY <1>1, <1>11 DEF MergeRecord, WorkerState
  <2>3. BothWhileMerging' /\ ListIsActive'
    BY <2>1, <2>2, LateStays DEF HomesInv, Homes, BothWhileMerging, ListIsActive, InEpoch
  <2> QED
    BY <2>1, <2>3, LateStays DEF HomesInv, Homes, Numbered, MainDistinct, VerdictsStand
<1>12. CASE MergeDrop
  <2> DEFINE i == worker.incidentId
  <2>1. /\ main' = main /\ OnMain' = OnMain /\ rejected' = rejected /\ nextBatch' = nextBatch
        /\ worker'.blocks = {}
    BY <1>4, <1>12 DEF MergeDrop, OnMain
  <2>2. \A b \in Batches : local'[b] = IF b \in WithStatus(i, LocalStatus) THEN NoBlock ELSE local[b]
    BY <1>12 DEF MergeDrop
  <2>3. Numbered' /\ MainDistinct' /\ VerdictsStand'
    BY <1>1, <2>1, <2>2, LateStays DEF HomesInv, Homes, Numbered, MainDistinct, VerdictsStand, NoBlock
  <2>4. \A b \in Batches : b \in OnMain => local'[b].status = "NONE"
    BY <2>2 DEF HomesInv, Homes, BothWhileMerging, InEpoch, WithStatus, LocalStatus, NoBlock
  <2>5. BothWhileMerging' /\ ListIsActive'
    BY <2>1, <2>4 DEF BothWhileMerging, ListIsActive
  <2> QED
    BY <2>3, <2>5 DEF Homes
<1> QED
  BY <1>5, <1>6, <1>7, <1>8, <1>9, <1>10, <1>11, <1>12, <1>13, <1>14 DEF MergeStep

\* The admin decides on TAMPERED blocks, which are nowhere else, unless the
\* decision comes late.
LEMMA HomesDecision ==
    ASSUME HomesInv, [Next]_vars, NEW r \in Requests, RecoverWrite(r) \/ DecideWrite(r)
    PROVE  Homes'
<1>1. PICK b \in Batches :
         /\ OthersKept(b)
         /\ \/ local[b].status = "NONE" /\ Kept(b) /\ rejected' = rejected
            \/ /\ Moves(b, LocalStatus, "PENDING_VERIFICATION") /\ rejected' = rejected \ {b}
               /\ local[b].status = "TAMPERED" \/ << b, local[b].incidentId >> \in late'
            \/ /\ \E st \in Verdicts : Moves(b, LocalStatus, st)
               /\ rejected' = rejected \cup {b}
               /\ local[b].status = "TAMPERED" \/ << b, local[b].incidentId >> \in late'
  BY DecisionEffect DEF HomesInv, KeepInv
<1>2. /\ main' = main /\ OnMain' = OnMain /\ worker' = worker /\ nextBatch' = nextBatch
      /\ OnMain \subseteq Batches /\ rejected \subseteq Batches
      /\ \A d \in worker.blocks : d.batchId \in Batches
  BY HomesTypes DEF RecoverWrite, DecideWrite, OnMain, HomesInv, KeepInv
<1>3. CASE Kept(b) /\ rejected' = rejected
  <2>1. \A c \in Batches : Kept(c)
    BY <1>1, <1>3 DEF OthersKept
  <2> QED
    BY <1>2, <1>3, <2>1, HomesQuietly
<1>4. CASE ~(Kept(b) /\ rejected' = rejected)
  <2>1. /\ \E st \in LocalStatus : Moves(b, LocalStatus, st)
        /\ \/ local'[b].status = "PENDING_VERIFICATION" /\ rejected' = rejected \ {b}
           \/ local'[b].status \in Verdicts /\ rejected' = rejected \cup {b}
        /\ local[b].status = "TAMPERED" \/ << b, local[b].incidentId >> \in late'
    <3>1. Verdicts \cup {"PENDING_VERIFICATION"} \subseteq LocalStatus
      BY DEF Verdicts, LocalStatus, ActiveStatus
    <3> QED
      BY <1>1, <1>4, <3>1 DEF Moves
  <2>2. /\ local[b].status # "NONE" /\ local'[b].status # "NONE"
        /\ local'[b].status \in LocalStatus /\ local'[b].incidentId = local[b].incidentId
    BY <2>1 DEF Moves, LocalStatus, ActiveStatus
  <2>3. b < nextBatch
    BY <2>2 DEF HomesInv, Homes, Numbered
  <2>4. b \in Contested' \/
          (b \notin OnMain /\ \A d \in worker.blocks : d.batchId # b)
    <3>1. CASE << b, local[b].incidentId >> \in late'
      BY <3>1 DEF Contested
    <3>2. CASE local[b].status = "TAMPERED"
      BY <2>2, <3>2, LateStays DEF HomesInv, Homes, BothWhileMerging, ListIsActive, ActiveStatus
    <3> QED
      BY <2>1, <3>1, <3>2
  <2>5. Numbered' /\ MainDistinct'
    BY <1>1, <1>2, <2>1, <2>3 DEF HomesInv, Homes, Numbered, MainDistinct, OthersKept, Kept
  <2>6. BothWhileMerging'
    BY <1>1, <1>2, <2>2, <2>4, LateStays
    DEF HomesInv, Homes, BothWhileMerging, OthersKept, Kept, InEpoch
  <2>7. VerdictsStand'
    BY <1>1, <1>2, <2>1, <2>4, LateStays
    DEF HomesInv, Homes, VerdictsStand, OthersKept, Kept, Verdicts
  <2>8. ListIsActive'
    BY <1>1, <1>2, <2>2, <2>4, LateStays DEF HomesInv, Homes, ListIsActive, OthersKept, Kept, InEpoch
  <2> QED
    BY <2>5, <2>6, <2>7, <2>8 DEF Homes
<1> QED
  BY <1>3, <1>4

\* Outside a merge the worker has no blocks to append.
LEMMA HandsEmpty ==
    ASSUME OutageFind \/ OutageDeclare \/ ResolveIncident \/ ListIncidents \/ Crash
    PROVE  worker'.blocks = {}
<1>1. CASE OutageFind
  BY <1>1 DEF OutageFind, WorkerIdle
<1>2. CASE ResolveIncident
  BY <1>2 DEF ResolveIncident, WorkerIdle
<1>3. CASE OutageDeclare \/ Crash
  BY <1>3 DEF OutageDeclare, Crash, WorkerIdle
<1>4. CASE ListIncidents
  BY <1>4 DEF ListIncidents, MergesLeft, WorkerIdle
<1> QED
  BY <1>1, <1>2, <1>3, <1>4

\* Every step keeps each batch in one home, a restart too if it cuts no merge.
LEMMA HomesStep ==
    ASSUME HomesInv, [Next]_vars, NoRestartInMerge
    PROVE  HomesInv'
<1> SUFFICES Homes'
  BY KeepStep DEF HomesInv
<1>2. ASSUME NEW r \in Requests, CreateStage(r) \/ AppendBlock(r) PROVE Homes'
  BY <1>2, HomesCreate
<1>3. CASE MergeStep
  BY <1>3, HomesMerge
<1>4. ASSUME NEW r \in Requests, RecoverWrite(r) \/ DecideWrite(r) PROVE Homes'
  BY <1>4, HomesDecision
<1>5. CASE \/ \E r \in Requests : CascadeRechain(r)
           \/ \E b \in Batches : Alter(b)
  <2>1. \A b \in Batches : Kept(b)
    BY <1>5, RewriteEffect DEF HomesInv, KeepInv
  <2>2. worker' = worker /\ main' = main /\ rejected' = rejected /\ nextBatch' = nextBatch
    BY <1>5 DEF CascadeRechain, Alter
  <2> QED
    BY <2>1, <2>2, HomesQuietly
<1>6. CASE ReadStep \/ \E r \in Requests : CreateDeclare(r)
  <2>1. /\ local' = local /\ worker' = worker /\ main' = main /\ rejected' = rejected
        /\ nextBatch' = nextBatch
    BY <1>6, ReadsWriteNothing DEF chainVars, CreateDeclare
  <2>2. \A b \in Batches : Kept(b)
    BY <2>1 DEF Kept
  <2> QED
    BY <2>1, <2>2, HomesQuietly
<1>7. CASE OutageFind \/ OutageDeclare \/ ResolveIncident \/ ListIncidents \/ Crash
  <2>1. worker'.blocks = {}
    BY <1>7, HandsEmpty
  <2>2. worker.pc \notin {"append", "drop"}
    <3>1. CASE Crash
      <4>1. crashes' # crashes
        BY <3>1 DEF Crash, HomesInv, KeepInv, TypeOK
      <4> QED
        BY <4>1 DEF NoRestartInMerge
    <3> QED
      BY <1>7, <3>1 DEF OutageFind, OutageDeclare, ResolveIncident, ListIncidents
  <2>3. local' = local /\ main' = main /\ rejected' = rejected /\ nextBatch' = nextBatch
    BY <1>7 DEF OutageFind, OutageDeclare, ResolveIncident, ListIncidents, Crash
  <2>4. \A b \in Batches : Kept(b)
    BY <2>3 DEF Kept
  <2> QED
    BY <2>1, <2>2, <2>3, <2>4, HomesReleased
<1> QED
  BY <1>2, <1>3, <1>4, <1>5, <1>6, <1>7, StepKinds DEF WorkerStep

\* The initial state keeps each batch in one home, for it has none.
LEMMA HomesInit == Init => HomesInv
<1> SUFFICES ASSUME Init PROVE Homes
  BY KeepInit DEF HomesInv
<1>1. \A b \in Batches : local[b].status = "NONE"
  BY DEF Init, NoBlock
<1>2. /\ nextBatch = 1 /\ worker.pc = "idle" /\ worker.todo = {} /\ worker.blocks = {}
      /\ rejected = {} /\ main = << >> /\ OnMain = {}
  BY DEF Init, WorkerIdle, OnMain
<1> QED
  BY <1>1, <1>2 DEF Homes, Numbered, MainDistinct, BothWhileMerging, VerdictsStand, ListIsActive

\* As long as no restart cuts a merge, quarantine holds: what is TAMPERED or was
\* rejected is not on MAIN and not on its way there, whatever overlaps, but for
\* the blocks on which a request wrote by a check that held no more; and every
\* batch is on both chains only while its epoch is merged.
THEOREM QuarantineAlwaysHolds ==
    Spec /\ [][NoRestartInMerge]_vars => [](QuarantineHolds /\ OneHome)
<1>1. HomesInv => QuarantineHolds /\ OneHome
  <2> SUFFICES ASSUME HomesInv PROVE QuarantineHolds /\ OneHome
    OBVIOUS
  <2>1. OnMain \subseteq Batches
    BY HomesTypes DEF HomesInv, KeepInv
  <2>2. ASSUME NEW b \in (rejected \cup UNION { Tampered(i) : i \in Incidents }) \ Contested
        PROVE  b \notin OnMain /\ \A d \in worker.blocks : d.batchId # b
    <3>1. b \in rejected \/ (b \in Batches /\ local[b].status = "TAMPERED")
      BY <2>2 DEF Tampered, WithStatus
    <3> QED
      BY <3>1 DEF HomesInv, Homes, BothWhileMerging, VerdictsStand, ListIsActive, InEpoch, ActiveStatus
  <2>3. OneHome
    BY <2>1 DEF OneHome, OnLocal, NoBlock, HomesInv, Homes, MainDistinct, BothWhileMerging, InEpoch,
                KeepInv, TypeOK, LocalBlock, LocalStatus, ActiveStatus
  <2> QED
    BY <2>2, <2>3 DEF QuarantineHolds
<1>2. HomesInv /\ [Next]_vars /\ [NoRestartInMerge]_vars => HomesInv'
  BY HomesStep DEF vars, NoRestartInMerge
<1> QED
  BY <1>1, <1>2, HomesInit, PTL DEF Spec

\* In particular no batch has two homes, whatever overlaps, unless a restart cuts
\* a merge.
THEOREM EveryBatchHasOneHome ==
    Spec /\ [][NoRestartInMerge]_vars => []OneHome
<1>1. Spec /\ [][NoRestartInMerge]_vars => [](QuarantineHolds /\ OneHome)
  BY QuarantineAlwaysHolds
<1> QED
  BY <1>1, PTL

\* Nor does the unique index on batchId refuse a block of the worker: a merge
\* that no restart cuts runs to its end.
THEOREM MergeIsNeverRefused ==
    Spec /\ [][NoRestartInMerge]_vars => []MergeNeverRefused
<1>1. HomesInv => MergeNeverRefused
  BY DEF HomesInv, Homes, ListIsActive, MergeNeverRefused
<1>2. HomesInv /\ [Next]_vars /\ [NoRestartInMerge]_vars => HomesInv'
  BY HomesStep DEF vars, NoRestartInMerge
<1> QED
  BY <1>1, <1>2, HomesInit, PTL DEF Spec

-----------------------------------------------------------------------------
(* The epochs and their merge implement the ledger                          *)
(*                                                                          *)
(* A restart breaks QuarantineHolds and OneHome, but not this: what the     *)
(* ledger shows of a batch needs only the following.                        *)

\* A rejected block keeps its verdict until deleteMany, or is quarantined again.
VerdictsFinal ==
    \A b \in rejected \ Contested : local[b].status \in {"NONE", "TAMPERED", "ACKNOWLEDGED", "DISCARDED"}

\* The worker's list names blocks of the epoch it is appending, active ones but
\* for those written late.
ListActive ==
    \A d \in worker.blocks :
        /\ worker.pc = "append" /\ InEpoch(d.batchId, worker.incidentId, LocalStatus)
        /\ d.batchId \in Contested \/ local[d.batchId].status \in ActiveStatus

\* What was written late had been created.
LateNumbered == \A b \in Contested : b < nextBatch

Fates == Numbered /\ VerdictsFinal /\ ListActive /\ LateNumbered

FateInv == KeepInv /\ Fates

\* Steps that leave the blocks where they are and put nothing on the list.
LEMMA FatesQuietly ==
    ASSUME FateInv, \A b \in Batches : Kept(b), OnMain' = OnMain, rejected' = rejected,
           late' = late, nextBatch' = nextBatch, worker' = worker \/ worker'.blocks = {}
    PROVE  Fates'
<1>1. TypeOK
  BY DEF FateInv, KeepInv
<1>0. Contested' = Contested
  BY DEF Contested
<1>2. Numbered' /\ VerdictsFinal' /\ LateNumbered'
  BY <1>0, <1>1, HomesTypes DEF FateInv, Fates, Numbered, VerdictsFinal, LateNumbered, Kept
<1>3. ListActive'
  BY <1>0, <1>1, HomesTypes DEF FateInv, Fates, ListActive, Kept, InEpoch
<1> QED
  BY <1>2, <1>3 DEF Fates

\* The batches of the blocks written late are batches.
LEMMA LateTypes ==
    ASSUME TypeOK
    PROVE  /\ Contested \subseteq Batches
           /\ \A p \in late : p[1] \in Contested
BY DEF TypeOK, Contested

\* /create numbers one more batch.
LEMMA CreateAdds ==
    ASSUME TypeOK, NEW r \in Requests, CreateStage(r) \/ AppendBlock(r)
    PROVE  /\ nextBatch \in Batches /\ nextBatch' = nextBatch + 1
           /\ rejected' = rejected /\ worker' = worker
           /\ OthersKept(nextBatch) /\ OnMain' \subseteq OnMain \cup {nextBatch}
           /\ Contested \subseteq Contested' /\ Contested' \subseteq Contested \cup {nextBatch}
           /\ CreateStage(r) => main' = main /\ OnMain' = OnMain
           /\ AppendBlock(r) => /\ local' = local /\ late' = late
                                /\ \E block \in MainBlock :
                                      block.batchId = nextBatch /\ main' = Append(main, block)
<1>1. /\ nextBatch \in Batches /\ nextBatch' = nextBatch + 1
      /\ rejected' = rejected /\ worker' = worker
  BY DEF CreateStage, AppendBlock, NextBatchStored
<1>2. CASE AppendBlock(r)
  <2> DEFINE block == ChainedBlock(nextBatch, request[r].root, MerkleRoot(nextBatch, "PENDING"), BatchSize)
  <2>1. MerkleRoot(nextBatch, "PENDING") \in Batches \X RowStates
    BY <1>1 DEF MerkleRoot, RowStates
  <2>2. block \in MainBlock /\ block.batchId = nextBatch
    <3>1. request[r].root \in Roots
      BY DEF TypeOK, RequestState, RequestLocals
    <3> QED
      BY <1>1, <2>1, <3>1, ChainedBlockType, BatchSizeAssumption
  <2>3. main' = Append(main, block) /\ local' = local /\ late' = late
    BY <1>2 DEF AppendBlock
  <2>4. ~CreateStage(r)
    BY <1>2 DEF AppendBlock, CreateStage
  <2> HIDE DEF block
  <2>5. OthersKept(nextBatch) /\ Contested' = Contested
    BY <2>3 DEF OthersKept, Kept, Contested
  <2>6. OnMain' = OnMain \cup {nextBatch}
    BY <2>2, <2>3, OnMainAppend
  <2> QED
    BY <1>1, <2>2, <2>3, <2>4, <2>5, <2>6
<1>3. CASE CreateStage(r)
  <2>1. ~AppendBlock(r)
    BY <1>3 DEF AppendBlock, CreateStage
  <2>2. main' = main /\ OnMain' = OnMain
    BY <1>3 DEF CreateStage, OnMain
  <2>3. /\ OthersKept(nextBatch) /\ late \subseteq late'
        /\ late' \subseteq late \cup {<< nextBatch, request[r].incidentId >>}
    BY <1>3, StageEffect
  <2>4. Contested \subseteq Contested' /\ Contested' \subseteq Contested \cup {nextBatch}
    BY <2>3 DEF Contested
  <2> QED
    BY <1>1, <2>1, <2>2, <2>3, <2>4
<1> QED
  BY <1>2, <1>3

LEMMA FatesCreate ==
    ASSUME FateInv, NEW r \in Requests, CreateStage(r) \/ AppendBlock(r)
    PROVE  Fates'
<1>1. TypeOK /\ nextBatch \in Nat /\ ~(nextBatch < nextBatch)
  BY HomesTypes DEF FateInv, KeepInv
<1>2. /\ nextBatch \in Batches /\ nextBatch' = nextBatch + 1
      /\ rejected' = rejected /\ worker' = worker
      /\ OthersKept(nextBatch) /\ OnMain' \subseteq OnMain \cup {nextBatch}
      /\ Contested \subseteq Contested' /\ Contested' \subseteq Contested \cup {nextBatch}
  BY <1>1, CreateAdds
<1>3. nextBatch \notin rejected /\ \A d \in worker.blocks : d.batchId # nextBatch
  BY <1>1, <1>2 DEF FateInv, Fates, Numbered, ListActive, InEpoch, LocalStatus, ActiveStatus
<1>4. /\ OnMain \subseteq Batches /\ rejected \subseteq Batches /\ Contested \subseteq Batches
      /\ \A d \in worker.blocks : d.batchId \in Batches
      /\ \A b \in Batches : b \in Nat /\ (b < nextBatch => b < nextBatch + 1)
  BY <1>1, HomesTypes, LateTypes, MaxBatchesAssumption DEF Batches
<1>6. Numbered' /\ LateNumbered'
  <2>1. \A b \in Batches \ {nextBatch} : local'[b].status # "NONE" => b < nextBatch
    BY <1>2 DEF FateInv, Fates, Numbered, OthersKept, Kept
  <2> QED
    BY <1>1, <1>2, <1>4, <2>1 DEF FateInv, Fates, Numbered, LateNumbered
<1>7. VerdictsFinal'
  BY <1>2, <1>3, <1>4 DEF FateInv, Fates, VerdictsFinal, OthersKept, Kept
<1>8. ListActive'
  BY <1>2, <1>3, <1>4 DEF FateInv, Fates, ListActive, OthersKept, Kept, InEpoch
<1> QED
  BY <1>6, <1>7, <1>8 DEF Fates

\* The block the merge appends is the oldest of those it has read.
LEMMA AppendedBlock ==
    ASSUME TypeOK, MergeAppend
    PROVE  \E d \in worker.blocks :
              \E block \in MainBlock :
                /\ d.batchId \in Batches /\ d.batchId \notin OnMain
                /\ \A e \in worker.blocks : d.batchId <= e.batchId
                /\ block.batchId = d.batchId /\ main' = Append(main, block)
                /\ worker.pc = "append" /\ local' = local /\ rejected' = rejected
                /\ nextBatch' = nextBatch /\ late' = late
                /\ worker'.pc = worker.pc /\ worker'.incidentId = worker.incidentId
                /\ worker'.blocks = worker.blocks \ {d}
<1> DEFINE d == OldestOf(worker.blocks)
           block == ChainedBlock(d.batchId, worker.mainTail, d.merkleRoot, d.eventCount)
<1>1. worker \in WorkerState /\ worker.blocks \subseteq LocalBlock
  BY DEF TypeOK, WorkerState
<1>2. d \in LocalBlock /\ d \in worker.blocks /\ \A e \in worker.blocks : d.batchId <= e.batchId
  BY <1>1, OldestInSet DEF MergeAppend
<1>3. block \in MainBlock /\ block.batchId = d.batchId
  <2> HIDE DEF d
  <2> QED
    BY <1>1, <1>2, ChainedBlockType DEF LocalBlock, WorkerState
<1>4. /\ main' = Append(main, block) /\ worker.pc = "append" /\ d.batchId \notin OnMain
      /\ local' = local /\ rejected' = rejected /\ nextBatch' = nextBatch /\ late' = late
  BY DEF MergeAppend
<1>5. /\ worker'.pc = worker.pc /\ worker'.incidentId = worker.incidentId
      /\ worker'.blocks = worker.blocks \ {d}
  BY <1>1 DEF MergeAppend, WorkerState
<1>6. d.batchId \in Batches
  BY <1>2 DEF LocalBlock
<1> HIDE DEF d, block
<1> QED
  BY <1>2, <1>3, <1>4, <1>5, <1>6

\* The merge lists the active blocks of its epoch and appends them.
LEMMA FatesMerge ==
    ASSUME FateInv, MergeStep
    PROVE  Fates'
<1>1. /\ TypeOK /\ worker \in WorkerState /\ worker.blocks \subseteq LocalBlock
      /\ OnMain \subseteq Batches /\ rejected \subseteq Batches
  BY HomesTypes DEF FateInv, KeepInv, TypeOK, WorkerState
<1>2. local' = local => \A b \in Batches : Kept(b)
  BY DEF Kept
<1>3. \A i : NextIncident(i).blocks = {}
  BY DEF NextIncident, MergesLeft, WorkerIdle
<1>14. Contested' = Contested /\ late' = late
  BY DEF MergeStep, MergeSkip, MergeRefuse, MergeFlag, MergeFlagged, MergeVerify, MergeRead,
         MergeAppend, MergeDuplicate, MergeRecord, MergeDrop, Contested
<1>4. ASSUME NEW i \in Incidents, MergeSkip(i) PROVE Fates'
  BY <1>2, <1>3, <1>4, <1>14, FatesQuietly DEF MergeSkip, OnMain
<1>5. ASSUME NEW i \in Incidents, MergeRefuse(i) PROVE Fates'
  <2>1. worker'.blocks = {}
    BY <1>1, <1>5 DEF MergeRefuse, WorkerState, FateInv, Fates, ListActive
  <2> QED
    BY <1>2, <1>5, <2>1, <1>14, FatesQuietly DEF MergeRefuse, OnMain
<1>12. CASE MergeFlag
  <2>1. \A b \in Batches : Kept(b) \/ Moves(b, LocalStatus, "TAMPERED")
    BY <1>1, <1>12, FlagEffect
  <2>2. /\ OnMain' = OnMain /\ rejected' = rejected /\ nextBatch' = nextBatch /\ worker.pc = "flag"
    BY <1>12 DEF MergeFlag, OnMain
  <2>3. worker'.blocks = {}
    BY <1>1, <1>12, <2>2, FlagWrites DEF FateInv, Fates, ListActive
  <2>4. \A b \in Batches : Moves(b, LocalStatus, "TAMPERED") => local[b].status # "NONE"
    BY DEF Moves, LocalStatus, ActiveStatus
  <2>5. Numbered' /\ LateNumbered'
    BY <1>1, <1>14, <2>1, <2>2, <2>4 DEF FateInv, Fates, Numbered, LateNumbered, Kept
  <2>6. VerdictsFinal' /\ ListActive'
    BY <1>1, <1>14, <2>1, <2>2, <2>3 DEF FateInv, Fates, VerdictsFinal, ListActive, Kept, Moves
  <2> QED
    BY <2>5, <2>6 DEF Fates
<1>13. CASE MergeFlagged
  BY <1>2, <1>3, <1>13, <1>14, FatesQuietly DEF MergeFlagged, OnMain
<1>6. ASSUME NEW i \in Incidents, MergeVerify(i) PROVE Fates'
  <2>1. worker'.blocks = {}
    BY <1>1, <1>6 DEF MergeVerify, WorkerState, FateInv, Fates, ListActive
  <2> QED
    BY <1>2, <1>6, <2>1, <1>14, FatesQuietly DEF MergeVerify, OnMain
<1>7. CASE MergeRead
  <2>1. CASE Active(worker.incidentId) = {}
    BY <1>2, <1>3, <1>7, <2>1, <1>14, FatesQuietly DEF MergeRead, OnMain
  <2>2. CASE Active(worker.incidentId) # {}
    <3>1. /\ worker'.pc = "append" /\ worker'.incidentId = worker.incidentId
          /\ worker'.blocks = { local[b] : b \in Active(worker.incidentId) }
      BY <1>1, <1>7, <2>2 DEF MergeRead, WorkerState
    <3>2. local' = local /\ OnMain' = OnMain /\ rejected' = rejected /\ nextBatch' = nextBatch
      BY <1>7 DEF MergeRead, OnMain
    <3>3. \A b \in Active(worker.incidentId) :
             /\ InEpoch(b, worker.incidentId, LocalStatus) /\ local[b].batchId = b
             /\ local[b].status \in ActiveStatus
      BY DEF Active, WithStatus, InEpoch, FateInv, KeepInv, Keep, BlocksNamed, LocalStatus, ActiveStatus
    <3>4. ListActive'
      BY <3>1, <3>2, <3>3 DEF ListActive, InEpoch
    <3> QED
      BY <1>14, <3>2, <3>4 DEF FateInv, Fates, Numbered, LateNumbered, VerdictsFinal
  <2> QED
    BY <2>1, <2>2
<1>8. CASE MergeAppend
  <2>1. PICK d \in worker.blocks :
           \E block \in MainBlock :
              /\ d.batchId \in Batches
              /\ block.batchId = d.batchId /\ main' = Append(main, block)
              /\ worker.pc = "append" /\ local' = local /\ rejected' = rejected
              /\ nextBatch' = nextBatch
              /\ worker'.pc = worker.pc /\ worker'.incidentId = worker.incidentId
              /\ worker'.blocks = worker.blocks \ {d}
    BY <1>1, <1>8, AppendedBlock
  <2>2. OnMain' = OnMain \cup {d.batchId}
    BY <1>1, <2>1, OnMainAppend
  <2>3. InEpoch(d.batchId, worker.incidentId, LocalStatus)
    BY <2>1 DEF FateInv, Fates, ListActive
  <2>4. Numbered' /\ LateNumbered'
    BY <1>14, <2>1, <2>2, <2>3
    DEF FateInv, Fates, Numbered, LateNumbered, InEpoch, LocalStatus, ActiveStatus
  <2>5. VerdictsFinal' /\ ListActive'
    BY <1>14, <2>1 DEF FateInv, Fates, VerdictsFinal, ListActive, InEpoch
  <2> QED
    BY <2>4, <2>5 DEF Fates
<1>9. CASE MergeDuplicate
  <2>1. worker'.blocks = {}
    BY <1>9 DEF MergeDuplicate, WorkerIdle
  <2> QED
    BY <1>2, <1>9, <2>1, <1>14, FatesQuietly DEF MergeDuplicate, OnMain
<1>10. CASE MergeRecord
  <2>1. worker'.blocks = {}
    BY <1>1, <1>10 DEF MergeRecord, WorkerState
  <2> QED
    BY <1>2, <1>10, <2>1, <1>14, FatesQuietly DEF MergeRecord, OnMain
<1>11. CASE MergeDrop
  <2>1. \A b \in Batches : local'[b] = NoBlock \/ local'[b] = local[b]
    BY <1>11 DEF MergeDrop
  <2>2. /\ OnMain' = OnMain /\ rejected' = rejected /\ nextBatch' = nextBatch /\ worker'.blocks = {}
    BY <1>3, <1>11 DEF MergeDrop, OnMain
  <2>3. Numbered' /\ VerdictsFinal' /\ LateNumbered'
    BY <1>1, <1>14, <2>1, <2>2 DEF FateInv, Fates, Numbered, LateNumbered, VerdictsFinal, NoBlock
  <2>4. ListActive'
    BY <2>2 DEF ListActive
  <2> QED
    BY <2>3, <2>4 DEF Fates
<1> QED
  BY <1>4, <1>5, <1>6, <1>7, <1>8, <1>9, <1>10, <1>11, <1>12, <1>13 DEF MergeStep

\* What the admin decides: one block, which is staged again with its batch
\* number or rejected, late unless it is quarantined.
LEMMA AdminDecides ==
    ASSUME TypeOK, NEW r \in Requests, RecoverWrite(r) \/ DecideWrite(r)
    PROVE  /\ main' = main /\ OnMain' = OnMain /\ worker' = worker /\ nextBatch' = nextBatch
           /\ \E b \in Batches :
                /\ OthersKept(b)
                /\ Contested \subseteq Contested' /\ Contested' \subseteq Contested \cup {b}
                /\ \/ Kept(b) /\ rejected' = rejected /\ late' = late
                   \/ /\ local[b].status # "NONE"
                      /\ \/ /\ Moves(b, LocalStatus, "PENDING_VERIFICATION")
                            /\ rejected' = rejected \ {b}
                         \/ /\ \E st \in Verdicts : Moves(b, LocalStatus, st)
                            /\ rejected' = rejected \cup {b}
                      /\ \/ local[b].status = "TAMPERED" /\ late' = late
                         \/ b \in Contested'
<1>1. main' = main /\ OnMain' = OnMain /\ worker' = worker /\ nextBatch' = nextBatch
  BY DEF RecoverWrite, DecideWrite, OnMain
<1>2. PICK b \in Batches :
         /\ OthersKept(b) /\ late \subseteq late'
         /\ late' \subseteq late \cup {<< b, local[b].incidentId >>}
         /\ local[b].status = "TAMPERED" => late' = late
         /\ \/ Kept(b) /\ rejected' = rejected /\ late' = late
            \/ /\ Moves(b, LocalStatus, "PENDING_VERIFICATION")
               /\ rejected' = rejected \ {b}
               /\ local[b].status = "TAMPERED" \/ << b, local[b].incidentId >> \in late'
            \/ /\ \E st \in Verdicts : Moves(b, LocalStatus, st)
               /\ rejected' = rejected \cup {b}
               /\ local[b].status = "TAMPERED" \/ << b, local[b].incidentId >> \in late'
  BY DecisionEffect
<1>3. /\ Contested \subseteq Contested' /\ Contested' \subseteq Contested \cup {b}
      /\ << b, local[b].incidentId >> \in late' => b \in Contested'
  BY <1>2 DEF Contested
<1>4. \A st : Moves(b, LocalStatus, st) => local[b].status # "NONE"
  BY DEF Moves, LocalStatus, ActiveStatus
<1> QED
  BY <1>1, <1>2, <1>3, <1>4

\* A verdict is given once, on a block that is not on the worker's list, unless
\* it comes late.
LEMMA FatesDecision ==
    ASSUME FateInv, NEW r \in Requests, RecoverWrite(r) \/ DecideWrite(r)
    PROVE  Fates'
<1>1. /\ TypeOK /\ rejected \subseteq Batches /\ OnMain \subseteq Batches
      /\ Contested \subseteq Batches
      /\ \A d \in worker.blocks : d.batchId \in Batches
  BY HomesTypes, LateTypes DEF FateInv, KeepInv
<1>2. OnMain' = OnMain /\ worker' = worker /\ nextBatch' = nextBatch
  BY <1>1, AdminDecides
<1>3. PICK b \in Batches :
         /\ OthersKept(b)
         /\ Contested \subseteq Contested' /\ Contested' \subseteq Contested \cup {b}
         /\ \/ Kept(b) /\ rejected' = rejected /\ late' = late
            \/ /\ local[b].status # "NONE"
               /\ \/ /\ Moves(b, LocalStatus, "PENDING_VERIFICATION")
                     /\ rejected' = rejected \ {b}
                  \/ /\ \E st \in Verdicts : Moves(b, LocalStatus, st)
                     /\ rejected' = rejected \cup {b}
               /\ \/ local[b].status = "TAMPERED" /\ late' = late
                  \/ b \in Contested'
  BY <1>1, AdminDecides
<1>4. CASE Kept(b) /\ rejected' = rejected /\ late' = late
  <2>1. \A c \in Batches : Kept(c)
    BY <1>3, <1>4 DEF OthersKept
  <2> QED
    BY <1>2, <1>4, <2>1, FatesQuietly
<1>5. CASE ~(Kept(b) /\ rejected' = rejected /\ late' = late)
  <2>1. /\ local[b].status # "NONE" /\ local'[b].incidentId = local[b].incidentId
        /\ local'[b].status \in LocalStatus
        /\ \/ rejected' = rejected \ {b}
           \/ rejected' = rejected \cup {b} /\ local'[b].status \in Verdicts
    BY <1>3, <1>5 DEF Moves, LocalStatus, ActiveStatus, Verdicts
  <2>2. b < nextBatch
    BY <2>1 DEF FateInv, Fates, Numbered
  <2>3. b \in Contested' \/ \A d \in worker.blocks : d.batchId # b
    <3>1. CASE local[b].status = "TAMPERED"
      BY <1>3, <3>1 DEF FateInv, Fates, ListActive, ActiveStatus
    <3> QED
      BY <1>3, <1>5, <3>1
  <2>4. Numbered' /\ LateNumbered'
    BY <1>1, <1>2, <1>3, <2>1, <2>2 DEF FateInv, Fates, Numbered, LateNumbered, OthersKept, Kept
  <2>5. VerdictsFinal'
    BY <1>1, <1>3, <2>1 DEF FateInv, Fates, VerdictsFinal, OthersKept, Kept, Verdicts
  <2>6. ListActive'
    BY <1>1, <1>2, <1>3, <2>1, <2>3 DEF FateInv, Fates, ListActive, OthersKept, Kept, InEpoch
  <2> QED
    BY <2>4, <2>5, <2>6 DEF Fates
<1> QED
  BY <1>4, <1>5

\* So do all the other steps, a restart included.
LEMMA FatesStep == FateInv /\ [Next]_vars => FateInv'
<1> SUFFICES ASSUME FateInv, [Next]_vars PROVE Fates'
  BY KeepStep DEF FateInv
<1>2. ASSUME NEW r \in Requests, CreateStage(r) \/ AppendBlock(r) PROVE Fates'
  BY <1>2, FatesCreate
<1>3. CASE MergeStep
  BY <1>3, FatesMerge
<1>4. ASSUME NEW r \in Requests, RecoverWrite(r) \/ DecideWrite(r) PROVE Fates'
  BY <1>4, FatesDecision
<1>5. CASE \/ \E r \in Requests : CascadeRechain(r)
           \/ \E b \in Batches : Alter(b)
  <2>1. \A b \in Batches : Kept(b)
    BY <1>5, RewriteEffect DEF FateInv, KeepInv
  <2>2. /\ worker' = worker /\ OnMain' = OnMain /\ rejected' = rejected /\ late' = late
        /\ nextBatch' = nextBatch
    BY <1>5 DEF CascadeRechain, Alter, OnMain
  <2> QED
    BY <2>1, <2>2, FatesQuietly
<1>6. CASE ReadStep \/ \E r \in Requests : CreateDeclare(r)
  <2>1. /\ local' = local /\ worker' = worker /\ OnMain' = OnMain /\ rejected' = rejected
        /\ late' = late /\ nextBatch' = nextBatch
    BY <1>6, ReadsWriteNothing DEF chainVars, CreateDeclare, OnMain
  <2>2. \A b \in Batches : Kept(b)
    BY <2>1 DEF Kept
  <2> QED
    BY <2>1, <2>2, FatesQuietly
<1>7. CASE OutageFind \/ OutageDeclare \/ ResolveIncident \/ ListIncidents \/ Crash
  <2>1. /\ local' = local /\ main' = main /\ rejected' = rejected /\ late' = late
        /\ nextBatch' = nextBatch
    BY <1>7 DEF OutageFind, OutageDeclare, ResolveIncident, ListIncidents, Crash
  <2>2. (\A b \in Batches : Kept(b)) /\ OnMain' = OnMain
    BY <2>1 DEF Kept, OnMain
  <2> QED
    BY <1>7, <2>1, <2>2, HandsEmpty, FatesQuietly
<1> QED
  BY <1>2, <1>3, <1>4, <1>5, <1>6, <1>7, StepKinds DEF WorkerStep

\* The ledger's view: where each batch is, and the batches of MAIN in order.
Fate == [b \in Batches |-> FateOf(b)]
Order == [n \in DOMAIN main |-> main[n].batchId]

\* It is neither on MAIN nor written late, and has no verdict.
Undisputed(b) == b \notin OnMain /\ b \notin Contested
Unplaced(b) == Undisputed(b) /\ b \notin rejected

\* No staged block has the status that stands for "no block".
LEMMA NoneIsNoBlock ==
    ASSUME NEW block \in LocalBlock \cup {NoBlock}
    PROVE  block = NoBlock <=> block.status = "NONE"
<1>1. CASE block \in LocalBlock
  <2>1. block.status # "NONE"
    BY <1>1 DEF LocalBlock, LocalStatus, ActiveStatus
  <2> QED
    BY <2>1 DEF NoBlock
<1>2. CASE block = NoBlock
  BY <1>2 DEF NoBlock
<1> QED
  BY <1>1, <1>2

\* What the ledger sees of a batch follows from MAIN, the verdicts, and the
\* epoch and the status of its staged block.
LEMMA FateFacts ==
    ASSUME TypeOK, NEW b \in Batches
    PROVE  /\ b \in OnMain => FateOf(b) = Ledger!Ledgered
           /\ b \notin OnMain /\ b \in Contested => FateOf(b) = Ledger!Contested
           /\ Undisputed(b) /\ local[b].status = "TAMPERED"
                 => FateOf(b) = Ledger!Quarantined(local[b].incidentId)
           /\ Undisputed(b) /\ b \in rejected /\ local[b].status # "TAMPERED"
                 => FateOf(b) = Ledger!Rejected
           /\ Unplaced(b) /\ local[b].status = "NONE" => FateOf(b) = Ledger!New
           /\ Unplaced(b) /\ local[b].status \notin {"NONE", "TAMPERED"}
                 => FateOf(b) = Ledger!Staged(local[b].incidentId)
<1>1. local[b] = NoBlock <=> local[b].status = "NONE"
  BY NoneIsNoBlock DEF TypeOK
<1> QED
  BY <1>1 DEF FateOf, Unplaced, Undisputed, Ledger!Ledgered, Ledger!Rejected, Ledger!New, Ledger!Contested,
              Ledger!Quarantined, Ledger!Staged, NoBlock

\* The same of the state after a step.
LEMMA FateFactsNext ==
    ASSUME TypeOK', NEW b \in Batches
    PROVE  /\ b \in OnMain' => FateOf(b)' = Ledger!Ledgered
           /\ b \notin OnMain' /\ b \in Contested' => FateOf(b)' = Ledger!Contested
           /\ Undisputed(b)' /\ local'[b].status = "TAMPERED"
                 => FateOf(b)' = Ledger!Quarantined(local'[b].incidentId)
           /\ Undisputed(b)' /\ b \in rejected' /\ local'[b].status # "TAMPERED"
                 => FateOf(b)' = Ledger!Rejected
           /\ Unplaced(b)' /\ local'[b].status = "NONE" => FateOf(b)' = Ledger!New
           /\ Unplaced(b)' /\ local'[b].status \notin {"NONE", "TAMPERED"}
                 => FateOf(b)' = Ledger!Staged(local'[b].incidentId)
<1>1. local'[b] = NoBlock <=> local'[b].status = "NONE"
  BY NoneIsNoBlock DEF TypeOK
<1> QED
  BY <1>1 DEF FateOf, Unplaced, Undisputed, Ledger!Ledgered, Ledger!Rejected, Ledger!New, Ledger!Contested,
              Ledger!Quarantined, Ledger!Staged, NoBlock

\* The fates are different from each other.
LEMMA FatesDiffer ==
    /\ Ledger!New # Ledger!Ledgered
    /\ \A e : /\ Ledger!New # Ledger!Staged(e) /\ Ledger!New # Ledger!Quarantined(e)
              /\ Ledger!Staged(e) # Ledger!Ledgered /\ Ledger!Quarantined(e) # Ledger!Ledgered
              /\ Ledger!Quarantined(e) # Ledger!Rejected /\ Ledger!Staged(e) # Ledger!Rejected
    /\ \A e, f : /\ Ledger!Staged(e) # Ledger!Quarantined(f)
                 /\ Ledger!Staged(e) = Ledger!Staged(f) => e = f
                 /\ Ledger!Quarantined(e) = Ledger!Quarantined(f) => e = f
    /\ Ledger!Ledgered # Ledger!Rejected /\ Ledger!New # Ledger!Rejected
    /\ Ledger!Contested \notin {Ledger!New, Ledger!Ledgered, Ledger!Rejected}
    /\ \A e : Ledger!Contested \notin {Ledger!Staged(e), Ledger!Quarantined(e)}
BY DEF Ledger!Contested, Ledger!New, Ledger!Ledgered, Ledger!Staged, Ledger!Quarantined, Ledger!Rejected

\* A block that stays what it is keeps its fate, and so does a batch on MAIN, and
\* a rejected one that is not quarantined again; and what is contested stays so.
LEMMA FateStays ==
    ASSUME TypeOK, TypeOK', NEW b \in Batches,
           \/ /\ b \in OnMain' <=> b \in OnMain
              /\ b \in Contested' <=> b \in Contested
              /\ b \in rejected' <=> b \in rejected
              /\ Kept(b)
           \/ b \in OnMain /\ b \in OnMain'
           \/ b \in Contested /\ b \in Contested' /\ (b \in OnMain' <=> b \in OnMain)
           \/ /\ b \in rejected /\ b \in rejected' /\ (b \in OnMain' <=> b \in OnMain)
              /\ b \in Contested' <=> b \in Contested
              /\ local[b].status # "TAMPERED" /\ local'[b].status # "TAMPERED"
    PROVE  FateOf(b)' = FateOf(b)
<1>1. local[b] = NoBlock <=> local[b].status = "NONE"
  BY NoneIsNoBlock DEF TypeOK
<1>2. local'[b] = NoBlock <=> local'[b].status = "NONE"
  BY NoneIsNoBlock DEF TypeOK
<1> QED
  BY <1>1, <1>2 DEF FateOf, Kept, NoBlock

\* A step that decides the fate of one batch.
LEMMA OneFate ==
    ASSUME NEW b \in Batches, \A c \in Batches \ {b} : FateOf(c)' = FateOf(c),
           NEW f, FateOf(b)' = f
    PROVE  /\ Fate' = [Fate EXCEPT ![b] = f]
           /\ Fate[b] = FateOf(b)
           /\ f # FateOf(b) => Fate' # Fate
<1>1. Fate' = [c \in Batches |-> FateOf(c)']
  BY DEF Fate
<1>2. Fate = [c \in Batches |-> FateOf(c)]
  BY DEF Fate
<1>3. \A c \in Batches : FateOf(c)' = IF c = b THEN f ELSE Fate[c]
  BY <1>2
<1>4. [Fate EXCEPT ![b] = f] = [c \in Batches |-> IF c = b THEN f ELSE Fate[c]]
  BY <1>2
<1>5. Fate'[b] = f /\ Fate[b] = FateOf(b)
  BY <1>1, <1>2
<1> QED
  BY <1>1, <1>3, <1>4, <1>5

\* A step that decides nothing, and leaves MAIN alone, is not seen.
LEMMA NothingDecided ==
    ASSUME \A b \in Batches : FateOf(b)' = FateOf(b), main' = main
    PROVE  UNCHANGED << Fate, Order >>
BY DEF Fate, Order

\* A block appended to MAIN appends its batch to the order of the ledger.
LEMMA OrderAppends ==
    ASSUME TypeOK, NEW block \in MainBlock, main' = Append(main, block)
    PROVE  Order' = Append(Order, block.batchId)
<1>1. main \in Seq(MainBlock) /\ block.batchId \in Batches
  BY DEF TypeOK, MainBlock
<1>2. /\ DOMAIN main = 1 .. Len(main) /\ Len(main) \in Nat
      /\ DOMAIN main' = 1 .. (Len(main) + 1)
      /\ main'[Len(main) + 1] = block
      /\ \A n \in 1 .. Len(main) : main'[n] = main[n] /\ main[n] \in MainBlock
      /\ 1 .. (Len(main) + 1) = (1 .. Len(main)) \cup {Len(main) + 1}
  BY <1>1, AppendProperties, LenProperties
<1>3. Order = [n \in 1 .. Len(main) |-> main[n].batchId]
  BY <1>2 DEF Order
<1>4. Order \in Seq(Batches) /\ Len(Order) = Len(main)
  <2>1. \A n \in 1 .. Len(main) : main[n].batchId \in Batches
    BY <1>2 DEF MainBlock
  <2> QED
    BY <1>2, <1>3, <2>1
<1>5. Order' = [n \in 1 .. (Len(main) + 1) |-> main'[n].batchId]
  BY <1>2 DEF Order
<1>6. Order' \in Seq(Batches) /\ Len(Order') = Len(main) + 1
  <2>1. \A n \in 1 .. (Len(main) + 1) : main'[n].batchId \in Batches
    BY <1>1, <1>2 DEF MainBlock
  <2> QED
    BY <1>2, <1>5, <2>1
<1>7. /\ Append(Order, block.batchId) \in Seq(Batches)
      /\ Len(Append(Order, block.batchId)) = Len(main) + 1
      /\ \A n \in 1 .. Len(main) : Append(Order, block.batchId)[n] = Order[n]
      /\ Append(Order, block.batchId)[Len(main) + 1] = block.batchId
  BY <1>1, <1>4, AppendProperties
<1>8. \A n \in 1 .. Len(Order') : Order'[n] = Append(Order, block.batchId)[n]
  <2> SUFFICES ASSUME NEW n \in 1 .. (Len(main) + 1)
               PROVE  Order'[n] = Append(Order, block.batchId)[n]
    BY <1>6
  <2>1. CASE n \in 1 .. Len(main)
    BY <1>2, <1>3, <1>5, <1>7, <2>1
  <2>2. CASE n = Len(main) + 1
    BY <1>2, <1>5, <1>7, <2>2
  <2> QED
    BY <1>2, <2>1, <2>2
<1> QED
  BY <1>6, <1>7, <1>8, SeqEqual

\* A step that writes a batch that is not on MAIN late contests it.
LEMMA LedgerContest ==
    ASSUME TypeOK, TypeOK', NEW b \in Batches, main' = main,
           b \notin OnMain, b \notin Contested, b \in Contested',
           \A c \in Batches \ {b} : FateOf(c)' = FateOf(c)
    PROVE  [Ledger!Next]_<< Fate, Order >>
<1>1. b \notin OnMain'
  BY DEF OnMain
<1>2. FateOf(b)' = Ledger!Contested
  BY <1>1, FateFactsNext
<1>3. FateOf(b) \notin {Ledger!Contested, Ledger!Ledgered}
  BY DEF FateOf, Ledger!Contested, Ledger!Ledgered
<1>4. /\ Fate' = [Fate EXCEPT ![b] = Ledger!Contested]
      /\ Fate[b] = FateOf(b) /\ Fate' # Fate /\ Order' = Order
  BY <1>2, <1>3, OneFate DEF Order
<1>5. Ledger!Contest(b) /\ Fate' # Fate
  BY <1>3, <1>4 DEF Ledger!Contest, Ledger!Becomes, Fate, Order
<1> QED
  BY <1>5 DEF Ledger!Next, Fate

\* /create records its batch on the ledger, or stages it in the epoch it found
\* open.
LEMMA LedgerCreate ==
    ASSUME FateInv, TypeOK', NEW r \in Requests, CreateStage(r) \/ AppendBlock(r)
    PROVE  [Ledger!Next]_<< Fate, Order >>
<1>1. TypeOK /\ nextBatch \in Nat /\ ~(nextBatch < nextBatch)
  BY HomesTypes DEF FateInv, KeepInv
<1>2. /\ nextBatch \in Batches /\ rejected' = rejected /\ OthersKept(nextBatch)
      /\ Contested \subseteq Contested' /\ Contested' \subseteq Contested \cup {nextBatch}
  BY <1>1, CreateAdds
<1>3. PICK b \in Batches : b = nextBatch
  BY <1>2
<1>4. Unplaced(b) /\ local[b].status = "NONE"
  BY <1>3, <1>1, <1>2 DEF FateInv, Fates, Numbered, LateNumbered, Unplaced, Undisputed
<1>5. FateOf(b) = Ledger!New
  BY <1>1, <1>2, <1>4, FateFacts
<1>6. CASE AppendBlock(r)
  <2>1. PICK block \in MainBlock : block.batchId = b /\ main' = Append(main, block)
    BY <1>1, <1>3, <1>6, CreateAdds
  <2>4. OnMain' = OnMain \cup {b} /\ Order' = Append(Order, b)
    BY <1>1, <2>1, OnMainAppend, OrderAppends
  <2>5. \A c \in Batches \ {b} : FateOf(c)' = FateOf(c)
    BY <1>1, <1>2, <1>3, <2>4, FateStays DEF OthersKept
  <2>6. FateOf(b)' = Ledger!Ledgered
    BY <1>2, <2>4, FateFactsNext
  <2>7. /\ Fate' = [Fate EXCEPT ![b] = Ledger!Ledgered]
        /\ Fate[b] = Ledger!New /\ Fate' # Fate
    BY <1>2, <1>5, <2>5, <2>6, OneFate, FatesDiffer
  <2>8. Ledger!Record(b) /\ Fate' # Fate
    BY <2>4, <2>7 DEF Ledger!Record, Ledger!Becomes, Ledger!Append1, Fate, Order
  <2> QED
    BY <1>2, <2>8 DEF Ledger!Next, Fate
<1>7. CASE CreateStage(r)
  <2>1. PICK i \in Incidents : i = request[r].incidentId
    BY <1>1, <1>7, StageEffect
  <2>2. /\ local'[b].incidentId = i /\ local'[b].status = "PENDING_VERIFICATION"
        /\ main' = main /\ OnMain' = OnMain
    BY <1>1, <1>3, <1>7, <2>1, StageEffect, CreateAdds
  <2>3. \A c \in Batches \ {b} : FateOf(c)' = FateOf(c)
    BY <1>1, <1>2, <1>3, <2>2, FateStays DEF OthersKept
  <2>4. CASE b \in Contested'
    BY <1>1, <1>4, <2>2, <2>3, <2>4, LedgerContest DEF Unplaced, Undisputed
  <2>5. CASE b \notin Contested'
    <3>1. FateOf(b)' = Ledger!Staged(i)
      BY <1>2, <1>4, <2>2, <2>5, FateFactsNext DEF Unplaced, Undisputed
    <3>2. /\ Fate' = [Fate EXCEPT ![b] = Ledger!Staged(i)]
          /\ Fate[b] = Ledger!New /\ Fate' # Fate
      BY <1>2, <1>5, <2>3, <3>1, OneFate, FatesDiffer
    <3>3. Ledger!Stage(b, i) /\ Fate' # Fate
      BY <2>2, <3>2 DEF Ledger!Stage, Ledger!Becomes, Fate, Order
    <3> QED
      BY <1>2, <3>3 DEF Ledger!Next, Fate
  <2> QED
    BY <2>4, <2>5
<1> QED
  BY <1>6, <1>7

\* A flag quarantines its block, if that is not on MAIN yet; a rejected block is
\* quarantined again.
LEMMA LedgerFlag ==
    ASSUME FateInv, TypeOK', MergeFlag
    PROVE  [Ledger!Next]_<< Fate, Order >>
<1>1. /\ TypeOK /\ main' = main /\ OnMain' = OnMain /\ rejected' = rejected
      /\ Contested' = Contested
  BY DEF FateInv, KeepInv, MergeFlag, OnMain, Contested
<1>2. PICK error \in worker.errors :
         /\ error \in Errors
         /\ \A c \in Batches \ {error[1]} : local'[c] = local[c]
         /\ \/ local[error[1]] = NoBlock /\ local'[error[1]] = NoBlock
            \/ /\ local[error[1]] \in LocalBlock
               /\ local'[error[1]] = [local[error[1]] EXCEPT !.status = "TAMPERED"]
  BY <1>1, FlagWrites
<1> DEFINE b == error[1]
<1>3. b \in Batches
  BY <1>2 DEF Errors
<1>4. /\ \A c \in Batches \ {b} : local'[c] = local[c]
      /\ local'[b] = local[b] \/ (local[b] \in LocalBlock /\ local'[b] = [local[b] EXCEPT !.status = "TAMPERED"])
  BY <1>2
<1> HIDE DEF b
<1>5. \A c \in Batches \ {b} : FateOf(c)' = FateOf(c)
  BY <1>1, <1>4, FateStays DEF Kept
<1>6. CASE FateOf(b)' = FateOf(b)
  BY <1>1, <1>5, <1>6, NothingDecided
<1>7. CASE FateOf(b)' # FateOf(b)
  <2>1. b \notin OnMain /\ b \notin Contested /\ local'[b] # local[b]
    BY <1>1, <1>3, <1>7, FateStays DEF Kept
  <2>2. /\ local[b] \in LocalBlock /\ local'[b].status = "TAMPERED"
        /\ local'[b].incidentId = local[b].incidentId
    BY <1>4, <2>1 DEF LocalBlock
  <2>3. PICK e \in Incidents : e = local[b].incidentId
    BY <2>2 DEF LocalBlock
  <2>4. FateOf(b)' = Ledger!Quarantined(e)
    BY <1>1, <1>3, <2>1, <2>2, <2>3, FateFactsNext DEF Undisputed
  <2>5. FateOf(b) \in {Ledger!Staged(e), Ledger!Rejected}
    <3>1. local[b].status # "NONE"
      BY <2>2 DEF LocalBlock, LocalStatus, ActiveStatus
    <3>2. local[b].status # "TAMPERED"
      BY <1>1, <1>3, <1>7, <2>1, <2>3, <2>4, FateFacts DEF Undisputed
    <3> QED
      BY <1>1, <1>3, <2>1, <2>3, <3>1, <3>2, FateFacts DEF Unplaced, Undisputed
  <2>6. /\ Fate' = [Fate EXCEPT ![b] = Ledger!Quarantined(e)]
        /\ Fate[b] = FateOf(b) /\ Fate' # Fate
    BY <1>3, <1>5, <1>7, <2>4, OneFate
  <2>7. Ledger!Quarantine(b, e) /\ Fate' # Fate
    BY <1>1, <2>5, <2>6 DEF Ledger!Quarantine, Ledger!Becomes, Fate, Order
  <2> QED
    BY <1>3, <2>7 DEF Ledger!Next, Fate
<1> QED
  BY <1>6, <1>7

\* The merge publishes the oldest staged batch of an epoch that it found clean.
LEMMA LedgerAppend ==
    ASSUME FateInv, TypeOK', MergeAppend
    PROVE  [Ledger!Next]_<< Fate, Order >>
<1> DEFINE i == worker.incidentId
<1>1. TypeOK
  BY DEF FateInv, KeepInv
<1>2. PICK d \in worker.blocks :
         \E block \in MainBlock :
            /\ d.batchId \in Batches /\ d.batchId \notin OnMain
            /\ \A e \in worker.blocks : d.batchId <= e.batchId
            /\ block.batchId = d.batchId /\ main' = Append(main, block)
            /\ worker.pc = "append" /\ local' = local /\ rejected' = rejected /\ late' = late
  BY <1>1, AppendedBlock
<1> DEFINE b == d.batchId
<1>3. OnMain' = OnMain \cup {b} /\ Order' = Append(Order, b)
  BY <1>1, <1>2, OnMainAppend, OrderAppends
<1>4. /\ InEpoch(b, i, LocalStatus) /\ b \in Batches /\ b \notin OnMain
      /\ b \in Contested \/ local[b].status \in ActiveStatus
  BY <1>2 DEF FateInv, Fates, ListActive
<1>5. i \in Incidents /\ \A a \in Batches : ~InEpoch(a, i, {"TAMPERED"})
  BY <1>2 DEF FateInv, KeepInv, Keep, EpochClosed, Holding
<1>13. Contested' = Contested
  BY <1>2 DEF Contested
<1> HIDE DEF b, i
<1>7. ASSUME NEW a \in Batches
      PROVE  FateOf(a) # Ledger!Quarantined(i) /\ (FateOf(a) = Ledger!Staged(i) => b <= a)
  <2>1. FateOf(a) # Ledger!Quarantined(i)
    BY <1>1, <1>5, FateFacts, FatesDiffer DEF InEpoch, Unplaced, Undisputed
  <2>2. ASSUME FateOf(a) = Ledger!Staged(i) PROVE b <= a
    <3>1. /\ Unplaced(a) /\ local[a].incidentId = i
          /\ local[a].status \notin {"NONE", "TAMPERED"}
      BY <1>1, <2>2, FateFacts, FatesDiffer DEF Unplaced, Undisputed
    <3>2. local[a].status \in LocalStatus \cup {"NONE"}
      BY <1>1 DEF TypeOK, LocalBlock, NoBlock
    <3>3. InEpoch(a, i, ActiveStatus) /\ a \notin OnMain /\ a \notin Contested
      BY <3>1, <3>2 DEF InEpoch, LocalStatus, Unplaced, Undisputed, FateInv, KeepInv, Keep, VerdictsRecorded
    <3>4. PICK e \in worker.blocks : e.batchId = a
      BY <1>2, <3>3 DEF FateInv, KeepInv, Keep, MergeCovers, i
    <3> QED
      BY <1>2, <3>4 DEF b
  <2> QED
    BY <2>1, <2>2
<1>8. \A c \in Batches \ {b} : FateOf(c)' = FateOf(c)
  BY <1>1, <1>2, <1>3, <1>13, FateStays DEF Kept
<1>9. FateOf(b)' = Ledger!Ledgered
  BY <1>3, <1>4, FateFactsNext
<1>11. \A a \in Batches : Fate[a] = FateOf(a)
  BY DEF Fate
<1>12. CASE b \in Contested
  <2>1. FateOf(b) = Ledger!Contested
    BY <1>1, <1>4, <1>12, FateFacts
  <2>2. /\ Fate' = [Fate EXCEPT ![b] = Ledger!Ledgered]
        /\ Fate[b] = Ledger!Contested /\ Fate' # Fate
    BY <1>4, <1>8, <1>9, <2>1, OneFate, FatesDiffer
  <2>3. Ledger!PublishContested(b) /\ Fate' # Fate
    BY <1>3, <2>2 DEF Ledger!PublishContested, Ledger!Becomes, Ledger!Append1, Fate, Order
  <2> QED
    BY <1>4, <2>3 DEF Ledger!Next, Fate
<1>14. CASE b \notin Contested
  <2>1. FateOf(b) = Ledger!Staged(i)
    <3>1. Unplaced(b)
      BY <1>4, <1>14 DEF Unplaced, Undisputed, InEpoch, FateInv, Fates, VerdictsFinal, ActiveStatus
    <3> QED
      BY <1>1, <1>4, <1>14, <3>1, FateFacts DEF InEpoch, ActiveStatus
  <2>2. /\ Fate' = [Fate EXCEPT ![b] = Ledger!Ledgered]
        /\ Fate[b] = Ledger!Staged(i) /\ Fate' # Fate
    BY <1>4, <1>8, <1>9, <2>1, OneFate, FatesDiffer
  <2>3. Ledger!Publish(b, i) /\ Fate' # Fate
    BY <1>3, <1>7, <1>11, <2>2 DEF Ledger!Publish, Ledger!Becomes, Ledger!Append1, Fate, Order
  <2> QED
    BY <1>4, <1>5, <2>3 DEF Ledger!Next, Fate
<1> QED
  BY <1>12, <1>14

\* deleteMany drops blocks whose batch is on MAIN, was rejected or is contested.
LEMMA LedgerDrop ==
    ASSUME FateInv, TypeOK', MergeDrop
    PROVE  UNCHANGED << Fate, Order >>
<1> DEFINE i == worker.incidentId
<1>1. /\ TypeOK /\ worker.pc = "drop" /\ main' = main /\ OnMain' = OnMain /\ rejected' = rejected
      /\ Contested' = Contested
      /\ \A b \in Batches : local'[b] = IF b \in WithStatus(i, LocalStatus) THEN NoBlock ELSE local[b]
  BY DEF FateInv, KeepInv, MergeDrop, OnMain, Contested
<1>2. ASSUME NEW b \in Batches PROVE FateOf(b)' = FateOf(b)
  <2>1. CASE b \notin WithStatus(i, LocalStatus)
    BY <1>1, <2>1, FateStays DEF Kept
  <2>2. CASE b \in WithStatus(i, LocalStatus)
    <3>1. InEpoch(b, i, LocalStatus) /\ ~InEpoch(b, i, {"TAMPERED"})
      BY <1>1, <2>2 DEF WithStatus, InEpoch, FateInv, KeepInv, Keep, EpochClosed, Holding
    <3>2. b \in OnMain \/ b \in rejected \/ b \in Contested
      BY <1>1, <3>1 DEF InEpoch, LocalStatus, FateInv, KeepInv, Keep, MergeCovers, VerdictsRecorded
    <3>3. local[b].status # "TAMPERED" /\ local'[b].status # "TAMPERED"
      BY <1>1, <2>2, <3>1 DEF InEpoch, NoBlock
    <3> QED
      BY <1>1, <3>2, <3>3, FateStays
  <2> QED
    BY <2>1, <2>2
<1> QED
  BY <1>1, <1>2, NothingDecided

\* The admin restores a quarantined batch or rejects it, or contests it; a block
\* whose batch a stopped merge has already put on MAIN changes nothing.
LEMMA LedgerDecision ==
    ASSUME FateInv, TypeOK', NEW r \in Requests, RecoverWrite(r) \/ DecideWrite(r)
    PROVE  [Ledger!Next]_<< Fate, Order >>
<1>1. TypeOK /\ main' = main /\ OnMain' = OnMain
  BY AdminDecides DEF FateInv, KeepInv
<1>2. PICK b \in Batches :
         /\ OthersKept(b)
         /\ Contested \subseteq Contested' /\ Contested' \subseteq Contested \cup {b}
         /\ \/ Kept(b) /\ rejected' = rejected /\ late' = late
            \/ /\ local[b].status # "NONE"
               /\ \/ /\ Moves(b, LocalStatus, "PENDING_VERIFICATION")
                     /\ rejected' = rejected \ {b}
                  \/ /\ \E st \in Verdicts : Moves(b, LocalStatus, st)
                     /\ rejected' = rejected \cup {b}
               /\ \/ local[b].status = "TAMPERED" /\ late' = late
                  \/ b \in Contested'
  BY <1>1, AdminDecides
<1> DEFINE e == local[b].incidentId
<1>3. \A c \in Batches \ {b} : FateOf(c)' = FateOf(c)
  <2>1. \A c \in Batches \ {b} : c \in rejected' <=> c \in rejected
    BY <1>2
  <2> QED
    BY <1>1, <1>2, <2>1, FateStays DEF OthersKept
<1>4. CASE b \in OnMain \/ b \in Contested \/ (Kept(b) /\ rejected' = rejected /\ late' = late)
  <2>1. late' = late => Contested' = Contested
    BY DEF Contested
  <2>2. FateOf(b)' = FateOf(b)
    BY <1>1, <1>2, <1>4, <2>1, FateStays
  <2> QED
    BY <1>1, <1>3, <2>2, NothingDecided
<1>5. CASE Undisputed(b) /\ b \in Contested'
  BY <1>1, <1>3, <1>5, LedgerContest DEF Undisputed
<1>6. CASE /\ Undisputed(b) /\ b \notin Contested'
           /\ ~(Kept(b) /\ rejected' = rejected /\ late' = late)
  <2>1. /\ local[b].status = "TAMPERED" /\ local'[b].incidentId = e /\ Order' = Order
        /\ Undisputed(b)'
    BY <1>1, <1>2, <1>6 DEF Moves, Order, Undisputed
  <2>2. e \in Incidents
    <3>1. local[b] \in LocalBlock
      BY <1>1, <2>1 DEF TypeOK, NoBlock
    <3> QED
      BY <3>1 DEF LocalBlock
  <2> HIDE DEF e
  <2>3. FateOf(b) = Ledger!Quarantined(e)
    BY <1>1, <1>6, <2>1, FateFacts DEF e
  <2>4. CASE Moves(b, LocalStatus, "PENDING_VERIFICATION") /\ rejected' = rejected \ {b}
    <3>1. FateOf(b)' = Ledger!Staged(e)
      BY <1>1, <2>1, <2>4, FateFactsNext DEF Moves, Unplaced
    <3>2. /\ Fate' = [Fate EXCEPT ![b] = Ledger!Staged(e)]
          /\ Fate[b] = Ledger!Quarantined(e) /\ Fate' # Fate
      BY <1>3, <2>3, <3>1, OneFate, FatesDiffer
    <3>3. Ledger!Restore(b, e) /\ Fate' # Fate
      BY <2>1, <3>2 DEF Ledger!Restore, Ledger!Becomes, Fate, Order
    <3> QED
      BY <2>2, <3>3 DEF Ledger!Next, Fate
  <2>5. CASE /\ \E st \in Verdicts : Moves(b, LocalStatus, st)
             /\ rejected' = rejected \cup {b}
    <3>1. FateOf(b)' = Ledger!Rejected
      BY <1>1, <2>1, <2>5, FateFactsNext DEF Moves, Verdicts
    <3>2. /\ Fate' = [Fate EXCEPT ![b] = Ledger!Rejected]
          /\ Fate[b] = Ledger!Quarantined(e) /\ Fate' # Fate
      BY <1>3, <2>3, <3>1, OneFate, FatesDiffer
    <3>3. Ledger!Reject(b, e) /\ Fate' # Fate
      BY <2>1, <3>2 DEF Ledger!Reject, Ledger!Becomes, Fate, Order
    <3> QED
      BY <2>2, <3>3 DEF Ledger!Next, Fate
  <2> QED
    BY <1>2, <1>6, <2>4, <2>5
<1> QED
  BY <1>4, <1>5, <1>6 DEF Undisputed

\* Every other step is not seen by the ledger, a restart included.
LEMMA LedgerStep == FateInv /\ [Next]_vars => [Ledger!Next]_<< Fate, Order >>
<1> SUFFICES ASSUME FateInv, [Next]_vars PROVE [Ledger!Next]_<< Fate, Order >>
  OBVIOUS
<1>1. TypeOK /\ TypeOK'
  BY TypeStep DEF FateInv, KeepInv
<1>2. ASSUME main' = main, rejected' = rejected, late' = late, \A b \in Batches : Kept(b)
      PROVE  UNCHANGED << Fate, Order >>
  <2>1. OnMain' = OnMain /\ Contested' = Contested
    BY <1>2 DEF OnMain, Contested
  <2> QED
    BY <1>1, <1>2, <2>1, FateStays, NothingDecided
<1>3. local' = local => \A b \in Batches : Kept(b)
  BY DEF Kept
<1>4. ASSUME NEW r \in Requests, CreateStage(r) \/ AppendBlock(r)
      PROVE  [Ledger!Next]_<< Fate, Order >>
  BY <1>1, <1>4, LedgerCreate
<1>5. CASE MergeStep
  <2>1. CASE MergeFlag
    BY <1>1, <2>1, LedgerFlag
  <2>2. CASE MergeAppend
    BY <1>1, <2>2, LedgerAppend
  <2>3. CASE MergeDrop
    BY <1>1, <2>3, LedgerDrop
  <2>4. CASE \/ \E i \in Incidents : MergeSkip(i) \/ MergeRefuse(i) \/ MergeVerify(i)
             \/ MergeFlagged \/ MergeRead \/ MergeDuplicate \/ MergeRecord
    <3>1. local' = local /\ main' = main /\ rejected' = rejected /\ late' = late
      BY <2>4 DEF MergeSkip, MergeRefuse, MergeVerify, MergeFlagged, MergeRead, MergeDuplicate, MergeRecord
    <3> QED
      BY <1>2, <1>3, <3>1
  <2> QED
    BY <1>5, <2>1, <2>2, <2>3, <2>4 DEF MergeStep
<1>6. ASSUME NEW r \in Requests, RecoverWrite(r) \/ DecideWrite(r)
      PROVE  [Ledger!Next]_<< Fate, Order >>
  BY <1>1, <1>6, LedgerDecision
<1>7. CASE \/ \E r \in Requests : CascadeRechain(r)
           \/ \E b \in Batches : Alter(b)
  <2>1. \A b \in Batches : Kept(b)
    BY <1>1, <1>7, RewriteEffect
  <2>2. main' = main /\ rejected' = rejected /\ late' = late
    BY <1>7 DEF CascadeRechain, Alter
  <2> QED
    BY <1>2, <2>1, <2>2
<1>8. CASE \/ ReadStep \/ Crash \/ OutageFind \/ OutageDeclare \/ ResolveIncident \/ ListIncidents
           \/ \E r \in Requests : CreateDeclare(r)
  <2>1. local' = local /\ main' = main /\ rejected' = rejected /\ late' = late
    BY <1>8, ReadsWriteNothing
    DEF chainVars, Crash, OutageFind, OutageDeclare, ResolveIncident, ListIncidents, CreateDeclare
  <2> QED
    BY <1>2, <1>3, <2>1
<1> QED
  BY <1>4, <1>5, <1>6, <1>7, <1>8, StepKinds DEF WorkerStep

\* At first nothing is staged, recorded or decided.
LEMMA FateInit == Init => FateInv
<1> SUFFICES ASSUME Init PROVE Fates
  BY KeepInit DEF FateInv
<1>1. \A b \in Batches : local[b].status = "NONE"
  BY DEF Init, NoBlock
<1>2. /\ nextBatch = 1 /\ worker.pc = "idle" /\ worker.todo = {} /\ worker.blocks = {}
      /\ rejected = {} /\ OnMain = {} /\ Contested = {}
  BY DEF Init, WorkerIdle, OnMain, Contested
<1> QED
  BY <1>1, <1>2 DEF Fates, Numbered, VerdictsFinal, ListActive, LateNumbered

\* The epochs, their merge and the admin's decisions implement the ledger,
\* whatever overlaps, is altered or is restarted: no batch is lost, leaves the
\* ledger, reaches it twice, before an earlier batch of its epoch, while
\* something of its epoch is quarantined, or straight from a rejection, until a
\* request writes its block by a check that holds no more; such a batch is
\* contested, and reaches the ledger once at most.
THEOREM LedgerImplemented == Spec => ImplementsLedger
<1>1. Init => Ledger!Init
  <2> SUFFICES ASSUME Init PROVE Ledger!Init
    OBVIOUS
  <2>1. /\ main = << >> /\ OnMain = {} /\ rejected = {} /\ Contested = {}
        /\ \A b \in Batches : local[b] = NoBlock
    BY DEF Init, OnMain, Contested
  <2>2. \A b \in Batches : FateOf(b) = Ledger!New
    BY <2>1 DEF FateOf, Ledger!New, NoBlock
  <2>3. [n \in DOMAIN main |-> main[n].batchId] = << >>
    BY <2>1
  <2> QED
    BY <2>2, <2>3 DEF Ledger!Init
<1> QED
  BY <1>1, FateInit, FatesStep, LedgerStep, PTL DEF Spec, ImplementsLedger, Ledger!Spec, Fate, Order

-----------------------------------------------------------------------------
(* A merged epoch is closed for good *)

EpochGone(i) == \A b \in Batches : ~InEpoch(b, i, LocalStatus)

\* A request wrote in epoch i by a check that held no more.
Disturbed(i) == \E b \in Batches : << b, i >> \in late

\* A merged epoch is closed, and its blocks are gone or about to be dropped.
MergedIsGone ==
    \A i \in Incidents : incident[i].localChainStatus = "MERGED" =>
        /\ incident[i].status = "CLOSED"
        /\ Disturbed(i) \/ EpochGone(i) \/ (worker.pc = "drop" /\ worker.incidentId = i)

\* The epoch being appended still has its blocks staged.
AppendHasBlocks ==
    worker.pc = "append" =>
        Disturbed(worker.incidentId) \/ \E b \in Batches : InEpoch(b, worker.incidentId, ActiveStatus)

\* The epoch being flagged has not been merged.
FlagsUnmerged ==
    worker.pc = "flag" =>
        /\ worker.incidentId \in Incidents
        /\ Disturbed(worker.incidentId) \/ incident[worker.incidentId].localChainStatus # "MERGED"

SettledInv == FateInv /\ MergedIsGone /\ AppendHasBlocks /\ FlagsUnmerged

LEMMA DisturbedStays ==
    ASSUME [Next]_vars, NEW i, Disturbed(i)
    PROVE  Disturbed(i)'
BY LateStays DEF Disturbed

\* The steps that move the worker.
LEMMA WorkerKinds ==
    ASSUME [Next]_vars
    PROVE  worker' = worker \/ WorkerStep \/ Crash
BY StepKinds, ReadsWriteNothing
DEF chainVars, CreateDeclare, CreateStage, AppendBlock, RecoverWrite, CascadeRechain, DecideWrite, Alter

\* Only a refusal starts the flagging of an epoch.
LEMMA FlaggingStarts ==
    ASSUME TypeOK, [Next]_vars, worker'.pc = "flag"
    PROVE  worker' = worker \/ MergeFlag \/ \E i \in Incidents : MergeRefuse(i)
<1>1. worker \in WorkerState
  BY DEF TypeOK
<1>2. \A i : NextIncident(i).pc # "flag" /\ WorkerIdle.pc # "flag"
  BY DEF NextIncident, MergesLeft, WorkerIdle
<1>3. ~OutageFind /\ ~OutageDeclare /\ ~ResolveIncident /\ ~ListIncidents
  BY <1>2 DEF OutageFind, OutageDeclare, ResolveIncident, ListIncidents, MergesLeft, WorkerIdle
<1>4. ASSUME NEW i \in Incidents, MergeVerify(i) PROVE FALSE
  BY <1>1, <1>4 DEF MergeVerify, WorkerState
<1>5. ~MergeRead /\ ~MergeAppend /\ ~MergeRecord
  BY <1>1, <1>2 DEF MergeRead, MergeAppend, MergeRecord, WorkerState
<1>6. /\ ~MergeDuplicate /\ ~MergeDrop /\ ~Crash /\ ~MergeFlagged
      /\ \A i \in Incidents : ~MergeSkip(i)
  BY <1>2 DEF MergeDuplicate, MergeDrop, Crash, MergeFlagged, MergeSkip
<1> QED
  BY <1>3, <1>4, <1>5, <1>6, WorkerKinds DEF WorkerStep, MergeStep

\* A closed epoch without blocks gets none, unless a /create comes late.
LEMMA GoneStays ==
    ASSUME TypeOK, [Next]_vars, NEW i \in Incidents, incident[i].status = "CLOSED", EpochGone(i)
    PROVE  EpochGone(i)' \/ Disturbed(i)'
<1>1. ASSUME \A b \in Batches : Kept(b) PROVE EpochGone(i)'
  BY <1>1 DEF EpochGone, InEpoch, Kept
<1>2. local' = local => \A b \in Batches : Kept(b)
  BY DEF Kept
<1>3. ASSUME NEW r \in Requests, CreateStage(r) PROVE EpochGone(i)' \/ Disturbed(i)'
  <2>1. /\ nextBatch \in Batches /\ OthersKept(nextBatch)
        /\ local'[nextBatch].incidentId = request[r].incidentId
        /\ request[r].incidentId = i => << nextBatch, i >> \in late'
    BY <1>3, StageEffect
  <2>2. CASE request[r].incidentId = i
    BY <2>1, <2>2 DEF Disturbed
  <2>3. CASE request[r].incidentId # i
    BY <2>1, <2>3 DEF OthersKept, Kept, EpochGone, InEpoch
  <2> QED
    BY <2>2, <2>3
<1>4. CASE MergeFlag
  <2>1. \A b \in Batches : Kept(b) \/ Moves(b, LocalStatus, "TAMPERED")
    BY <1>4, FlagEffect
  <2> QED
    BY <2>1 DEF Kept, Moves, EpochGone, InEpoch, LocalStatus
<1>5. CASE MergeDrop
  <2>1. \A b \in Batches : local'[b] = NoBlock \/ local'[b] = local[b]
    BY <1>5 DEF MergeDrop
  <2> QED
    BY <2>1 DEF EpochGone, InEpoch, NoBlock, LocalStatus, ActiveStatus
<1>6. ASSUME NEW r \in Requests, RecoverWrite(r) \/ DecideWrite(r) PROVE EpochGone(i)'
  <2>1. PICK b \in Batches :
           OthersKept(b) /\ (Kept(b) \/ \E st \in LocalStatus : Moves(b, LocalStatus, st))
    BY <1>6, AdminDecides DEF LocalStatus, ActiveStatus, Verdicts
  <2> QED
    BY <2>1 DEF OthersKept, Kept, Moves, EpochGone, InEpoch, LocalStatus
<1>7. CASE \/ \E r \in Requests : CascadeRechain(r)
           \/ \E b \in Batches : Alter(b)
  BY <1>1, <1>7, RewriteEffect
<1>8. CASE local' = local
  BY <1>1, <1>2, <1>8
<1> QED
  BY <1>3, <1>4, <1>5, <1>6, <1>7, <1>8, StepKinds, ReadsWriteNothing
  DEF chainVars, CreateDeclare, AppendBlock, WorkerStep, OutageFind, OutageDeclare,
      ResolveIncident, ListIncidents, MergeStep, MergeSkip, MergeRefuse, MergeFlagged, MergeVerify,
      MergeRead, MergeAppend, MergeDuplicate, MergeRecord, Crash

\* Incidents are written by a declaration, the resolution and the merge.
LEMMA IncidentKinds ==
    ASSUME [Next]_vars
    PROVE  \/ incident' = incident \/ OutageDeclare \/ ResolveIncident \/ MergeFlagged \/ MergeRecord
           \/ \E r \in Requests : CreateDeclare(r)
BY StepKinds, ReadsWriteNothing
DEF chainVars, CreateStage, AppendBlock, RecoverWrite, CascadeRechain, DecideWrite, Crash, Alter,
    WorkerStep, OutageFind, ListIncidents, MergeStep, MergeSkip, MergeRefuse, MergeFlag,
    MergeVerify, MergeRead, MergeAppend, MergeDuplicate, MergeDrop

\* A declaration writes the document of an incident that was not declared.
LEMMA DeclaresNew ==
    ASSUME TypeOK, Reserved, OutageDeclare \/ \E r \in Requests : CreateDeclare(r)
    PROVE  \E j \in Incidents : incident[j].status = "NONE" /\ incident' = OpenIncidentDoc(j)
BY DEF OutageDeclare, CreateDeclare, Reserved, TypeOK, RequestState

\* The record of a merged incident that was not disturbed does not change.
LEMMA RecordStays ==
    ASSUME SettledInv, [Next]_vars, NEW i \in Incidents, incident[i].localChainStatus = "MERGED",
           ~Disturbed(i)
    PROVE  incident'[i] = incident[i]
<1>1. /\ incident \in [Incidents -> IncidentDoc] /\ incident[i].status = "CLOSED"
      /\ EpochGone(i) \/ worker.pc = "drop"
      /\ TypeOK /\ Reserved
  BY DEF SettledInv, MergedIsGone, FateInv, KeepInv, TypeOK
<1>2. CASE incident' = incident
  BY <1>2
<1>3. CASE OutageDeclare \/ \E r \in Requests : CreateDeclare(r)
  <2>1. PICK j \in Incidents : incident[j].status = "NONE" /\ incident' = OpenIncidentDoc(j)
    BY <1>1, <1>3, DeclaresNew
  <2> QED
    BY <1>1, <2>1 DEF OpenIncidentDoc
<1>4. CASE ResolveIncident
  BY <1>1, <1>4 DEF ResolveIncident, OpenIncidents
<1>5. CASE MergeFlagged
  <2>1. worker.incidentId # i
    BY <1>5 DEF MergeFlagged, SettledInv, FlagsUnmerged
  <2> QED
    BY <1>1, <1>5, <2>1 DEF MergeFlagged
<1>6. CASE MergeRecord
  <2>1. worker.pc = "append"
    BY <1>6 DEF MergeRecord
  <2>2. ASSUME worker.incidentId = i PROVE FALSE
    <3>1. PICK b \in Batches : InEpoch(b, i, ActiveStatus)
      BY <2>1, <2>2 DEF SettledInv, AppendHasBlocks
    <3> QED
      BY <1>1, <2>1, <3>1 DEF EpochGone, InEpoch, LocalStatus
  <2> QED
    BY <1>1, <1>6, <2>2 DEF MergeRecord
<1> QED
  BY <1>2, <1>3, <1>4, <1>5, <1>6, IncidentKinds

\* Only the worker that has appended an epoch marks it as merged.
LEMMA MergedByRecord ==
    ASSUME TypeOK, Reserved, [Next]_vars, NEW i \in Incidents,
           incident'[i].localChainStatus = "MERGED",
           incident[i].localChainStatus # "MERGED"
    PROVE  MergeRecord /\ i = worker.incidentId
<1>1. incident \in [Incidents -> IncidentDoc]
  BY DEF TypeOK
<1>2. incident' # incident
  OBVIOUS
<1>3. ~OutageDeclare /\ \A r \in Requests : ~CreateDeclare(r)
  <2> SUFFICES ASSUME OutageDeclare \/ \E r \in Requests : CreateDeclare(r) PROVE FALSE
    OBVIOUS
  <2>1. PICK j \in Incidents : incident' = OpenIncidentDoc(j)
    BY DeclaresNew
  <2> QED
    BY <1>1, <2>1 DEF OpenIncidentDoc, IncidentDoc
<1>4. ~ResolveIncident
  BY <1>1 DEF ResolveIncident, OpenIncidents, IncidentDoc
<1>5. ~MergeFlagged
  BY <1>1 DEF MergeFlagged, IncidentDoc
<1>6. MergeRecord
  BY <1>2, <1>3, <1>4, <1>5, IncidentKinds
<1>7. i = worker.incidentId
  BY <1>1, <1>6 DEF MergeRecord
<1> QED
  BY <1>6, <1>7

\* The worker about to drop an epoch drops it next.
LEMMA DropIsNext ==
    ASSUME TypeOK, [Next]_vars, NoRestartInMerge, worker.pc = "drop"
    PROVE  worker' = worker \/ MergeDrop
<1>1. ~Crash
  BY DEF Crash, TypeOK, NoRestartInMerge
<1> QED
  BY <1>1, WorkerKinds
  DEF WorkerStep, OutageFind, OutageDeclare, ResolveIncident, ListIncidents, MergeStep, MergeSkip,
      MergeRefuse, MergeFlag, MergeFlagged, MergeVerify, MergeRead, MergeAppend, MergeDuplicate,
      MergeRecord

\* The epoch that a refusal starts to flag has active blocks, so it is not gone.
LEMMA FlagsUnmergedStep ==
    ASSUME SettledInv, [Next]_vars
    PROVE  FlagsUnmerged'
<1> SUFFICES ASSUME worker'.pc = "flag"
             PROVE  /\ worker'.incidentId \in Incidents
                    /\ \/ \E b \in Batches : << b, worker'.incidentId >> \in late'
                       \/ incident'[worker'.incidentId].localChainStatus # "MERGED"
  BY DEF FlagsUnmerged, Disturbed
<1>1. TypeOK /\ Reserved /\ worker \in WorkerState
  BY DEF SettledInv, FateInv, KeepInv, TypeOK
<1>2. ASSUME NEW i \in Incidents, MergeRefuse(i)
      PROVE  worker'.incidentId = i /\ (Disturbed(i)' \/ incident'[i].localChainStatus # "MERGED")
  <2>1. worker'.incidentId = i /\ incident' = incident /\ worker.pc = "cycle"
    BY <1>1, <1>2 DEF MergeRefuse, WorkerState
  <2>2. \E b \in Batches : InEpoch(b, i, LocalStatus)
    BY <1>2 DEF MergeRefuse, LocalErrors, Active, WithStatus, InEpoch, LocalStatus
  <2> QED
    BY <2>1, <2>2, DisturbedStays DEF SettledInv, MergedIsGone, EpochGone
<1>3. CASE worker' = worker \/ MergeFlag
  <2>1. worker.pc = "flag"
    BY <1>3 DEF MergeFlag
  <2>2. worker'.incidentId = worker.incidentId
    BY <1>1, <1>3, FlagWrites
  <2>3. ~MergeRecord
    BY <2>1 DEF MergeRecord
  <2>4. PICK i \in Incidents : i = worker.incidentId
    BY <2>1 DEF SettledInv, FlagsUnmerged
  <2>5. Disturbed(i) \/ incident[i].localChainStatus # "MERGED"
    BY <2>1, <2>4 DEF SettledInv, FlagsUnmerged
  <2>6. Disturbed(i)' \/ incident'[i].localChainStatus # "MERGED"
    BY <1>1, <2>3, <2>5, MergedByRecord, DisturbedStays
  <2> QED
    BY <2>2, <2>4, <2>6 DEF Disturbed
<1>4. CASE \E i \in Incidents : MergeRefuse(i)
  <2>1. PICK i \in Incidents : MergeRefuse(i)
    BY <1>4
  <2> QED
    BY <1>2, <2>1 DEF Disturbed
<1> QED
  BY <1>1, <1>3, <1>4, FlaggingStarts

\* A merged epoch stays closed and gone.
LEMMA MergedIsGoneStep ==
    ASSUME SettledInv, [Next]_vars, NoRestartInMerge
    PROVE  MergedIsGone'
<1> SUFFICES ASSUME NEW i \in Incidents, incident'[i].localChainStatus = "MERGED"
             PROVE  /\ incident'[i].status = "CLOSED"
                    /\ \/ Disturbed(i)' \/ EpochGone(i)'
                       \/ worker'.pc = "drop" /\ worker'.incidentId = i
  BY DEF MergedIsGone
<1>1. TypeOK /\ Reserved /\ incident \in [Incidents -> IncidentDoc] /\ worker \in WorkerState
  BY DEF SettledInv, FateInv, KeepInv, TypeOK
<1>2. CASE incident[i].localChainStatus = "MERGED"
  <2>1. /\ incident'[i].status = "CLOSED" /\ incident[i].status = "CLOSED"
        /\ Disturbed(i) \/ EpochGone(i) \/ (worker.pc = "drop" /\ worker.incidentId = i)
    BY <1>1, <1>2, ClosedStays DEF SettledInv, MergedIsGone
  <2>5. CASE Disturbed(i)
    BY <2>1, <2>5, DisturbedStays
  <2>2. CASE EpochGone(i)
    BY <1>1, <2>1, <2>2, GoneStays
  <2>3. CASE worker.pc = "drop" /\ worker.incidentId = i /\ worker' = worker
    BY <2>1, <2>3
  <2>4. CASE worker.incidentId = i /\ MergeDrop
    <3>1. \A b \in Batches :
             local'[b] = IF b \in WithStatus(i, LocalStatus) THEN NoBlock ELSE local[b]
      BY <2>4 DEF MergeDrop
    <3>2. EpochGone(i)'
      BY <3>1 DEF EpochGone, InEpoch, WithStatus, NoBlock, LocalStatus, ActiveStatus
    <3> QED
      BY <2>1, <3>2
  <2> QED
    BY <1>1, <2>1, <2>2, <2>3, <2>4, <2>5, DropIsNext
<1>3. CASE incident[i].localChainStatus # "MERGED"
  <2>1. MergeRecord /\ i = worker.incidentId
    BY <1>1, <1>3, MergedByRecord
  <2>2. incident[i].status = "CLOSED"
    BY <2>1 DEF MergeRecord, SettledInv, FateInv, KeepInv, Keep, EpochClosed, Holding
  <2>3. incident'[i].status = "CLOSED"
    BY <1>1, <2>2, ClosedStays
  <2>4. worker'.pc = "drop" /\ worker'.incidentId = i
    BY <1>1, <2>1 DEF MergeRecord, WorkerState
  <2> QED
    BY <2>3, <2>4
<1> QED
  BY <1>2, <1>3

\* What is on the worker's list stays staged while the worker appends it.
LEMMA AppendHasBlocksStep ==
    ASSUME SettledInv, [Next]_vars
    PROVE  AppendHasBlocks'
<1> SUFFICES ASSUME worker'.pc = "append"
             PROVE  \/ \E b \in Batches : << b, worker'.incidentId >> \in late'
                    \/ \E b \in Batches :
                          /\ local'[b].status \in ActiveStatus
                          /\ local'[b].incidentId = worker'.incidentId
  BY DEF AppendHasBlocks, InEpoch, Disturbed
<1>1. TypeOK /\ worker \in WorkerState
  BY DEF SettledInv, FateInv, KeepInv, TypeOK
<1>2. CASE MergeRead
  <2>1. Active(worker.incidentId) # {} /\ worker'.incidentId = worker.incidentId /\ local' = local
    <3>1. Active(worker.incidentId) # {}
      BY <1>1, <1>2, NextIncidentHoldsNothing DEF MergeRead
    <3> QED
      BY <1>1, <1>2, <3>1 DEF MergeRead, WorkerState
  <2> QED
    BY <2>1 DEF Active, WithStatus
<1>3. CASE ~MergeRead
  <2>1. worker.pc = "append" /\ worker'.incidentId = worker.incidentId
    <3>1. CASE worker' = worker
      BY <3>1
    <3>2. CASE MergeAppend
      BY <1>1, <3>2 DEF MergeAppend, WorkerState
    <3>3. ~Crash /\ ~MergeDuplicate
      BY DEF Crash, MergeDuplicate, WorkerIdle
    <3>8. ~OutageFind /\ ~OutageDeclare /\ ~ResolveIncident /\ ~ListIncidents
      <4>1. ASSUME NEW i, worker' = [WorkerIdle EXCEPT !.pc = "declare", !.incidentId = i] PROVE FALSE
        BY <4>1 DEF WorkerIdle
      <4>2. ~OutageDeclare /\ ~ResolveIncident
        <5>1. worker' # WorkerIdle /\ worker' # [WorkerIdle EXCEPT !.pc = "list"]
          BY DEF WorkerIdle
        <5> QED
          BY <5>1 DEF OutageDeclare, ResolveIncident
      <4>3. ~ListIncidents
        <5>1. ASSUME NEW todo, worker' = [WorkerIdle EXCEPT !.pc = "cycle", !.todo = todo] PROVE FALSE
          BY <5>1 DEF WorkerIdle
        <5>2. worker' # WorkerIdle
          BY DEF WorkerIdle
        <5> QED
          BY <5>1, <5>2 DEF ListIncidents, MergesLeft
      <4> QED
        BY <4>1, <4>2, <4>3 DEF OutageFind
    <3>4. ASSUME NEW i \in Incidents, MergeSkip(i) PROVE FALSE
      BY <1>1, <3>4, NextIncidentHoldsNothing DEF MergeSkip
    <3>5. ASSUME NEW i \in Incidents, MergeVerify(i) \/ MergeRefuse(i) PROVE FALSE
      BY <1>1, <3>5 DEF MergeVerify, MergeRefuse, WorkerState
    <3>6. ~MergeDrop /\ ~MergeFlagged /\ ~MergeFlag
      BY <1>1, NextIncidentHoldsNothing, FlagWrites DEF MergeDrop, MergeFlagged
    <3>7. ~MergeRecord
      BY <1>1 DEF MergeRecord, WorkerState
    <3> QED
      BY <1>3, <3>1, <3>2, <3>3, <3>4, <3>5, <3>6, <3>7, <3>8, WorkerKinds DEF WorkerStep, MergeStep
  <2>2. PICK i : i = worker.incidentId
    OBVIOUS
  <2>3. Disturbed(i)' => \E b \in Batches : << b, worker'.incidentId >> \in late'
    BY <2>1, <2>2 DEF Disturbed
  <2>4. CASE Disturbed(i)
    BY <2>3, <2>4, DisturbedStays
  <2>5. CASE ~Disturbed(i)
    <3>1. PICK b \in Batches : InEpoch(b, i, ActiveStatus)
      BY <2>1, <2>2, <2>5 DEF SettledInv, AppendHasBlocks
    <3>2. Kept(b) \/ Disturbed(i)'
      <4>1. CASE local' = local
        BY <4>1 DEF Kept
      <4>2. ASSUME NEW r \in Requests, CreateStage(r) PROVE Kept(b)
        <5>1. OthersKept(nextBatch) /\ nextBatch \in Nat
          BY <1>1, <4>2, StageEffect, HomesTypes
        <5>2. b # nextBatch
          BY <3>1, <5>1 DEF InEpoch, ActiveStatus, SettledInv, FateInv, Fates, Numbered
        <5> QED
          BY <5>1, <5>2 DEF OthersKept
      <4>3. ASSUME NEW r \in Requests, RecoverWrite(r) \/ DecideWrite(r)
            PROVE  Kept(b) \/ Disturbed(i)'
        <5>1. PICK c \in Batches :
                /\ OthersKept(c)
                /\ \/ Kept(c) \/ local[c].status = "TAMPERED"
                   \/ << c, local[c].incidentId >> \in late'
          BY <1>1, <4>3, DecisionEffect
        <5> QED
          BY <3>1, <5>1 DEF OthersKept, InEpoch, ActiveStatus, Disturbed
      <4>4. CASE \/ \E r \in Requests : CascadeRechain(r)
                 \/ \E c \in Batches : Alter(c)
        BY <1>1, <4>4, RewriteEffect
      <4>5. ~MergeFlag /\ ~MergeDrop
        BY <2>1 DEF MergeFlag, MergeDrop
      <4> QED
        BY <4>1, <4>2, <4>3, <4>4, <4>5, StepKinds, ReadsWriteNothing
        DEF chainVars, CreateDeclare, AppendBlock, WorkerStep, OutageFind, OutageDeclare,
            ResolveIncident, ListIncidents, MergeStep, MergeSkip, MergeRefuse, MergeFlagged,
            MergeVerify, MergeRead, MergeAppend, MergeDuplicate, MergeRecord, Crash
    <3>3. CASE Kept(b)
      BY <2>1, <2>2, <3>1, <3>3 DEF Kept, InEpoch
    <3> QED
      BY <2>3, <3>2, <3>3
  <2> QED
    BY <2>4, <2>5
<1> QED
  BY <1>2, <1>3

\* As long as no restart cuts a merge, a merged epoch is never opened, refused or
\* merged again: its record never changes, whatever overlaps, unless a request
\* wrote in the epoch by a check that held no more.
THEOREM MergedEpochsStayFrozen ==
    Spec /\ [][NoRestartInMerge]_vars => MergedEpochFrozen
<1>1. Init => SettledInv
  <2> SUFFICES ASSUME Init PROVE SettledInv
    OBVIOUS
  <2>1. \A i \in Incidents : incident[i].localChainStatus = "NONE"
    BY DEF Init
  <2>2. worker.pc = "idle"
    BY DEF Init, WorkerIdle
  <2> QED
    BY <2>1, <2>2, FateInit DEF SettledInv, MergedIsGone, AppendHasBlocks, FlagsUnmerged
<1>2. SettledInv /\ [Next]_vars /\ [NoRestartInMerge]_vars => SettledInv'
  BY FatesStep, MergedIsGoneStep, AppendHasBlocksStep, FlagsUnmergedStep
  DEF SettledInv, vars, NoRestartInMerge
<1>3. SettledInv /\ [Next]_vars =>
        \A i \in Incidents : incident[i].localChainStatus = "MERGED" =>
            incident'[i] = incident[i] \/ \E b \in Batches : << b, i >> \in late
  BY RecordStays DEF Disturbed
<1>4. SettledInv /\ [Next]_vars =>
        [\A i \in Incidents : incident[i].localChainStatus = "MERGED" =>
            incident'[i] = incident[i] \/ \E b \in Batches : << b, i >> \in late]_vars
  BY <1>3
<1> QED
  BY <1>1, <1>2, <1>4, PTL DEF Spec, MergedEpochFrozen

-----------------------------------------------------------------------------
(* What the steps do to the staged blocks, one handler at a time *)

CascadeState == [ runningRoot: Roots, blocks: SUBSET LocalBlock ]

\* The cascade that is left is a root and blocks.
LEMMA CascadeTypes ==
    ASSUME TypeOK
    PROVE  cascade \in CascadeState
<1>1. \A r \in Requests : CascadeBlocks(request[r]) \subseteq LocalBlock /\ request[r].root \in Roots
  <2> SUFFICES ASSUME NEW r \in Requests
               PROVE  CascadeBlocks(request[r]) \subseteq LocalBlock /\ request[r].root \in Roots
    OBVIOUS
  <2>1. request[r] \in RequestState /\ local \in [Batches -> LocalBlock \cup {NoBlock}]
    BY DEF TypeOK
  <2>2. request[r].root \in Roots /\ request[r].blocks \subseteq LocalBlock
    BY <2>1 DEF RequestState, RequestLocals
  <2>3. \A s \in CascadeTargets(request[r].incidentId, request[r].batchId) : local[s] \in LocalBlock
    BY <2>1 DEF CascadeTargets, Active, WithStatus, ActiveStatus, NoBlock
  <2> QED
    BY <2>2, <2>3 DEF CascadeBlocks
<1>2. << >> \in Roots
  BY DEF Roots
<1> QED
  BY <1>1, <1>2 DEF cascade, Cascades, CascadeIdle, CascadeState

\* /create with the RPC down adds the block nextBatch.
LEMMA CreateLocalEffect ==
    ASSUME TypeOK, NEW i \in Incidents, CreateLocal(i)
    PROVE  /\ nextBatch \in Batches /\ OthersKept(nextBatch)
           /\ local'[nextBatch].batchId = nextBatch
           /\ local'[nextBatch].incidentId = i
           /\ local'[nextBatch].status = "PENDING_VERIFICATION"
<1>1. nextBatch \in Batches
  BY DEF CreateLocal, NextBatchStored
<1>2. local \in [Batches -> LocalBlock \cup {NoBlock}]
  BY DEF TypeOK
<1> QED
  BY <1>1, <1>2 DEF CreateLocal, StagedBlock, OthersKept, Kept

\* A recovered block leaves quarantine, a rejected one stays with its verdict.
LEMMA AdminEffect ==
    ASSUME TypeOK, NEW b \in Batches
    PROVE  /\ Recover(b) => OthersKept(b) /\ Moves(b, {"TAMPERED"}, "PENDING_VERIFICATION")
           /\ \A st \in {"ACKNOWLEDGED", "DISCARDED"} :
                 Reject(b, st) => OthersKept(b) /\ Moves(b, {"TAMPERED"}, st)
<1>1. local \in [Batches -> LocalBlock \cup {NoBlock}]
  BY DEF TypeOK
<1>2. local[b].status = "TAMPERED" => local[b] \in LocalBlock
  BY <1>1 DEF NoBlock
<1>3. ASSUME Recover(b)
      PROVE  OthersKept(b) /\ Moves(b, {"TAMPERED"}, "PENDING_VERIFICATION")
  <2>1. PICK root, doc :
          /\ doc = Rebuilt(b, root, BatchSize)
          /\ local' = [local EXCEPT ![b] = doc] /\ local[b].status = "TAMPERED"
    BY <1>3 DEF Recover
  <2>2. /\ doc.status = "PENDING_VERIFICATION" /\ doc.batchId = local[b].batchId
        /\ doc.incidentId = local[b].incidentId
    BY <1>2, <2>1 DEF Rebuilt, LocalBlock
  <2> QED
    BY <1>1, <2>1, <2>2 DEF OthersKept, Kept, Moves
<1>4. ASSUME NEW st \in {"ACKNOWLEDGED", "DISCARDED"}, Reject(b, st)
      PROVE  OthersKept(b) /\ Moves(b, {"TAMPERED"}, st)
  BY <1>1, <1>2, <1>4 DEF Reject, OthersKept, Kept, Moves, LocalBlock
<1> QED
  BY <1>3, <1>4

\* What a turn of the cascade writes to a block: its place in the chain.
Rechained(d) ==
    LET b == d.batchId
        c == ChainedBlock(b, cascade.runningRoot, d.merkleRoot, d.eventCount)
    IN [local[b] EXCEPT !.previousRoot = c.previousRoot, !.currentRoot = c.currentRoot,
                        !.signature = c.signature]

\* A turn of the cascade leaves every block where it is.
LEMMA TurnEffect ==
    ASSUME TypeOK, CascadeTurn, NEW c \in Batches
    PROVE  Kept(c)
<1>1. local \in [Batches -> LocalBlock \cup {NoBlock}]
  BY DEF TypeOK
<1>2. PICK d : local' = IF local[d.batchId] = NoBlock THEN local
                        ELSE [local EXCEPT ![d.batchId] = Rechained(d)]
  BY DEF CascadeTurn, Rechained
<1>3. CASE local[d.batchId] = NoBlock \/ c # d.batchId
  BY <1>1, <1>2, <1>3 DEF Kept
<1>4. CASE local[d.batchId] # NoBlock /\ c = d.batchId
  <2>1. local[c] \in LocalBlock /\ local'[c] = Rechained(d)
    BY <1>1, <1>2, <1>4
  <2>2. /\ Rechained(d).batchId = local[c].batchId /\ Rechained(d).incidentId = local[c].incidentId
        /\ Rechained(d).status = local[c].status
    <3> DEFINE e == ChainedBlock(d.batchId, cascade.runningRoot, d.merkleRoot, d.eventCount)
    <3>1. Rechained(d) = [local[c] EXCEPT !.previousRoot = e.previousRoot,
                                          !.currentRoot = e.currentRoot, !.signature = e.signature]
      BY <1>4 DEF Rechained
    <3> HIDE DEF e
    <3> QED
      BY <2>1, <3>1 DEF LocalBlock
  <2> QED
    BY <2>1, <2>2 DEF Kept
<1> QED
  BY <1>3, <1>4

-----------------------------------------------------------------------------
(* Verdicts are kept *)

\* The cascade runs while the worker is idle, and rewrites active blocks.
CascadeActive ==
    /\ worker.pc # "idle" => cascade.blocks = {}
    /\ \A d \in cascade.blocks : local[d.batchId].status \in ActiveStatus \cup {"NONE"}

\* The worker drops an epoch that is recorded as merged.
DropIsMerged ==
    worker.pc = "drop" => incident[worker.incidentId].localChainStatus = "MERGED"

\* What the worker is about to flag was active when it was reported, and nothing
\* but its own flags has been written since.
FlagsStand ==
    worker.pc = "flag" =>
        \A e \in worker.errors : InEpoch(e[1], worker.incidentId, ActiveStatus \cup {"TAMPERED"})

\* No flag is written over a verdict.
VerdictsHold ==
    \A b \in rejected : local[b].status \in {"NONE", "ACKNOWLEDGED", "DISCARDED"}

DecidedInv ==
    FateInv /\ Solo /\ CascadeActive /\ DropIsMerged /\ FlagsStand /\ VerdictsHold

\* What a verdict was given on changes only with the drop of its epoch.
LEMMA VerdictStays ==
    ASSUME DecidedInv, [SerialNext]_serialVars, NEW b \in rejected, local'[b] # local[b]
    PROVE  /\ local'[b] = NoBlock
           /\ incident[local[b].incidentId].localChainStatus = "MERGED"
<1>1. /\ TypeOK /\ b \in Batches /\ local \in [Batches -> LocalBlock \cup {NoBlock}]
      /\ local[b].status \in {"NONE", "ACKNOWLEDGED", "DISCARDED"}
  BY HomesTypes DEF DecidedInv, VerdictsHold, FateInv, KeepInv, TypeOK
<1>2. ASSUME NEW i \in Incidents, CreateLocal(i) PROVE FALSE
  <2>1. b # nextBatch
    BY HomesTypes, <1>1 DEF DecidedInv, FateInv, Fates, Numbered
  <2> QED
    BY <1>1, <1>2, <2>1 DEF CreateLocal
<1>3. ASSUME MergeFlag PROVE FALSE
  <2>1. \A e \in worker.errors : e[1] # b
    BY <1>1, <1>3 DEF MergeFlag, DecidedInv, FlagsStand, InEpoch, ActiveStatus
  <2> QED
    BY <1>1, <1>3, <2>1, FlagWrites
<1>4. ASSUME NEW c \in Batches, NEW st, Recover(c) \/ Reject(c, st) \/ Alter(c) PROVE FALSE
  <2>1. c # b
    BY <1>1, <1>4 DEF Recover, Reject, Alter, ActiveStatus
  <2> QED
    BY <1>1, <1>4, <2>1 DEF Recover, Reject, Alter
<1>5. ASSUME CascadeTurn PROVE FALSE
  <2>1. PICK d \in LocalBlock : d = OldestOf(cascade.blocks) /\ d \in cascade.blocks
    BY <1>1, <1>5, OldestInSet, CascadeTypes DEF CascadeTurn, CascadeState
  <2>2. d.batchId # b \/ local[d.batchId] = NoBlock
    BY <1>1, <2>1 DEF DecidedInv, CascadeActive, ActiveStatus, LocalBlock, LocalStatus
  <2> QED
    BY <1>1, <1>5, <2>1, <2>2 DEF CascadeTurn
<1>6. MergeDrop
  BY <1>2, <1>3, <1>4, <1>5
  DEF SerialNext, serialVars, CreateMain, DeclareOutage, CycleStep, OutageFind, ResolveIncident,
      ListIncidents, MergeStep, MergeSkip, MergeRefuse, MergeFlagged, MergeVerify, MergeRead,
      MergeAppend, MergeDuplicate, MergeRecord, NetworkChange, Crash, LoseRows
<1>7. b \in WithStatus(worker.incidentId, LocalStatus) /\ local'[b] = NoBlock
  BY <1>1, <1>6 DEF MergeDrop
<1> QED
  BY <1>6, <1>7 DEF MergeDrop, WithStatus, DecidedInv, DropIsMerged

\* What the worker is about to drop stays recorded as merged.
LEMMA DropIsMergedStep ==
    ASSUME DecidedInv, [Next]_vars
    PROVE  DropIsMerged'
<1> SUFFICES ASSUME worker'.pc = "drop"
             PROVE  incident'[worker'.incidentId].localChainStatus = "MERGED"
  BY DEF DropIsMerged
<1>1. TypeOK /\ Reserved /\ worker \in WorkerState /\ incident \in [Incidents -> IncidentDoc]
  BY DEF DecidedInv, FateInv, KeepInv, TypeOK
<1>2. CASE MergeRecord
  <2>1. worker'.incidentId = worker.incidentId
    BY <1>1, <1>2 DEF MergeRecord, WorkerState
  <2>2. worker.incidentId \in Incidents
    BY <1>2 DEF MergeRecord, DecidedInv, FateInv, KeepInv, Keep, EpochClosed, Holding
  <2> QED
    BY <1>1, <1>2, <2>1, <2>2 DEF MergeRecord, IncidentDoc
<1>3. CASE ~MergeRecord
  <2>1. worker' = worker /\ worker.pc = "drop"
    <3>1. \A i : NextIncident(i).pc # "drop" /\ WorkerIdle.pc # "drop"
      BY DEF NextIncident, MergesLeft, WorkerIdle
    <3>2. ASSUME NEW i \in Incidents, MergeVerify(i) \/ MergeRefuse(i) PROVE worker'.pc # "drop"
      BY <1>1, <3>2 DEF MergeVerify, MergeRefuse, WorkerState
    <3>3. ~MergeFlag
      BY <1>1, FlagWrites
    <3>4. ~MergeRead /\ ~MergeAppend
      BY <1>1, <3>1 DEF MergeRead, MergeAppend, WorkerState
    <3>5. ~OutageFind /\ ~OutageDeclare /\ ~ResolveIncident /\ ~ListIncidents
      <4>1. /\ \A i : [WorkerIdle EXCEPT !.pc = "declare", !.incidentId = i].pc # "drop"
            /\ \A todo : [WorkerIdle EXCEPT !.pc = "cycle", !.todo = todo].pc # "drop"
            /\ [WorkerIdle EXCEPT !.pc = "list"].pc # "drop"
        BY DEF WorkerIdle
      <4>2. ~ListIncidents
        BY <3>1, <4>1 DEF ListIncidents, MergesLeft
      <4> QED
        BY <3>1, <4>1, <4>2 DEF OutageFind, OutageDeclare, ResolveIncident
    <3>6. ~MergeDrop /\ ~MergeFlagged /\ ~MergeDuplicate /\ ~Crash /\ \A i \in Incidents : ~MergeSkip(i)
      BY <3>1 DEF MergeDrop, MergeFlagged, MergeDuplicate, Crash, MergeSkip
    <3> QED
      BY <1>3, <3>2, <3>3, <3>4, <3>5, <3>6, WorkerKinds DEF WorkerStep, MergeStep
  <2>2. worker.incidentId \in Incidents /\ incident[worker.incidentId].localChainStatus = "MERGED"
    BY <2>1 DEF DecidedInv, DropIsMerged, FateInv, KeepInv, Keep, EpochClosed, Holding
  <2>3. incident'[worker.incidentId].localChainStatus = incident[worker.incidentId].localChainStatus
    <3>1. ~OutageDeclare /\ ~ResolveIncident /\ ~MergeFlagged
      BY <2>1 DEF OutageDeclare, ResolveIncident, MergeFlagged
    <3>2. CASE \E r \in Requests : CreateDeclare(r)
      <4>1. PICK j \in Incidents : incident' = OpenIncidentDoc(j)
        BY <1>1, <3>2, DeclaresNew
      <4>2. \A k \in Incidents : incident'[k].localChainStatus = incident[k].localChainStatus
        BY <1>1, <4>1 DEF OpenIncidentDoc, IncidentDoc
      <4> QED
        BY <2>2, <4>2
    <3> QED
      BY <1>3, <3>1, <3>2, IncidentKinds
  <2> QED
    BY <2>1, <2>2, <2>3
<1> QED
  BY <1>2, <1>3

\* The list of a cascade stays active: nothing else runs until it is done.
LEMMA CascadeActiveStep ==
    ASSUME Overlap = FALSE, DecidedInv, [SerialNext]_serialVars
    PROVE  CascadeActive'
<1>1. TypeOK /\ \A d \in cascade.blocks : d.batchId \in Batches
  BY CascadeTypes DEF DecidedInv, FateInv, KeepInv, CascadeState, LocalBlock
<1>2. ASSUME NEW b \in Batches, Recover(b) PROVE CascadeActive'
  <2>1. PICK i : i = local[b].incidentId
    OBVIOUS
  <2>2. \A s \in CascadeTargets(i, b) :
           /\ s \in Batches /\ s # b /\ local[s].batchId = s
           /\ local[s].status \in ActiveStatus /\ local'[s] = local[s]
    <3>1. Batches \subseteq Nat
      BY MaxBatchesAssumption DEF Batches
    <3>2. \A s \in CascadeTargets(i, b) : s \in Batches /\ s # b /\ local[s].status \in ActiveStatus
      BY <3>1 DEF CascadeTargets, Active, WithStatus
    <3> QED
      BY <1>1, <1>2, <3>2
      DEF Recover, TypeOK, DecidedInv, FateInv, KeepInv, Keep, BlocksNamed, ActiveStatus
  <2>3. cascade'.blocks = { local[s] : s \in CascadeTargets(i, b) } /\ worker' = worker
    BY <1>2, <2>1 DEF Recover
  <2>4. worker.pc = "idle"
    BY <1>2 DEF Recover, Alone
  <2> QED
    BY <2>2, <2>3, <2>4 DEF CascadeActive
<1>3. CASE CascadeTurn
  <2>1. \A b \in Batches : Kept(b)
    BY <1>1, <1>3, TurnEffect
  <2>2. cascade'.blocks \subseteq cascade.blocks /\ worker' = worker /\ worker.pc = "idle"
    BY <1>3 DEF CascadeTurn
  <2> QED
    BY <1>1, <2>1, <2>2 DEF DecidedInv, CascadeActive, Kept
<1>4. CASE Crash /\ cascade' = CascadeIdle
  BY <1>4 DEF CascadeIdle, CascadeActive
<1>5. CASE MergeStep /\ UNCHANGED cascade
  <2>1. worker.pc # "idle"
    BY <1>5
    DEF MergeStep, MergeSkip, MergeRefuse, MergeFlag, MergeFlagged, MergeVerify, MergeRead,
        MergeAppend, MergeDuplicate, MergeRecord, MergeDrop
  <2> QED
    BY <1>5, <2>1 DEF DecidedInv, CascadeActive
<1>6. CASE CreateMain \/ \E i \in Incidents : CreateLocal(i)
  BY <1>6 DEF CreateMain, CreateLocal, Alone, CascadeActive
<1>7. ASSUME NEW b \in Batches, NEW st, Reject(b, st) PROVE CascadeActive'
  BY <1>7 DEF Reject, Alone, CascadeActive
<1>8. ASSUME NEW b \in Batches, Alter(b), UNCHANGED cascade PROVE CascadeActive'
  <2>1. \A c \in Batches : Kept(c)
    BY <1>1, <1>8, RewriteEffect
  <2> QED
    BY <1>1, <1>8, <2>1 DEF Alter, DecidedInv, CascadeActive, Kept
<1>9. CASE \/ UNCHANGED serialVars
           \/ (NetworkChange \/ CycleStep) /\ UNCHANGED cascade
           \/ \E i \in Incidents : DeclareOutage(i)
           \/ \E b \in Batches : LoseRows(b) /\ UNCHANGED cascade
  <2>1. cascade' = cascade /\ local' = local
    BY <1>9
    DEF serialVars, NetworkChange, LoseRows, CycleStep, OutageFind, ResolveIncident, ListIncidents,
        DeclareOutage
  <2>2. worker'.pc # "idle" => worker' = worker \/ cascade.blocks = {}
    <3>1. CASE ListIncidents
      BY <3>1 DEF ListIncidents, DecidedInv, CascadeActive
    <3>2. CASE \E i \in Incidents : DeclareOutage(i)
      BY <3>2 DEF DeclareOutage, WorkerIdle
    <3>3. CASE OutageFind \/ ResolveIncident
      <4>1. MayStart
        BY <3>3 DEF OutageFind, ResolveIncident
      <4>2. AllIdle
        BY <4>1 DEF MayStart, Quiet, AllIdle
      <4> QED
        BY <4>2, IdleCascade DEF CascadeIdle
    <3> QED
      BY <1>9, <3>1, <3>2, <3>3 DEF serialVars, NetworkChange, LoseRows, CycleStep
  <2> QED
    BY <2>1, <2>2 DEF DecidedInv, CascadeActive
<1> QED
  BY <1>2, <1>3, <1>4, <1>5, <1>6, <1>7, <1>8, <1>9 DEF SerialNext

\* While the worker is flagging, nothing but a flag writes to the staged blocks.
LEMMA FlaggingAlone ==
    ASSUME Overlap = FALSE, DecidedInv, [SerialNext]_serialVars, worker.pc = "flag"
    PROVE  local' = local \/ MergeFlag
<1>1. cascade.blocks = {} /\ ~Alone
  BY DEF DecidedInv, CascadeActive, Alone
<1>2. /\ ~CreateMain /\ ~CascadeTurn /\ \A i \in Incidents : ~CreateLocal(i) /\ ~DeclareOutage(i)
      /\ \A b \in Batches : \A st : ~Recover(b) /\ ~Reject(b, st)
  BY <1>1 DEF CreateMain, CascadeTurn, CreateLocal, DeclareOutage, Recover, Reject
<1>3. ASSUME NEW b \in Batches PROVE ~Alter(b)
  BY <1>1 DEF Alter, MayStart, Quiet
<1>4. MergeStep => local' = local \/ MergeFlag
  BY DEF MergeStep, MergeSkip, MergeRefuse, MergeFlagged, MergeVerify, MergeRead, MergeAppend,
         MergeDuplicate, MergeRecord, MergeDrop
<1>5. \/ CycleStep \/ NetworkChange \/ Crash \/ UNCHANGED serialVars
      \/ \E b \in Batches : LoseRows(b)
      => local' = local
  BY DEF serialVars, CycleStep, OutageFind, ResolveIncident, ListIncidents, NetworkChange, Crash, LoseRows
<1> QED
  BY <1>2, <1>3, <1>4, <1>5 DEF SerialNext

\* What is left to be flagged stays what the refusal has found.
LEMMA FlagsStandStep ==
    ASSUME Overlap = FALSE, DecidedInv, [Next]_vars, [SerialNext]_serialVars
    PROVE  FlagsStand'
<1> SUFFICES ASSUME worker'.pc = "flag", NEW e \in worker'.errors
             PROVE  /\ local'[e[1]].status \in ActiveStatus \cup {"TAMPERED"}
                    /\ local'[e[1]].incidentId = worker'.incidentId
  BY DEF FlagsStand, InEpoch
<1>1. TypeOK /\ worker \in WorkerState
  BY DEF DecidedInv, FateInv, KeepInv, TypeOK
<1>2. ASSUME NEW i \in Incidents, MergeRefuse(i)
      PROVE  local'[e[1]].status \in ActiveStatus /\ local'[e[1]].incidentId = worker'.incidentId
  <2>1. worker'.incidentId = i /\ e \in LocalErrors(i) /\ local' = local
    BY <1>1, <1>2 DEF MergeRefuse, WorkerState
  <2> QED
    BY <2>1 DEF LocalErrors, Active, WithStatus
<1>3. CASE MergeFlag
  <2>1. /\ worker'.incidentId = worker.incidentId /\ worker.pc = "flag" /\ e \in worker.errors
        /\ e[1] \in Batches
    BY <1>1, <1>3, FlagWrites DEF MergeFlag, WorkerState, Errors
  <2>2. Kept(e[1]) \/ Moves(e[1], LocalStatus, "TAMPERED")
    BY <1>1, <1>3, <2>1, FlagEffect
  <2> QED
    BY <2>1, <2>2 DEF DecidedInv, FlagsStand, InEpoch, Kept, Moves
<1>4. CASE worker' = worker /\ ~MergeFlag
  BY <1>4, FlaggingAlone DEF DecidedInv, FlagsStand, InEpoch
<1> QED
  BY <1>1, <1>2, <1>3, <1>4, FlaggingStarts

\* A flag meets no verdict, so a rejected block is not quarantined again.
LEMMA VerdictsHoldStep ==
    ASSUME DecidedInv, [SerialNext]_serialVars
    PROVE  VerdictsHold'
<1>1. TypeOK /\ rejected \subseteq Batches
  BY HomesTypes DEF DecidedInv, FateInv, KeepInv
<1>2. ASSUME NEW b \in Batches, Recover(b) PROVE VerdictsHold'
  <2>1. OthersKept(b) /\ rejected' = rejected \ {b}
    BY <1>1, <1>2, AdminEffect DEF Recover
  <2> QED
    BY <1>1, <2>1 DEF DecidedInv, VerdictsHold, OthersKept, Kept
<1>3. ASSUME NEW b \in Batches, NEW st \in {"ACKNOWLEDGED", "DISCARDED"}, Reject(b, st)
      PROVE  VerdictsHold'
  <2>1. OthersKept(b) /\ local'[b].status = st /\ rejected' = rejected \cup {b}
    BY <1>1, <1>3, AdminEffect DEF Reject, Moves
  <2> QED
    BY <1>1, <2>1 DEF DecidedInv, VerdictsHold, OthersKept, Kept
<1>4. CASE rejected' = rejected
  <2>1. \A b \in rejected : local'[b] # local[b] => local'[b] = NoBlock
    BY VerdictStays
  <2> QED
    BY <1>4, <2>1 DEF DecidedInv, VerdictsHold, NoBlock
<1> QED
  BY <1>2, <1>3, <1>4
  DEF SerialNext, serialVars, CreateLocal, CreateMain, DeclareOutage, CycleStep, OutageFind,
      ResolveIncident, ListIncidents, MergeStep, MergeSkip, MergeRefuse, MergeFlag, MergeFlagged,
      MergeVerify, MergeRead, MergeAppend, MergeDuplicate, MergeRecord, MergeDrop, CascadeTurn,
      NetworkChange, Crash, Alter, LoseRows

\* At first there is nothing to drop, to flag or to decide on.
LEMMA DecidedInit == Init => DecidedInv
<1>1. Init => worker.pc = "idle" /\ rejected = {}
  BY DEF Init, WorkerIdle
<1>2. Init => Solo /\ cascade.blocks = {}
  BY SerialInit DEF SerialTypeOK, CascadeIdle
<1> QED
  BY <1>1, <1>2, FateInit DEF DecidedInv, CascadeActive, DropIsMerged, FlagsStand, VerdictsHold

\* Verdicts are safe with every step.
LEMMA DecidedStep ==
    ASSUME Overlap = FALSE, DecidedInv, [Next]_vars
    PROVE  DecidedInv' /\ [SerialNext]_serialVars
<1>1. Solo' /\ [SerialNext]_serialVars
  BY SerialStep DEF SerialTypeOK, DecidedInv, FateInv, KeepInv
<1>2. FateInv'
  BY FatesStep DEF DecidedInv
<1> QED
  BY <1>1, <1>2, CascadeActiveStep, DropIsMergedStep, FlagsStandStep, VerdictsHoldStep DEF DecidedInv

\* Without overlap a block that was acknowledged or discarded keeps every field
\* until its epoch has been merged, however often the server is restarted.
THEOREM VerdictsKept ==
    ASSUME Overlap = FALSE
    PROVE  Spec => VerdictKeptUntilMerge
<1>1. DecidedInv /\ [Next]_vars => DecidedInv'
  BY DecidedStep
<1>2. DecidedInv /\ [Next]_vars =>
        [\A b \in rejected : local'[b] # local[b] =>
            /\ local'[b] = NoBlock
            /\ incident[local[b].incidentId].localChainStatus = "MERGED"]_vars
  BY DecidedStep, VerdictStays
<1> QED
  BY <1>1, <1>2, DecidedInit, PTL DEF Spec, VerdictKeptUntilMerge
-----------------------------------------------------------------------------
(* MAIN holds the counts that were recorded                                 *)
(*                                                                          *)
(* With handlers that do not overlap, no alteration while tampering is      *)
(* unresolved, and no restart between two flags of an epoch.  Without the   *)
(* second or the third a cascade signs an altered count again.              *)

Intact(b) == local[b].eventCount = BatchSize
Staged(b) == local[b].status # "NONE"

RowsRecorded == \A b \in Batches : rows[b] \in {0, BatchSize}

\* Every staged block was signed for the recorded count.
SignedAsRecorded == \A b \in Batches : Staged(b) => local[b].signature[4] = BatchSize

\* While something of an epoch is quarantined its active blocks are intact:
\* those that were not are flagged, or about to be.
QuarantineSealed ==
    \A b, t \in Batches :
        ( /\ local[b].status \in ActiveStatus /\ local[t].status = "TAMPERED"
          /\ local[b].incidentId = local[t].incidentId )
        => Intact(b) \/ (worker.pc = "flag" /\ local[b].incidentId = worker.incidentId)

\* What a cascade and a merge have read is intact, and a refused block that is not
\* is still to be flagged.
CascadeIntact == \A d \in cascade.blocks : d.eventCount = BatchSize

MergeIntact ==
    /\ \A d \in worker.blocks : d.eventCount = BatchSize
    /\ worker.pc = "verified" =>
          \A b \in Batches : InEpoch(b, worker.incidentId, ActiveStatus) => Intact(b)
    /\ worker.pc = "flag" =>
          \A b \in Batches : InEpoch(b, worker.incidentId, ActiveStatus) =>
              Intact(b) \/ \E e \in worker.errors : e[1] = b

\* The server is not stopped between two flags of an epoch.
NoRestartInFlagging == crashes' # crashes => worker.pc # "flag"

CountsKept ==
    /\ RowsRecorded /\ SignedAsRecorded /\ QuarantineSealed
    /\ CascadeIntact /\ MergeIntact /\ MainHoldsRecordedCounts

CountsInv == TypeOK /\ CountsKept

\* A block keeps its place and its count, and stays signed for what it was.
CountKept(b) ==
    /\ Kept(b) /\ local'[b].eventCount = local[b].eventCount
    /\ local'[b].signature = local[b].signature

\* The count a block is signed for is the last part of its signature.
LEMMA SignedCount ==
    /\ \A block : SignatureOk(block) => block.signature[4] = block.eventCount
    /\ \A b, p, m, c : ChainedBlock(b, p, m, c).signature[4] = c
    /\ \A b, p, m, c : ChainedBlock(b, p, m, c).eventCount = c
BY DEF SignatureOk, SignablePayload, ChainedBlock

\* Steps that leave the staged blocks, MAIN, the rows and what was read alone.
LEMMA CountsQuietly ==
    ASSUME CountsKept, \A b \in Batches : CountKept(b), main' = main,
           \A b \in Batches : rows'[b] \in {rows[b], 0},
           cascade' = cascade \/ cascade'.blocks = {},
           \/ worker' = worker
           \/ worker'.blocks = {} /\ worker'.pc \notin {"verified", "flag"} /\ worker.pc # "flag"
    PROVE  CountsKept'
<1>1. RowsRecorded' /\ MainHoldsRecordedCounts'
  BY DEF CountsKept, RowsRecorded, MainHoldsRecordedCounts
<1>2. SignedAsRecorded' /\ QuarantineSealed'
  BY DEF CountsKept, SignedAsRecorded, QuarantineSealed, Intact, Staged, CountKept, Kept
<1>3. CascadeIntact'
  BY DEF CountsKept, CascadeIntact
<1>4. MergeIntact'
  <2>1. CASE worker' = worker
    BY <2>1 DEF CountsKept, MergeIntact, InEpoch, Intact, CountKept, Kept
  <2>2. CASE worker'.blocks = {} /\ worker'.pc \notin {"verified", "flag"}
    BY <2>2 DEF MergeIntact
  <2> QED
    BY <2>1, <2>2
<1> QED
  BY <1>1, <1>2, <1>3, <1>4 DEF CountsKept

\* A block appended with the recorded count keeps the counts of MAIN.
LEMMA CountAppended ==
    ASSUME TypeOK, MainHoldsRecordedCounts, NEW block \in MainBlock,
           block.eventCount = BatchSize, main' = Append(main, block)
    PROVE  MainHoldsRecordedCounts'
<1>1. main \in Seq(MainBlock)
  BY DEF TypeOK
<1>2. /\ DOMAIN main = 1 .. Len(main) /\ Len(main) \in Nat
      /\ DOMAIN main' = 1 .. (Len(main) + 1)
      /\ main'[Len(main) + 1] = block
      /\ \A n \in 1 .. Len(main) : main'[n] = main[n]
  BY <1>1, AppendProperties, LenProperties
<1>3. \A n \in 1 .. (Len(main) + 1) : n \in 1 .. Len(main) \/ n = Len(main) + 1
  BY <1>2
<1> QED
  BY <1>2, <1>3 DEF MainHoldsRecordedCounts

\* /create stages or appends the count it has just stored, between two merges.
LEMMA CountsCreate ==
    ASSUME CountsInv, CreateMain \/ \E i \in Incidents : CreateLocal(i)
    PROVE  CountsKept'
<1>1. /\ TypeOK /\ worker.pc = "idle" /\ worker' = worker /\ cascade' = cascade
      /\ nextBatch \in Batches /\ rows' = [rows EXCEPT ![nextBatch] = BatchSize]
  BY DEF CountsInv, CreateMain, CreateLocal, Alone, NextBatchStored
<1>2. RowsRecorded'
  BY <1>1 DEF CountsInv, CountsKept, RowsRecorded, TypeOK
<1>3. CascadeIntact' /\ MergeIntact'
  BY <1>1 DEF CountsInv, CountsKept, CascadeIntact, MergeIntact
<1>4. CASE CreateMain
  <2> DEFINE block == ChainedBlock(nextBatch, LastRoot(main), MerkleRoot(nextBatch, "PENDING"), BatchSize)
  <2>1. block \in MainBlock /\ block.eventCount = BatchSize
    <3>1. LastRoot(main) \in Roots
      BY <1>1, LastRootType DEF TypeOK
    <3>2. MerkleRoot(nextBatch, "PENDING") \in Batches \X RowStates
      BY <1>1 DEF MerkleRoot, RowStates
    <3> QED
      BY <1>1, <3>1, <3>2, ChainedBlockType, BatchSizeAssumption
  <2>2. main' = Append(main, block) /\ local' = local
    BY <1>4 DEF CreateMain
  <2> HIDE DEF block
  <2>3. MainHoldsRecordedCounts'
    BY <1>1, <2>1, <2>2, CountAppended DEF CountsInv, CountsKept
  <2>4. SignedAsRecorded' /\ QuarantineSealed'
    BY <1>1, <2>2 DEF CountsInv, CountsKept, SignedAsRecorded, QuarantineSealed, Intact, Staged
  <2> QED
    BY <1>2, <1>3, <2>3, <2>4 DEF CountsKept
<1>5. ASSUME NEW i \in Incidents, CreateLocal(i) PROVE CountsKept'
  <2> DEFINE block == ChainedBlock(nextBatch, LastLocalRoot(WithStatus(i, LocalStatus)),
                                   MerkleRoot(nextBatch, "PENDING"), BatchSize)
  <2>1. block.eventCount = BatchSize /\ block.signature[4] = BatchSize
    BY SignedCount
  <2> HIDE DEF block
  <2>2. main' = main /\ local' = [local EXCEPT ![nextBatch] =
          [ batchId |-> nextBatch, incidentId |-> i, previousRoot |-> block.previousRoot,
            currentRoot |-> block.currentRoot, eventCount |-> block.eventCount,
            signature |-> block.signature, merkleRoot |-> MerkleRoot(nextBatch, "PENDING"),
            status |-> "PENDING_VERIFICATION" ]]
    BY <1>5 DEF CreateLocal, StagedBlock, block
  <2>3. /\ \A b \in Batches \ {nextBatch} : local'[b] = local[b]
        /\ local'[nextBatch].eventCount = BatchSize /\ local'[nextBatch].signature[4] = BatchSize
        /\ local'[nextBatch].status = "PENDING_VERIFICATION"
    BY <1>1, <2>1, <2>2 DEF TypeOK
  <2>4. SignedAsRecorded'
    BY <2>3 DEF CountsInv, CountsKept, SignedAsRecorded, Staged
  <2>5. QuarantineSealed'
    BY <1>1, <2>3 DEF CountsInv, CountsKept, QuarantineSealed, Intact
  <2>6. MainHoldsRecordedCounts'
    BY <2>2 DEF CountsInv, CountsKept, MainHoldsRecordedCounts
  <2> QED
    BY <1>2, <1>3, <2>4, <2>5, <2>6 DEF CountsKept
<1> QED
  BY <1>4, <1>5

\* What verifyLocalChain does not report is intact.
LEMMA CountsRefuse ==
    ASSUME CountsInv, NEW i \in Incidents, MergeRefuse(i), UNCHANGED cascade
    PROVE  CountsKept'
<1>1. /\ TypeOK /\ main' = main /\ rows' = rows /\ cascade' = cascade /\ local' = local
      /\ worker.pc = "cycle" /\ worker \in WorkerState
  BY DEF CountsInv, MergeRefuse, TypeOK
<1>2. /\ worker'.pc = "flag" /\ worker'.incidentId = i /\ worker'.errors = LocalErrors(i)
      /\ worker'.blocks = worker.blocks
  BY <1>1 DEF MergeRefuse, WorkerState
<1>3. ASSUME NEW b \in Batches, InEpoch(b, i, ActiveStatus), ~Intact(b)
      PROVE  \E e \in LocalErrors(i) : e[1] = b
  <2>1. local[b].signature[4] = BatchSize
    BY <1>3 DEF InEpoch, ActiveStatus, CountsInv, CountsKept, SignedAsRecorded, Staged
  <2>2. ~SignatureOk(local[b])
    BY <1>3, <2>1, SignedCount DEF Intact
  <2>3. << b, 1 >> \in LocalErrors(i)
    BY <1>3, <2>2 DEF InEpoch, LocalErrors, Active, WithStatus
  <2> QED
    BY <2>3
<1>4. MergeIntact'
  BY <1>1, <1>2, <1>3 DEF CountsInv, CountsKept, MergeIntact, InEpoch, Intact
<1>5. QuarantineSealed'
  BY <1>1 DEF CountsInv, CountsKept, QuarantineSealed, Intact
<1> QED
  BY <1>1, <1>4, <1>5 DEF CountsInv, CountsKept, RowsRecorded, SignedAsRecorded, Staged,
                          CascadeIntact, MainHoldsRecordedCounts

\* A flag quarantines a block of the epoch that is being flagged.
LEMMA CountsFlag ==
    ASSUME CountsInv, FlagsStand, MergeFlag, UNCHANGED cascade
    PROVE  CountsKept'
<1>1. /\ TypeOK /\ main' = main /\ rows' = rows /\ cascade' = cascade /\ worker.pc = "flag"
  BY DEF CountsInv, MergeFlag
<1>2. /\ worker'.pc = "flag" /\ worker'.incidentId = worker.incidentId /\ worker'.blocks = worker.blocks
  BY <1>1, FlagWrites
<1>3. PICK e \in worker.errors :
         /\ e \in Errors /\ worker'.errors = worker.errors \ {e}
         /\ \A b \in Batches \ {e[1]} : local'[b] = local[b]
         /\ \/ local[e[1]] = NoBlock /\ local'[e[1]] = NoBlock
            \/ /\ local[e[1]] \in LocalBlock
               /\ local'[e[1]] = [local[e[1]] EXCEPT !.status = "TAMPERED"]
  BY <1>1, FlagWrites
<1>4. /\ local'[e[1]].status = "TAMPERED" /\ local[e[1]].status # "NONE"
      /\ local'[e[1]].incidentId = worker.incidentId
      /\ local'[e[1]].signature = local[e[1]].signature
  <2>1. local[e[1]].status # "NONE" /\ local[e[1]].incidentId = worker.incidentId
    BY <1>1, <1>3 DEF FlagsStand, InEpoch, ActiveStatus
  <2>2. local[e[1]] \in LocalBlock
    BY <1>3, <2>1 DEF NoBlock
  <2>3. local'[e[1]] = [local[e[1]] EXCEPT !.status = "TAMPERED"]
    BY <1>3, <2>1 DEF NoBlock
  <2> QED
    BY <2>1, <2>2, <2>3 DEF LocalBlock
<1>5. SignedAsRecorded'
  BY <1>3, <1>4 DEF CountsInv, CountsKept, SignedAsRecorded, Staged
<1>6. QuarantineSealed'
  <2> SUFFICES ASSUME NEW b \in Batches, NEW t \in Batches, local'[b].status \in ActiveStatus,
                      local'[t].status = "TAMPERED", local'[b].incidentId = local'[t].incidentId
               PROVE  \/ local'[b].eventCount = BatchSize
                      \/ worker'.pc = "flag" /\ local'[b].incidentId = worker'.incidentId
    BY DEF QuarantineSealed, Intact
  <2>1. local'[b] = local[b]
    BY <1>3, <1>4 DEF ActiveStatus
  <2>2. CASE t = e[1]
    BY <1>2, <1>4, <2>2
  <2>3. CASE t # e[1]
    BY <1>2, <1>3, <2>1, <2>3 DEF CountsInv, CountsKept, QuarantineSealed, Intact
  <2> QED
    BY <2>2, <2>3
<1>7. MergeIntact'
  <2>1. ASSUME NEW b \in Batches, local'[b].status \in ActiveStatus,
               local'[b].incidentId = worker.incidentId
        PROVE  local'[b].eventCount = BatchSize \/ \E f \in worker.errors \ {e} : f[1] = b
    <3>1. b # e[1] /\ local'[b] = local[b]
      BY <1>3, <1>4, <2>1 DEF ActiveStatus
    <3> QED
      BY <1>1, <2>1, <3>1 DEF CountsInv, CountsKept, MergeIntact, InEpoch, Intact
  <2> QED
    BY <1>2, <1>3, <2>1 DEF CountsInv, CountsKept, MergeIntact, InEpoch, Intact
<1> QED
  BY <1>1, <1>5, <1>6, <1>7 DEF CountsInv, CountsKept, RowsRecorded, CascadeIntact, MainHoldsRecordedCounts

\* When all flags are written the epoch is sealed.
LEMMA CountsFlagged ==
    ASSUME CountsInv, MergeFlagged, UNCHANGED cascade
    PROVE  CountsKept'
<1>1. /\ main' = main /\ rows' = rows /\ cascade' = cascade /\ local' = local
      /\ worker.pc = "flag" /\ worker.errors = {}
  BY DEF CountsInv, MergeFlagged
<1>2. worker'.blocks = {} /\ worker'.pc \notin {"verified", "flag"}
  BY DEF MergeFlagged, NextIncident, MergesLeft, WorkerIdle
<1>3. \A b \in Batches : InEpoch(b, worker.incidentId, ActiveStatus) => Intact(b)
  BY <1>1 DEF CountsInv, CountsKept, MergeIntact
<1>4. QuarantineSealed'
  BY <1>1, <1>3 DEF CountsInv, CountsKept, QuarantineSealed, InEpoch, Intact
<1>5. MergeIntact'
  BY <1>2 DEF MergeIntact
<1> QED
  BY <1>1, <1>4, <1>5 DEF CountsInv, CountsKept, RowsRecorded, SignedAsRecorded, Staged,
                          CascadeIntact, MainHoldsRecordedCounts

\* The merge verifies the counts, reads them again before anything can alter
\* them, and appends what it has read.
LEMMA CountsMerge ==
    ASSUME CountsInv, FlagsStand, MergeStep, UNCHANGED cascade
    PROVE  CountsKept'
<1>1. /\ TypeOK /\ worker \in WorkerState /\ worker.blocks \subseteq LocalBlock
  BY DEF CountsInv, TypeOK, WorkerState
<1>2. local' = local => \A b \in Batches : CountKept(b)
  BY DEF CountKept, Kept
<1>3. rows' = rows /\ cascade' = cascade
  BY DEF MergeStep, MergeSkip, MergeRefuse, MergeFlag, MergeFlagged, MergeVerify, MergeRead,
         MergeAppend, MergeDuplicate, MergeRecord, MergeDrop
<1>4. \A i : NextIncident(i).blocks = {} /\ NextIncident(i).pc \notin {"verified", "flag"}
  BY DEF NextIncident, MergesLeft, WorkerIdle
<1>5. ASSUME NEW i \in Incidents, MergeSkip(i) PROVE CountsKept'
  BY <1>2, <1>3, <1>4, <1>5, CountsQuietly DEF MergeSkip, CountsInv
<1>6. ASSUME NEW i \in Incidents, MergeRefuse(i) PROVE CountsKept'
  BY <1>6, CountsRefuse
<1>13. CASE MergeFlag \/ MergeFlagged
  BY <1>13, CountsFlag, CountsFlagged
<1>7. ASSUME NEW i \in Incidents, MergeVerify(i) PROVE CountsKept'
  <2>1. /\ worker'.blocks = worker.blocks /\ worker'.incidentId = i
        /\ local' = local /\ main' = main /\ LocalErrors(i) = {}
        /\ worker.pc = "cycle" /\ worker'.pc = "verified"
    BY <1>1, <1>7 DEF MergeVerify, WorkerState
  <2>2. ASSUME NEW b \in Batches, InEpoch(b, i, ActiveStatus) PROVE Intact(b)
    <3>1. SignatureOk(local[b])
      <4>1. << b, 1 >> \in Active(i) \X {1, 2}
        BY <2>2 DEF Active, WithStatus, InEpoch
      <4> QED
        BY <2>1, <4>1 DEF LocalErrors
    <3>2. local[b].signature[4] = BatchSize
      BY <2>2 DEF CountsInv, CountsKept, SignedAsRecorded, Staged, InEpoch, ActiveStatus
    <3> QED
      BY <3>1, <3>2, SignedCount DEF Intact
  <2>3. MergeIntact'
    BY <2>1, <2>2 DEF CountsInv, CountsKept, MergeIntact, InEpoch, Intact
  <2> QED
    BY <1>3, <2>1, <2>3 DEF CountsInv, CountsKept, RowsRecorded, SignedAsRecorded, QuarantineSealed,
                            CascadeIntact, MainHoldsRecordedCounts, Intact, Staged
<1>8. CASE MergeRead
  <2>1. CASE Active(worker.incidentId) = {}
    BY <1>2, <1>3, <1>4, <1>8, <2>1, CountsQuietly DEF MergeRead, CountsInv
  <2>2. CASE Active(worker.incidentId) # {}
    <3>1. /\ worker'.pc = "append" /\ worker.pc = "verified"
          /\ worker'.blocks = { local[b] : b \in Active(worker.incidentId) }
      BY <1>1, <1>8, <2>2 DEF MergeRead, WorkerState
    <3>2. \A b \in Active(worker.incidentId) : local[b].eventCount = BatchSize
      BY <3>1 DEF CountsInv, CountsKept, MergeIntact, Active, WithStatus, InEpoch, Intact
    <3>3. MergeIntact'
      BY <3>1, <3>2 DEF MergeIntact
    <3>4. local' = local /\ main' = main
      BY <1>8 DEF MergeRead
    <3> QED
      BY <1>3, <3>1, <3>3, <3>4 DEF CountsInv, CountsKept, RowsRecorded, SignedAsRecorded,
                              QuarantineSealed, CascadeIntact, MainHoldsRecordedCounts, Intact, Staged
  <2> QED
    BY <2>1, <2>2
<1>9. CASE MergeAppend
  <2> DEFINE d == OldestOf(worker.blocks)
             block == ChainedBlock(d.batchId, worker.mainTail, d.merkleRoot, d.eventCount)
  <2>1. d \in LocalBlock /\ d \in worker.blocks
    BY <1>1, <1>9, OldestInSet DEF MergeAppend
  <2>2. d.eventCount = BatchSize
    BY <2>1 DEF CountsInv, CountsKept, MergeIntact
  <2>3. block \in MainBlock /\ block.eventCount = BatchSize
    <3> HIDE DEF d
    <3> QED
      BY <1>1, <2>1, <2>2, ChainedBlockType DEF LocalBlock, WorkerState
  <2>4. main' = Append(main, block) /\ local' = local /\ worker.pc = "append"
    BY <1>9 DEF MergeAppend
  <2>5. worker'.pc = worker.pc /\ worker'.blocks = worker.blocks \ {d}
    BY <1>1, <1>9 DEF MergeAppend, WorkerState
  <2> HIDE DEF d, block
  <2>6. MainHoldsRecordedCounts'
    BY <1>1, <2>3, <2>4, CountAppended DEF CountsInv, CountsKept
  <2>7. MergeIntact'
    BY <2>4, <2>5 DEF CountsInv, CountsKept, MergeIntact
  <2> QED
    BY <1>3, <2>4, <2>6, <2>7 DEF CountsInv, CountsKept, RowsRecorded, SignedAsRecorded,
                                  QuarantineSealed, CascadeIntact, Intact, Staged
<1>10. CASE MergeDuplicate
  <2>1. worker'.blocks = {} /\ worker'.pc \notin {"verified", "flag"}
    BY <1>10 DEF MergeDuplicate, WorkerIdle
  <2> QED
    BY <1>2, <1>3, <1>10, <2>1, CountsQuietly DEF MergeDuplicate, CountsInv
<1>11. CASE MergeRecord
  <2>1. worker'.blocks = {} /\ worker'.pc \notin {"verified", "flag"}
    BY <1>1, <1>11 DEF MergeRecord, WorkerState
  <2> QED
    BY <1>2, <1>3, <1>11, <2>1, CountsQuietly DEF MergeRecord, CountsInv
<1>12. CASE MergeDrop
  <2>1. \A b \in Batches : local'[b] = NoBlock \/ local'[b] = local[b]
    BY <1>12 DEF MergeDrop
  <2>2. /\ main' = main /\ worker'.blocks = {} /\ worker'.pc \notin {"verified", "flag"}
        /\ worker.pc = "drop"
    BY <1>4, <1>12 DEF MergeDrop
  <2>3. SignedAsRecorded' /\ QuarantineSealed'
    BY <2>1, <2>2 DEF CountsInv, CountsKept, SignedAsRecorded, QuarantineSealed, Intact, Staged, NoBlock,
                ActiveStatus
  <2>4. MergeIntact'
    BY <2>2 DEF MergeIntact
  <2> QED
    BY <1>3, <2>2, <2>3, <2>4 DEF CountsInv, CountsKept, RowsRecorded, CascadeIntact,
                                  MainHoldsRecordedCounts
<1> QED
  BY <1>5, <1>6, <1>7, <1>8, <1>9, <1>10, <1>11, <1>12, <1>13 DEF MergeStep

\* A recover reads the recorded count again, and lists a sealed epoch.
LEMMA CountsRecover ==
    ASSUME CountsInv, NEW b \in Batches, Recover(b)
    PROVE  CountsKept'
<1>1. PICK i, root, doc :
        /\ i = local[b].incidentId /\ doc = Rebuilt(b, root, BatchSize)
        /\ local' = [local EXCEPT ![b] = doc]
        /\ cascade'.blocks = { local[s] : s \in CascadeTargets(i, b) }
  BY DEF Recover
<1>2. /\ worker.pc = "idle" /\ worker' = worker /\ main' = main /\ rows' = rows
      /\ local \in [Batches -> LocalBlock \cup {NoBlock}] /\ local[b] \in LocalBlock
      /\ local[b].status = "TAMPERED"
  BY DEF Recover, Alone, CountsInv, TypeOK, NoBlock
<1>3. PICK block, m : /\ block = ChainedBlock(b, root, m, BatchSize)
                      /\ doc = [local[b] EXCEPT !.previousRoot = block.previousRoot,
                                                !.currentRoot = block.currentRoot,
                                                !.merkleRoot = m,
                                                !.eventCount = block.eventCount,
                                                !.signature = block.signature,
                                                !.status = "PENDING_VERIFICATION"]
  BY <1>1 DEF Rebuilt
<1>4. /\ doc.eventCount = BatchSize /\ doc.signature[4] = BatchSize
      /\ doc.incidentId = i /\ doc.status = "PENDING_VERIFICATION"
  BY <1>1, <1>2, <1>3, SignedCount DEF LocalBlock
<1>5. local'[b] = doc /\ \A c \in Batches \ {b} : local'[c] = local[c]
  BY <1>1, <1>2
<1>6. SignedAsRecorded'
  BY <1>4, <1>5 DEF CountsInv, CountsKept, SignedAsRecorded, Staged
<1>7. QuarantineSealed'
  BY <1>2, <1>4, <1>5 DEF CountsInv, CountsKept, QuarantineSealed, Intact
<1>8. CascadeIntact'
  <2>1. \A s \in CascadeTargets(i, b) : local[s].eventCount = BatchSize
    BY <1>1, <1>2 DEF CascadeTargets, Active, WithStatus, CountsInv, CountsKept, QuarantineSealed, Intact
  <2> QED
    BY <1>1, <2>1 DEF CascadeIntact
<1>9. MergeIntact'
  BY <1>2 DEF CountsInv, CountsKept, MergeIntact
<1> QED
  BY <1>2, <1>6, <1>7, <1>8, <1>9 DEF CountsInv, CountsKept, RowsRecorded, MainHoldsRecordedCounts

\* A verdict leaves the count and takes the block out of quarantine.
LEMMA CountsReject ==
    ASSUME CountsInv, NEW b \in Batches,
           NEW st \in {"ACKNOWLEDGED", "DISCARDED"}, Reject(b, st)
    PROVE  CountsKept'
<1>1. /\ TypeOK /\ worker.pc = "idle" /\ worker' = worker /\ main' = main /\ rows' = rows
      /\ cascade' = cascade
      /\ local' = [local EXCEPT ![b] = [@ EXCEPT !.status = st]] /\ local[b].status = "TAMPERED"
  BY DEF CountsInv, Reject, Alone
<1>2. local \in [Batches -> LocalBlock \cup {NoBlock}] /\ local[b] \in LocalBlock
  BY <1>1 DEF TypeOK, NoBlock
<1>3. /\ local'[b].status = st /\ local'[b].signature = local[b].signature
      /\ \A c \in Batches \ {b} : local'[c] = local[c]
  BY <1>1, <1>2 DEF LocalBlock
<1>4. SignedAsRecorded'
  BY <1>1, <1>3 DEF CountsInv, CountsKept, SignedAsRecorded, Staged
<1>5. QuarantineSealed'
  BY <1>1, <1>3 DEF CountsInv, CountsKept, QuarantineSealed, Intact, ActiveStatus
<1>6. CascadeIntact' /\ MergeIntact'
  BY <1>1 DEF CountsInv, CountsKept, CascadeIntact, MergeIntact
<1> QED
  BY <1>1, <1>4, <1>5, <1>6 DEF CountsInv, CountsKept, RowsRecorded, MainHoldsRecordedCounts

\* A cascade signs what it has read, which is intact.
LEMMA CountsCascade ==
    ASSUME CountsInv, CascadeTurn
    PROVE  CountsKept'
<1> DEFINE d == OldestOf(cascade.blocks)
           b == d.batchId
           block == ChainedBlock(b, cascade.runningRoot, d.merkleRoot, d.eventCount)
           doc == [local[b] EXCEPT !.previousRoot = block.previousRoot,
                                   !.currentRoot = block.currentRoot,
                                   !.signature = block.signature]
<1>1. /\ TypeOK /\ cascade.blocks \subseteq LocalBlock /\ cascade.blocks # {}
      /\ local \in [Batches -> LocalBlock \cup {NoBlock}]
      /\ worker' = worker /\ main' = main /\ rows' = rows
      /\ local' = IF local[b] = NoBlock THEN local ELSE [local EXCEPT ![b] = doc]
      /\ cascade'.blocks = cascade.blocks \ {d}
  BY CascadeTypes DEF CountsInv, TypeOK, CascadeState, CascadeTurn
<1>2. d \in cascade.blocks /\ d.eventCount = BatchSize
  BY <1>1, OldestInSet DEF CountsInv, CountsKept, CascadeIntact
<1>3. block.signature[4] = BatchSize
  BY <1>2, SignedCount
<1> HIDE DEF block, d, b
<1>4. CASE local' = local
  <2>1. \A c \in Batches : CountKept(c)
    BY <1>4 DEF CountKept, Kept
  <2>2. CascadeIntact'
    BY <1>1 DEF CountsInv, CountsKept, CascadeIntact
  <2>3. SignedAsRecorded' /\ QuarantineSealed' /\ MergeIntact'
    BY <1>1, <2>1 DEF CountsInv, CountsKept, SignedAsRecorded, QuarantineSealed, MergeIntact,
                      Intact, Staged, InEpoch, CountKept, Kept
  <2> QED
    BY <1>1, <2>2, <2>3 DEF CountsInv, CountsKept, RowsRecorded, MainHoldsRecordedCounts
<1>5. CASE local[b] # NoBlock /\ local' = [local EXCEPT ![b] = doc]
  <2>1. b \in Batches => local[b] \in LocalBlock
    BY <1>1, <1>5
  <2>2. b \in Batches => /\ doc.eventCount = local[b].eventCount /\ doc.signature[4] = BatchSize
                         /\ doc.incidentId = local[b].incidentId /\ doc.status = local[b].status
    BY <1>3, <2>1 DEF LocalBlock
  <2> HIDE DEF doc
  <2>3. \A c \in Batches :
           /\ local'[c].eventCount = local[c].eventCount
           /\ local'[c].incidentId = local[c].incidentId /\ local'[c].status = local[c].status
           /\ local'[c].signature = local[c].signature \/ local'[c].signature[4] = BatchSize
    BY <1>1, <1>5, <2>2
  <2>4. SignedAsRecorded'
    BY <2>3 DEF CountsInv, CountsKept, SignedAsRecorded, Staged
  <2>5. QuarantineSealed' /\ MergeIntact'
    BY <1>1, <2>3 DEF CountsInv, CountsKept, QuarantineSealed, MergeIntact, Intact, InEpoch
  <2>6. CascadeIntact'
    BY <1>1 DEF CountsInv, CountsKept, CascadeIntact
  <2> QED
    BY <1>1, <2>4, <2>5, <2>6 DEF CountsInv, CountsKept, RowsRecorded, MainHoldsRecordedCounts
<1> QED
  BY <1>1, <1>4, <1>5

\* A block is altered between two merges, in an epoch that is not sealed.
LEMMA CountsAlter ==
    ASSUME Overlap = FALSE, LateAlteration = FALSE, CountsInv, NEW b \in Batches, Alter(b),
           UNCHANGED cascade
    PROVE  CountsKept'
<1>1. /\ TypeOK /\ worker.pc = "idle" /\ worker' = worker /\ main' = main /\ rows' = rows
      /\ cascade' = cascade /\ local[b].status \in ActiveStatus
      /\ \A t \in Batches : ~(local[t].status = "TAMPERED" /\ local[t].incidentId = local[b].incidentId)
      /\ local' = [local EXCEPT ![b] = [@ EXCEPT !.eventCount = BatchSize + 1]]
  BY DEF CountsInv, Alter, MayStart, Quiet, Tampered, WithStatus
<1>2. local \in [Batches -> LocalBlock \cup {NoBlock}] /\ local[b] \in LocalBlock
  BY <1>1 DEF TypeOK, NoBlock, ActiveStatus
<1>3. /\ local'[b].status = local[b].status /\ local'[b].signature = local[b].signature
      /\ local'[b].incidentId = local[b].incidentId
      /\ \A c \in Batches \ {b} : local'[c] = local[c]
  BY <1>1, <1>2 DEF LocalBlock
<1>4. SignedAsRecorded'
  BY <1>3 DEF CountsInv, CountsKept, SignedAsRecorded, Staged
<1>5. QuarantineSealed'
  BY <1>1, <1>3 DEF CountsInv, CountsKept, QuarantineSealed, Intact, ActiveStatus
<1>6. CascadeIntact' /\ MergeIntact'
  BY <1>1 DEF CountsInv, CountsKept, CascadeIntact, MergeIntact
<1> QED
  BY <1>1, <1>4, <1>5, <1>6 DEF CountsInv, CountsKept, RowsRecorded, MainHoldsRecordedCounts

\* And all the other steps.
LEMMA CountsStep ==
    ASSUME Overlap = FALSE, LateAlteration = FALSE, CountsInv, FlagsStand, TypeOK',
           [SerialNext]_serialVars, NoRestartInFlagging
    PROVE  CountsInv'
<1> SUFFICES CountsKept'
  BY DEF CountsInv
<1>1. TypeOK
  BY DEF CountsInv
<1>2. local' = local => \A b \in Batches : CountKept(b)
  BY DEF CountKept, Kept
<1>3. CASE CreateMain \/ \E i \in Incidents : CreateLocal(i)
  BY <1>3, CountsCreate
<1>4. CASE MergeStep /\ UNCHANGED cascade
  BY <1>4, CountsMerge
<1>5. CASE \E b \in Batches : Recover(b) \/ Reject(b, "ACKNOWLEDGED") \/ Reject(b, "DISCARDED")
  BY <1>5, CountsRecover, CountsReject
<1>6. CASE CascadeTurn
  BY <1>6, CountsCascade
<1>7. ASSUME NEW b \in Batches, Alter(b), UNCHANGED cascade PROVE CountsKept'
  BY <1>7, CountsAlter
<1>8. CASE Crash /\ cascade' = CascadeIdle
  <2>1. crashes' # crashes
    BY <1>1, <1>8 DEF Crash, TypeOK
  <2>2. /\ worker'.blocks = {} /\ worker'.pc \notin {"verified", "flag"} /\ worker.pc # "flag"
        /\ cascade'.blocks = {}
    BY <1>8, <2>1 DEF Crash, WorkerIdle, CascadeIdle, NoRestartInFlagging
  <2>3. local' = local /\ main' = main /\ rows' = rows
    BY <1>8 DEF Crash
  <2> QED
    BY <1>2, <2>2, <2>3, CountsQuietly DEF CountsInv
<1>9. CASE \/ CycleStep /\ UNCHANGED cascade
           \/ \E i \in Incidents : DeclareOutage(i)
  <2>1. /\ local' = local /\ main' = main /\ rows' = rows /\ cascade' = cascade
    BY <1>9 DEF CycleStep, OutageFind, ResolveIncident, ListIncidents, DeclareOutage
  <2>2. \/ worker' = worker
        \/ worker'.blocks = {} /\ worker'.pc \notin {"verified", "flag"} /\ worker.pc # "flag"
    <3>1. /\ WorkerIdle.blocks = {} /\ WorkerIdle.pc \notin {"verified", "flag"}
          /\ \A i : /\ [WorkerIdle EXCEPT !.pc = "declare", !.incidentId = i].blocks = {}
                    /\ [WorkerIdle EXCEPT !.pc = "declare", !.incidentId = i].pc = "declare"
          /\ \A todo : /\ [WorkerIdle EXCEPT !.pc = "cycle", !.todo = todo].blocks = {}
                       /\ [WorkerIdle EXCEPT !.pc = "cycle", !.todo = todo].pc = "cycle"
          /\ [WorkerIdle EXCEPT !.pc = "list"].blocks = {}
          /\ [WorkerIdle EXCEPT !.pc = "list"].pc = "list"
      BY DEF WorkerIdle
    <3>2. CASE OutageFind
      <4>1. PICK i : worker' = [WorkerIdle EXCEPT !.pc = "declare", !.incidentId = i]
        BY <3>2 DEF OutageFind
      <4> QED
        BY <3>1, <3>2, <4>1 DEF OutageFind
    <3>3. CASE ResolveIncident
      BY <3>1, <3>3 DEF ResolveIncident
    <3>4. CASE ListIncidents
      BY <3>1, <3>4 DEF ListIncidents, MergesLeft
    <3>5. CASE \E i \in Incidents : DeclareOutage(i)
      BY <3>1, <3>5 DEF DeclareOutage
    <3> QED
      BY <1>9, <3>2, <3>3, <3>4, <3>5 DEF CycleStep
  <2> QED
    BY <1>2, <2>1, <2>2, CountsQuietly DEF CountsInv
<1>10. CASE \/ NetworkChange /\ UNCHANGED cascade
            \/ UNCHANGED serialVars
            \/ \E b \in Batches : LoseRows(b) /\ UNCHANGED cascade
  <2>1. /\ local' = local /\ main' = main /\ cascade' = cascade /\ worker' = worker
    BY <1>10 DEF NetworkChange, serialVars, LoseRows
  <2>2. \A b \in Batches : rows'[b] \in {rows[b], 0}
    <3>1. CASE rows' = rows
      BY <3>1
    <3>2. ASSUME NEW c \in Batches, LoseRows(c) PROVE \A b \in Batches : rows'[b] \in {rows[b], 0}
      BY <1>1, <3>2 DEF LoseRows, TypeOK
    <3> QED
      BY <1>10, <3>1, <3>2 DEF NetworkChange, serialVars
  <2> QED
    BY <1>2, <2>1, <2>2, CountsQuietly DEF CountsInv
<1> QED
  BY <1>3, <1>4, <1>5, <1>6, <1>7, <1>8, <1>9, <1>10 DEF SerialNext

\* Every MAIN block holds the count that was recorded when its batch was
\* created, as long as handlers do not overlap, nothing is altered while
\* tampering of its epoch is unresolved, and no restart comes between two flags
\* of an epoch.
THEOREM MainAlwaysHoldsRecordedCounts ==
    ASSUME Overlap = FALSE, LateAlteration = FALSE
    PROVE  Spec /\ [][NoRestartInFlagging]_vars => []MainHoldsRecordedCounts
<1>1. Init => CountsInv
  <2> SUFFICES ASSUME Init PROVE CountsKept
    BY TypeInit DEF CountsInv
  <2>1. \A b \in Batches : local[b].status = "NONE" /\ rows[b] = 0
    BY DEF Init, NoBlock
  <2>2. main = << >> /\ worker.pc = "idle" /\ worker.blocks = {} /\ cascade.blocks = {}
    BY SerialInit DEF Init, WorkerIdle, CascadeIdle
  <2>3. RowsRecorded /\ SignedAsRecorded /\ QuarantineSealed
    BY <2>1 DEF RowsRecorded, SignedAsRecorded, QuarantineSealed, Staged, ActiveStatus
  <2> QED
    BY <2>2, <2>3 DEF CountsKept, CascadeIntact, MergeIntact, MainHoldsRecordedCounts
<1>2. CountsInv /\ DecidedInv /\ [Next]_vars /\ [NoRestartInFlagging]_vars => CountsInv'
  <2> SUFFICES ASSUME CountsInv, DecidedInv, [Next]_vars, [NoRestartInFlagging]_vars
               PROVE  CountsInv'
    OBVIOUS
  <2>1. TypeOK' /\ [SerialNext]_serialVars
    BY DecidedStep, TypeStep DEF CountsInv
  <2>2. NoRestartInFlagging
    BY DEF vars, NoRestartInFlagging
  <2> QED
    BY <2>1, <2>2, CountsStep DEF DecidedInv
<1>3. CountsInv => MainHoldsRecordedCounts
  BY DEF CountsInv, CountsKept
<1> QED
  BY <1>1, <1>2, <1>3, DecidedInit, DecidedStep, PTL DEF Spec
-----------------------------------------------------------------------------
(* The record of a merged epoch matches MAIN                                *)
(*                                                                          *)
(* With handlers that do not overlap.  The merge is followed block by       *)
(* block: what it has appended is recorded, and the rest of its list goes   *)
(* on from there to the final root.                                         *)

\* The merkle root a block was chained with is the last part of its root.
LastPart(block) == block.currentRoot[Len(block.currentRoot)]

\* From position offset on, MAIN holds the batches ids, and root commits to
\* the merkle roots they were chained with.
RecordIn(chain, offset, ids, root) ==
    /\ offset \in Nat /\ offset + Len(ids) <= Len(chain)
    /\ \A k \in DOMAIN ids : chain[offset + k].batchId = ids[k]
    /\ root = [ k \in DOMAIN ids |-> LastPart(chain[offset + k]) ]

\* The blocks D, in the order of their numbers, lead from root to final.
LeadsOn(D, root, final) ==
    /\ \A d \in D : d.currentRoot = Append(d.previousRoot, d.merkleRoot)
    /\ \A d, e \in D : d.batchId = e.batchId => d = e
    /\ D = {} => final = root
    /\ \A d \in D : (\A e \in D : d.batchId <= e.batchId) => d.previousRoot = root
    /\ \A d \in D : (\A e \in D : e.batchId <= d.batchId) => final = d.currentRoot
    /\ \A d, e \in D :
          e.batchId < d.batchId /\ (\A c \in D : c.batchId < d.batchId => c.batchId <= e.batchId)
             => d.previousRoot = e.currentRoot

\* A record stays true when MAIN grows.
LEMMA RecordGrows ==
    ASSUME NEW chain \in Seq(MainBlock), NEW block \in MainBlock, NEW ids \in Seq(Batches),
           NEW offset, NEW root, RecordIn(chain, offset, ids, root)
    PROVE  RecordIn(Append(chain, block), offset, ids, root)
<1> DEFINE longer == Append(chain, block)
<1>1. /\ Len(chain) \in Nat /\ Len(longer) = Len(chain) + 1
      /\ \A n \in 1 .. Len(chain) : longer[n] = chain[n]
      /\ Len(ids) \in Nat /\ DOMAIN ids = 1 .. Len(ids)
  BY AppendProperties, LenProperties
<1>2. offset \in Nat /\ offset + Len(ids) <= Len(chain)
  BY DEF RecordIn
<1> HIDE DEF longer
<1>3. \A k \in DOMAIN ids : offset + k \in 1 .. Len(chain)
  BY <1>1, <1>2
<1>4. \A k \in DOMAIN ids : longer[offset + k] = chain[offset + k]
  BY <1>1, <1>3
<1>5. RecordIn(longer, offset, ids, root)
  BY <1>1, <1>2, <1>4 DEF RecordIn
<1> QED
  BY <1>5 DEF longer

\* A block appended at the end of a record extends it.
LEMMA RecordExtends ==
    ASSUME NEW chain \in Seq(MainBlock), NEW block \in MainBlock, NEW ids \in Seq(Batches),
           NEW offset, NEW root \in Roots, RecordIn(chain, offset, ids, root),
           offset + Len(ids) = Len(chain), LastPart(block) \in Batches \X RowStates
    PROVE  /\ RecordIn(Append(chain, block), offset, Append(ids, block.batchId),
                       Append(root, LastPart(block)))
           /\ offset + Len(Append(ids, block.batchId)) = Len(Append(chain, block))
<1> DEFINE longer == Append(chain, block)
           more == Append(ids, block.batchId)
           next == Append(root, LastPart(block))
<1>1. /\ Len(chain) \in Nat /\ Len(longer) = Len(chain) + 1
      /\ \A n \in 1 .. Len(chain) : longer[n] = chain[n]
      /\ longer[Len(chain) + 1] = block
      /\ Len(ids) \in Nat /\ DOMAIN ids = 1 .. Len(ids)
  BY AppendProperties, LenProperties
<1>2. /\ more \in Seq(Batches) /\ Len(more) = Len(ids) + 1 /\ DOMAIN more = 1 .. (Len(ids) + 1)
      /\ \A k \in 1 .. Len(ids) : more[k] = ids[k]
      /\ more[Len(ids) + 1] = block.batchId
  <2>1. block.batchId \in Batches
    BY DEF MainBlock
  <2> QED
    BY <2>1, <1>1, AppendProperties, LenProperties
<1>3. /\ Len(root) = Len(ids) /\ DOMAIN root = 1 .. Len(ids)
      /\ \A k \in 1 .. Len(ids) : root[k] = LastPart(chain[offset + k])
  <2>1. root = [ k \in 1 .. Len(ids) |-> LastPart(chain[offset + k]) ]
    BY <1>1 DEF RecordIn
  <2> QED
    BY <1>1, <2>1
<1>4. /\ next \in Seq(Batches \X RowStates) /\ Len(next) = Len(ids) + 1
      /\ DOMAIN next = 1 .. (Len(ids) + 1)
      /\ \A k \in 1 .. Len(ids) : next[k] = root[k]
      /\ next[Len(ids) + 1] = LastPart(block)
  BY <1>1, <1>3, AppendProperties, LenProperties DEF Roots
<1>5. offset \in Nat /\ Len(chain) = offset + Len(ids)
  BY DEF RecordIn
<1> HIDE DEF longer, more, next
<1>6. /\ \A k \in 1 .. Len(ids) : offset + k \in 1 .. Len(chain)
      /\ offset + (Len(ids) + 1) = Len(chain) + 1
      /\ \A k \in 1 .. (Len(ids) + 1) : k \in 1 .. Len(ids) \/ k = Len(ids) + 1
  BY <1>1, <1>5
<1>7. ASSUME NEW k \in DOMAIN more
      PROVE  longer[offset + k].batchId = more[k] /\ next[k] = LastPart(longer[offset + k])
  <2>1. CASE k \in 1 .. Len(ids)
    BY <1>1, <1>2, <1>3, <1>4, <1>6, <2>1 DEF RecordIn
  <2>2. CASE k = Len(ids) + 1
    BY <1>1, <1>2, <1>4, <1>6, <2>2
  <2> QED
    BY <1>2, <1>6, <2>1, <2>2
<1>8. next = [ k \in DOMAIN more |-> LastPart(longer[offset + k]) ]
  <2>1. next = [ k \in DOMAIN more |-> next[k] ]
    BY <1>2, <1>4
  <2> QED
    BY <1>7, <2>1
<1>9. offset + Len(more) = Len(longer)
  BY <1>1, <1>2, <1>5
<1>10. offset + Len(more) <= Len(longer)
  BY <1>1, <1>9
<1> QED
  BY <1>5, <1>7, <1>8, <1>9, <1>10 DEF RecordIn, longer, more, next

\* The rest of a list goes on from the root of its oldest block.
LEMMA LeadsOnFromOldest ==
    ASSUME NEW D, D \subseteq LocalBlock, NEW root, NEW final, LeadsOn(D, root, final),
           NEW d \in D, \A e \in D : d.batchId <= e.batchId
    PROVE  /\ d.currentRoot = Append(root, d.merkleRoot)
           /\ LeadsOn(D \ {d}, d.currentRoot, final)
<1>1. \A e \in D : e.batchId \in Nat
  BY MaxBatchesAssumption DEF LocalBlock, Batches
<1>2. d.previousRoot = root /\ d.currentRoot = Append(root, d.merkleRoot)
  BY DEF LeadsOn
<1>3. \A e \in D \ {d} : d.batchId < e.batchId
  BY <1>1 DEF LeadsOn
<1>4. D \ {d} = {} => final = d.currentRoot
  <2>1. D \ {d} = {} => \A e \in D : e.batchId <= d.batchId
    BY <1>1
  <2> QED
    BY <2>1 DEF LeadsOn
<1>5. ASSUME NEW e \in D \ {d}, \A c \in D \ {d} : e.batchId <= c.batchId
      PROVE  e.previousRoot = d.currentRoot
  <2>1. \A c \in D : c.batchId < e.batchId => c.batchId <= d.batchId
    BY <1>1, <1>5
  <2> QED
    BY <1>3, <2>1 DEF LeadsOn
<1>6. ASSUME NEW e \in D \ {d}, \A c \in D \ {d} : c.batchId <= e.batchId
      PROVE  final = e.currentRoot
  <2>1. \A c \in D : c.batchId <= e.batchId
    BY <1>1, <1>3, <1>6
  <2> QED
    BY <2>1 DEF LeadsOn
<1>7. ASSUME NEW c \in D \ {d}, NEW e \in D \ {d}, e.batchId < c.batchId,
             \A x \in D \ {d} : x.batchId < c.batchId => x.batchId <= e.batchId
      PROVE  c.previousRoot = e.currentRoot
  <2>1. \A x \in D : x.batchId < c.batchId => x.batchId <= e.batchId
    BY <1>1, <1>3, <1>7
  <2> QED
    BY <1>7, <2>1 DEF LeadsOn
<1> QED
  BY <1>2, <1>4, <1>5, <1>6, <1>7 DEF LeadsOn

\* Every staged block continues its previous root with its merkle root.
StagedChained ==
    \A b \in Batches : local[b].status # "NONE" =>
        local[b].currentRoot = Append(local[b].previousRoot, local[b].merkleRoot)

\* A cascade runs while the worker is idle, over merkle roots that stand.
CascadeFresh ==
    /\ worker.pc # "idle" => cascade.blocks = {}
    /\ \A d \in cascade.blocks :
          local[d.batchId].status # "NONE" => local[d.batchId].merkleRoot = d.merkleRoot

\* What the worker has verified still verifies.
VerifiedStands ==
    /\ worker.pc \in {"cycle", "verified"} => worker.mergedBatchIds = << >>
    /\ worker.pc = "verified" =>
          /\ LocalErrors(worker.incidentId) = {}
          /\ worker.finalRoot = LastLocalRoot(Active(worker.incidentId))

\* What the worker has appended is recorded, and its list goes on from there.
AppendLeadsOn ==
    worker.pc = "append" =>
        \E offset \in Nat, root \in Roots :
            /\ RecordIn(main, offset, worker.mergedBatchIds, root)
            /\ offset + Len(worker.mergedBatchIds) = Len(main)
            /\ LeadsOn(worker.blocks, root, worker.finalRoot)

RecordsStand ==
    \A i \in Incidents : incident[i].localChainStatus = "MERGED" =>
        \E offset \in Nat :
            RecordIn(main, offset, incident[i].mergedBatchIds, incident[i].localChainFinalRoot)

Recorded == StagedChained /\ CascadeFresh /\ VerifiedStands /\ AppendLeadsOn /\ RecordsStand

RecordedInv == KeepInv /\ Solo /\ Recorded

\* A chain that verifies leads from the genesis root to its last root.
LEMMA VerifiedLeadsOn ==
    ASSUME KeepInv, StagedChained, NEW i, LocalErrors(i) = {}
    PROVE  LeadsOn({ local[b] : b \in Active(i) }, << >>, LastLocalRoot(Active(i)))
<1> DEFINE A == Active(i)
           D == { local[b] : b \in A }
<1>1. /\ A \subseteq Batches /\ \A b \in A : local[b].batchId = b /\ local[b].status # "NONE"
      /\ \A b \in Batches : b \in Nat
  BY MaxBatchesAssumption
  DEF Active, WithStatus, KeepInv, Keep, BlocksNamed, ActiveStatus, Batches
<1>2. \A b \in A : local[b].previousRoot = LastLocalRoot(Before(A, b))
  <2> SUFFICES ASSUME NEW b \in A, local[b].previousRoot # LastLocalRoot(Before(A, b)) PROVE FALSE
    OBVIOUS
  <2>1. << b, 2 >> \in Active(i) \X {1, 2}
    OBVIOUS
  <2>2. << b, 2 >> \in LocalErrors(i)
    BY <2>1 DEF LocalErrors
  <2> QED
    BY <2>2
<1>3. \A d \in D : d.batchId \in A /\ d = local[d.batchId]
  BY <1>1
<1>4. \A d \in D : d.currentRoot = Append(d.previousRoot, d.merkleRoot)
  BY <1>1 DEF StagedChained
<1> HIDE DEF A
<1>5. \A d, e \in D : d.batchId = e.batchId => d = e
  BY <1>3
<1>6. D = {} => LastLocalRoot(A) = << >>
  <2>1. D = {} => A = {}
    OBVIOUS
  <2> QED
    BY <2>1 DEF LastLocalRoot, GENESIS_ROOT
<1>7. ASSUME NEW d \in D, \A e \in D : d.batchId <= e.batchId
      PROVE  d.previousRoot = << >>
  <2>1. Before(A, d.batchId) = {}
    <3>1. ASSUME NEW a \in A, a < d.batchId PROVE FALSE
      <4>1. d.batchId <= local[a].batchId /\ local[a].batchId = a /\ a \in Nat /\ d.batchId \in Nat
        BY <1>1, <1>3, <1>7
      <4> QED
        BY <3>1, <4>1
    <3> QED
      BY <3>1 DEF Before
  <2> QED
    BY <1>2, <1>3, <2>1 DEF LastLocalRoot, GENESIS_ROOT
<1>8. ASSUME NEW d \in D, \A e \in D : e.batchId <= d.batchId
      PROVE  LastLocalRoot(A) = d.currentRoot
  <2>1. d.batchId \in A /\ A # {} /\ Latest(A) \in A /\ \A a \in A : a <= Latest(A)
    BY <1>1, <1>3, LatestInSet
  <2>2. local[Latest(A)].batchId <= d.batchId /\ local[Latest(A)].batchId = Latest(A)
    BY <1>1, <1>8, <2>1
  <2>3. Latest(A) = d.batchId
    BY <1>1, <2>1, <2>2
  <2> QED
    BY <1>3, <2>1, <2>3 DEF LastLocalRoot
<1>9. ASSUME NEW d \in D, NEW e \in D, e.batchId < d.batchId,
             \A c \in D : c.batchId < d.batchId => c.batchId <= e.batchId
      PROVE  d.previousRoot = e.currentRoot
  <2> DEFINE B == Before(A, d.batchId)
  <2>1. e.batchId \in B /\ B \subseteq Batches /\ B \subseteq A
    BY <1>1, <1>3, <1>9 DEF Before
  <2>2. Latest(B) \in B /\ \A a \in B : a <= Latest(B)
    <3> HIDE DEF B
    <3> QED
      BY <2>1, LatestInSet
  <2>3. /\ local[Latest(B)] \in D /\ local[Latest(B)].batchId = Latest(B)
        /\ Latest(B) < d.batchId
    BY <1>1, <2>2 DEF Before
  <2> HIDE DEF B, D
  <2>4. Latest(B) <= e.batchId
    BY <1>9, <2>3
  <2>5. e.batchId <= Latest(B) /\ e.batchId \in Nat /\ Latest(B) \in Nat
    BY <1>1, <2>1, <2>2
  <2>6. Latest(B) = e.batchId
    BY <2>4, <2>5
  <2>7. B # {}
    BY <2>1
  <2>8. d.previousRoot = LastLocalRoot(B)
    BY <1>2, <1>3 DEF B
  <2> QED
    BY <1>3, <2>6, <2>7, <2>8 DEF LastLocalRoot
<1> HIDE DEF D
<1>10. LeadsOn(D, << >>, LastLocalRoot(A))
  BY <1>4, <1>5, <1>6, <1>7, <1>8, <1>9 DEF LeadsOn
<1> QED
  BY <1>10 DEF A, D

\* The worker is not in a merge yet.
Opening == worker.pc \in {"idle", "declare", "list"}

\* While the worker is in a merge nothing else changes what it works on.
LEMMA WorkerAlone ==
    ASSUME Overlap = FALSE, CascadeFresh, [SerialNext]_serialVars, ~Opening
    PROVE  \/ MergeStep /\ UNCHANGED cascade
           \/ Crash /\ cascade' = CascadeIdle
           \/ UNCHANGED << incident, local, main, worker, cascade >>
<1>1. ~Alone /\ worker.pc # "idle" /\ worker.pc # "declare" /\ worker.pc # "list"
  BY DEF Alone, Opening
<1>2. /\ ~CreateMain /\ ~CascadeTurn /\ \A i \in Incidents : ~CreateLocal(i) /\ ~DeclareOutage(i)
      /\ \A b \in Batches : \A st : ~Recover(b) /\ ~Reject(b, st)
  BY <1>1 DEF CreateMain, CascadeTurn, CreateLocal, DeclareOutage, Recover, Reject
<1>3. ASSUME NEW b \in Batches PROVE ~Alter(b)
  BY <1>1 DEF Alter, MayStart, Quiet
<1>4. ~CycleStep
  BY <1>1 DEF CycleStep, OutageFind, ResolveIncident, ListIncidents
<1>5. \/ (NetworkChange /\ UNCHANGED cascade) \/ UNCHANGED serialVars
      \/ \E b \in Batches : LoseRows(b) /\ UNCHANGED cascade
      => UNCHANGED << incident, local, main, worker, cascade >>
  BY DEF serialVars, NetworkChange, LoseRows
<1> QED
  BY <1>2, <1>3, <1>4, <1>5 DEF SerialNext

\* A worker that is not in a merge yet has appended nothing.
LEMMA WorkerOpens ==
    ASSUME [SerialNext]_serialVars, Opening
    PROVE  \/ worker' = worker
           \/ worker'.pc \in {"idle", "declare", "list", "cycle"} /\ worker'.mergedBatchIds = << >>
<1>1. /\ WorkerIdle.pc = "idle" /\ WorkerIdle.mergedBatchIds = << >>
      /\ \A i : /\ [WorkerIdle EXCEPT !.pc = "declare", !.incidentId = i].mergedBatchIds = << >>
                /\ [WorkerIdle EXCEPT !.pc = "declare", !.incidentId = i].pc = "declare"
      /\ \A todo : /\ [WorkerIdle EXCEPT !.pc = "cycle", !.todo = todo].mergedBatchIds = << >>
                   /\ [WorkerIdle EXCEPT !.pc = "cycle", !.todo = todo].pc = "cycle"
      /\ [WorkerIdle EXCEPT !.pc = "list"].mergedBatchIds = << >>
      /\ [WorkerIdle EXCEPT !.pc = "list"].pc = "list"
  BY DEF WorkerIdle
<1>2. CASE OutageFind
  <2>1. PICK i : worker' = [WorkerIdle EXCEPT !.pc = "declare", !.incidentId = i]
    BY <1>2 DEF OutageFind
  <2> QED
    BY <1>1, <2>1
<1>3. CASE ResolveIncident
  BY <1>1, <1>3 DEF ResolveIncident
<1>4. CASE ListIncidents
  BY <1>1, <1>4 DEF ListIncidents, MergesLeft
<1>5. CASE Crash \/ \E i \in Incidents : DeclareOutage(i)
  BY <1>1, <1>5 DEF Crash, DeclareOutage
<1>6. ~MergeStep
  BY DEF Opening, MergeStep, MergeSkip, MergeRefuse, MergeFlag, MergeFlagged, MergeVerify, MergeRead,
         MergeAppend, MergeDuplicate, MergeRecord, MergeDrop
<1>7. \/ CreateMain \/ CascadeTurn \/ NetworkChange \/ UNCHANGED serialVars
      \/ \E i \in Incidents : CreateLocal(i)
      \/ \E b \in Batches : \/ Recover(b) \/ Reject(b, "ACKNOWLEDGED") \/ Reject(b, "DISCARDED")
                            \/ Alter(b) \/ LoseRows(b)
      => worker' = worker
  BY DEF CreateMain, CascadeTurn, NetworkChange, serialVars, CreateLocal, Recover, Reject, Alter, LoseRows
<1> QED
  BY <1>2, <1>3, <1>4, <1>5, <1>6, <1>7 DEF SerialNext, CycleStep

\* MAIN changes by blocks appended to it.
LEMMA MainGrows ==
    ASSUME TypeOK, [SerialNext]_serialVars
    PROVE  main' = main \/ \E block \in MainBlock : main' = Append(main, block)
<1>1. CASE CreateMain
  <2> DEFINE block == ChainedBlock(nextBatch, LastRoot(main), MerkleRoot(nextBatch, "PENDING"), BatchSize)
  <2>1. nextBatch \in Batches
    BY <1>1 DEF CreateMain, NextBatchStored
  <2>2. MerkleRoot(nextBatch, "PENDING") \in Batches \X RowStates
    BY <2>1 DEF MerkleRoot, RowStates
  <2>3. block \in MainBlock
    <3>1. LastRoot(main) \in Roots
      BY LastRootType DEF TypeOK
    <3> QED
      BY <2>1, <2>2, <3>1, ChainedBlockType, BatchSizeAssumption
  <2>4. main' = Append(main, block)
    BY <1>1 DEF CreateMain
  <2> HIDE DEF block
  <2> QED
    BY <2>3, <2>4
<1>2. CASE MergeAppend
  BY <1>2, AppendedBlock
<1> QED
  BY <1>1, <1>2
  DEF SerialNext, serialVars, CreateLocal, DeclareOutage, CycleStep, OutageFind, ResolveIncident,
      ListIncidents, MergeStep, MergeSkip, MergeRefuse, MergeFlag, MergeFlagged, MergeVerify,
      MergeRead, MergeDuplicate, MergeRecord, MergeDrop, Recover, Reject, CascadeTurn,
      NetworkChange, Crash, Alter, LoseRows

SameRecord(old, new) ==
    /\ new.localChainStatus = old.localChainStatus
    /\ new.mergedBatchIds = old.mergedBatchIds
    /\ new.localChainFinalRoot = old.localChainFinalRoot

\* Opening and closing an incident leave the record of its epoch.
LEMMA StatusOnly ==
    ASSUME NEW doc \in IncidentDoc, NEW status
    PROVE  SameRecord(doc, [doc EXCEPT !.status = status])
BY DEF SameRecord, IncidentDoc

\* A record that is on an incident after a step was there before, or is the
\* one the worker has just written.
LEMMA RecordComes ==
    ASSUME TypeOK, [SerialNext]_serialVars, NEW i \in Incidents, incident'[i].localChainStatus = "MERGED"
    PROVE  \/ MergeRecord /\ i = worker.incidentId
           \/ SameRecord(incident[i], incident'[i])
<1>1. incident \in [Incidents -> IncidentDoc]
  BY DEF TypeOK
<1>2. CASE incident' = incident
  BY <1>2 DEF SameRecord
<1>3. ASSUME NEW j \in Incidents, DeclareOutage(j)
      PROVE  SameRecord(incident[i], incident'[i])
  <2>1. incident' = [incident EXCEPT ![j] = [incident[j] EXCEPT !.status = "OPEN"]]
    BY <1>3 DEF DeclareOutage, OpenIncidentDoc
  <2>2. SameRecord(incident[j], [incident[j] EXCEPT !.status = "OPEN"])
    BY <1>1, StatusOnly
  <2> QED
    BY <1>1, <2>1, <2>2 DEF SameRecord
<1>4. ASSUME ResolveIncident PROVE SameRecord(incident[i], incident'[i])
  <2>1. incident'[i] = incident[i] \/ incident'[i] = [incident[i] EXCEPT !.status = "CLOSED"]
    BY <1>1, <1>4 DEF ResolveIncident
  <2>2. SameRecord(incident[i], incident[i])
    BY DEF SameRecord
  <2>3. SameRecord(incident[i], [incident[i] EXCEPT !.status = "CLOSED"])
    BY <1>1, StatusOnly
  <2> QED
    BY <2>1, <2>2, <2>3
<1>5. ASSUME MergeFlagged PROVE incident'[i] = incident[i]
  BY <1>1, <1>5 DEF MergeFlagged, IncidentDoc
<1>6. ASSUME MergeRecord, i # worker.incidentId PROVE incident'[i] = incident[i]
  BY <1>1, <1>6 DEF MergeRecord, IncidentDoc
<1> QED
  BY <1>2, <1>3, <1>4, <1>5, <1>6
  DEF SameRecord, SerialNext, serialVars, CreateLocal, CreateMain, CycleStep, OutageFind,
      ListIncidents, MergeStep, MergeSkip, MergeRefuse, MergeFlag, MergeVerify, MergeRead,
      MergeAppend, MergeDuplicate, MergeDrop, Recover, Reject, CascadeTurn, NetworkChange, Crash,
      Alter, LoseRows

\* Every write of a staged block keeps its roots together.
LEMMA StagedChainedStep ==
    ASSUME RecordedInv, [SerialNext]_serialVars
    PROVE  StagedChained'
<1>1. /\ TypeOK /\ local \in [Batches -> LocalBlock \cup {NoBlock}]
      /\ \A b \in Batches : local[b].status # "NONE" <=> local[b] \in LocalBlock
  <2>1. \A b \in Batches : local[b].status # "NONE" <=> local[b] \in LocalBlock
    BY NoneIsNoBlock DEF RecordedInv, KeepInv, TypeOK, NoBlock, LocalBlock, LocalStatus, ActiveStatus
  <2> QED
    BY <2>1 DEF RecordedInv, KeepInv, TypeOK
<1>2. \A b, p, m, c : ChainedBlock(b, p, m, c).currentRoot = Append(p, m)
                      /\ ChainedBlock(b, p, m, c).previousRoot = p
  BY DEF ChainedBlock, ChainHash
<1>3. ASSUME \A b \in Batches :
                \/ local'[b] = local[b] \/ local'[b] = NoBlock
                \/ /\ local[b].status # "NONE" /\ local'[b].previousRoot = local[b].previousRoot
                   /\ local'[b].currentRoot = local[b].currentRoot
                   /\ local'[b].merkleRoot = local[b].merkleRoot
                \/ local'[b].currentRoot = Append(local'[b].previousRoot, local'[b].merkleRoot)
      PROVE  StagedChained'
  <2> SUFFICES ASSUME NEW b \in Batches, local'[b].status # "NONE"
               PROVE  local'[b].currentRoot = Append(local'[b].previousRoot, local'[b].merkleRoot)
    BY DEF StagedChained
  <2>1. local[b].status # "NONE"
           => local[b].currentRoot = Append(local[b].previousRoot, local[b].merkleRoot)
    BY DEF RecordedInv, Recorded, StagedChained
  <2>2. local'[b] # NoBlock
    BY DEF NoBlock
  <2>3. CASE local'[b] = local[b]
    BY <2>1, <2>3
  <2>4. CASE /\ local[b].status # "NONE" /\ local'[b].previousRoot = local[b].previousRoot
             /\ local'[b].currentRoot = local[b].currentRoot
             /\ local'[b].merkleRoot = local[b].merkleRoot
    BY <2>1, <2>4
  <2> QED
    BY <1>3, <2>2, <2>3, <2>4
<1>4. ASSUME NEW i \in Incidents, CreateLocal(i) PROVE StagedChained'
  <2> DEFINE block == ChainedBlock(nextBatch, LastLocalRoot(WithStatus(i, LocalStatus)),
                                   MerkleRoot(nextBatch, "PENDING"), BatchSize)
  <2>1. block.currentRoot = Append(block.previousRoot, MerkleRoot(nextBatch, "PENDING"))
    BY <1>2
  <2> HIDE DEF block
  <2>2. local' = [local EXCEPT ![nextBatch] =
          [ batchId |-> nextBatch, incidentId |-> i, previousRoot |-> block.previousRoot,
            currentRoot |-> block.currentRoot, eventCount |-> block.eventCount,
            signature |-> block.signature, merkleRoot |-> MerkleRoot(nextBatch, "PENDING"),
            status |-> "PENDING_VERIFICATION" ]]
    BY <1>4 DEF CreateLocal, StagedBlock, block
  <2> QED
    BY <1>1, <1>3, <2>1, <2>2
<1>5. CASE MergeFlag
  <2>1. PICK e \in worker.errors :
           /\ \A b \in Batches \ {e[1]} : local'[b] = local[b]
           /\ \/ local[e[1]] = NoBlock /\ local'[e[1]] = NoBlock
              \/ /\ local[e[1]] \in LocalBlock
                 /\ local'[e[1]] = [local[e[1]] EXCEPT !.status = "TAMPERED"]
    BY <1>1, <1>5, FlagWrites
  <2>2. ASSUME NEW b \in Batches, local[b] \in LocalBlock,
               local'[b] = [local[b] EXCEPT !.status = "TAMPERED"]
        PROVE  /\ local[b].status # "NONE" /\ local'[b].previousRoot = local[b].previousRoot
               /\ local'[b].currentRoot = local[b].currentRoot
               /\ local'[b].merkleRoot = local[b].merkleRoot
    BY <1>1, <2>2 DEF LocalBlock
  <2> QED
    BY <1>3, <2>1, <2>2
<1>6. CASE MergeDrop
  BY <1>3, <1>6 DEF MergeDrop
<1>7. ASSUME NEW b \in Batches, Recover(b) PROVE StagedChained'
  <2>1. PICK root, doc : /\ doc = Rebuilt(b, root, BatchSize)
                         /\ local' = [local EXCEPT ![b] = doc]
    BY <1>7 DEF Recover
  <2>2. local[b] \in LocalBlock
    BY <1>1, <1>7 DEF Recover
  <2>3. PICK block, m : /\ block = ChainedBlock(b, root, m, BatchSize)
                        /\ doc = [local[b] EXCEPT !.previousRoot = block.previousRoot,
                                                  !.currentRoot = block.currentRoot,
                                                  !.merkleRoot = m,
                                                  !.eventCount = block.eventCount,
                                                  !.signature = block.signature,
                                                  !.status = "PENDING_VERIFICATION"]
    BY <2>1 DEF Rebuilt
  <2>4. block.currentRoot = Append(block.previousRoot, m)
    BY <1>2, <2>3
  <2>5. doc.currentRoot = Append(doc.previousRoot, doc.merkleRoot)
    BY <2>2, <2>3, <2>4 DEF LocalBlock
  <2> QED
    BY <1>1, <1>3, <2>1, <2>5
<1>8. ASSUME NEW b \in Batches, Alter(b) \/ \E st \in {"ACKNOWLEDGED", "DISCARDED"} : Reject(b, st)
      PROVE  StagedChained'
  <2>1. local[b].status # "NONE"
    BY <1>8 DEF Alter, Reject, ActiveStatus
  <2>2. local[b] \in LocalBlock
    BY <1>1, <2>1
  <2>3. ASSUME NEW doc, local' = [local EXCEPT ![b] = doc], doc.previousRoot = local[b].previousRoot,
               doc.currentRoot = local[b].currentRoot, doc.merkleRoot = local[b].merkleRoot
        PROVE  StagedChained'
    BY <1>1, <1>3, <2>1, <2>3
  <2>4. CASE Alter(b)
    <3> DEFINE doc == [local[b] EXCEPT !.eventCount = BatchSize + 1]
    <3>1. local' = [local EXCEPT ![b] = doc]
      BY <2>4 DEF Alter
    <3>2. /\ doc.previousRoot = local[b].previousRoot
          /\ doc.currentRoot = local[b].currentRoot /\ doc.merkleRoot = local[b].merkleRoot
      BY <2>2 DEF LocalBlock
    <3> HIDE DEF doc
    <3> QED
      BY <2>3, <3>1, <3>2
  <2>5. ASSUME NEW st \in {"ACKNOWLEDGED", "DISCARDED"}, Reject(b, st) PROVE StagedChained'
    <3> DEFINE doc == [local[b] EXCEPT !.status = st]
    <3>1. local' = [local EXCEPT ![b] = doc]
      BY <2>5 DEF Reject
    <3>2. /\ doc.previousRoot = local[b].previousRoot
          /\ doc.currentRoot = local[b].currentRoot /\ doc.merkleRoot = local[b].merkleRoot
      BY <2>2 DEF LocalBlock
    <3> HIDE DEF doc
    <3> QED
      BY <2>3, <3>1, <3>2
  <2> QED
    BY <1>8, <2>4, <2>5
<1>9. CASE CascadeTurn
  <2> DEFINE d == OldestOf(cascade.blocks)
             b == d.batchId
             block == ChainedBlock(b, cascade.runningRoot, d.merkleRoot, d.eventCount)
             doc == [local[b] EXCEPT !.previousRoot = block.previousRoot,
                                     !.currentRoot = block.currentRoot,
                                     !.signature = block.signature]
  <2>1. local' = IF local[b] = NoBlock THEN local ELSE [local EXCEPT ![b] = doc]
    BY <1>9 DEF CascadeTurn
  <2>2. d \in cascade.blocks /\ b \in Batches
    <3>1. cascade.blocks \subseteq LocalBlock /\ cascade.blocks # {}
      BY <1>1, <1>9, CascadeTypes DEF CascadeState, CascadeTurn
    <3>2. d \in cascade.blocks
      BY <3>1, OldestInSet
    <3> QED
      BY <3>1, <3>2 DEF LocalBlock
  <2>3. block.currentRoot = Append(block.previousRoot, d.merkleRoot)
    BY <1>2
  <2>4. local[b].status # "NONE" => local[b].merkleRoot = d.merkleRoot
    BY <2>2 DEF RecordedInv, Recorded, CascadeFresh
  <2> HIDE DEF block, b, d
  <2>5. CASE local' = local
    BY <1>3, <2>5
  <2>6. CASE local[b] # NoBlock /\ local' = [local EXCEPT ![b] = doc]
    <3>1. local[b] \in LocalBlock /\ local[b].status # "NONE"
      BY <1>1, <2>2, <2>6
    <3>2. doc.currentRoot = Append(doc.previousRoot, doc.merkleRoot)
      BY <2>3, <2>4, <3>1 DEF LocalBlock
    <3> HIDE DEF doc
    <3> QED
      BY <1>1, <1>3, <2>6, <3>2
  <2> QED
    BY <2>1, <2>5, <2>6
<1>10. CASE local' = local
  BY <1>3, <1>10
<1> QED
  BY <1>4, <1>5, <1>6, <1>7, <1>8, <1>9, <1>10
  DEF SerialNext, serialVars, CreateMain, DeclareOutage, CycleStep, OutageFind, ResolveIncident,
      ListIncidents, MergeStep, MergeSkip, MergeRefuse, MergeFlagged, MergeVerify, MergeRead,
      MergeAppend, MergeDuplicate, MergeRecord, NetworkChange, Crash, LoseRows

\* A cascade and the worker's cycle exclude each other, and nothing writes
\* the merkle roots that a cascade has read.
LEMMA CascadeFreshStep ==
    ASSUME Overlap = FALSE, RecordedInv, [SerialNext]_serialVars
    PROVE  CascadeFresh'
<1>1. TypeOK /\ CascadeFresh
  BY DEF RecordedInv, KeepInv, Recorded
<1>2. CASE cascade.blocks = {} /\ cascade' = cascade
  BY <1>2 DEF CascadeFresh
<1>3. CASE cascade'.blocks = {}
  BY <1>3 DEF CascadeFresh
<1>4. ASSUME NEW b \in Batches, Recover(b) PROVE CascadeFresh'
  <2>1. PICK i, doc : /\ cascade'.blocks = { local[s] : s \in CascadeTargets(i, b) }
                      /\ local' = [local EXCEPT ![b] = doc]
    BY <1>4 DEF Recover
  <2>2. worker' = worker /\ worker.pc = "idle"
    BY <1>4 DEF Recover, Alone
  <2>3. \A s \in CascadeTargets(i, b) : s \in Batches /\ s # b /\ local[s].batchId = s
    BY MaxBatchesAssumption
    DEF CascadeTargets, Active, WithStatus, RecordedInv, KeepInv, Keep, BlocksNamed, ActiveStatus, Batches
  <2>4. \A s \in CascadeTargets(i, b) : local'[s] = local[s]
    BY <1>1, <2>1, <2>3 DEF TypeOK
  <2> QED
    BY <2>1, <2>2, <2>3, <2>4 DEF CascadeFresh
<1>5. CASE CascadeTurn
  <2>1. /\ worker' = worker /\ cascade'.blocks \subseteq cascade.blocks
        /\ cascade.blocks # {} /\ cascade.blocks \subseteq LocalBlock
    BY <1>1, <1>5, CascadeTypes DEF CascadeTurn, CascadeState
  <2>2. \A c \in Batches : local'[c].status = local[c].status /\ local'[c].merkleRoot = local[c].merkleRoot
    <3> DEFINE d == OldestOf(cascade.blocks)
               b == d.batchId
               block == ChainedBlock(b, cascade.runningRoot, d.merkleRoot, d.eventCount)
               doc == [local[b] EXCEPT !.previousRoot = block.previousRoot,
                                       !.currentRoot = block.currentRoot,
                                       !.signature = block.signature]
    <3>1. local' = IF local[b] = NoBlock THEN local ELSE [local EXCEPT ![b] = doc]
      BY <1>5 DEF CascadeTurn
    <3> HIDE DEF block, b, d
    <3>2. local \in [Batches -> LocalBlock \cup {NoBlock}]
      BY <1>1 DEF TypeOK
    <3>3. local[b] \in LocalBlock => doc.status = local[b].status /\ doc.merkleRoot = local[b].merkleRoot
      BY DEF LocalBlock
    <3> HIDE DEF doc
    <3> QED
      BY <3>1, <3>2, <3>3
  <2>3. \A d \in cascade.blocks : d.batchId \in Batches
    BY <2>1 DEF LocalBlock
  <2> QED
    BY <1>1, <2>1, <2>2, <2>3 DEF CascadeFresh
<1>6. CASE local' = local /\ cascade' = cascade /\ (worker' = worker \/ worker'.pc = "idle")
  BY <1>1, <1>6 DEF CascadeFresh
<1>7. CASE ~Opening /\ UNCHANGED cascade
  BY <1>1, <1>2, <1>7 DEF CascadeFresh, Opening
<1>8. CASE Crash /\ cascade' = CascadeIdle
  BY <1>3, <1>8 DEF CascadeIdle
<1>9. MergeStep => ~Opening
  BY DEF Opening, MergeStep, MergeSkip, MergeRefuse, MergeFlag, MergeFlagged, MergeVerify, MergeRead,
         MergeAppend, MergeDuplicate, MergeRecord, MergeDrop
<1>10. CASE CycleStep /\ UNCHANGED cascade
  <2>1. cascade.blocks = {}
    <3>1. CASE ListIncidents
      BY <1>1, <3>1 DEF ListIncidents, CascadeFresh
    <3>2. CASE OutageFind \/ ResolveIncident
      <4>1. MayStart
        BY <3>2 DEF OutageFind, ResolveIncident
      <4>2. AllIdle
        BY <4>1 DEF MayStart, Quiet, AllIdle
      <4> QED
        BY <4>2, IdleCascade DEF CascadeIdle
    <3> QED
      BY <1>10, <3>1, <3>2 DEF CycleStep
  <2> QED
    BY <1>2, <1>10, <2>1
<1>11. ASSUME NEW i \in Incidents, DeclareOutage(i) PROVE CascadeFresh'
  <2>1. worker' = worker \/ worker'.pc = "idle"
    BY <1>11 DEF DeclareOutage, WorkerIdle
  <2> QED
    BY <1>6, <1>11, <2>1 DEF DeclareOutage
<1>12. ASSUME NEW b \in Batches, Alter(b), UNCHANGED cascade PROVE CascadeFresh'
  <2>1. AllIdle
    BY <1>12 DEF Alter, MayStart, Quiet, AllIdle
  <2>2. cascade.blocks = {}
    BY <2>1, IdleCascade DEF CascadeIdle
  <2> QED
    BY <1>2, <1>12, <2>2
<1>13. ASSUME NEW b \in Batches, NEW st, Reject(b, st) PROVE CascadeFresh'
  BY <1>2, <1>13 DEF Reject, Alone
<1>14. CASE CreateMain \/ \E i \in Incidents : CreateLocal(i)
  BY <1>2, <1>14 DEF CreateMain, CreateLocal, Alone
<1>15. CASE \/ (NetworkChange /\ UNCHANGED cascade) \/ UNCHANGED serialVars
            \/ \E b \in Batches : LoseRows(b) /\ UNCHANGED cascade
  BY <1>6, <1>15 DEF serialVars, NetworkChange, LoseRows
<1> QED
  BY <1>4, <1>5, <1>7, <1>8, <1>9, <1>10, <1>11, <1>12, <1>13, <1>14, <1>15 DEF SerialNext

\* What was verified is read again before anything else can change it.
LEMMA VerifiedStandsStep ==
    ASSUME Overlap = FALSE, RecordedInv, [SerialNext]_serialVars
    PROVE  VerifiedStands'
<1>1. TypeOK /\ worker \in WorkerState /\ CascadeFresh /\ VerifiedStands
  BY DEF RecordedInv, KeepInv, Recorded, TypeOK, WorkerState
<1>2. \A i : NextIncident(i).pc \in {"idle", "cycle"} /\ NextIncident(i).mergedBatchIds = << >>
  BY DEF NextIncident, MergesLeft, WorkerIdle
<1>3. ASSUME worker'.pc \in {"idle", "declare", "list", "cycle"}, worker'.mergedBatchIds = << >>
      PROVE  VerifiedStands'
  BY <1>3 DEF VerifiedStands
<1>4. CASE Opening
  <2>1. \/ worker' = worker
        \/ worker'.pc \in {"idle", "declare", "list", "cycle"} /\ worker'.mergedBatchIds = << >>
    BY <1>4, WorkerOpens
  <2>2. CASE worker' = worker
    BY <1>4, <2>2 DEF VerifiedStands, Opening
  <2> QED
    BY <1>3, <2>1, <2>2
<1>5. CASE UNCHANGED << incident, local, main, worker, cascade >>
  BY <1>1, <1>5
  DEF VerifiedStands, LocalErrors, Active, WithStatus, LastLocalRoot, Before
<1>6. CASE Crash
  <2>1. worker'.pc = "idle" /\ worker'.mergedBatchIds = << >>
    BY <1>6 DEF Crash, WorkerIdle
  <2> QED
    BY <1>3, <2>1
<1>7. CASE MergeStep
  <2>1. ASSUME NEW i \in Incidents, MergeVerify(i) PROVE VerifiedStands'
    <3>1. /\ worker'.pc = "verified" /\ worker'.incidentId = i
          /\ worker'.finalRoot = LastLocalRoot(Active(i)) /\ LocalErrors(i) = {}
          /\ worker'.mergedBatchIds = << >>
      BY <1>1, <2>1 DEF MergeVerify, WorkerState, VerifiedStands
    <3>2. local' = local
      BY <2>1 DEF MergeVerify
    <3> QED
      BY <3>1, <3>2
      DEF VerifiedStands, LocalErrors, Active, WithStatus, LastLocalRoot, Before
  <2>2. ASSUME NEW i \in Incidents, MergeSkip(i) PROVE VerifiedStands'
    BY <1>2, <1>3, <2>2 DEF MergeSkip
  <2>3. CASE MergeDrop \/ MergeFlagged
    BY <1>2, <1>3, <2>3 DEF MergeDrop, MergeFlagged
  <2>7. ASSUME MergeFlag \/ \E i \in Incidents : MergeRefuse(i) PROVE VerifiedStands'
    <3>1. MergeFlag => worker'.pc = "flag"
      BY <1>1, FlagWrites
    <3>2. (\E i \in Incidents : MergeRefuse(i)) => worker'.pc = "flag"
      BY <1>1 DEF MergeRefuse, WorkerState
    <3> QED
      BY <2>7, <3>1, <3>2 DEF VerifiedStands
  <2>4. CASE MergeDuplicate
    <3>1. worker'.pc = "idle" /\ worker'.mergedBatchIds = << >>
      BY <2>4 DEF MergeDuplicate, WorkerIdle
    <3> QED
      BY <1>3, <3>1
  <2>5. CASE MergeRead
    <3>1. CASE Active(worker.incidentId) = {}
      BY <1>2, <1>3, <2>5, <3>1 DEF MergeRead
    <3>2. CASE Active(worker.incidentId) # {}
      <4>1. worker'.pc = "append"
        BY <1>1, <2>5, <3>2 DEF MergeRead, WorkerState
      <4> QED
        BY <4>1 DEF VerifiedStands
    <3> QED
      BY <3>1, <3>2
  <2>6. CASE MergeAppend \/ MergeRecord
    <3>1. worker'.pc \in {"append", "drop"}
      <4>1. MergeAppend => worker'.pc = "append"
        BY <1>1 DEF MergeAppend, WorkerState
      <4>2. MergeRecord => worker'.pc = "drop"
        BY <1>1 DEF MergeRecord, WorkerState
      <4> QED
        BY <2>6, <4>1, <4>2
    <3> QED
      BY <3>1 DEF VerifiedStands
  <2> QED
    BY <1>7, <2>1, <2>2, <2>3, <2>4, <2>5, <2>6, <2>7 DEF MergeStep
<1> QED
  BY <1>1, <1>4, <1>5, <1>6, <1>7, WorkerAlone

\* The merge appends its list one block at a time, and nothing between them.
LEMMA AppendLeadsOnStep ==
    ASSUME Overlap = FALSE, RecordedInv, [SerialNext]_serialVars
    PROVE  AppendLeadsOn'
<1>1. /\ TypeOK /\ worker \in WorkerState /\ worker.blocks \subseteq LocalBlock
      /\ CascadeFresh /\ AppendLeadsOn /\ main \in Seq(MainBlock)
      /\ worker.mergedBatchIds \in Seq(Batches)
  BY DEF RecordedInv, KeepInv, Recorded, TypeOK, WorkerState
<1>2. CASE Opening
  <2>1. worker'.pc \in {"idle", "declare", "list", "cycle"}
    BY <1>2, WorkerOpens DEF Opening
  <2> QED
    BY <2>1 DEF AppendLeadsOn
<1>3. CASE UNCHANGED << incident, local, main, worker, cascade >>
  BY <1>1, <1>3 DEF AppendLeadsOn
<1>4. CASE Crash
  <2>1. worker'.pc = "idle"
    BY <1>4 DEF Crash, WorkerIdle
  <2> QED
    BY <2>1 DEF AppendLeadsOn
<1>5. CASE MergeRead
  <2> DEFINE i == worker.incidentId
  <2>1. CASE Active(i) = {}
    <3>1. worker'.pc # "append"
      BY <1>1, <1>5, <2>1, NextIncidentHoldsNothing DEF MergeRead
    <3> QED
      BY <3>1 DEF AppendLeadsOn
  <2>2. CASE Active(i) # {}
    <3>1. /\ worker'.blocks = { local[b] : b \in Active(i) } /\ worker'.finalRoot = worker.finalRoot
          /\ worker'.mergedBatchIds = worker.mergedBatchIds /\ main' = main /\ worker.pc = "verified"
      BY <1>1, <1>5, <2>2 DEF MergeRead, WorkerState
    <3>2. worker'.mergedBatchIds = << >> /\ worker'.finalRoot = LastLocalRoot(Active(i))
      BY <3>1 DEF RecordedInv, Recorded, VerifiedStands
    <3>3. LeadsOn({ local[b] : b \in Active(i) }, << >>, LastLocalRoot(Active(i)))
      BY <3>1, VerifiedLeadsOn DEF RecordedInv, Recorded, VerifiedStands
    <3>4. Len(main) \in Nat /\ << >> \in Roots /\ Len(<< >>) = 0
      BY <1>1, EmptySeq, LenProperties DEF Roots
    <3>5. RecordIn(main, Len(main), << >>, << >>) /\ Len(main) + Len(<< >>) = Len(main)
      BY <3>4 DEF RecordIn
    <3> HIDE DEF i
    <3> QED
      BY <3>1, <3>2, <3>3, <3>4, <3>5 DEF AppendLeadsOn
  <2> QED
    BY <2>1, <2>2
<1>6. CASE MergeAppend
  <2> DEFINE d == OldestOf(worker.blocks)
             block == ChainedBlock(d.batchId, worker.mainTail, d.merkleRoot, d.eventCount)
  <2>1. /\ d \in LocalBlock /\ d \in worker.blocks
        /\ \A e \in worker.blocks : d.batchId <= e.batchId
    BY <1>1, <1>6, OldestInSet DEF MergeAppend
  <2>2. /\ block \in MainBlock /\ block.batchId = d.batchId /\ LastPart(block) = d.merkleRoot
        /\ d.merkleRoot \in Batches \X RowStates /\ d.currentRoot \in Roots
    <3> HIDE DEF d
    <3>1. /\ d.batchId \in Batches /\ d.merkleRoot \in Batches \X RowStates
          /\ d.eventCount \in Nat /\ worker.mainTail \in Roots /\ d.currentRoot \in Roots
      BY <1>1, <2>1 DEF LocalBlock, WorkerState
    <3>2. block \in MainBlock /\ block.batchId = d.batchId
      BY <3>1, ChainedBlockType
    <3>3. block.currentRoot = Append(worker.mainTail, d.merkleRoot)
      BY DEF ChainedBlock, ChainHash
    <3>4. /\ Len(Append(worker.mainTail, d.merkleRoot)) = Len(worker.mainTail) + 1
          /\ Append(worker.mainTail, d.merkleRoot)[Len(worker.mainTail) + 1] = d.merkleRoot
      BY <3>1, AppendProperties DEF Roots
    <3> QED
      BY <3>1, <3>2, <3>3, <3>4 DEF LastPart
  <2>3. main' = Append(main, block) /\ worker.pc = "append"
    BY <1>6 DEF MergeAppend
  <2>4. /\ worker'.blocks = worker.blocks \ {d} /\ worker'.finalRoot = worker.finalRoot
        /\ worker'.mergedBatchIds = Append(worker.mergedBatchIds, d.batchId)
    BY <1>1, <1>6 DEF MergeAppend, WorkerState
  <2> HIDE DEF d, block
  <2>5. PICK offset \in Nat, root \in Roots :
           /\ RecordIn(main, offset, worker.mergedBatchIds, root)
           /\ offset + Len(worker.mergedBatchIds) = Len(main)
           /\ LeadsOn(worker.blocks, root, worker.finalRoot)
    BY <1>1, <2>3 DEF AppendLeadsOn
  <2>6. /\ d.currentRoot = Append(root, d.merkleRoot)
        /\ LeadsOn(worker.blocks \ {d}, d.currentRoot, worker.finalRoot)
    BY <1>1, <2>1, <2>5, LeadsOnFromOldest
  <2>7. /\ RecordIn(Append(main, block), offset, Append(worker.mergedBatchIds, block.batchId),
                    Append(root, LastPart(block)))
        /\ offset + Len(Append(worker.mergedBatchIds, block.batchId)) = Len(Append(main, block))
    BY <1>1, <2>2, <2>5, RecordExtends
  <2>8. /\ RecordIn(main', offset, worker'.mergedBatchIds, d.currentRoot)
        /\ offset + Len(worker'.mergedBatchIds) = Len(main')
    BY <2>2, <2>3, <2>4, <2>6, <2>7
  <2>9. LeadsOn(worker'.blocks, d.currentRoot, worker'.finalRoot)
    BY <2>4, <2>6
  <2> QED
    BY <2>2, <2>5, <2>8, <2>9 DEF AppendLeadsOn
<1>7. CASE MergeStep /\ ~MergeRead /\ ~MergeAppend
  <2>1. worker'.pc # "append"
    <3>1. ASSUME NEW i \in Incidents, MergeSkip(i) PROVE worker'.pc # "append"
      BY <1>1, <3>1, NextIncidentHoldsNothing DEF MergeSkip
    <3>2. ASSUME NEW i \in Incidents, MergeVerify(i) \/ MergeRefuse(i) PROVE worker'.pc # "append"
      BY <1>1, <3>2 DEF MergeVerify, MergeRefuse, WorkerState
    <3>3. MergeDrop \/ MergeFlagged => worker'.pc # "append"
      BY <1>1, NextIncidentHoldsNothing DEF MergeDrop, MergeFlagged
    <3>6. MergeFlag => worker'.pc # "append"
      BY <1>1, FlagWrites
    <3>4. MergeDuplicate => worker'.pc # "append"
      BY DEF MergeDuplicate, WorkerIdle
    <3>5. MergeRecord => worker'.pc # "append"
      BY <1>1 DEF MergeRecord, WorkerState
    <3> QED
      BY <1>7, <3>1, <3>2, <3>3, <3>4, <3>5, <3>6 DEF MergeStep
  <2> QED
    BY <2>1 DEF AppendLeadsOn
<1> QED
  BY <1>1, <1>2, <1>3, <1>4, <1>5, <1>6, <1>7, WorkerAlone

\* A record is written when the list is done, and stands from then on.
LEMMA RecordsStandStep ==
    ASSUME RecordedInv, TypeOK', [SerialNext]_serialVars
    PROVE  RecordsStand'
<1>1. /\ TypeOK /\ main \in Seq(MainBlock) /\ incident \in [Incidents -> IncidentDoc]
      /\ worker \in WorkerState
  BY DEF RecordedInv, KeepInv, TypeOK
<1> SUFFICES ASSUME NEW i \in Incidents, incident'[i].localChainStatus = "MERGED"
             PROVE  \E offset \in Nat :
                       RecordIn(main', offset, incident'[i].mergedBatchIds,
                                incident'[i].localChainFinalRoot)
  BY DEF RecordsStand
<1>2. CASE MergeRecord /\ i = worker.incidentId
  <2>1. /\ worker.pc = "append" /\ worker.blocks = {} /\ main' = main
        /\ incident'[i].mergedBatchIds = worker.mergedBatchIds
        /\ incident'[i].localChainFinalRoot = worker.finalRoot
    BY <1>1, <1>2 DEF MergeRecord, IncidentDoc
  <2>2. PICK offset \in Nat, root \in Roots :
           /\ RecordIn(main, offset, worker.mergedBatchIds, root)
           /\ LeadsOn(worker.blocks, root, worker.finalRoot)
    BY <2>1 DEF RecordedInv, Recorded, AppendLeadsOn
  <2>3. worker.finalRoot = root
    BY <2>1, <2>2 DEF LeadsOn
  <2> QED
    BY <2>1, <2>2, <2>3
<1>3. CASE SameRecord(incident[i], incident'[i])
  <2>1. /\ incident[i].localChainStatus = "MERGED"
        /\ incident'[i].mergedBatchIds = incident[i].mergedBatchIds
        /\ incident'[i].localChainFinalRoot = incident[i].localChainFinalRoot
        /\ incident[i].mergedBatchIds \in Seq(Batches)
    BY <1>1, <1>3 DEF SameRecord, IncidentDoc
  <2>2. PICK offset \in Nat :
           RecordIn(main, offset, incident[i].mergedBatchIds, incident[i].localChainFinalRoot)
    BY <2>1 DEF RecordedInv, Recorded, RecordsStand
  <2>3. RecordIn(main', offset, incident[i].mergedBatchIds, incident[i].localChainFinalRoot)
    <3>1. CASE main' = main
      BY <2>2, <3>1
    <3>2. ASSUME NEW block \in MainBlock, main' = Append(main, block)
          PROVE  RecordIn(main', offset, incident[i].mergedBatchIds, incident[i].localChainFinalRoot)
      <4>1. RecordIn(Append(main, block), offset, incident[i].mergedBatchIds,
                     incident[i].localChainFinalRoot)
        BY <1>1, <2>1, <2>2, RecordGrows
      <4> QED
        BY <3>2, <4>1
    <3> QED
      BY <1>1, <3>1, <3>2, MainGrows
  <2> QED
    BY <2>1, <2>3
<1> QED
  BY <1>1, <1>2, <1>3, RecordComes

\* The record of every merged epoch matches MAIN, restarts included, as long
\* as handlers do not overlap: it names blocks that stand side by side there,
\* and its root commits to the merkle roots they were chained with.
THEOREM RecordsAlwaysMatchMain ==
    ASSUME Overlap = FALSE
    PROVE  Spec => []EpochRecordMatchesMain
<1>1. Init => RecordedInv
  <2> SUFFICES ASSUME Init PROVE RecordedInv
    OBVIOUS
  <2>1. KeepInv
    BY FateInit DEF FateInv
  <2>2. \A b \in Batches : local[b].status = "NONE"
    BY DEF Init, NoBlock
  <2>3. worker.pc = "idle" /\ worker.mergedBatchIds = << >> /\ cascade.blocks = {} /\ Solo
    BY SerialInit DEF Init, WorkerIdle, CascadeIdle, SerialTypeOK
  <2>4. \A i \in Incidents : incident[i].localChainStatus # "MERGED"
    BY DEF Init
  <2> QED
    BY <2>1, <2>2, <2>3, <2>4 DEF RecordedInv, Recorded, StagedChained, CascadeFresh,
                                  VerifiedStands, AppendLeadsOn, RecordsStand
<1>2. RecordedInv /\ [Next]_vars => RecordedInv'
  <2> SUFFICES ASSUME RecordedInv, [Next]_vars PROVE RecordedInv'
    OBVIOUS
  <2>1. KeepInv' /\ TypeOK' /\ Solo' /\ [SerialNext]_serialVars
    BY KeepStep, TypeStep, SerialStep DEF RecordedInv, KeepInv, SerialTypeOK
  <2> QED
    BY <2>1, StagedChainedStep, CascadeFreshStep, VerifiedStandsStep, AppendLeadsOnStep,
       RecordsStandStep DEF RecordedInv, Recorded
<1>3. RecordedInv => EpochRecordMatchesMain
  <2> SUFFICES ASSUME RecordedInv, NEW i \in Incidents, incident[i].localChainStatus = "MERGED"
               PROVE  \E offset \in 0 .. Len(main) :
                        /\ offset + Len(incident[i].mergedBatchIds) <= Len(main)
                        /\ \A k \in DOMAIN incident[i].mergedBatchIds :
                              main[offset + k].batchId = incident[i].mergedBatchIds[k]
                        /\ incident[i].localChainFinalRoot =
                              [ k \in DOMAIN incident[i].mergedBatchIds |->
                                  main[offset + k].currentRoot[Len(main[offset + k].currentRoot)] ]
    BY DEF EpochRecordMatchesMain
  <2>1. PICK offset \in Nat :
           RecordIn(main, offset, incident[i].mergedBatchIds, incident[i].localChainFinalRoot)
    BY DEF RecordedInv, Recorded, RecordsStand
  <2>2. incident[i].mergedBatchIds \in Seq(Batches) /\ Len(main) \in Nat
    BY LenProperties DEF RecordedInv, KeepInv, TypeOK, IncidentDoc
  <2>3. Len(incident[i].mergedBatchIds) \in Nat
    BY <2>2, LenProperties
  <2>4. offset \in 0 .. Len(main)
    BY <2>1, <2>2, <2>3 DEF RecordIn
  <2> QED
    BY <2>1, <2>4 DEF RecordIn, LastPart
<1> QED
  BY <1>1, <1>2, <1>3, PTL DEF Spec
-----------------------------------------------------------------------------
(* A recovered epoch verifies.  L is the staged blocks, A the active and T  *)
(* the TAMPERED ones of an epoch, R those the cascade has still to write.   *)

\* root is that of the last block of A before b.
Precedes(L, root, A, b) ==
    \/ root = GENESIS_ROOT /\ \A a \in A : ~(a < b)
    \/ \E p \in A : p < b /\ root = L[p].currentRoot /\ \A a \in A : a < b => a <= p

\* A TAMPERED block stands between b and the last active block before it.
Cut(A, T, b) == \E t \in T : t < b /\ \A a \in A : a < b => a < t

\* An active block follows the active block before it, unless it is cut off by
\* a TAMPERED one or the cascade is on its way to it.
Links(L, A, T, R) ==
    \A b \in A \ R : Cut(A, T, b) \/ Precedes(L, L[b].previousRoot, A, b)

\* The cascade has a stretch of the epoch left that ends where a TAMPERED block
\* cuts it, and root is the root before the stretch.
Covers(L, root, A, T, R) ==
    /\ R \subseteq A
    /\ \A d \in R, e \in A : d < e => e \in R \/ \E t \in T : d < t /\ t < e
    /\ \A d, e \in R, t \in T : ~(d < t /\ t < e)
    /\ \A d \in R : (\A e \in R : d <= e) => Precedes(L, root, A, d)

SameRoots(L, M, A) ==
    \A a \in A : M[a].previousRoot = L[a].previousRoot /\ M[a].currentRoot = L[a].currentRoot

LEMMA PrecedesSame ==
    ASSUME NEW L, NEW M, NEW A, NEW b, NEW root, Precedes(L, root, A, b),
           \A a \in A : a < b => M[a].currentRoot = L[a].currentRoot
    PROVE  Precedes(M, root, A, b)
BY DEF Precedes

LEMMA LinksSame ==
    ASSUME NEW L, NEW M, NEW A, NEW T, NEW R, Links(L, A, T, R), SameRoots(L, M, A)
    PROVE  Links(M, A, T, R)
<1> SUFFICES ASSUME NEW b \in A \ R, ~Cut(A, T, b) PROVE Precedes(M, M[b].previousRoot, A, b)
  BY DEF Links
<1>1. Precedes(L, L[b].previousRoot, A, b)
  BY DEF Links
<1> QED
  BY <1>1, PrecedesSame DEF SameRoots

\* A new block is behind all others, and follows the last one of any status.
LEMMA LinksCreate ==
    ASSUME NEW L, NEW M, NEW A, NEW T, A \subseteq Nat, T \subseteq Nat,
           Links(L, A, T, {}), SameRoots(L, M, A), SameRoots(L, M, T),
           NEW n \in Nat, \A a \in A \cup T : a < n,
           \/ M[n].previousRoot = GENESIS_ROOT /\ A \cup T = {}
           \/ \E p \in A \cup T : M[n].previousRoot = L[p].currentRoot /\ \A a \in A \cup T : a <= p
    PROVE  Links(M, A \cup {n}, T, {})
<1> SUFFICES ASSUME NEW b \in A \cup {n}, ~Cut(A \cup {n}, T, b)
             PROVE  Precedes(M, M[b].previousRoot, A \cup {n}, b)
  BY DEF Links
<1>1. \A a \in A \cup {n} : a < b => a \in A
  BY DEF Cut
<1>2. CASE b \in A
  <2>1. ~Cut(A, T, b)
    BY <1>1, <1>2 DEF Cut
  <2>2. Precedes(L, L[b].previousRoot, A, b)
    BY <1>2, <2>1 DEF Links
  <2>3. Precedes(M, M[b].previousRoot, A, b)
    BY <1>2, <2>2, PrecedesSame DEF SameRoots
  <2> QED
    BY <1>1, <2>3 DEF Precedes
<1>3. CASE b = n
  <2>1. CASE M[n].previousRoot = GENESIS_ROOT /\ A \cup T = {}
    <3>1. \A a \in A \cup {n} : ~(a < b)
      BY <1>1, <2>1
    <3>2. M[b].previousRoot = GENESIS_ROOT
      BY <1>3, <2>1
    <3> QED
      BY <3>1, <3>2 DEF Precedes
  <2>2. ASSUME NEW p \in A \cup T, M[n].previousRoot = L[p].currentRoot, \A a \in A \cup T : a <= p
        PROVE  Precedes(M, M[b].previousRoot, A \cup {n}, b)
    <3>1. p \in A
      <4>1. p \in T /\ p \notin A => Cut(A \cup {n}, T, b)
        <5> SUFFICES ASSUME p \in T, p \notin A PROVE Cut(A \cup {n}, T, b)
          OBVIOUS
        <5>1. \A a \in A \cup {n} : a < b => a < p
          BY <1>1, <1>3, <2>2
        <5> QED
          BY <1>3, <5>1 DEF Cut
      <4> QED
        BY <4>1
    <3>2. M[p].currentRoot = L[p].currentRoot
      BY <3>1 DEF SameRoots
    <3>3. p < b /\ M[b].previousRoot = M[p].currentRoot
      BY <1>3, <2>2, <3>1, <3>2
    <3>4. \A a \in A \cup {n} : a < b => a <= p
      BY <1>1, <2>2
    <3> QED
      BY <3>1, <3>3, <3>4 DEF Precedes
  <2> QED
    BY <2>1, <2>2
<1> QED
  BY <1>2, <1>3

\* A block that is flagged cuts the chain where it stood.
LEMMA LinksFlag ==
    ASSUME NEW L, NEW M, NEW A, NEW T, A \subseteq Nat, SameRoots(L, M, A), Links(L, A, T, {}),
           NEW f \in A
    PROVE  Links(M, A \ {f}, T \cup {f}, {})
<1> SUFFICES ASSUME NEW b \in A \ {f}, ~Cut(A \ {f}, T \cup {f}, b)
             PROVE  Precedes(M, M[b].previousRoot, A \ {f}, b)
  BY DEF Links
<1>1. ~Cut(A, T, b)
  BY DEF Cut
<1>2. Precedes(M, M[b].previousRoot, A, b)
  BY <1>1, PrecedesSame DEF SameRoots, Links
<1>3. ASSUME f < b, \A a \in A : a < b => a <= f
      PROVE  Cut(A \ {f}, T \cup {f}, b)
  <2>1. \A a \in A \ {f} : a < b => a < f
    BY <1>3
  <2> QED
    BY <1>3, <2>1 DEF Cut
<1> QED
  BY <1>2, <1>3 DEF Precedes

\* A recovered block follows the active block before it, and the cascade takes
\* what follows it up to the next cut.
LEMMA LinksRecover ==
    ASSUME NEW L, NEW M, NEW A, NEW T, A \subseteq Nat, T \subseteq Nat, A \cap T = {},
           Links(L, A, T, {}), SameRoots(L, M, A),
           NEW b \in T, Precedes(L, M[b].previousRoot, A, b),
           NEW R, R = { s \in A : s > b /\ ~\E t \in T : b < t /\ t < s }
    PROVE  Links(M, A \cup {b}, T \ {b}, R)
<1> DEFINE B == A \cup {b}
           U == T \ {b}
<1>0. B \subseteq Nat /\ U \subseteq Nat /\ b \in Nat /\ b \notin A
  OBVIOUS
<1>1. ASSUME NEW c \in B \ R, ~Cut(B, U, c)
      PROVE  Precedes(M, M[c].previousRoot, B, c)
  <2>1. CASE c = b
    <3>1. Precedes(M, M[b].previousRoot, A, b)
      BY PrecedesSame DEF SameRoots
    <3>2. \A a \in B : a < b => a \in A
      BY <1>0
    <3> QED
      BY <2>1, <3>1, <3>2 DEF Precedes
  <2>2. CASE c # b /\ c < b
    <3>1. c \in A /\ \A a \in B : a < c => a \in A
      BY <1>0, <2>2
    <3>2. ~Cut(A, T, c)
      <4> SUFFICES ASSUME NEW t \in T, t < c, \A a \in A : a < c => a < t PROVE FALSE
        BY DEF Cut
      <4>1. t \in U
        BY <1>0, <2>2
      <4> QED
        BY <1>1, <3>1, <4>1 DEF Cut
    <3>3. Precedes(M, M[c].previousRoot, A, c)
      BY <3>1, <3>2, PrecedesSame DEF Links, SameRoots
    <3> QED
      BY <3>1, <3>3 DEF Precedes
  <2>3. CASE c # b /\ b < c
    <3>1. PICK t \in T : b < t /\ t < c
      BY <2>3
    <3>2. t \in U /\ c \in A
      BY <1>0, <2>3, <3>1
    <3>3. PICK a \in A : a < c /\ ~(a < t)
      <4>1. PICK a \in B : a < c /\ ~(a < t)
        BY <1>1, <3>1, <3>2 DEF Cut
      <4> QED
        BY <3>1, <4>1
    <3>4. b < a
      BY <1>0, <3>1, <3>3
    <3>5. ~Cut(A, T, c)
      <4> SUFFICES ASSUME NEW s \in T, s < c, \A e \in A : e < c => e < s PROVE FALSE
        BY DEF Cut
      <4>1. a < s
        BY <3>3
      <4>2. s \in U /\ b < s
        BY <1>0, <3>4, <4>1
      <4>3. \A e \in B : e < c => e < s
        BY <4>2
      <4> QED
        BY <1>1, <4>2, <4>3 DEF Cut
    <3>6. Precedes(M, M[c].previousRoot, A, c)
      BY <3>2, <3>5, PrecedesSame DEF Links, SameRoots
    <3>7. PICK p \in A : /\ p < c /\ M[c].previousRoot = M[p].currentRoot
                         /\ \A e \in A : e < c => e <= p
      BY <3>3, <3>6 DEF Precedes
    <3>8. \A e \in B : e < c => e <= p
      BY <1>0, <3>3, <3>4, <3>7
    <3> QED
      BY <3>7, <3>8 DEF Precedes
  <2> QED
    BY <1>0, <2>1, <2>2, <2>3
<1> QED
  BY <1>1 DEF Links

LEMMA CoversRecover ==
    ASSUME NEW M, NEW A, NEW T, A \subseteq Nat, T \subseteq Nat, A \cap T = {}, NEW b \in T,
           NEW R, R = { s \in A : s > b /\ ~\E t \in T : b < t /\ t < s }
    PROVE  Covers(M, M[b].currentRoot, A \cup {b}, T \ {b}, R)
<1> DEFINE B == A \cup {b}
           U == T \ {b}
<1>0. B \subseteq Nat /\ U \subseteq Nat /\ b \in Nat /\ b \notin A
  OBVIOUS
<1>1. ASSUME NEW d \in R, NEW e \in B, d < e PROVE e \in R \/ \E t \in U : d < t /\ t < e
  <2>1. e \in A /\ b < e
    BY <1>0, <1>1
  <2>2. CASE \E t \in T : b < t /\ t < e
    <3>1. PICK t \in T : b < t /\ t < e
      BY <2>2
    <3>2. ~(t < d) /\ t # d
      BY <3>1
    <3> QED
      BY <1>0, <3>1, <3>2
  <2> QED
    BY <2>1, <2>2
<1>2. ASSUME NEW d \in R, NEW e \in R, NEW t \in U PROVE ~(d < t /\ t < e)
  <2>1. b < d /\ d \in Nat /\ t \in Nat
    BY <1>0
  <2> QED
    BY <1>0, <2>1
<1>3. ASSUME NEW d \in R, \A e \in R : d <= e PROVE Precedes(M, M[b].currentRoot, B, d)
  <2>1. \A a \in B : a < d => a <= b
    <3> SUFFICES ASSUME NEW a \in A, a < d, b < a PROVE FALSE
      BY <1>0
    <3>1. \A t \in T : ~(b < t /\ t < a)
      BY <1>0
    <3>2. a \in R
      BY <1>0, <3>1
    <3> QED
      BY <1>3, <3>2
  <2> QED
    BY <1>0, <2>1 DEF Precedes
<1> QED
  BY <1>1, <1>2, <1>3 DEF Covers

\* A re-chained block follows the root that runs, and its own root runs on.
LEMMA LinksRechain ==
    ASSUME NEW L, NEW M, NEW A, NEW T, NEW R, NEW root, A \subseteq Nat, T \subseteq Nat,
           A \cap T = {}, Links(L, A, T, R), Covers(L, root, A, T, R),
           NEW d \in R, \A e \in R : d <= e,
           SameRoots(L, M, A \ {d}), M[d].previousRoot = root
    PROVE  Links(M, A, T, R \ {d})
<1>0. R \subseteq A /\ d \in A /\ d \in Nat
  BY DEF Covers
<1>1. ASSUME NEW c \in A \ (R \ {d}), ~Cut(A, T, c)
      PROVE  Precedes(M, M[c].previousRoot, A, c)
  <2>1. CASE c = d
    <3>1. Precedes(L, root, A, d)
      BY DEF Covers
    <3>2. \A a \in A : a < d => M[a].currentRoot = L[a].currentRoot
      BY <1>0 DEF SameRoots
    <3> QED
      BY <2>1, <3>1, <3>2, PrecedesSame
  <2>2. CASE c # d
    <3>1. Precedes(L, M[c].previousRoot, A, c)
      BY <1>1, <2>2 DEF Links, SameRoots
    <3>2. CASE M[c].previousRoot = GENESIS_ROOT /\ \A a \in A : ~(a < c)
      BY <3>2 DEF Precedes
    <3>3. ASSUME NEW p \in A, p < c, M[c].previousRoot = L[p].currentRoot,
                 \A a \in A : a < c => a <= p
          PROVE  Precedes(M, M[c].previousRoot, A, c)
      <4>1. p # d
        <5> SUFFICES ASSUME p = d PROVE FALSE
          OBVIOUS
        <5>1. PICK t \in T : d < t /\ t < c
          BY <1>1, <2>2, <3>3 DEF Covers
        <5>2. \A a \in A : a < c => a < t
          BY <1>0, <3>3, <5>1
        <5> QED
          BY <1>1, <5>1, <5>2 DEF Cut
      <4>2. M[p].currentRoot = L[p].currentRoot
        BY <4>1 DEF SameRoots
      <4> QED
        BY <3>3, <4>2 DEF Precedes
    <3> QED
      BY <3>1, <3>2, <3>3 DEF Precedes
  <2> QED
    BY <2>1, <2>2
<1> QED
  BY <1>1 DEF Links

LEMMA CoversRechain ==
    ASSUME NEW L, NEW M, NEW A, NEW T, NEW R, NEW root, A \subseteq Nat, T \subseteq Nat,
           A \cap T = {}, Covers(L, root, A, T, R),
           NEW d \in R, \A e \in R : d <= e
    PROVE  Covers(M, M[d].currentRoot, A, T, R \ {d})
<1>0. R \subseteq A /\ d \in A /\ d \in Nat
  BY DEF Covers
<1>1. ASSUME NEW m \in R \ {d}, \A e \in R \ {d} : m <= e
      PROVE  Precedes(M, M[d].currentRoot, A, m)
  <2>1. d < m /\ m \in Nat
    BY <1>0
  <2>2. \A a \in A : a < m => a <= d
    <3> SUFFICES ASSUME NEW a \in A, a < m, d < a PROVE FALSE
      BY <1>0
    <3>1. \A t \in T : ~(d < t /\ t < a)
      <4> SUFFICES ASSUME NEW t \in T, d < t, t < a PROVE FALSE
        OBVIOUS
      <4>1. t < m /\ m \in R
        BY <1>0, <2>1
      <4> QED
        BY <4>1 DEF Covers
    <3>2. a \in R \ {d}
      BY <1>0, <3>1 DEF Covers
    <3> QED
      BY <1>0, <1>1, <2>1, <3>2
  <2> QED
    BY <1>0, <2>1, <2>2 DEF Precedes
<1>2. \A c \in R \ {d}, e \in A : c < e => e \in R \ {d} \/ \E t \in T : c < t /\ t < e
  <2> SUFFICES ASSUME NEW c \in R \ {d}, NEW e \in A, c < e
               PROVE  e \in R \ {d} \/ \E t \in T : c < t /\ t < e
    OBVIOUS
  <2>1. e # d
    BY <1>0
  <2> QED
    BY <2>1 DEF Covers
<1> QED
  BY <1>0, <1>1, <1>2 DEF Covers

\* The numbers of the blocks that the cascade has still to write.
Remaining == { d.batchId : d \in cascade.blocks }

\* No verdict was given in the epoch.
NoVerdict(i) == \A b \in Batches : ~InEpoch(b, i, {"DISCARDED", "ACKNOWLEDGED"})

\* The cascade runs while the worker is idle, over blocks that are as it read them.
CascadeCurrent ==
    /\ worker.pc # "idle" => cascade.blocks = {}
    /\ \A d \in cascade.blocks : d.batchId \in Batches /\ d = local[d.batchId]

CascadeCovers ==
    cascade.blocks # {} =>
        \E i \in Incidents :
            Covers(local, cascade.runningRoot, Active(i), Tampered(i), Remaining)

SignedUnlessAltered ==
    \A b \in Batches : local[b].status \in ActiveStatus /\ local[b].eventCount = BatchSize
        => SignatureOk(local[b])

EpochsLinked ==
    \A i \in Incidents : NoVerdict(i) => Links(local, Active(i), Tampered(i), Remaining)

Repaired == CascadeCurrent /\ CascadeCovers /\ SignedUnlessAltered /\ EpochsLinked

RepairInv == FateInv /\ Solo /\ Repaired

\* The previous root that /create, recover and verifyLocalChain compute.
LEMMA PrecedesLast ==
    ASSUME NEW A, A \subseteq Batches, NEW b \in Batches, NEW root
    PROVE  Precedes(local, root, A, b) <=> root = LastLocalRoot(Before(A, b))
<1>1. Batches \subseteq Nat
  BY MaxBatchesAssumption DEF Batches
<1>2. Before(A, b) \subseteq A /\ \A a \in A : a \in Before(A, b) <=> a < b
  BY DEF Before
<1>3. CASE Before(A, b) = {}
  BY <1>2, <1>3 DEF Precedes, LastLocalRoot
<1>4. CASE Before(A, b) # {}
  <2>1. PICK last : last = Latest(Before(A, b))
    OBVIOUS
  <2>2. last \in Before(A, b) /\ \A a \in Before(A, b) : a <= last
    BY <1>2, <1>4, <2>1, LatestInSet
  <2>3. last \in A /\ last < b /\ \A a \in A : a < b => a <= last
    BY <1>2, <2>2
  <2>4. LastLocalRoot(Before(A, b)) = local[last].currentRoot
    BY <1>4, <2>1 DEF LastLocalRoot
  <2>5. \A p \in A : p < b /\ (\A a \in A : a < b => a <= p) => p = last
    BY <1>1, <2>3
  <2>6. ~\A a \in A : ~(a < b)
    BY <2>3
  <2>7. Precedes(local, root, A, b) => root = local[last].currentRoot
    BY <2>5, <2>6 DEF Precedes
  <2>8. root = local[last].currentRoot => Precedes(local, root, A, b)
    BY <2>3 DEF Precedes
  <2> QED
    BY <2>4, <2>7, <2>8
<1> QED
  BY <1>3, <1>4

LEMMA EpochTypes ==
    ASSUME NEW i
    PROVE  /\ Active(i) \subseteq Batches /\ Tampered(i) \subseteq Batches
           /\ Active(i) \cap Tampered(i) = {} /\ Batches \subseteq Nat
BY MaxBatchesAssumption DEF Active, Tampered, WithStatus, ActiveStatus, Batches

\* An epoch that no step has touched.
LEMMA EpochStays ==
    ASSUME NEW i,
           \A b \in Batches :
              Kept(b) \/ (~InEpoch(b, i, LocalStatus) /\ ~InEpoch(b, i, LocalStatus)')
    PROVE  /\ Active(i)' = Active(i) /\ Tampered(i)' = Tampered(i)
           /\ NoVerdict(i)' <=> NoVerdict(i)
<1>1. \A b \in Batches : \A S \in SUBSET LocalStatus : InEpoch(b, i, S)' <=> InEpoch(b, i, S)
  BY DEF Kept, InEpoch
<1>2. /\ ActiveStatus \in SUBSET LocalStatus /\ {"TAMPERED"} \in SUBSET LocalStatus
      /\ {"DISCARDED", "ACKNOWLEDGED"} \in SUBSET LocalStatus
  BY DEF LocalStatus
<1>3. \A S : WithStatus(i, S) = { b \in Batches : InEpoch(b, i, S) }
  BY DEF WithStatus, InEpoch
<1>4. Active(i)' = { b \in Batches : InEpoch(b, i, ActiveStatus)' }
  BY DEF Active, WithStatus, InEpoch
<1>5. Tampered(i)' = { b \in Batches : InEpoch(b, i, {"TAMPERED"})' }
  BY DEF Tampered, WithStatus, InEpoch
<1>6. Active(i)' = Active(i)
  BY <1>1, <1>2, <1>3, <1>4 DEF Active
<1>7. Tampered(i)' = Tampered(i)
  BY <1>1, <1>2, <1>3, <1>5 DEF Tampered
<1> QED
  BY <1>1, <1>2, <1>6, <1>7 DEF NoVerdict

\* Steps that leave the staged blocks and the cascade.
LEMMA RepairedQuietly ==
    ASSUME Repaired, local' = local,
           cascade' = cascade \/ (cascade.blocks = {} /\ cascade'.blocks = {}),
           worker'.pc = "idle" \/ worker' = worker \/ cascade.blocks = {}
    PROVE  Repaired'
<1>1. /\ \A i : Active(i)' = Active(i) /\ Tampered(i)' = Tampered(i) /\ (NoVerdict(i)' <=> NoVerdict(i))
      /\ Remaining' = Remaining
  BY DEF Active, Tampered, WithStatus, NoVerdict, InEpoch, Remaining
<1>2. CascadeCurrent'
  BY DEF Repaired, CascadeCurrent
<1>3. CascadeCovers'
  BY <1>1 DEF Repaired, CascadeCovers
<1>4. SignedUnlessAltered'
  BY DEF Repaired, SignedUnlessAltered
<1>5. EpochsLinked'
  BY <1>1 DEF Repaired, EpochsLinked
<1> QED
  BY <1>2, <1>3, <1>4, <1>5 DEF Repaired

\* Steps between cascades: the epochs are linked again, and what is active and
\* as created is signed.
LEMMA RepairedAtRest ==
    ASSUME cascade.blocks = {}, cascade' = cascade, SignedUnlessAltered',
           \A i \in Incidents : NoVerdict(i)' => Links(local', Active(i)', Tampered(i)', {})
    PROVE  Repaired'
<1>1. Remaining' = {} /\ cascade'.blocks = {}
  BY DEF Remaining
<1>2. CascadeCurrent' /\ CascadeCovers'
  BY <1>1 DEF CascadeCurrent, CascadeCovers
<1>3. EpochsLinked'
  BY <1>1 DEF EpochsLinked
<1> QED
  BY <1>2, <1>3 DEF Repaired

LEMMA LinkedAtRest ==
    ASSUME Repaired, cascade.blocks = {}, NEW i \in Incidents, NoVerdict(i)
    PROVE  Links(local, Active(i), Tampered(i), {})
<1>1. Remaining = {}
  BY DEF Remaining
<1> QED
  BY <1>1 DEF Repaired, EpochsLinked

\* An epoch that a step between cascades has not touched is linked as before.
LEMMA LinkedStays ==
    ASSUME Repaired, cascade.blocks = {}, NEW i \in Incidents,
           \A b \in Batches :
              Kept(b) \/ (~InEpoch(b, i, LocalStatus) /\ ~InEpoch(b, i, LocalStatus)'),
           SameRoots(local, local', Active(i)), NoVerdict(i)'
    PROVE  Links(local', Active(i)', Tampered(i)', {})
<1>1. Active(i)' = Active(i) /\ Tampered(i)' = Tampered(i) /\ NoVerdict(i)
  BY EpochStays
<1>2. Links(local, Active(i), Tampered(i), {})
  BY <1>1, LinkedAtRest
<1>3. Links(local', Active(i), Tampered(i), {})
  BY <1>2, LinksSame
<1> QED
  BY <1>1, <1>3

\* /create follows the last block of the epoch, of whatever status.
LEMMA RepairedCreate ==
    ASSUME RepairInv, NEW i \in Incidents, CreateLocal(i)
    PROVE  Repaired'
<1> DEFINE n == nextBatch
           whole == WithStatus(i, LocalStatus)
           block == ChainedBlock(n, LastLocalRoot(whole), MerkleRoot(n, "PENDING"), BatchSize)
<1>1. /\ TypeOK /\ Repaired /\ cascade.blocks = {} /\ cascade' = cascade
      /\ n \in Batches /\ n \in Nat
  BY MaxBatchesAssumption
  DEF RepairInv, FateInv, KeepInv, CreateLocal, Alone, NextBatchStored, Batches
<1>2. local \in [Batches -> LocalBlock \cup {NoBlock}]
  BY <1>1 DEF TypeOK
<1>3. \A b \in Batches : local[b].status # "NONE" => b < n
  BY DEF RepairInv, FateInv, Fates, Numbered
<1>4. local' = [local EXCEPT ![n] =
          [ batchId |-> n, incidentId |-> i, previousRoot |-> block.previousRoot,
            currentRoot |-> block.currentRoot, eventCount |-> block.eventCount,
            signature |-> block.signature, merkleRoot |-> MerkleRoot(n, "PENDING"),
            status |-> "PENDING_VERIFICATION" ]]
  BY DEF CreateLocal, StagedBlock
<1>5. /\ block.previousRoot = LastLocalRoot(whole) /\ block.eventCount = BatchSize
      /\ block.signature = SignablePayload(n, block.previousRoot, block.currentRoot, BatchSize)
  BY DEF ChainedBlock
<1> HIDE DEF block
<1>6. /\ local'[n].batchId = n /\ local'[n].incidentId = i
      /\ local'[n].previousRoot = LastLocalRoot(whole)
      /\ local'[n].status = "PENDING_VERIFICATION" /\ SignatureOk(local'[n])
      /\ \A b \in Batches \ {n} : local'[b] = local[b]
  BY <1>1, <1>2, <1>4, <1>5 DEF SignatureOk
<1>7. local[n].status = "NONE"
  <2>1. ~(n < n)
    BY <1>1
  <2> QED
    BY <1>1, <1>3, <2>1
<1>8. \A j : n \notin Active(j) /\ n \notin Tampered(j) /\ n \notin whole /\ ~InEpoch(n, j, LocalStatus)
  BY <1>7 DEF Active, Tampered, WithStatus, ActiveStatus, LocalStatus, InEpoch
<1>9. \A j : SameRoots(local, local', Active(j)) /\ SameRoots(local, local', Tampered(j))
  BY <1>6, <1>8, EpochTypes DEF SameRoots
<1>10. SignedUnlessAltered'
  BY <1>1, <1>6 DEF Repaired, SignedUnlessAltered
<1>11. ASSUME NEW j \in Incidents, j # i, NoVerdict(j)'
       PROVE  Links(local', Active(j)', Tampered(j)', {})
  <2>1. \A b \in Batches :
           Kept(b) \/ (~InEpoch(b, j, LocalStatus) /\ ~InEpoch(b, j, LocalStatus)')
    BY <1>6, <1>8, <1>11 DEF Kept, InEpoch
  <2> QED
    BY <1>1, <1>9, <1>11, <2>1, LinkedStays
<1>12. ASSUME NoVerdict(i)'
       PROVE  Links(local', Active(i)', Tampered(i)', {})
  <2> DEFINE A == Active(i)
             T == Tampered(i)
  <2>1. NoVerdict(i)
    BY <1>6, <1>7, <1>12 DEF NoVerdict, InEpoch
  <2>2. Active(i)' = A \cup {n} /\ Tampered(i)' = T
    BY <1>1, <1>6, <1>7 DEF Active, Tampered, WithStatus, ActiveStatus
  <2>3. whole = A \cup T
    BY <2>1 DEF NoVerdict, InEpoch, Active, Tampered, WithStatus, LocalStatus, ActiveStatus
  <2>4. A \subseteq Nat /\ T \subseteq Nat /\ \A a \in A \cup T : a < n
    BY <1>3, EpochTypes DEF Active, Tampered, WithStatus, ActiveStatus
  <2>5. \/ local'[n].previousRoot = GENESIS_ROOT /\ A \cup T = {}
        \/ \E p \in A \cup T :
              local'[n].previousRoot = local[p].currentRoot /\ \A a \in A \cup T : a <= p
    <3>1. CASE whole = {}
      BY <1>6, <2>3, <3>1 DEF LastLocalRoot
    <3>2. CASE whole # {}
      <4>1. Latest(whole) \in whole /\ \A a \in whole : a <= Latest(whole)
        <5>1. whole \subseteq Batches
          BY DEF WithStatus
        <5> QED
          BY <3>2, <5>1, LatestInSet
      <4> QED
        BY <1>6, <2>3, <3>2, <4>1 DEF LastLocalRoot
    <3> QED
      BY <3>1, <3>2
  <2>6. Links(local, A, T, {})
    BY <1>1, <2>1, LinkedAtRest
  <2>7. SameRoots(local, local', A) /\ SameRoots(local, local', T)
    BY <1>9
  <2>8. n \in Nat
    BY <1>1
  <2> HIDE DEF A, T, n
  <2>9. Links(local', A \cup {n}, T, {})
    BY <2>4, <2>5, <2>6, <2>7, <2>8, LinksCreate
  <2> QED
    BY <2>2, <2>9
<1> QED
  BY <1>1, <1>10, <1>11, <1>12, RepairedAtRest

\* A flag cuts the epoch at the block it is written on.
LEMMA RepairedFlag ==
    ASSUME RepairInv, FlagsStand, MergeFlag, UNCHANGED cascade
    PROVE  Repaired'
<1>1. /\ TypeOK /\ Repaired /\ cascade.blocks = {} /\ cascade' = cascade /\ worker.pc = "flag"
      /\ local \in [Batches -> LocalBlock \cup {NoBlock}]
  BY DEF RepairInv, FateInv, KeepInv, TypeOK, MergeFlag, Repaired, CascadeCurrent
<1>2. PICK e \in worker.errors :
         /\ e \in Errors
         /\ \A b \in Batches \ {e[1]} : local'[b] = local[b]
         /\ \/ local[e[1]] = NoBlock /\ local'[e[1]] = NoBlock
            \/ /\ local[e[1]] \in LocalBlock
               /\ local'[e[1]] = [local[e[1]] EXCEPT !.status = "TAMPERED"]
  BY <1>1, FlagWrites
<1>3. PICK f, i : f = e[1] /\ i = worker.incidentId
  OBVIOUS
<1>4. f \in Batches /\ InEpoch(f, i, ActiveStatus \cup {"TAMPERED"})
  BY <1>1, <1>2, <1>3 DEF FlagsStand, Errors
<1>5. local[f] \in LocalBlock /\ local'[f] = [local[f] EXCEPT !.status = "TAMPERED"]
  BY <1>2, <1>3, <1>4 DEF InEpoch, NoBlock, ActiveStatus
<1>6. /\ local'[f].status = "TAMPERED" /\ local'[f].incidentId = local[f].incidentId
      /\ local'[f].batchId = local[f].batchId
      /\ local'[f].previousRoot = local[f].previousRoot
      /\ local'[f].currentRoot = local[f].currentRoot
      /\ \A b \in Batches \ {f} : local'[b] = local[b]
  BY <1>2, <1>3, <1>5 DEF LocalBlock
<1>7. \A j : SameRoots(local, local', Active(j))
  BY <1>6, EpochTypes DEF SameRoots
<1>8. SignedUnlessAltered'
  BY <1>1, <1>4, <1>6 DEF Repaired, SignedUnlessAltered, ActiveStatus
<1>9. ASSUME NEW j \in Incidents, NoVerdict(j)', j # i \/ local[f].status = "TAMPERED"
      PROVE  Links(local', Active(j)', Tampered(j)', {})
  <2>1. \A b \in Batches :
           Kept(b) \/ (~InEpoch(b, j, LocalStatus) /\ ~InEpoch(b, j, LocalStatus)')
    <3>1. \A b \in Batches \ {f} : Kept(b)
      BY <1>6 DEF Kept
    <3>2. j # i => ~InEpoch(f, j, LocalStatus) /\ ~InEpoch(f, j, LocalStatus)'
      BY <1>4, <1>6 DEF InEpoch
    <3>3. local[f].status = "TAMPERED" => Kept(f)
      BY <1>6 DEF Kept
    <3> QED
      BY <1>9, <3>1, <3>2, <3>3
  <2> QED
    BY <1>1, <1>7, <1>9, <2>1, LinkedStays
<1>10. ASSUME i \in Incidents, NoVerdict(i)', local[f].status \in ActiveStatus
       PROVE  Links(local', Active(i)', Tampered(i)', {})
  <2>1. f \in Active(i) /\ Active(i)' = Active(i) \ {f} /\ Tampered(i)' = Tampered(i) \cup {f}
    <3>1. f \in Active(i) /\ local[f].incidentId = i
      BY <1>4, <1>10 DEF Active, WithStatus, InEpoch
    <3>2. Active(i)' = Active(i) \ {f}
      BY <1>4, <1>6 DEF Active, WithStatus, ActiveStatus
    <3>3. Tampered(i)' = Tampered(i) \cup {f}
      BY <1>4, <1>6, <3>1 DEF Tampered, WithStatus
    <3> QED
      BY <3>1, <3>2, <3>3
  <2>2. NoVerdict(i)
    BY <1>4, <1>6, <1>10 DEF NoVerdict, InEpoch, ActiveStatus
  <2>3. Links(local, Active(i), Tampered(i), {})
    BY <1>1, <1>10, <2>2, LinkedAtRest
  <2>4. Active(i) \subseteq Nat
    BY EpochTypes
  <2>5. Links(local', Active(i) \ {f}, Tampered(i) \cup {f}, {})
    BY <1>7, <2>1, <2>3, <2>4, LinksFlag
  <2> QED
    BY <2>1, <2>5
<1>11. \A j \in Incidents : NoVerdict(j)' => Links(local', Active(j)', Tampered(j)', {})
  BY <1>4, <1>9, <1>10 DEF InEpoch
<1> QED
  BY <1>1, <1>8, <1>11, RepairedAtRest

\* deleteMany empties the epoch.
LEMMA RepairedDrop ==
    ASSUME RepairInv, MergeDrop, UNCHANGED cascade
    PROVE  Repaired'
<1>0. PICK i : i = worker.incidentId
  OBVIOUS
<1>1. Repaired /\ cascade.blocks = {} /\ cascade' = cascade
  BY DEF RepairInv, MergeDrop, Repaired, CascadeCurrent
<1>2. local' = [b \in Batches |-> IF b \in WithStatus(i, LocalStatus) THEN NoBlock ELSE local[b]]
  BY <1>0 DEF MergeDrop
<1>3. \A b \in Batches : IF InEpoch(b, i, LocalStatus) THEN local'[b].status = "NONE" ELSE local'[b] = local[b]
  BY <1>2 DEF WithStatus, InEpoch, NoBlock
<1>4. SignedUnlessAltered'
  BY <1>1, <1>3 DEF Repaired, SignedUnlessAltered, ActiveStatus
<1>5. ASSUME NEW j \in Incidents, j # i, NoVerdict(j)'
      PROVE  Links(local', Active(j)', Tampered(j)', {})
  <2>1. \A b \in Batches :
           Kept(b) \/ (~InEpoch(b, j, LocalStatus) /\ ~InEpoch(b, j, LocalStatus)')
    BY <1>3, <1>5 DEF Kept, InEpoch, LocalStatus, ActiveStatus
  <2>2. SameRoots(local, local', Active(j))
    BY <1>3, <1>5 DEF SameRoots, InEpoch, Active, WithStatus
  <2> QED
    BY <1>1, <1>5, <2>1, <2>2, LinkedStays
<1>6. Links(local', Active(i)', Tampered(i)', {})
  <2>1. Active(i)' = {}
    <3>1. ASSUME NEW b \in Batches PROVE ~(local'[b].status \in ActiveStatus /\ local'[b].incidentId = i)
      BY <1>3 DEF InEpoch, ActiveStatus, LocalStatus
    <3> QED
      BY <3>1 DEF Active, WithStatus
  <2> QED
    BY <2>1 DEF Links
<1> QED
  BY <1>1, <1>4, <1>5, <1>6, RepairedAtRest

\* A recovered block is linked and signed, and the cascade has what it follows.
LEMMA RepairedRecover ==
    ASSUME RepairInv, NEW b \in Batches, Recover(b)
    PROVE  Repaired'
<1>1. /\ TypeOK /\ Repaired /\ cascade.blocks = {} /\ worker.pc = "idle" /\ worker' = worker
      /\ local[b].status = "TAMPERED"
  BY DEF RepairInv, FateInv, KeepInv, Recover, Alone
<1>2. local \in [Batches -> LocalBlock \cup {NoBlock}]
  BY <1>1 DEF TypeOK
<1>3. local[b] \in LocalBlock
  BY <1>1, <1>2 DEF NoBlock
<1>4. local[b].batchId = b
  BY <1>1 DEF RepairInv, FateInv, KeepInv, Keep, BlocksNamed
<1>5. PICK i \in Incidents : i = local[b].incidentId
  BY <1>3 DEF LocalBlock
<1>6. PICK root, block, R, doc :
        /\ root = LastLocalRoot(ActiveBefore(i, b))
        /\ block = ChainedBlock(b, root, MerkleRoot(b, "BATCHED"), BatchSize)
        /\ R = CascadeTargets(i, b)
        /\ doc = [local[b] EXCEPT !.previousRoot = block.previousRoot,
                                  !.currentRoot = block.currentRoot,
                                  !.merkleRoot = MerkleRoot(b, "BATCHED"),
                                  !.eventCount = block.eventCount,
                                  !.signature = block.signature,
                                  !.status = "PENDING_VERIFICATION"]
  OBVIOUS
<1>61. /\ block.previousRoot = root /\ block.currentRoot = ChainHash(root, MerkleRoot(b, "BATCHED"))
       /\ block.signature = SignablePayload(b, block.previousRoot, block.currentRoot, block.eventCount)
  BY <1>6 DEF ChainedBlock
<1>62. Rebuilt(b, root, BatchSize) = doc
  BY <1>6 DEF Rebuilt
<1>63. /\ local' = [local EXCEPT ![b] = doc]
       /\ cascade' = [ blocks |-> { local[s] : s \in R },
                       runningRoot |-> IF R = {} THEN << >> ELSE block.currentRoot ]
  BY <1>5, <1>6, <1>61, <1>62 DEF Recover
<1>7. /\ doc.previousRoot = block.previousRoot /\ doc.currentRoot = block.currentRoot
      /\ doc.incidentId = i /\ doc.status = "PENDING_VERIFICATION" /\ SignatureOk(doc)
  BY <1>3, <1>4, <1>5, <1>6, <1>61 DEF LocalBlock, SignatureOk
<1>8. /\ local'[b] = doc /\ \A c \in Batches \ {b} : local'[c] = local[c]
  BY <1>2, <1>63
<1>9. SignedUnlessAltered'
  BY <1>1, <1>7, <1>8 DEF Repaired, SignedUnlessAltered
<1>10. /\ R = { s \in Active(i) : s > b /\ ~\E t \in Tampered(i) : b < t /\ t < s }
       /\ b \notin R
  BY <1>6, EpochTypes DEF CascadeTargets
<1>11. \A s \in R : s \in Batches /\ local[s].batchId = s /\ local'[s] = local[s]
  <2>1. \A s \in R : s \in Batches /\ s # b /\ local[s].status # "NONE"
    BY <1>10 DEF Active, WithStatus, ActiveStatus
  <2> QED
    BY <1>8, <2>1 DEF RepairInv, FateInv, KeepInv, Keep, BlocksNamed
<1>12. Remaining' = R
  <2>1. Remaining' = { d.batchId : d \in { local[s] : s \in R } }
    BY <1>63 DEF Remaining
  <2> QED
    BY <1>11, <2>1
<1>13. CascadeCurrent'
  <2>1. \A d \in cascade'.blocks : \E s \in R : d = local[s]
    BY <1>63
  <2>2. \A d \in cascade'.blocks : d.batchId \in Batches /\ d = local'[d.batchId]
    BY <1>11, <2>1
  <2> QED
    BY <1>1, <2>2 DEF CascadeCurrent
<1>14. \A j : SameRoots(local, local', Active(j))
  <2>1. \A j : b \notin Active(j)
    BY <1>1 DEF Active, WithStatus, ActiveStatus
  <2> QED
    BY <1>8, <2>1, EpochTypes DEF SameRoots
<1>15. /\ Active(i)' = Active(i) \cup {b} /\ Tampered(i)' = Tampered(i) \ {b}
       /\ b \in Tampered(i) /\ (NoVerdict(i)' => NoVerdict(i))
  <2>1. Active(i)' = Active(i) \cup {b}
    BY <1>1, <1>5, <1>7, <1>8 DEF Active, WithStatus, ActiveStatus
  <2>2. Tampered(i)' = Tampered(i) \ {b} /\ b \in Tampered(i)
    BY <1>1, <1>5, <1>7, <1>8 DEF Tampered, WithStatus
  <2>3. NoVerdict(i)' => NoVerdict(i)
    BY <1>1, <1>8 DEF NoVerdict, InEpoch
  <2> QED
    BY <2>1, <2>2, <2>3
<1>16. Precedes(local, local'[b].previousRoot, Active(i), b)
  BY <1>6, <1>61, <1>7, <1>8, EpochTypes, PrecedesLast DEF ActiveBefore
<1>17. /\ Covers(local', local'[b].currentRoot, Active(i)', Tampered(i)', R)
       /\ NoVerdict(i)' => Links(local', Active(i)', Tampered(i)', R)
  <2> DEFINE A == Active(i)
             T == Tampered(i)
  <2>1. A \subseteq Nat /\ T \subseteq Nat /\ A \cap T = {} /\ b \in T
    BY <1>15, EpochTypes
  <2>2. SameRoots(local, local', A)
    BY <1>14
  <2>3. NoVerdict(i)' => Links(local, A, T, {})
    BY <1>1, <1>15, LinkedAtRest
  <2> HIDE DEF A, T
  <2>4. R = { s \in A : s > b /\ ~\E t \in T : b < t /\ t < s }
    BY <1>10 DEF A, T
  <2>5. Precedes(local, local'[b].previousRoot, A, b)
    BY <1>16 DEF A
  <2>6. Covers(local', local'[b].currentRoot, A \cup {b}, T \ {b}, R)
    BY <2>1, <2>4, CoversRecover
  <2>7. NoVerdict(i)' => Links(local', A \cup {b}, T \ {b}, R)
    BY <2>1, <2>2, <2>3, <2>4, <2>5, LinksRecover
  <2> QED
    BY <1>15, <2>6, <2>7 DEF A, T
<1>18. CascadeCovers'
  <2>1. cascade'.blocks # {} => R # {}
    BY <1>63
  <2>2. cascade'.blocks # {} => cascade'.runningRoot = local'[b].currentRoot
    BY <1>63, <1>7, <1>8, <2>1
  <2> QED
    BY <1>12, <1>17, <2>2 DEF CascadeCovers
<1>19. ASSUME NEW j \in Incidents, j # i, NoVerdict(j)'
       PROVE  Links(local', Active(j)', Tampered(j)', Remaining')
  <2>1. \A c \in Batches :
           Kept(c) \/ (~InEpoch(c, j, LocalStatus) /\ ~InEpoch(c, j, LocalStatus)')
    BY <1>5, <1>7, <1>8, <1>19 DEF Kept, InEpoch
  <2>2. Links(local', Active(j)', Tampered(j)', {})
    BY <1>1, <1>14, <1>19, <2>1, LinkedStays
  <2> QED
    BY <2>2 DEF Links
<1>20. EpochsLinked'
  BY <1>12, <1>17, <1>19 DEF EpochsLinked
<1> QED
  BY <1>9, <1>13, <1>18, <1>20 DEF Repaired

\* A verdict ends the claim about its epoch.
LEMMA RepairedReject ==
    ASSUME RepairInv, NEW b \in Batches,
           NEW st \in {"ACKNOWLEDGED", "DISCARDED"}, Reject(b, st)
    PROVE  Repaired'
<1>1. /\ TypeOK /\ Repaired /\ cascade.blocks = {} /\ cascade' = cascade
      /\ local[b].status = "TAMPERED"
      /\ local' = [local EXCEPT ![b] = [@ EXCEPT !.status = st]]
  BY DEF RepairInv, FateInv, KeepInv, Reject, Alone
<1>2. local \in [Batches -> LocalBlock \cup {NoBlock}] /\ local[b] \in LocalBlock
  BY <1>1 DEF TypeOK, NoBlock
<1>3. /\ local'[b].status = st /\ local'[b].incidentId = local[b].incidentId
      /\ \A c \in Batches \ {b} : local'[c] = local[c]
  BY <1>1, <1>2 DEF LocalBlock
<1>4. SignedUnlessAltered'
  BY <1>1, <1>3 DEF Repaired, SignedUnlessAltered, ActiveStatus
<1>5. ASSUME NEW j \in Incidents, NoVerdict(j)'
      PROVE  Links(local', Active(j)', Tampered(j)', {})
  <2>1. j # local[b].incidentId
    BY <1>3, <1>5 DEF NoVerdict, InEpoch
  <2>2. \A c \in Batches :
           Kept(c) \/ (~InEpoch(c, j, LocalStatus) /\ ~InEpoch(c, j, LocalStatus)')
    BY <1>3, <2>1 DEF Kept, InEpoch
  <2>3. SameRoots(local, local', Active(j))
    <3>1. b \notin Active(j)
      BY <2>1 DEF Active, WithStatus
    <3> QED
      BY <1>3, <3>1, EpochTypes DEF SameRoots
  <2> QED
    BY <1>1, <1>5, <2>2, <2>3, LinkedStays
<1> QED
  BY <1>1, <1>4, <1>5, RepairedAtRest

\* An altered block keeps its roots, and is not as created.
LEMMA RepairedAlter ==
    ASSUME Overlap = FALSE, RepairInv, NEW b \in Batches, Alter(b), UNCHANGED cascade
    PROVE  Repaired'
<1>0. cascade.blocks = {}
  <2>1. AllIdle
    BY DEF Alter, MayStart, Quiet, AllIdle
  <2> QED
    BY <2>1, IdleCascade DEF CascadeIdle
<1>1. /\ TypeOK /\ Repaired /\ cascade.blocks = {} /\ cascade' = cascade
      /\ local[b].status \in ActiveStatus
      /\ local' = [local EXCEPT ![b] = [@ EXCEPT !.eventCount = BatchSize + 1]]
  BY <1>0 DEF RepairInv, FateInv, KeepInv, Alter
<1>2. local \in [Batches -> LocalBlock \cup {NoBlock}] /\ local[b] \in LocalBlock
  BY <1>1 DEF TypeOK, NoBlock, ActiveStatus
<1>3. /\ local'[b].previousRoot = local[b].previousRoot
      /\ local'[b].currentRoot = local[b].currentRoot /\ local'[b].eventCount = BatchSize + 1
      /\ \A c \in Batches \ {b} : local'[c] = local[c]
  BY <1>1, <1>2 DEF LocalBlock
<1>4. SignedUnlessAltered'
  <2>1. BatchSize + 1 # BatchSize
    BY BatchSizeAssumption
  <2> QED
    BY <1>1, <1>3, <2>1 DEF Repaired, SignedUnlessAltered
<1>5. \A c \in Batches : Kept(c)
  BY <1>1, RewriteEffect
<1>6. ASSUME NEW j \in Incidents, NoVerdict(j)'
      PROVE  Links(local', Active(j)', Tampered(j)', {})
  <2>1. SameRoots(local, local', Active(j))
    BY <1>3, EpochTypes DEF SameRoots
  <2> QED
    BY <1>1, <1>5, <1>6, <2>1, LinkedStays
<1> QED
  BY <1>1, <1>4, <1>6, RepairedAtRest

\* The cascade writes the oldest block it has left.
LEMMA RepairedRechain ==
    ASSUME RepairInv, CascadeTurn
    PROVE  Repaired'
<1> DEFINE blockOf(d) == ChainedBlock(d.batchId, cascade.runningRoot, d.merkleRoot, d.eventCount)
<1>1. PICK d : d = OldestOf(cascade.blocks)
  OBVIOUS
<1>2. PICK block : block = blockOf(d)
  OBVIOUS
<1>3. PICK b : b = d.batchId
  OBVIOUS
<1>4. /\ TypeOK /\ Repaired /\ cascade.blocks # {} /\ cascade.blocks \subseteq LocalBlock
      /\ worker' = worker /\ worker.pc = "idle"
      /\ cascade' = [ blocks |-> cascade.blocks \ {d},
                      runningRoot |-> IF cascade.blocks \ {d} = {} THEN << >> ELSE block.currentRoot ]
      /\ local' = IF local[b] = NoBlock THEN local
                  ELSE [local EXCEPT ![b] =
                         [@ EXCEPT !.previousRoot = block.previousRoot,
                                   !.currentRoot = block.currentRoot,
                                   !.signature = block.signature]]
  BY <1>1, <1>2, <1>3, CascadeTypes
  DEF RepairInv, FateInv, KeepInv, CascadeState, CascadeTurn
<1>5. d \in cascade.blocks /\ \A e \in cascade.blocks : d.batchId <= e.batchId
  BY <1>1, <1>4, OldestInSet
<1>6. b \in Batches /\ d = local[b] /\ d \in LocalBlock /\ local[b].batchId = b
  BY <1>3, <1>4, <1>5 DEF Repaired, CascadeCurrent
<1>7. /\ block.previousRoot = cascade.runningRoot
      /\ block.signature = SignablePayload(b, block.previousRoot, block.currentRoot, local[b].eventCount)
  BY <1>2, <1>3, <1>6 DEF ChainedBlock
<1>8. local \in [Batches -> LocalBlock \cup {NoBlock}]
  BY <1>4 DEF TypeOK
<1>9. PICK doc : doc = [local[b] EXCEPT !.previousRoot = block.previousRoot,
                                        !.currentRoot = block.currentRoot,
                                        !.signature = block.signature]
  OBVIOUS
<1>10. /\ doc.previousRoot = cascade.runningRoot /\ doc.currentRoot = block.currentRoot
       /\ SignatureOk(doc)
  BY <1>6, <1>7, <1>9 DEF LocalBlock, SignatureOk
<1>11. local'[b] = doc /\ \A c \in Batches \ {b} : local'[c] = local[c]
  <2>1. local[b] # NoBlock
    BY <1>6, NoneIsNoBlock DEF LocalBlock, LocalStatus, ActiveStatus
  <2>2. local' = [local EXCEPT ![b] = doc]
    BY <1>4, <1>9, <2>1
  <2> QED
    BY <1>6, <1>8, <2>2
<1>12. SignedUnlessAltered'
  <2>1. \A c \in Batches : Kept(c)
    BY <1>4, TurnEffect
  <2> QED
    BY <1>4, <1>10, <1>11, <2>1 DEF Repaired, SignedUnlessAltered, Kept
<1>13. Remaining' = Remaining \ {b}
  <2>1. \A e \in cascade.blocks : e.batchId = b => e = d
    BY <1>4, <1>6 DEF Repaired, CascadeCurrent
  <2>2. Remaining' = { e.batchId : e \in cascade.blocks \ {d} }
    BY <1>4 DEF Remaining
  <2> QED
    BY <1>3, <2>1, <2>2 DEF Remaining
<1>14. CascadeCurrent'
  <2>1. ASSUME NEW e \in cascade.blocks \ {d}
        PROVE  e.batchId \in Batches /\ e = local'[e.batchId]
    <3>1. e.batchId \in Batches /\ e = local[e.batchId]
      BY <1>4 DEF Repaired, CascadeCurrent
    <3>2. e.batchId # b
      BY <1>6, <3>1
    <3> QED
      BY <1>11, <3>1, <3>2
  <2> QED
    BY <1>4, <2>1 DEF CascadeCurrent
<1>15. \A j : Active(j)' = Active(j) /\ Tampered(j)' = Tampered(j) /\ (NoVerdict(j)' <=> NoVerdict(j))
  <2>1. \A c \in Batches : Kept(c)
    BY <1>4, TurnEffect
  <2> QED
    BY <2>1, EpochStays
<1>16. PICK i \in Incidents :
          Covers(local, cascade.runningRoot, Active(i), Tampered(i), Remaining)
  BY <1>4 DEF Repaired, CascadeCovers
<1>17. b \in Remaining /\ b \in Active(i) /\ \A e \in Remaining : b <= e
  BY <1>3, <1>5, <1>16 DEF Remaining, Covers
<1>18. \A j : SameRoots(local, local', Active(j) \ {b})
  BY <1>11, EpochTypes DEF SameRoots
<1>19. /\ NoVerdict(i) => Links(local', Active(i), Tampered(i), Remaining \ {b})
       /\ Covers(local', local'[b].currentRoot, Active(i), Tampered(i), Remaining \ {b})
  <2> DEFINE A == Active(i)
             T == Tampered(i)
  <2>1. A \subseteq Nat /\ T \subseteq Nat /\ A \cap T = {}
    BY EpochTypes
  <2>2. NoVerdict(i) => Links(local, A, T, Remaining)
    BY <1>4 DEF Repaired, EpochsLinked
  <2>3. Covers(local, cascade.runningRoot, A, T, Remaining) /\ SameRoots(local, local', A \ {b})
    BY <1>16, <1>18
  <2>4. local'[b].previousRoot = cascade.runningRoot
    BY <1>10, <1>11
  <2> HIDE DEF A, T
  <2>5. Covers(local', local'[b].currentRoot, A, T, Remaining \ {b})
    BY <1>17, <2>1, <2>3, CoversRechain
  <2>6. NoVerdict(i) => Links(local', A, T, Remaining \ {b})
    BY <1>17, <2>1, <2>2, <2>3, <2>4, LinksRechain
  <2> QED
    BY <2>5, <2>6 DEF A, T
<1>20. CascadeCovers'
  <2>1. cascade'.blocks # {} => cascade'.runningRoot = local'[b].currentRoot
    BY <1>4, <1>10, <1>11
  <2> QED
    BY <1>13, <1>15, <1>19, <2>1 DEF CascadeCovers
<1>21. ASSUME NEW j \in Incidents, j # i, NoVerdict(j)
       PROVE  Links(local', Active(j), Tampered(j), Remaining \ {b})
  <2>1. b \notin Active(j) /\ Active(j) \cap Remaining = {}
    BY <1>16, <1>17, <1>21 DEF Covers, Active, WithStatus
  <2>2. SameRoots(local, local', Active(j))
    BY <1>18, <2>1 DEF SameRoots
  <2>3. Links(local, Active(j), Tampered(j), Remaining)
    BY <1>4, <1>21 DEF Repaired, EpochsLinked
  <2>4. Links(local', Active(j), Tampered(j), Remaining)
    BY <2>2, <2>3, LinksSame
  <2> QED
    BY <2>1, <2>4 DEF Links
<1>22. EpochsLinked'
  BY <1>13, <1>15, <1>19, <1>21 DEF EpochsLinked
<1> QED
  BY <1>12, <1>14, <1>20, <1>22 DEF Repaired

\* The server is not stopped between a recover and the end of its cascade.
NoRestartInCascade ==
    crashes' # crashes => \A r \in Requests : request[r].pc \notin {"list", "cascade"}

\* And all the other steps.
LEMMA RepairedStep ==
    ASSUME Overlap = FALSE, RepairInv, FlagsStand, [SerialNext]_serialVars, NoRestartInCascade
    PROVE  Repaired'
<1>1. Repaired /\ TypeOK
  BY DEF RepairInv, FateInv, KeepInv
<1>2. worker.pc # "idle" => cascade.blocks = {}
  BY <1>1 DEF Repaired, CascadeCurrent
<1>3. CASE MergeStep /\ UNCHANGED cascade
  <2>1. cascade.blocks = {} /\ cascade' = cascade
    BY <1>2, <1>3
    DEF MergeStep, MergeSkip, MergeRefuse, MergeFlag, MergeFlagged, MergeVerify, MergeRead,
        MergeAppend, MergeDuplicate, MergeRecord, MergeDrop
  <2>2. local' = local \/ MergeDrop \/ MergeFlag
    BY <1>3
    DEF MergeStep, MergeSkip, MergeRefuse, MergeFlagged, MergeVerify, MergeRead, MergeAppend,
        MergeDuplicate, MergeRecord
  <2> QED
    BY <1>1, <2>1, <2>2, RepairedQuietly, RepairedFlag, RepairedDrop
<1>4. CASE \E b \in Batches : Recover(b) \/ Reject(b, "ACKNOWLEDGED") \/ Reject(b, "DISCARDED")
  BY <1>4, RepairedRecover, RepairedReject
<1>5. CASE CycleStep /\ UNCHANGED cascade
  <2>1. CASE OutageFind \/ ResolveIncident
    <3>1. MayStart
      BY <2>1 DEF OutageFind, ResolveIncident
    <3>2. AllIdle
      BY <3>1 DEF MayStart, Quiet, AllIdle
    <3>3. cascade.blocks = {}
      BY <3>2, IdleCascade DEF CascadeIdle
    <3>4. local' = local
      BY <2>1 DEF OutageFind, ResolveIncident
    <3> QED
      BY <1>1, <1>5, <3>3, <3>4, RepairedQuietly
  <2>2. CASE ListIncidents
    <3>1. cascade.blocks = {} /\ local' = local
      BY <1>2, <2>2 DEF ListIncidents
    <3> QED
      BY <1>1, <1>5, <3>1, RepairedQuietly
  <2> QED
    BY <1>5, <2>1, <2>2 DEF CycleStep
<1>6. CASE \/ UNCHANGED serialVars \/ CreateMain \/ (NetworkChange /\ UNCHANGED cascade)
           \/ \E b \in Batches : LoseRows(b) /\ UNCHANGED cascade
  <2>1. local' = local /\ cascade' = cascade /\ worker' = worker
    BY <1>6 DEF serialVars, CreateMain, NetworkChange, LoseRows
  <2> QED
    BY <1>1, <2>1, RepairedQuietly
<1>7. CASE \E i \in Incidents : DeclareOutage(i)
  <2>1. local' = local /\ cascade' = cascade /\ worker' \in {worker, WorkerIdle}
    BY <1>7 DEF DeclareOutage
  <2>2. WorkerIdle.pc = "idle"
    BY DEF WorkerIdle
  <2> QED
    BY <1>1, <2>1, <2>2, RepairedQuietly
<1>8. CASE Crash /\ cascade' = CascadeIdle
  <2>1. crashes' # crashes
    BY <1>1, <1>8 DEF Crash, TypeOK
  <2>2. \A r \in Requests : CascadeBlocks(request[r]) = {}
    BY <2>1 DEF NoRestartInCascade, CascadeBlocks
  <2>3. cascade.blocks = {} /\ cascade'.blocks = {}
    BY <1>8, <2>2, CascadeOfNone DEF CascadeIdle
  <2>4. local' = local /\ worker'.pc = "idle"
    BY <1>8 DEF Crash, WorkerIdle
  <2> QED
    BY <1>1, <2>3, <2>4, RepairedQuietly
<1>9. CASE \E b \in Batches : Alter(b) /\ UNCHANGED cascade
  BY <1>9, RepairedAlter
<1>10. CASE CascadeTurn \/ \E i \in Incidents : CreateLocal(i)
  BY <1>10, RepairedCreate, RepairedRechain
<1>11. CASE \E b \in Batches : (Alter(b) \/ LoseRows(b)) /\ UNCHANGED cascade
  BY <1>6, <1>9, <1>11
<1>12. CASE (CycleStep \/ MergeStep) /\ UNCHANGED cascade
  BY <1>3, <1>5, <1>12
<1>13. CASE CreateMain \/ (NetworkChange /\ UNCHANGED cascade) \/ UNCHANGED serialVars
  BY <1>6, <1>13
<1>14. CASE \E i \in Incidents : CreateLocal(i) \/ DeclareOutage(i)
  BY <1>7, <1>10, <1>14
<1>15. CASE SerialNext
  BY <1>4, <1>8, <1>10, <1>11, <1>12, <1>13, <1>14, <1>15 DEF SerialNext
<1> QED
  BY <1>13, <1>15

\* Without overlap, and as long as no restart cuts a cascade, recovering repairs
\* an epoch in any order: once no block of it is quarantined, rejected or altered,
\* verifyLocalChain passes.
THEOREM RecoveryAlwaysRestores ==
    ASSUME Overlap = FALSE
    PROVE  Spec /\ [][NoRestartInCascade]_vars => []RecoveryRestoresChain
<1>1. Init => DecidedInv /\ RepairInv
  <2> SUFFICES ASSUME Init PROVE DecidedInv /\ RepairInv
    OBVIOUS
  <2>1. \A b \in Batches : local[b].status = "NONE"
    BY DEF Init, NoBlock
  <2>2. worker.pc = "idle" /\ cascade.blocks = {} /\ Solo
    BY SerialInit DEF Init, WorkerIdle, CascadeIdle, SerialTypeOK
  <2>3. \A i : Active(i) = {}
    BY <2>1 DEF Active, WithStatus, ActiveStatus
  <2>4. EpochsLinked
    BY <2>3 DEF EpochsLinked, Links
  <2> QED
    BY <2>1, <2>2, <2>4, FateInit, DecidedInit
    DEF RepairInv, Repaired, CascadeCurrent, CascadeCovers, SignedUnlessAltered, ActiveStatus
<1>2. DecidedInv /\ RepairInv /\ [Next]_vars /\ [NoRestartInCascade]_vars
        => DecidedInv' /\ RepairInv'
  <2> SUFFICES ASSUME DecidedInv, RepairInv, [Next]_vars, [NoRestartInCascade]_vars
               PROVE  DecidedInv' /\ RepairInv'
    OBVIOUS
  <2>1. NoRestartInCascade
    BY DEF vars, NoRestartInCascade
  <2>2. DecidedInv' /\ [SerialNext]_serialVars
    BY DecidedStep
  <2> QED
    BY <2>1, <2>2, RepairedStep DEF DecidedInv, RepairInv
<1>3. RepairInv => RecoveryRestoresChain
  <2> SUFFICES ASSUME RepairInv, NEW i \in Incidents,
                      \A r \in Requests : request[r].pc \notin {"list", "cascade"},
                      WithStatus(i, {"TAMPERED", "DISCARDED", "ACKNOWLEDGED"}) = {},
                      \A b \in Active(i) : local[b].eventCount = BatchSize
               PROVE  LocalErrors(i) = {}
    BY DEF RecoveryRestoresChain
  <2>1. NoVerdict(i) /\ Tampered(i) = {}
    BY DEF NoVerdict, InEpoch, Tampered, WithStatus
  <2>0. cascade.blocks = {}
    <3>1. \A r \in Requests : CascadeBlocks(request[r]) = {}
      BY DEF CascadeBlocks
    <3> QED
      BY <3>1, CascadeOfNone DEF CascadeIdle
  <2>2. Links(local, Active(i), {}, {})
    BY <2>0, <2>1, LinkedAtRest DEF RepairInv
  <2>3. ASSUME NEW b \in Active(i)
        PROVE  SignatureOk(local[b]) /\ local[b].previousRoot = LastLocalRoot(Before(Active(i), b))
    <3>1. b \in Batches /\ Active(i) \subseteq Batches /\ local[b].status \in ActiveStatus
      BY DEF Active, WithStatus
    <3>2. SignatureOk(local[b])
      BY <3>1 DEF RepairInv, Repaired, SignedUnlessAltered
    <3>3. Precedes(local, local[b].previousRoot, Active(i), b)
      BY <2>2 DEF Links, Cut
    <3> QED
      BY <3>1, <3>2, <3>3, PrecedesLast
  <2> QED
    BY <2>3 DEF LocalErrors
<1> QED
  BY <1>1, <1>2, <1>3, PTL DEF Spec

=============================================================================
