---------------------------- MODULE BatchCreation ----------------------------
(***************************************************************************)
(* From audit events to blocks: the event store of database/sqlite.js, the *)
(* /create handler of routes/batch.routes.js with createBatch, and         *)
(* networkIncident.service.js, whose createNetworkIncident the handler and *)
(* the sync worker share.                                                  *)
(*                                                                         *)
(* One action is one database call with what the process computes until    *)
(* the next one, so requests and worker interleave at every await.  What   *)
(* becomes of the blocks (merge, recovery, anchoring) is the subject of    *)
(* LocalChain and SyncWorker.                                              *)
(***************************************************************************)
EXTENDS Naturals, Sequences, FiniteSets

CONSTANTS
    Requests,    \* /create requests that may be in flight at once
    Worker,      \* the sync worker's cycle
    Limit,       \* events of a batch at most: createBatch(10)
    Schedules,   \* what may overlap, see MayStart
    MaxEvents,   \* bound: audit events
    MaxTime,     \* bound: values of Date.now()
    MaxCrashes   \* bound: restarts of the server process

ASSUME WorkerAssumption == Worker \notin Requests
ASSUME LimitAssumption == Limit \in Nat \ {0}
ASSUME SchedulesAssumption == Schedules \subseteq {"alone", "serial", "concurrent"}
ASSUME BoundsAssumption == MaxEvents \in Nat /\ MaxTime \in Nat \ {0} /\ MaxCrashes \in Nat

VARIABLES
    schedule,        \* what overlaps in this behaviour
    networkUp,       \* whether provider.getBlockNumber() answers
    clock,           \* Date.now()
    events,          \* SQLite table events, by id
    main, local,     \* collections MerkleChain and LocalChain, in createdAt order
    incidents,       \* collection NetworkIncident, in the order of insertion
    activeIncident,  \* the module variable of networkIncident.service
    pc,              \* the next database call of each process
    batch,           \* what createBatch gave to each request
    incident,        \* openIncident of each process
    tail,            \* the last block each request has read
    failed,          \* history: events of requests answered 500 or cut by a restart
    crashes          \* restarts so far

stores == << events, main, local, incidents >>
locals == << batch, incident, tail >>
vars == << schedule, networkUp, clock, events, main, local, incidents,
           activeIncident, pc, batch, incident, tail, failed, crashes >>

-----------------------------------------------------------------------------
(* State *)

Processes == Requests \cup {Worker}
Times == 1 .. MaxTime
EventIds == 1 .. MaxEvents

\* Null for a time, an incident or a block: a batchId not set yet, no
\* incident, the genesis root.
None == 0

Row == [status: {"PENDING", "BATCHED"}, batchId: Times \cup {None}]
MainBlock == [batchId: Times, events: SUBSET EventIds, previous: Nat]
LocalBlock == [batchId: Times, events: SUBSET EventIds, previous: Nat, incidentId: Nat]
Incident == [incidentId: Times, status: {"OPEN", "CLOSED"}]
Batch == [batchId: Times \cup {None}, events: SUBSET EventIds]

NoBatch == [batchId |-> None, events |-> {}]

RequestSteps ==
    {"mark", "ping", "findOpen", "check", "findExisting", "insert", "remember",
     "localTail", "localCreate", "mainTail", "mainCreate"}
WorkerSteps ==
    {"findOpen", "check", "findExisting", "insert", "remember", "anchor", "clear"}

TypeOK ==
    /\ schedule \in Schedules
    /\ networkUp \in BOOLEAN
    /\ clock \in Times
    /\ events \in Seq(Row) /\ Len(events) <= MaxEvents
    /\ main \in Seq(MainBlock)
    /\ local \in Seq(LocalBlock)
    /\ incidents \in Seq(Incident)
    /\ activeIncident \in Nat
    /\ pc \in [Processes -> {"idle"} \cup RequestSteps \cup WorkerSteps]
    /\ batch \in [Requests -> Batch]
    /\ incident \in [Processes -> Nat]
    /\ tail \in [Requests -> Nat]
    /\ failed \subseteq EventIds
    /\ crashes \in Nat

-----------------------------------------------------------------------------
(* Queries *)

Pending == { e \in DOMAIN events : events[e].status = "PENDING" }

\* ORDER BY id ASC LIMIT ?
Oldest(S) == { e \in S : Cardinality({ d \in S : d < e }) < Limit }

\* Mutant of OpenIncidents: only the incident in memory is looked up.
OpenIncidentsInMemory ==
    { i \in DOMAIN incidents : incidents[i].status = "OPEN" /\ i = activeIncident }

OpenIncidents == { i \in DOMAIN incidents : incidents[i].status = "OPEN" }

\* findOne({ status: "OPEN" }): the first in natural order, or null.
FirstOpen ==
    IF OpenIncidents = {} THEN None
    ELSE CHOOSE i \in OpenIncidents : \A j \in OpenIncidents : i <= j

\* Mutant of LastOfIncident: .sort({ createdAt: 1 }).
FirstOfIncident(i) ==
    LET S == { n \in DOMAIN local : local[n].incidentId = i } IN
    IF S = {} THEN None ELSE CHOOSE n \in S : \A m \in S : n <= m

\* The last block of an incident's LOCAL chain, None for the genesis root.
LastOfIncident(i) ==
    LET S == { n \in DOMAIN local : local[n].incidentId = i } IN
    IF S = {} THEN None ELSE CHOOSE n \in S : \A m \in S : m <= n

BatchIds(chain) == { chain[n].batchId : n \in DOMAIN chain }

Idle(p) == pc[p] = "idle"

\* What runs side by side.  Concurrent: everything.  Serial: the clients wait
\* for the answer of a /create before the next one, the worker runs beside it.
\* Alone: a request or a cycle starts when none is under way.
MayStart(p) ==
    \/ schedule = "concurrent"
    \/ schedule = "serial" /\ (p = Worker \/ \A r \in Requests : Idle(r))
    \/ \A q \in Processes : Idle(q)

\* Requests that do not overlap get different values of Date.now().
NewTime ==
    schedule = "concurrent"
    \/ /\ \A e \in DOMAIN events : events[e].batchId # clock
       /\ \A i \in DOMAIN incidents : incidents[i].incidentId # clock

-----------------------------------------------------------------------------
(* Initial state *)

Init ==
    /\ schedule \in Schedules
    /\ networkUp = TRUE
    /\ clock = 1
    /\ events = << >>
    /\ main = << >> /\ local = << >> /\ incidents = << >>
    /\ activeIncident = None
    /\ pc = [p \in Processes |-> "idle"]
    /\ batch = [r \in Requests |-> NoBatch]
    /\ incident = [p \in Processes |-> None]
    /\ tail = [r \in Requests |-> None]
    /\ failed = {}
    /\ crashes = 0

Goto(p, step) == pc' = [pc EXCEPT ![p] = step]

\* A request ends; its locals are gone.
Ends(r) ==
    /\ Goto(r, "idle")
    /\ batch' = [batch EXCEPT ![r] = NoBatch]
    /\ incident' = [incident EXCEPT ![r] = None]
    /\ tail' = [tail EXCEPT ![r] = None]

\* An insert is refused by a unique index: the handler answers 500, the
\* worker's cycle ends in its catch block.
Refused(p) ==
    IF p = Worker
    THEN /\ Goto(p, "idle")
         /\ incident' = [incident EXCEPT ![p] = None]
         /\ UNCHANGED << batch, tail, failed >>
    ELSE /\ Ends(p)
         /\ failed' = failed \cup batch[p].events

-----------------------------------------------------------------------------
(* Audit events and createBatch *)

\* createAuditEvent inserts a PENDING row.
CreateAuditEvent ==
    /\ Len(events) < MaxEvents
    /\ events' = Append(events, [status |-> "PENDING", batchId |-> None])
    /\ UNCHANGED << schedule, networkUp, clock, main, local, incidents, activeIncident,
                    pc, batch, incident, tail, failed, crashes >>

\* The oldest PENDING rows are read; with none the handler answers at once.
SelectPending(r) ==
    /\ Idle(r) /\ MayStart(r) /\ NewTime
    /\ Pending # {}
    /\ batch' = [batch EXCEPT ![r] = [batchId |-> None, events |-> Oldest(Pending)]]
    /\ Goto(r, "mark")
    /\ UNCHANGED << schedule, networkUp, clock, stores, activeIncident,
                    incident, tail, failed, crashes >>

\* Mutant of MarkBatched: createBatch does not return the batchId.
MarkBatchedIdNotReturned(r) ==
    /\ pc[r] = "mark"
    /\ events' = [e \in DOMAIN events |->
          IF e \in batch[r].events THEN [status |-> "BATCHED", batchId |-> clock]
          ELSE events[e]]
    /\ Goto(r, "ping")
    /\ UNCHANGED << schedule, networkUp, clock, main, local, incidents, activeIncident,
                    locals, failed, crashes >>

\* Mutant of MarkBatched: the rows get their batchId and stay PENDING.
MarkBatchedStatusKept(r) ==
    /\ pc[r] = "mark"
    /\ batch' = [batch EXCEPT ![r].batchId = clock]
    /\ events' = [e \in DOMAIN events |->
          IF e \in batch[r].events THEN [status |-> "PENDING", batchId |-> clock]
          ELSE events[e]]
    /\ Goto(r, "ping")
    /\ UNCHANGED << schedule, networkUp, clock, main, local, incidents, activeIncident,
                    incident, tail, failed, crashes >>

\* Mutant of MarkBatched: WHERE status = 'PENDING' instead of the list of ids.
MarkBatchedAllPending(r) ==
    /\ pc[r] = "mark"
    /\ batch' = [batch EXCEPT ![r].batchId = clock]
    /\ events' = [e \in DOMAIN events |->
          IF e \in Pending THEN [status |-> "BATCHED", batchId |-> clock]
          ELSE events[e]]
    /\ Goto(r, "ping")
    /\ UNCHANGED << schedule, networkUp, clock, main, local, incidents, activeIncident,
                    incident, tail, failed, crashes >>

\* The UPDATE: by id, whatever the rows have become since they were read.
MarkBatched(r) ==
    /\ pc[r] = "mark"
    /\ batch' = [batch EXCEPT ![r].batchId = clock]
    /\ events' = [e \in DOMAIN events |->
          IF e \in batch[r].events THEN [status |-> "BATCHED", batchId |-> clock]
          ELSE events[e]]
    /\ Goto(r, "ping")
    /\ UNCHANGED << schedule, networkUp, clock, main, local, incidents, activeIncident,
                    incident, tail, failed, crashes >>

\* isNetworkUp decides which chain gets the block.
PingDecides(r) ==
    /\ pc[r] = "ping"
    /\ Goto(r, IF networkUp THEN "mainTail" ELSE "findOpen")
    /\ UNCHANGED << schedule, networkUp, clock, stores, activeIncident, locals,
                    failed, crashes >>

-----------------------------------------------------------------------------
(* The incident of a block: createNetworkIncident, called by the handler    *)
(* and by the worker                                                        *)

\* The caller goes on with its incident, or with null.
WithIncident(p, i) ==
    IF p = Worker
    THEN incident' = [incident EXCEPT ![p] = None] /\ Goto(p, "idle")
    ELSE incident' = [incident EXCEPT ![p] = i] /\ Goto(p, "localTail")

\* The caller looks for an OPEN incident itself first.
FindOpen(p) ==
    /\ pc[p] = "findOpen"
    /\ IF OpenIncidents # {} THEN WithIncident(p, FirstOpen)
       ELSE Goto(p, "check") /\ UNCHANGED incident
    /\ UNCHANGED << schedule, networkUp, clock, stores, activeIncident, batch, tail,
                    failed, crashes >>

\* createNetworkIncident gives null when an incident is active in memory.
CheckActive(p) ==
    /\ pc[p] = "check"
    /\ IF activeIncident # None THEN WithIncident(p, None)
       ELSE Goto(p, "findExisting") /\ UNCHANGED incident
    /\ UNCHANGED << schedule, networkUp, clock, stores, activeIncident, batch, tail,
                    failed, crashes >>

\* ... adopts an OPEN incident of the database, as after a restart ...
FindExisting(p) ==
    /\ pc[p] = "findExisting"
    /\ IF OpenIncidents # {}
       THEN incident' = [incident EXCEPT ![p] = FirstOpen] /\ Goto(p, "remember")
       ELSE Goto(p, "insert") /\ UNCHANGED incident
    /\ UNCHANGED << schedule, networkUp, clock, stores, activeIncident, batch, tail,
                    failed, crashes >>

\* ... or inserts a new one, whose incidentId is unique ...
InsertIncident(p) ==
    /\ pc[p] = "insert"
    /\ IF clock \in { incidents[i].incidentId : i \in DOMAIN incidents }
       THEN Refused(p) /\ UNCHANGED incidents
       ELSE /\ incidents' = Append(incidents, [incidentId |-> clock, status |-> "OPEN"])
            /\ incident' = [incident EXCEPT ![p] = Len(incidents) + 1]
            /\ Goto(p, "remember")
            /\ UNCHANGED << batch, tail, failed >>
    /\ UNCHANGED << schedule, networkUp, clock, events, main, local, activeIncident, crashes >>

\* ... and keeps it in memory, once the answer of the database is back.
Remember(p) ==
    /\ pc[p] = "remember"
    /\ activeIncident' = incident[p]
    /\ WithIncident(p, incident[p])
    /\ UNCHANGED << schedule, networkUp, clock, stores, batch, tail, failed, crashes >>

-----------------------------------------------------------------------------
(* The block: createLocalChainedRoot and createChainedRoot *)

ReadLocalTail(r) ==
    /\ pc[r] = "localTail"
    /\ tail' = [tail EXCEPT ![r] = LastOfIncident(incident[r])]
    /\ Goto(r, "localCreate")
    /\ UNCHANGED << schedule, networkUp, clock, stores, activeIncident, batch, incident,
                    failed, crashes >>

\* LocalChain.create: batchId is unique in the collection.
CreateLocalBlock(r) ==
    /\ pc[r] = "localCreate"
    /\ IF batch[r].batchId \in BatchIds(local)
       THEN Refused(r) /\ UNCHANGED local
       ELSE /\ local' = Append(local, [ batchId |-> batch[r].batchId, events |-> batch[r].events,
                                        previous |-> tail[r], incidentId |-> incident[r] ])
            /\ Ends(r)
            /\ UNCHANGED failed
    /\ UNCHANGED << schedule, networkUp, clock, events, main, incidents, activeIncident, crashes >>

ReadMainTail(r) ==
    /\ pc[r] = "mainTail"
    /\ tail' = [tail EXCEPT ![r] = Len(main)]
    /\ Goto(r, "mainCreate")
    /\ UNCHANGED << schedule, networkUp, clock, stores, activeIncident, batch, incident,
                    failed, crashes >>

\* MerkleChain.create: batchId is unique in the collection.
CreateMainBlock(r) ==
    /\ pc[r] = "mainCreate"
    /\ IF batch[r].batchId \in BatchIds(main)
       THEN Refused(r) /\ UNCHANGED main
       ELSE /\ main' = Append(main, [ batchId |-> batch[r].batchId, events |-> batch[r].events,
                                      previous |-> tail[r] ])
            /\ Ends(r)
            /\ UNCHANGED failed
    /\ UNCHANGED << schedule, networkUp, clock, events, local, incidents, activeIncident, crashes >>

-----------------------------------------------------------------------------
(* The worker's part *)

\* The third ping in a row fails: the worker makes sure an incident exists.
WorkerOutage ==
    /\ Idle(Worker) /\ MayStart(Worker) /\ NewTime
    /\ ~networkUp
    /\ Goto(Worker, "findOpen")
    /\ UNCHANGED << schedule, networkUp, clock, stores, activeIncident, locals, failed, crashes >>

\* The RPC answers: resolveNetworkIncident takes the first OPEN incident.
\* Only the worker closes one, so its two findOne calls find the same and the
\* branch without an incident is not reached.
WorkerRecovers ==
    /\ Idle(Worker) /\ MayStart(Worker)
    /\ networkUp /\ OpenIncidents # {}
    /\ incident' = [incident EXCEPT ![Worker] = FirstOpen]
    /\ Goto(Worker, "anchor")
    /\ UNCHANGED << schedule, networkUp, clock, stores, activeIncident, batch, tail,
                    failed, crashes >>

\* One of the two transactions fails: the incident stays OPEN.
AnchorFails ==
    /\ pc[Worker] = "anchor" /\ ~networkUp
    /\ WithIncident(Worker, None)
    /\ UNCHANGED << schedule, networkUp, clock, stores, activeIncident, batch, tail,
                    failed, crashes >>

\* Mutant of SaveClosed: activeIncident = null is forgotten.
SaveClosedMemoryKept ==
    /\ pc[Worker] = "anchor" /\ networkUp
    /\ incidents' = [incidents EXCEPT ![incident[Worker]].status = "CLOSED"]
    /\ WithIncident(Worker, None)
    /\ UNCHANGED << schedule, networkUp, clock, events, main, local, activeIncident,
                    batch, tail, failed, crashes >>

\* Both are on the chain: the incident is saved as CLOSED ...
SaveClosed ==
    /\ pc[Worker] = "anchor" /\ networkUp
    /\ incidents' = [incidents EXCEPT ![incident[Worker]].status = "CLOSED"]
    /\ incident' = [incident EXCEPT ![Worker] = None]
    /\ Goto(Worker, "clear")
    /\ UNCHANGED << schedule, networkUp, clock, events, main, local, activeIncident,
                    batch, tail, failed, crashes >>

\* ... and leaves the memory when the save has been answered.
ClearActive ==
    /\ pc[Worker] = "clear"
    /\ activeIncident' = None
    /\ Goto(Worker, "idle")
    /\ UNCHANGED << schedule, networkUp, clock, stores, locals, failed, crashes >>

-----------------------------------------------------------------------------
(* Environment *)

NetworkChange ==
    /\ networkUp' = ~networkUp
    /\ UNCHANGED << schedule, clock, stores, activeIncident, pc, locals, failed, crashes >>

Tick ==
    /\ clock < MaxTime
    /\ clock' = clock + 1
    /\ UNCHANGED << schedule, networkUp, stores, activeIncident, pc, locals, failed, crashes >>

\* The server process stops and starts again: requests and cycle are cut, the
\* memory is lost.  The events of a request that had marked them stay BATCHED.
Crash ==
    /\ crashes < MaxCrashes
    /\ crashes' = crashes + 1
    /\ activeIncident' = None
    /\ pc' = [p \in Processes |-> "idle"]
    /\ batch' = [r \in Requests |-> NoBatch]
    /\ incident' = [p \in Processes |-> None]
    /\ tail' = [r \in Requests |-> None]
    /\ failed' = failed \cup UNION { batch[r].events : r \in { q \in Requests : pc[q] # "mark" } }
    /\ UNCHANGED << schedule, networkUp, clock, stores >>

-----------------------------------------------------------------------------

CreateStep(r) ==
    \/ SelectPending(r) \/ MarkBatched(r) \/ PingDecides(r)
    \/ ReadLocalTail(r) \/ CreateLocalBlock(r)
    \/ ReadMainTail(r) \/ CreateMainBlock(r)

IncidentStep(p) ==
    FindOpen(p) \/ CheckActive(p) \/ FindExisting(p) \/ InsertIncident(p) \/ Remember(p)

WorkerStep == WorkerOutage \/ WorkerRecovers \/ AnchorFails \/ SaveClosed \/ ClearActive

Next ==
    \/ \E r \in Requests : CreateStep(r)
    \/ \E p \in Processes : IncidentStep(p)
    \/ WorkerStep
    \/ CreateAuditEvent \/ NetworkChange \/ Tick \/ Crash

Spec == Init /\ [][Next]_vars

-----------------------------------------------------------------------------
(* Properties *)

InBlock(e) ==
    \/ \E n \in DOMAIN main : e \in main[n].events
    \/ \E n \in DOMAIN local : e \in local[n].events

\* Beyond a request's MarkBatched its events belong to it.
InFlight(e) == \E r \in Requests : pc[r] # "mark" /\ e \in batch[r].events

\* No BATCHED event is forgotten: no later createBatch will select it, so it
\* is in a block, or on its way, or its request was answered 500 or cut.
\* However requests overlap, and whatever ids they got.
NothingStranded ==
    \A e \in DOMAIN events : events[e].status = "BATCHED" => InBlock(e) \/ InFlight(e) \/ e \in failed

\* Requests one at a time: no event is in two blocks, and an event of a
\* request that failed is in none.
EventInOneBlock ==
    schedule # "concurrent" =>
        /\ \A m, n \in DOMAIN main : m # n => main[m].events \cap main[n].events = {}
        /\ \A m, n \in DOMAIN local : m # n => local[m].events \cap local[n].events = {}
        /\ \A m \in DOMAIN main, n \in DOMAIN local : main[m].events \cap local[n].events = {}
        /\ \A n \in DOMAIN main : main[n].events \cap failed = {}
        /\ \A n \in DOMAIN local : local[n].events \cap failed = {}

\* Requests one at a time: the rows recoverLocalBlock finds by batchId are the
\* events the block was made of.
RecoveryRowsExact ==
    schedule # "concurrent" =>
        \A n \in DOMAIN local :
            { e \in DOMAIN events : events[e].batchId = local[n].batchId } = local[n].events

\* Requests one at a time: a LOCAL chain does not fork, also when the worker
\* declares or closes incidents beside them.
EpochsLinear ==
    schedule # "concurrent" =>
        \A m, n \in DOMAIN local :
            local[m].incidentId = local[n].incidentId /\ local[m].previous = local[n].previous
                => m = n

\* "Make sure an incident exists so the local block can reference it": kept
\* when no cycle of the worker overlaps a request, through any restarts.  The
\* incident was OPEN, so it is listed for a merge once it is closed.
StagedUnderIncident ==
    schedule = "alone" => \A n \in DOMAIN local : local[n].incidentId # None

\* One outage, one incident: kept when no cycle of the worker overlaps a
\* request, also by a process that has restarted and forgotten the first.
OneIncidentOpen ==
    schedule = "alone" =>
        \A i, j \in DOMAIN incidents :
            incidents[i].status = "OPEN" /\ incidents[j].status = "OPEN" => i = j

=============================================================================
