------------------------- MODULE BatchCreationProofs -------------------------
(***************************************************************************)
(* Theorems about BatchCreation, for any set of requests, any limit and    *)
(* any number of events, restarts and values of the clock:                 *)
(*   - the type invariant, with what each request holds;                   *)
(*   - NothingStranded, however requests overlap;                          *)
(*   - StagedUnderIncident and OneIncidentOpen, which hold while requests  *)
(*     and worker cycles are one at a time, from the invariant Alone;      *)
(*   - EventInOneBlock, RecoveryRowsExact and EpochsLinear, which hold     *)
(*     while requests are one at a time, from the invariant Serial.        *)
(***************************************************************************)
EXTENDS BatchCreation, OrderLemmas, FiniteSetTheorems, TLAPS

Steps == {"idle"} \cup RequestSteps \cup WorkerSteps

\* What each process holds, by the step it is at.
Holds ==
    /\ \A r \in Requests : pc[r] \in {"idle"} \cup RequestSteps
    /\ pc[Worker] \in {"idle"} \cup WorkerSteps
    /\ \A r \in Requests : Idle(r) => batch[r] = NoBatch
    /\ \A r \in Requests : pc[r] \notin {"idle", "mark"} => batch[r].batchId \in Times
    /\ \A r \in Requests : batch[r].events \subseteq DOMAIN events
    /\ pc[Worker] \in {"anchor"} => incident[Worker] \in DOMAIN incidents

\* The parts of the type invariant: the collections, what the processes hold,
\* and the rest.
StoresTyped ==
    /\ events \in Seq(Row) /\ Len(events) <= MaxEvents
    /\ main \in Seq(MainBlock)
    /\ local \in Seq(LocalBlock)
    /\ incidents \in Seq(Incident)

LocalsTyped ==
    /\ pc \in [Processes -> Steps]
    /\ batch \in [Requests -> Batch]
    /\ incident \in [Processes -> Nat]
    /\ tail \in [Requests -> Nat]

RestTyped ==
    /\ schedule \in Schedules /\ networkUp \in BOOLEAN /\ clock \in Times
    /\ activeIncident \in Nat /\ failed \subseteq EventIds /\ crashes \in Nat

Typed == StoresTyped /\ LocalsTyped /\ RestTyped /\ Holds

LEMMA TypeParts == Typed => TypeOK
  BY DEF Typed, StoresTyped, LocalsTyped, RestTyped, TypeOK, Steps

\* The rows of the table are numbered from 1.
LEMMA EventRows ==
    ASSUME Typed
    PROVE  /\ DOMAIN events = 1 .. Len(events) /\ Len(events) \in Nat
           /\ DOMAIN events \subseteq EventIds
           /\ \A e \in DOMAIN events : events[e] \in Row
  BY BoundsAssumption DEF Typed, StoresTyped, EventIds

-----------------------------------------------------------------------------
(* Queries *)

\* The oldest of some rows are some of them, and at least one when there are any.
LEMMA OldestRows ==
    ASSUME NEW S, S \subseteq Nat
    PROVE  Oldest(S) \subseteq S /\ (S # {} => Oldest(S) # {})
<1>1. ASSUME S # {} PROVE Oldest(S) # {}
  <2>1. PICK e \in S : \A d \in S : e <= d
    BY <1>1, LeastElement
  <2>2. { d \in S : d < e } = {}
    <3>1. ASSUME NEW d \in S PROVE ~(d < e)
      BY <2>1
    <3> QED
      BY <3>1
  <2>3. Cardinality({ d \in S : d < e }) < Limit
    BY <2>2, FS_EmptySet, LimitAssumption
  <2> QED
    BY <2>1, <2>3 DEF Oldest
<1> QED
  BY <1>1 DEF Oldest

\* findOne gives an OPEN incident when there is one, else null.
LEMMA FirstOpenIncident ==
    ASSUME Typed
    PROVE  /\ OpenIncidents # {} => FirstOpen \in OpenIncidents
           /\ OpenIncidents = {} => FirstOpen = None
           /\ FirstOpen \in Nat
           /\ OpenIncidents \subseteq DOMAIN incidents /\ None \notin OpenIncidents
<1>1. OpenIncidents \subseteq DOMAIN incidents /\ DOMAIN incidents \subseteq Nat \ {0}
  BY DEF OpenIncidents, Typed, StoresTyped
<1>2. ASSUME OpenIncidents # {} PROVE FirstOpen \in OpenIncidents
  <2>1. \E i \in OpenIncidents : \A j \in OpenIncidents : i <= j
    BY <1>1, <1>2, LeastElement
  <2> QED
    BY <1>2, <2>1 DEF FirstOpen
<1> QED
  BY <1>1, <1>2 DEF FirstOpen, None

\* The last block of an incident.
LEMMA LastBlock ==
    ASSUME Typed, NEW i
    PROVE  /\ LastOfIncident(i) \in 0 .. Len(local)
           /\ \A n \in DOMAIN local : local[n].incidentId = i => n <= LastOfIncident(i)
<1> DEFINE S == { n \in DOMAIN local : local[n].incidentId = i }
<1>1. Len(local) \in Nat /\ S \subseteq 1 .. Len(local)
  BY DEF Typed, StoresTyped
<1>2. CASE S = {}
  <2>1. LastOfIncident(i) = 0
    BY <1>2 DEF LastOfIncident, None
  <2> QED
    BY <1>1, <1>2, <2>1
<1>3. CASE S # {}
  <2>1. \E n \in S : \A m \in S : m <= n
    BY <1>1, <1>3, GreatestElement
  <2>2. LastOfIncident(i) = CHOOSE n \in S : \A m \in S : m <= n
    BY <1>3 DEF LastOfIncident
  <2> HIDE DEF S
  <2>3. LastOfIncident(i) \in S /\ \A m \in S : m <= LastOfIncident(i)
    BY <2>1, <2>2
  <2> QED
    BY <1>1, <2>3 DEF S
<1> QED
  BY <1>2, <1>3

-----------------------------------------------------------------------------
(* Types *)

\* The initial state is well typed.
LEMMA TypeInit == Init => Typed
<1> SUFFICES ASSUME Init PROVE Typed
  OBVIOUS
<1>1. StoresTyped
  <2>1. events = << >> /\ main = << >> /\ local = << >> /\ incidents = << >>
    BY DEF Init
  <2>2. /\ << >> \in Seq(Row) /\ Len(<< >>) = 0 /\ << >> \in Seq(MainBlock)
        /\ << >> \in Seq(LocalBlock) /\ << >> \in Seq(Incident)
    OBVIOUS
  <2> QED
    BY <2>1, <2>2, BoundsAssumption DEF StoresTyped
<1>2. LocalsTyped
  <2>1. NoBatch \in Batch
    BY DEF NoBatch, Batch
  <2> QED
    BY <2>1 DEF Init, LocalsTyped, Steps, None
<1>3. RestTyped
  BY BoundsAssumption DEF Init, RestTyped, Times, None
<1>4. Holds
  BY WorkerAssumption DEF Init, Holds, Idle, NoBatch, Processes
<1> QED
  BY <1>1, <1>2, <1>3, <1>4 DEF Typed

\* The helpers of the actions, and what they do to the other processes.
OthersKept(p) ==
    /\ \A q \in Processes : q # p => pc'[q] = pc[q] /\ incident'[q] = incident[q]
    /\ \A r \in Requests : r # p => batch'[r] = batch[r] /\ tail'[r] = tail[r]

LEMMA EndsTyped ==
    ASSUME Typed, NEW r \in Requests, Ends(r)
    PROVE  LocalsTyped' /\ OthersKept(r) /\ pc'[r] = "idle" /\ batch'[r] = NoBatch
<1>1. NoBatch \in Batch /\ None \in Nat /\ "idle" \in Steps /\ r \in Processes
  BY DEF NoBatch, Batch, None, Steps, Processes
<1> QED
  BY <1>1 DEF Ends, Goto, Typed, LocalsTyped, OthersKept

LEMMA RefusedTyped ==
    ASSUME Typed, NEW p \in Processes, Refused(p)
    PROVE  /\ LocalsTyped' /\ OthersKept(p) /\ pc'[p] = "idle"
           /\ failed \subseteq failed' /\ failed' \subseteq EventIds
           /\ p # Worker => failed' = failed \cup batch[p].events /\ batch'[p] = NoBatch
           /\ p = Worker => failed' = failed /\ batch' = batch
<1>1. CASE p = Worker
  BY <1>1, WorkerAssumption DEF Refused, Goto, Typed, LocalsTyped, RestTyped, OthersKept, Steps, None, Processes
<1>2. CASE p # Worker
  <2>1. p \in Requests /\ Ends(p) /\ failed' = failed \cup batch[p].events
    BY <1>2 DEF Refused, Processes
  <2>2. batch[p].events \subseteq EventIds
    BY <2>1, EventRows DEF Typed, Holds
  <2> QED
    BY <1>2, <2>1, <2>2, EndsTyped DEF Typed, RestTyped
<1> QED
  BY <1>1, <1>2

LEMMA WithIncidentTyped ==
    ASSUME Typed, NEW p \in Processes, NEW i \in Nat, WithIncident(p, i), UNCHANGED << batch, tail >>
    PROVE  /\ LocalsTyped' /\ OthersKept(p)
           /\ p = Worker => pc'[p] = "idle"
           /\ p # Worker => pc'[p] = "localTail" /\ incident'[p] = i
  BY DEF WithIncident, Goto, Typed, LocalsTyped, OthersKept, Steps, RequestSteps, None

LEMMA GotoTyped ==
    ASSUME Typed, NEW p \in Processes, NEW step \in Steps, Goto(p, step), UNCHANGED locals
    PROVE  LocalsTyped' /\ OthersKept(p) /\ pc'[p] = step
  BY DEF Goto, Typed, LocalsTyped, OthersKept, locals

\* What the others hold stays typed while the collections only grow.
LEMMA HoldsNext ==
    ASSUME Typed, NEW p \in Processes, OthersKept(p),
           DOMAIN events \subseteq DOMAIN events', DOMAIN incidents \subseteq DOMAIN incidents',
           p # Worker =>
               /\ pc'[p] \in {"idle"} \cup RequestSteps
               /\ pc'[p] = "idle" => batch'[p] = NoBatch
               /\ pc'[p] \notin {"idle", "mark"} => batch'[p].batchId \in Times
               /\ batch'[p].events \subseteq DOMAIN events',
           p = Worker =>
               /\ pc'[p] \in {"idle"} \cup WorkerSteps
               /\ pc'[p] = "anchor" => incident'[p] \in DOMAIN incidents'
    PROVE  Holds'
<1>1. ASSUME NEW r \in Requests
      PROVE  /\ pc'[r] \in {"idle"} \cup RequestSteps
             /\ pc'[r] = "idle" => batch'[r] = NoBatch
             /\ pc'[r] \notin {"idle", "mark"} => batch'[r].batchId \in Times
             /\ batch'[r].events \subseteq DOMAIN events'
  <2>1. r \in Processes /\ r # Worker
    BY WorkerAssumption DEF Processes
  <2>2. CASE r = p
    BY <2>1, <2>2
  <2>3. CASE r # p
    BY <2>1, <2>3 DEF OthersKept, Typed, Holds, Idle
  <2> QED
    BY <2>2, <2>3
<1>2. /\ pc'[Worker] \in {"idle"} \cup WorkerSteps
      /\ pc'[Worker] = "anchor" => incident'[Worker] \in DOMAIN incidents'
  <2>1. CASE Worker = p
    BY <2>1
  <2>2. CASE Worker # p
    BY <2>2 DEF OthersKept, Typed, Holds, Processes
  <2> QED
    BY <2>1, <2>2
<1> QED
  BY <1>1, <1>2 DEF Holds, Idle

\* A new row, pending.
LEMMA TypeCreateAuditEvent == ASSUME Typed, CreateAuditEvent PROVE Typed'
<1> DEFINE row == [status |-> "PENDING", batchId |-> None]
<1>1. row \in Row
  BY DEF Row
<1>2. events' = Append(events, row) /\ UNCHANGED << main, local, incidents >>
  BY DEF CreateAuditEvent
<1> HIDE DEF row
<1>3. events' \in Seq(Row) /\ Len(events') <= MaxEvents /\ DOMAIN events \subseteq DOMAIN events'
  BY <1>1, <1>2, BoundsAssumption DEF CreateAuditEvent, Typed, StoresTyped
<1>4. StoresTyped'
  BY <1>2, <1>3 DEF Typed, StoresTyped
<1>5. LocalsTyped' /\ RestTyped'
  BY DEF CreateAuditEvent, Typed, LocalsTyped, RestTyped
<1>6. Holds'
  BY <1>2, <1>3 DEF CreateAuditEvent, Typed, Holds, Idle
<1> QED
  BY <1>4, <1>5, <1>6 DEF Typed

\* createBatch.
LEMMA TypeSelectPending ==
    ASSUME Typed, NEW r \in Requests, SelectPending(r)
    PROVE  Typed'
<1>1. Oldest(Pending) \subseteq DOMAIN events /\ DOMAIN events \subseteq EventIds
  <2>1. Pending \subseteq DOMAIN events /\ DOMAIN events \subseteq EventIds
    BY EventRows DEF Pending
  <2>2. Pending \subseteq Nat
    BY <2>1, BoundsAssumption DEF EventIds
  <2> QED
    BY <2>1, <2>2, OldestRows
<1>2. batch' = [batch EXCEPT ![r] = [batchId |-> None, events |-> Oldest(Pending)]]
  BY DEF SelectPending
<1>3. [batchId |-> None, events |-> Oldest(Pending)] \in Batch
  BY <1>1 DEF Batch
<1>4. pc' = [pc EXCEPT ![r] = "mark"] /\ r \in Processes /\ "mark" \in Steps
  BY DEF SelectPending, Goto, Processes, Steps, RequestSteps
<1>5. StoresTyped' /\ RestTyped'
  BY DEF SelectPending, stores, Typed, StoresTyped, RestTyped
<1>6. LocalsTyped'
  BY <1>2, <1>3, <1>4 DEF SelectPending, Typed, LocalsTyped
<1>7. OthersKept(r) /\ pc'[r] = "mark" /\ batch'[r].events = Oldest(Pending)
  BY <1>2, <1>4 DEF SelectPending, Typed, LocalsTyped, OthersKept
<1>8. events' = events /\ incidents' = incidents
  BY DEF SelectPending, stores
<1>9. Holds'
  BY <1>1, <1>4, <1>7, <1>8, HoldsNext, WorkerAssumption DEF RequestSteps
<1> QED
  BY <1>5, <1>6, <1>9 DEF Typed

LEMMA TypeMarkBatched ==
    ASSUME Typed, NEW r \in Requests, MarkBatched(r)
    PROVE  /\ Typed' /\ OthersKept(r) /\ DOMAIN events' = DOMAIN events
           /\ pc'[r] = "ping" /\ batch'[r].batchId = clock /\ batch'[r].events = batch[r].events
           /\ \A e \in DOMAIN events :
                 events'[e] = IF e \in batch[r].events THEN [status |-> "BATCHED", batchId |-> clock]
                              ELSE events[e]
<1> DEFINE marked == [status |-> "BATCHED", batchId |-> clock]
<1>1. marked \in Row /\ clock \in Times
  BY DEF Row, Typed, RestTyped
<1>2. events' = [e \in DOMAIN events |-> IF e \in batch[r].events THEN marked ELSE events[e]]
  BY DEF MarkBatched
<1> HIDE DEF marked
<1>3. events' \in Seq(Row) /\ DOMAIN events' = DOMAIN events /\ Len(events') = Len(events)
  <2>1. DOMAIN events = 1 .. Len(events) /\ Len(events) \in Nat /\ \A e \in DOMAIN events : events[e] \in Row
    BY EventRows
  <2>2. \A e \in 1 .. Len(events) : (IF e \in batch[r].events THEN marked ELSE events[e]) \in Row
    BY <1>1, <2>1
  <2> QED
    BY <1>2, <2>1, <2>2
<1>4. batch' = [batch EXCEPT ![r].batchId = clock] /\ pc' = [pc EXCEPT ![r] = "ping"]
  BY DEF MarkBatched, Goto
<1>5. batch'[r].batchId = clock /\ batch'[r].events = batch[r].events /\ batch' \in [Requests -> Batch]
  BY <1>1, <1>4 DEF Typed, LocalsTyped, Batch
<1>6. OthersKept(r) /\ pc'[r] = "ping" /\ r \in Processes
  BY <1>4 DEF MarkBatched, Typed, LocalsTyped, OthersKept, Processes
<1>7. StoresTyped' /\ RestTyped'
  BY <1>3 DEF MarkBatched, Typed, StoresTyped, RestTyped
<1>8. LocalsTyped'
  BY <1>4, <1>5 DEF MarkBatched, Typed, LocalsTyped, Steps, RequestSteps
<1>9. incidents' = incidents
  BY DEF MarkBatched
<1>10. batch'[r].events \subseteq DOMAIN events
  BY <1>5 DEF Typed, Holds
<1>11. Holds'
  BY <1>1, <1>3, <1>5, <1>6, <1>9, <1>10, HoldsNext, WorkerAssumption DEF RequestSteps
<1> QED
  BY <1>2, <1>3, <1>5, <1>6, <1>7, <1>8, <1>11 DEF Typed, marked

\* A step of a process that has marked its events, and leaves the collections
\* and its batch alone.
LEMMA SearchTyped ==
    ASSUME Typed, NEW p \in Processes, pc[p] \notin {"idle", "mark"},
           UNCHANGED << stores, batch >>, OthersKept(p), LocalsTyped', RestTyped',
           p # Worker => pc'[p] \in RequestSteps \ {"mark"},
           p = Worker => pc'[p] \in ({"idle"} \cup WorkerSteps) \ {"anchor"}
    PROVE  Typed'
<1>1. StoresTyped'
  BY DEF stores, Typed, StoresTyped
<1>2. events' = events /\ incidents' = incidents /\ batch' = batch
  BY DEF stores
<1>3. ASSUME p # Worker
      PROVE  /\ pc'[p] \in {"idle"} \cup RequestSteps
             /\ pc'[p] = "idle" => batch'[p] = NoBatch
             /\ pc'[p] \notin {"idle", "mark"} => batch'[p].batchId \in Times
             /\ batch'[p].events \subseteq DOMAIN events'
  <2>1. p \in Requests
    BY <1>3 DEF Processes
  <2>2. batch[p].batchId \in Times /\ batch[p].events \subseteq DOMAIN events
    BY <2>1 DEF Typed, Holds
  <2> QED
    BY <1>2, <1>3, <2>2 DEF RequestSteps
<1>4. Holds'
  BY <1>2, <1>3, HoldsNext
<1> QED
  BY <1>1, <1>4 DEF Typed

\* The ping.
LEMMA TypePingDecides ==
    ASSUME Typed, NEW r \in Requests, PingDecides(r)
    PROVE  Typed' /\ OthersKept(r) /\ pc'[r] \in {"mainTail", "findOpen"}
<1> DEFINE step == IF networkUp THEN "mainTail" ELSE "findOpen"
<1>1. r \in Processes /\ r # Worker /\ step \in Steps
  BY WorkerAssumption DEF Processes, Steps, RequestSteps
<1>2. LocalsTyped' /\ OthersKept(r) /\ pc'[r] = step
  <2>1. Goto(r, step) /\ UNCHANGED locals
    BY DEF PingDecides
  <2> HIDE DEF step
  <2> QED
    BY <1>1, <2>1, GotoTyped
<1>3. RestTyped'
  BY DEF PingDecides, Typed, RestTyped
<1> QED
  BY <1>1, <1>2, <1>3, SearchTyped DEF PingDecides, RequestSteps, locals

\* The search for an OPEN incident.
LEMMA TypeFindOpen ==
    ASSUME Typed, NEW p \in Processes, FindOpen(p)
    PROVE  Typed' /\ OthersKept(p) /\ pc'[p] \notin {"mark", "anchor"}
<1>1. RestTyped' /\ UNCHANGED << stores, batch, tail >> /\ pc[p] = "findOpen"
  BY DEF FindOpen, Typed, RestTyped
<1>2. LocalsTyped' /\ OthersKept(p) /\ pc'[p] \in {"idle", "localTail", "check"}
      /\ (p # Worker => pc'[p] # "idle") /\ (p = Worker => pc'[p] # "localTail")
  <2>1. CASE OpenIncidents # {}
    <3>1. WithIncident(p, FirstOpen) /\ FirstOpen \in Nat
      BY <2>1, FirstOpenIncident DEF FindOpen
    <3> QED
      BY <1>1, <3>1, WithIncidentTyped
  <2>2. CASE OpenIncidents = {}
    <3>1. Goto(p, "check") /\ UNCHANGED locals /\ "check" \in Steps
      BY <1>1, <2>2 DEF FindOpen, locals, Steps, RequestSteps
    <3> QED
      BY <3>1, GotoTyped
  <2> QED
    BY <2>1, <2>2
<1> QED
  BY <1>1, <1>2, SearchTyped DEF RequestSteps, WorkerSteps

\* createNetworkIncident looks at its memory ...
LEMMA TypeCheckActive ==
    ASSUME Typed, NEW p \in Processes, CheckActive(p)
    PROVE  Typed' /\ OthersKept(p) /\ pc'[p] \notin {"mark", "anchor"}
<1>1. RestTyped' /\ UNCHANGED << stores, batch, tail >> /\ pc[p] = "check"
  BY DEF CheckActive, Typed, RestTyped
<1>2. LocalsTyped' /\ OthersKept(p) /\ pc'[p] \in {"idle", "localTail", "findExisting"}
      /\ (p # Worker => pc'[p] # "idle") /\ (p = Worker => pc'[p] # "localTail")
  <2>1. CASE activeIncident # None
    <3>1. WithIncident(p, None) /\ None \in Nat
      BY <2>1 DEF CheckActive, None
    <3> QED
      BY <1>1, <3>1, WithIncidentTyped
  <2>2. CASE activeIncident = None
    <3>1. Goto(p, "findExisting") /\ UNCHANGED locals /\ "findExisting" \in Steps
      BY <1>1, <2>2 DEF CheckActive, locals, Steps, RequestSteps
    <3> QED
      BY <3>1, GotoTyped
  <2> QED
    BY <2>1, <2>2
<1> QED
  BY <1>1, <1>2, SearchTyped DEF RequestSteps, WorkerSteps

\* ... and at the database.
LEMMA TypeFindExisting ==
    ASSUME Typed, NEW p \in Processes, FindExisting(p)
    PROVE  Typed' /\ OthersKept(p) /\ pc'[p] \in {"remember", "insert"}
<1>1. RestTyped' /\ UNCHANGED << stores, batch, tail >> /\ pc[p] = "findExisting"
  BY DEF FindExisting, Typed, RestTyped
<1>2. LocalsTyped' /\ OthersKept(p) /\ pc'[p] \in {"remember", "insert"}
  <2>1. CASE OpenIncidents # {}
    BY <1>1, <2>1, FirstOpenIncident
       DEF FindExisting, Goto, Typed, LocalsTyped, OthersKept, Steps, RequestSteps
  <2>2. CASE OpenIncidents = {}
    <3>1. Goto(p, "insert") /\ UNCHANGED locals /\ "insert" \in Steps
      BY <1>1, <2>2 DEF FindExisting, locals, Steps, RequestSteps
    <3> QED
      BY <3>1, GotoTyped
  <2> QED
    BY <2>1, <2>2
<1> QED
  BY <1>1, <1>2, SearchTyped DEF RequestSteps, WorkerSteps

\* The memory of the service.
LEMMA TypeRemember ==
    ASSUME Typed, NEW p \in Processes, Remember(p)
    PROVE  Typed' /\ OthersKept(p) /\ pc'[p] \in {"idle", "localTail"}
<1>1. incident[p] \in Nat
  BY DEF Typed, LocalsTyped
<1>2. RestTyped' /\ UNCHANGED << stores, batch, tail >> /\ pc[p] = "remember"
  BY <1>1 DEF Remember, Typed, RestTyped
<1>3. WithIncident(p, incident[p])
  BY DEF Remember
<1>4. LocalsTyped' /\ OthersKept(p) /\ (p = Worker => pc'[p] = "idle")
      /\ (p # Worker => pc'[p] = "localTail")
  BY <1>1, <1>2, <1>3, WithIncidentTyped
<1> QED
  BY <1>2, <1>4, SearchTyped DEF RequestSteps, WorkerSteps

\* A refused insert leaves everything typed.
LEMMA RefusedKeepsTyped ==
    ASSUME Typed, NEW p \in Processes, Refused(p), UNCHANGED stores,
           UNCHANGED << schedule, networkUp, clock, activeIncident, crashes >>
    PROVE  Typed' /\ OthersKept(p) /\ pc'[p] = "idle"
<1>1. /\ LocalsTyped' /\ OthersKept(p) /\ pc'[p] = "idle"
      /\ failed' \subseteq EventIds
      /\ p # Worker => batch'[p] = NoBatch
  BY RefusedTyped
<1>2. StoresTyped' /\ RestTyped'
  BY <1>1 DEF stores, Typed, StoresTyped, RestTyped
<1>3. NoBatch.events = {} /\ events' = events /\ incidents' = incidents
  BY DEF NoBatch, stores
<1>4. Holds'
  BY <1>1, <1>3, HoldsNext
<1> QED
  BY <1>1, <1>2, <1>4 DEF Typed

\* The insert of an incident.
LEMMA TypeInsertIncident ==
    ASSUME Typed, NEW p \in Processes, InsertIncident(p)
    PROVE  Typed' /\ OthersKept(p) /\ pc'[p] \in {"idle", "remember"}
<1> DEFINE row == [incidentId |-> clock, status |-> "OPEN"]
<1>1. CASE clock \in { incidents[i].incidentId : i \in DOMAIN incidents }
  BY <1>1, RefusedKeepsTyped DEF InsertIncident, stores
<1>2. CASE clock \notin { incidents[i].incidentId : i \in DOMAIN incidents }
  <2>1. row \in Incident /\ p \in Processes /\ "remember" \in Steps
    BY DEF Incident, Typed, RestTyped, Steps, RequestSteps
  <2>2. /\ incidents' = Append(incidents, row)
        /\ incident' = [incident EXCEPT ![p] = Len(incidents) + 1]
        /\ pc' = [pc EXCEPT ![p] = "remember"]
        /\ UNCHANGED << batch, tail, failed, schedule, networkUp, clock, events, main, local,
                        activeIncident, crashes >>
        /\ pc[p] = "insert"
    BY <1>2 DEF InsertIncident, Goto
  <2> HIDE DEF row
  <2>3. incidents' \in Seq(Incident) /\ DOMAIN incidents \subseteq DOMAIN incidents' /\ Len(incidents) + 1 \in Nat
    BY <2>1, <2>2 DEF Typed, StoresTyped
  <2>4. StoresTyped' /\ RestTyped'
    BY <2>2, <2>3 DEF Typed, StoresTyped, RestTyped
  <2>5. LocalsTyped' /\ OthersKept(p) /\ pc'[p] = "remember"
    BY <2>1, <2>2, <2>3 DEF Typed, LocalsTyped, OthersKept
  <2>6. ASSUME p # Worker
        PROVE  batch'[p].batchId \in Times /\ batch'[p].events \subseteq DOMAIN events'
    BY <2>2, <2>6 DEF Typed, Holds, Processes
  <2>7. Holds'
    BY <2>2, <2>3, <2>5, <2>6, HoldsNext DEF RequestSteps, WorkerSteps
  <2> QED
    BY <2>4, <2>5, <2>7 DEF Typed
<1> QED
  BY <1>1, <1>2

\* The tails.
LEMMA TypeReadTail ==
    ASSUME Typed, NEW r \in Requests, ReadLocalTail(r) \/ ReadMainTail(r)
    PROVE  Typed' /\ OthersKept(r) /\ pc'[r] \in {"localCreate", "mainCreate"}
<1>1. LastOfIncident(incident[r]) \in Nat /\ Len(main) \in Nat
  <2>1. Len(local) \in Nat /\ Len(main) \in Nat
    BY DEF Typed, StoresTyped
  <2> QED
    BY <2>1, LastBlock
<1>2. PICK last \in Nat, step \in {"localCreate", "mainCreate"} :
         tail' = [tail EXCEPT ![r] = last] /\ pc' = [pc EXCEPT ![r] = step]
  BY <1>1 DEF ReadLocalTail, ReadMainTail, Goto
<1>3. /\ UNCHANGED << stores, batch, incident, schedule, networkUp, clock, activeIncident, failed, crashes >>
      /\ pc[r] \in {"localTail", "mainTail"} /\ r \in Processes /\ r # Worker
  BY WorkerAssumption DEF ReadLocalTail, ReadMainTail, Processes
<1>4. LocalsTyped' /\ OthersKept(r) /\ pc'[r] = step
  BY <1>2, <1>3 DEF Typed, LocalsTyped, OthersKept, Steps, RequestSteps
<1>5. RestTyped'
  BY <1>3 DEF Typed, RestTyped
<1> QED
  BY <1>2, <1>3, <1>4, <1>5, SearchTyped DEF RequestSteps

\* The inserts of the two chains.
LEMMA TypeCreateLocalBlock ==
    ASSUME Typed, NEW r \in Requests, CreateLocalBlock(r)
    PROVE  Typed' /\ OthersKept(r) /\ pc'[r] = "idle"
<1> DEFINE block == [ batchId |-> batch[r].batchId, events |-> batch[r].events,
                      previous |-> tail[r], incidentId |-> incident[r] ]
<1>1. r \in Processes /\ r # Worker
  BY WorkerAssumption DEF Processes
<1>2. CASE batch[r].batchId \in BatchIds(local)
  BY <1>1, <1>2, RefusedKeepsTyped DEF CreateLocalBlock, stores
<1>3. CASE batch[r].batchId \notin BatchIds(local)
  <2>1. block \in LocalBlock
    <3>1. batch[r].batchId \in Times /\ batch[r].events \subseteq EventIds
      BY EventRows DEF CreateLocalBlock, Typed, Holds
    <3> QED
      BY <1>1, <3>1 DEF LocalBlock, Typed, LocalsTyped
  <2>2. local' = Append(local, block) /\ Ends(r)
        /\ UNCHANGED << failed, schedule, networkUp, clock, events, main, incidents, activeIncident, crashes >>
    BY <1>3 DEF CreateLocalBlock
  <2> HIDE DEF block
  <2>3. local' \in Seq(LocalBlock)
    BY <2>1, <2>2 DEF Typed, StoresTyped
  <2>4. StoresTyped' /\ RestTyped'
    BY <2>2, <2>3 DEF Typed, StoresTyped, RestTyped
  <2>5. LocalsTyped' /\ OthersKept(r) /\ pc'[r] = "idle" /\ batch'[r] = NoBatch /\ NoBatch.events = {}
    BY <2>2, EndsTyped DEF NoBatch
  <2>6. Holds'
    BY <1>1, <2>2, <2>5, HoldsNext
  <2> QED
    BY <2>4, <2>5, <2>6 DEF Typed
<1> QED
  BY <1>2, <1>3

LEMMA TypeCreateMainBlock ==
    ASSUME Typed, NEW r \in Requests, CreateMainBlock(r)
    PROVE  Typed' /\ OthersKept(r) /\ pc'[r] = "idle"
<1> DEFINE block == [ batchId |-> batch[r].batchId, events |-> batch[r].events,
                      previous |-> tail[r] ]
<1>1. r \in Processes /\ r # Worker
  BY WorkerAssumption DEF Processes
<1>2. CASE batch[r].batchId \in BatchIds(main)
  BY <1>1, <1>2, RefusedKeepsTyped DEF CreateMainBlock, stores
<1>3. CASE batch[r].batchId \notin BatchIds(main)
  <2>1. block \in MainBlock
    <3>1. batch[r].batchId \in Times /\ batch[r].events \subseteq EventIds
      BY EventRows DEF CreateMainBlock, Typed, Holds
    <3> QED
      BY <1>1, <3>1 DEF MainBlock, Typed, LocalsTyped
  <2>2. main' = Append(main, block) /\ Ends(r)
        /\ UNCHANGED << failed, schedule, networkUp, clock, events, local, incidents, activeIncident, crashes >>
    BY <1>3 DEF CreateMainBlock
  <2> HIDE DEF block
  <2>3. main' \in Seq(MainBlock)
    BY <2>1, <2>2 DEF Typed, StoresTyped
  <2>4. StoresTyped' /\ RestTyped'
    BY <2>2, <2>3 DEF Typed, StoresTyped, RestTyped
  <2>5. LocalsTyped' /\ OthersKept(r) /\ pc'[r] = "idle" /\ batch'[r] = NoBatch /\ NoBatch.events = {}
    BY <2>2, EndsTyped DEF NoBatch
  <2>6. Holds'
    BY <1>1, <2>2, <2>5, HoldsNext
  <2> QED
    BY <2>4, <2>5, <2>6 DEF Typed
<1> QED
  BY <1>2, <1>3

\* The worker's part.
LEMMA TypeWorkerStep ==
    ASSUME Typed, WorkerStep
    PROVE  Typed' /\ OthersKept(Worker)
<1>1. Worker \in Processes /\ None \in Nat
  BY DEF Processes, None
<1>2. CASE SaveClosed
  <2>1. /\ incident[Worker] \in DOMAIN incidents
        /\ incidents' = [incidents EXCEPT ![incident[Worker]].status = "CLOSED"]
    BY <1>2 DEF SaveClosed, Typed, Holds
  <2>2. incidents' \in Seq(Incident) /\ DOMAIN incidents' = DOMAIN incidents
    <3> DEFINE i == incident[Worker]
               closed == [incidents[i] EXCEPT !.status = "CLOSED"]
    <3>1. i \in DOMAIN incidents /\ incidents \in Seq(Incident)
          /\ incidents' = [incidents EXCEPT ![i] = closed]
      BY <2>1 DEF Typed, StoresTyped
    <3>2. closed \in Incident
      <4>1. incidents[i] \in Incident
        BY <3>1
      <4> QED
        BY <4>1 DEF Incident
    <3> HIDE DEF closed, i
    <3> QED
      BY <3>1, <3>2
  <2>3. StoresTyped' /\ RestTyped'
    BY <1>2, <2>2 DEF SaveClosed, Typed, StoresTyped, RestTyped
  <2>4. LocalsTyped' /\ OthersKept(Worker) /\ pc'[Worker] = "clear"
    BY <1>1, <1>2 DEF SaveClosed, Goto, Typed, LocalsTyped, OthersKept, Steps, WorkerSteps
  <2>5. Holds'
    BY <1>1, <1>2, <2>2, <2>4, HoldsNext DEF SaveClosed, WorkerSteps
  <2> QED
    BY <2>3, <2>4, <2>5 DEF Typed
<1>3. CASE WorkerOutage \/ ClearActive
  <2>1. UNCHANGED << stores, locals >> /\ StoresTyped' /\ RestTyped'
    BY <1>1, <1>3 DEF WorkerOutage, ClearActive, stores, Typed, StoresTyped, RestTyped
  <2>2. PICK step \in {"idle", "findOpen"} : Goto(Worker, step)
    BY <1>3 DEF WorkerOutage, ClearActive
  <2>3. LocalsTyped' /\ OthersKept(Worker) /\ pc'[Worker] = step
    BY <1>1, <2>1, <2>2, GotoTyped DEF Steps, RequestSteps
  <2>4. Holds'
    BY <1>1, <2>1, <2>3, HoldsNext DEF stores, WorkerSteps
  <2> QED
    BY <2>1, <2>3, <2>4 DEF Typed
<1>4. CASE WorkerRecovers
  <2>1. FirstOpen \in DOMAIN incidents /\ FirstOpen \in Nat
    BY <1>4, FirstOpenIncident DEF WorkerRecovers
  <2>2. UNCHANGED << stores, batch, tail >> /\ StoresTyped' /\ RestTyped'
    BY <1>4 DEF WorkerRecovers, stores, Typed, StoresTyped, RestTyped
  <2>3. LocalsTyped' /\ OthersKept(Worker) /\ pc'[Worker] = "anchor" /\ incident'[Worker] = FirstOpen
    BY <1>1, <1>4, <2>1, <2>2
       DEF WorkerRecovers, Goto, Typed, LocalsTyped, OthersKept, Steps, WorkerSteps
  <2>4. Holds'
    BY <1>1, <2>1, <2>2, <2>3, HoldsNext DEF stores, WorkerSteps
  <2> QED
    BY <2>2, <2>3, <2>4 DEF Typed
<1>5. CASE AnchorFails
  <2>1. UNCHANGED << stores, batch, tail >> /\ StoresTyped' /\ RestTyped' /\ WithIncident(Worker, None)
    BY <1>5 DEF AnchorFails, stores, Typed, StoresTyped, RestTyped
  <2>2. LocalsTyped' /\ OthersKept(Worker) /\ pc'[Worker] = "idle"
    BY <1>1, <2>1, WithIncidentTyped
  <2>3. Holds'
    BY <1>1, <2>1, <2>2, HoldsNext DEF stores
  <2> QED
    BY <2>1, <2>2, <2>3 DEF Typed
<1> QED
  BY <1>2, <1>3, <1>4, <1>5 DEF WorkerStep

\* The environment.
LEMMA TypeEnvironment ==
    ASSUME Typed, NetworkChange \/ Tick PROVE Typed'
<1>1. UNCHANGED << stores, pc, locals, schedule, activeIncident, failed, crashes >>
  BY DEF NetworkChange, Tick
<1>2. networkUp' \in BOOLEAN /\ clock' \in Times
  <2>1. networkUp \in BOOLEAN /\ clock \in Times
    BY DEF Typed, RestTyped
  <2>2. CASE NetworkChange
    BY <2>1, <2>2 DEF NetworkChange
  <2>3. CASE Tick
    BY <2>1, <2>3, BoundsAssumption DEF Tick, Times
  <2> QED
    BY <2>2, <2>3
<1> QED
  BY <1>1, <1>2
     DEF stores, locals, Typed, StoresTyped, LocalsTyped, RestTyped, Holds, Idle, Times

\* A restart.
LEMMA TypeCrash == ASSUME Typed, Crash PROVE Typed'
<1>1. UNCHANGED << schedule, networkUp, clock, stores >> /\ NoBatch \in Batch /\ None \in Nat
  BY DEF Crash, NoBatch, Batch, None
<1>2. failed' \subseteq EventIds
  <2>1. \A r \in Requests : batch[r].events \subseteq EventIds
    BY EventRows DEF Typed, Holds
  <2>2. failed' = failed \cup UNION { batch[r].events : r \in { q \in Requests : pc[q] # "mark" } }
    BY DEF Crash
  <2> QED
    BY <2>1, <2>2 DEF Typed, RestTyped
<1>3. StoresTyped' /\ RestTyped'
  BY <1>1, <1>2 DEF Crash, stores, Typed, StoresTyped, RestTyped
<1>4. LocalsTyped'
  BY <1>1 DEF Crash, LocalsTyped, Steps
<1>5. Holds'
  <2>1. \A p \in Processes : pc'[p] = "idle"
    BY DEF Crash
  <2>2. \A r \in Requests : batch'[r] = NoBatch /\ batch'[r].events = {}
    BY DEF Crash, NoBatch
  <2> QED
    BY <2>1, <2>2 DEF Holds, Idle, Processes
<1> QED
  BY <1>3, <1>4, <1>5 DEF Typed

\* Every step keeps the types.
LEMMA TypeStep == Typed /\ [Next]_vars => Typed'
<1> SUFFICES ASSUME Typed, [Next]_vars PROVE Typed'
  OBVIOUS
<1>1. ASSUME NEW r \in Requests, CreateStep(r) PROVE Typed'
  BY <1>1, TypeSelectPending, TypeMarkBatched, TypePingDecides, TypeReadTail,
     TypeCreateLocalBlock, TypeCreateMainBlock DEF CreateStep
<1>2. ASSUME NEW p \in Processes, IncidentStep(p) PROVE Typed'
  BY <1>2, TypeFindOpen, TypeCheckActive, TypeFindExisting, TypeInsertIncident, TypeRemember
     DEF IncidentStep
<1>3. CASE UNCHANGED vars
  BY <1>3 DEF vars, Typed, StoresTyped, LocalsTyped, RestTyped, Holds, Idle
<1> QED
  BY <1>1, <1>2, <1>3, TypeWorkerStep, TypeCreateAuditEvent, TypeEnvironment, TypeCrash DEF Next

\* In every reachable state the collections, the locals of the requests and of
\* the worker, and the history hold values of their types, however requests
\* and cycles overlap and wherever the process restarts.
THEOREM BatchTyped == Spec => []TypeOK
<1>1. Spec => []Typed
  BY TypeInit, TypeStep, PTL DEF Spec
<1> QED
  BY <1>1, TypeParts, PTL

-----------------------------------------------------------------------------
(* No event is forgotten *)

\* A step of one process: what it had in flight stays so, gets into a block,
\* or is counted as failed.
LEMMA StrandedKept ==
    ASSUME Typed, NothingStranded, NEW p \in Processes, OthersKept(p), events' = events,
           \A e \in EventIds : InBlock(e) => InBlock(e)',
           failed \subseteq failed',
           p # Worker /\ pc[p] # "mark" =>
               \A e \in batch[p].events :
                   InBlock(e)' \/ e \in failed' \/ (pc'[p] # "mark" /\ e \in batch'[p].events)
    PROVE  NothingStranded'
<1> SUFFICES ASSUME NEW e \in DOMAIN events, events[e].status = "BATCHED"
             PROVE  InBlock(e)' \/ InFlight(e)' \/ e \in failed'
  BY DEF NothingStranded
<1>1. e \in EventIds
  BY EventRows
<1>2. CASE InBlock(e) \/ e \in failed
  BY <1>1, <1>2
<1>3. CASE InFlight(e)
  <2>1. PICK r \in Requests : pc[r] # "mark" /\ e \in batch[r].events
    BY <1>3 DEF InFlight
  <2>2. r \in Processes /\ r # Worker
    BY WorkerAssumption DEF Processes
  <2>3. CASE r = p
    BY <2>1, <2>2, <2>3 DEF InFlight
  <2>4. CASE r # p
    BY <2>1, <2>2, <2>4 DEF InFlight, OthersKept
  <2> QED
    BY <2>3, <2>4
<1> QED
  BY <1>2, <1>3 DEF NothingStranded

\* A step that leaves the chains and the batches alone.
LEMMA StrandedKeptQuietly ==
    ASSUME Typed, NothingStranded, NEW p \in Processes, OthersKept(p),
           UNCHANGED << events, main, local, batch, failed >>,
           p # Worker => pc'[p] # "mark"
    PROVE  NothingStranded'
<1>1. \A e : InBlock(e) => InBlock(e)'
  BY DEF InBlock
<1>2. events' = events /\ failed \subseteq failed' /\ batch' = batch
  OBVIOUS
<1> QED
  BY <1>1, <1>2, StrandedKept

\* The selection: the process had nothing.
LEMMA StrandedSelectPending ==
    ASSUME Typed, NothingStranded, NEW r \in Requests, SelectPending(r)
    PROVE  NothingStranded'
<1>1. r \in Processes /\ batch[r] = NoBatch /\ NoBatch.events = {}
  BY DEF SelectPending, Typed, Holds, Processes, NoBatch
<1>2. OthersKept(r) /\ events' = events /\ failed' = failed
  BY <1>1 DEF SelectPending, Goto, OthersKept, Typed, LocalsTyped, stores
<1>3. \A e : InBlock(e) => InBlock(e)'
  BY DEF InBlock, SelectPending, stores
<1> QED
  BY <1>1, <1>2, <1>3, StrandedKept

\* The rows that become BATCHED are in flight.
LEMMA StrandedMarkBatched ==
    ASSUME Typed, NothingStranded, NEW r \in Requests, MarkBatched(r)
    PROVE  NothingStranded'
<1> SUFFICES ASSUME NEW e \in DOMAIN events', events'[e].status = "BATCHED"
             PROVE  InBlock(e)' \/ InFlight(e)' \/ e \in failed'
  BY DEF NothingStranded
<1>1. /\ OthersKept(r) /\ DOMAIN events' = DOMAIN events
      /\ pc'[r] = "ping" /\ batch'[r].events = batch[r].events
      /\ e \notin batch[r].events => events'[e] = events[e]
  BY TypeMarkBatched
<1>2. CASE e \in batch[r].events
  BY <1>1, <1>2 DEF InFlight
<1>3. CASE e \notin batch[r].events
  <2>1. InBlock(e) \/ InFlight(e) \/ e \in failed
    BY <1>1, <1>3 DEF NothingStranded
  <2>2. UNCHANGED << main, local, failed >> /\ pc[r] = "mark"
    BY DEF MarkBatched
  <2>3. InBlock(e) => InBlock(e)'
    BY <2>2 DEF InBlock
  <2>4. InFlight(e) => InFlight(e)'
    <3>1. ASSUME NEW q \in Requests, pc[q] # "mark" PROVE pc'[q] = pc[q] /\ batch'[q] = batch[q]
      BY <1>1, <2>2, <3>1 DEF OthersKept, Processes
    <3> QED
      BY <3>1 DEF InFlight
  <2> QED
    BY <2>1, <2>2, <2>3, <2>4
<1> QED
  BY <1>2, <1>3

\* A refused insert.
LEMMA StrandedRefused ==
    ASSUME Typed, NothingStranded, NEW p \in Processes, Refused(p), UNCHANGED << events, main, local >>
    PROVE  NothingStranded'
<1>1. OthersKept(p) /\ failed \subseteq failed' /\ (p # Worker => batch[p].events \subseteq failed')
  BY RefusedTyped
<1>2. \A e : InBlock(e) => InBlock(e)'
  BY DEF InBlock
<1> QED
  BY <1>1, <1>2, StrandedKept

\* An insert into a chain.
LEMMA StrandedCreateBlock ==
    ASSUME Typed, NothingStranded, NEW r \in Requests, CreateLocalBlock(r) \/ CreateMainBlock(r)
    PROVE  NothingStranded'
<1>1. r \in Processes /\ OthersKept(r) /\ events' = events
  BY TypeCreateLocalBlock, TypeCreateMainBlock DEF CreateLocalBlock, CreateMainBlock, Processes
<1>2. CASE Refused(r) /\ UNCHANGED << main, local >>
  BY <1>1, <1>2, StrandedRefused
<1>3. CASE ~(Refused(r) /\ UNCHANGED << main, local >>)
  <2>1. PICK mb, lb :
          /\ failed' = failed
          /\ mb.events = batch[r].events /\ lb.events = batch[r].events
          /\ \/ main' = Append(main, mb) /\ local' = local
             \/ local' = Append(local, lb) /\ main' = main
    BY <1>3 DEF CreateLocalBlock, CreateMainBlock
  <2>2. main \in Seq(MainBlock) /\ local \in Seq(LocalBlock)
    BY DEF Typed, StoresTyped
  <2>3. (\A e : InBlock(e) => InBlock(e)') /\ (\A e \in batch[r].events : InBlock(e)')
    <3>1. CASE main' = Append(main, mb) /\ local' = local
      <4>1. /\ \A n \in DOMAIN main : n \in DOMAIN main' /\ main'[n] = main[n]
            /\ Len(main) + 1 \in DOMAIN main' /\ main'[Len(main) + 1] = mb
        BY <2>2, <3>1
      <4> QED
        BY <2>1, <3>1, <4>1 DEF InBlock
    <3>2. CASE local' = Append(local, lb) /\ main' = main
      <4>1. /\ \A n \in DOMAIN local : n \in DOMAIN local' /\ local'[n] = local[n]
            /\ Len(local) + 1 \in DOMAIN local' /\ local'[Len(local) + 1] = lb
        BY <2>2, <3>2
      <4> QED
        BY <2>1, <3>2, <4>1 DEF InBlock
    <3> QED
      BY <2>1, <3>1, <3>2
  <2> QED
    BY <1>1, <2>1, <2>3, StrandedKept
<1> QED
  BY <1>2, <1>3

\* The steps towards an incident.
LEMMA StrandedIncidentStep ==
    ASSUME Typed, NothingStranded, NEW p \in Processes, IncidentStep(p)
    PROVE  NothingStranded'
<1>1. CASE FindOpen(p)
  BY <1>1, TypeFindOpen, StrandedKeptQuietly DEF FindOpen, stores
<1>2. CASE CheckActive(p)
  BY <1>2, TypeCheckActive, StrandedKeptQuietly DEF CheckActive, stores
<1>3. CASE FindExisting(p)
  BY <1>3, TypeFindExisting, StrandedKeptQuietly DEF FindExisting, stores
<1>4. CASE Remember(p)
  BY <1>4, TypeRemember, StrandedKeptQuietly DEF Remember, stores
<1>5. CASE InsertIncident(p)
  <2>1. CASE Refused(p)
    BY <1>5, <2>1, StrandedRefused DEF InsertIncident
  <2>2. CASE ~Refused(p)
    BY <1>5, <2>2, TypeInsertIncident, StrandedKeptQuietly DEF InsertIncident
  <2> QED
    BY <2>1, <2>2
<1> QED
  BY <1>1, <1>2, <1>3, <1>4, <1>5 DEF IncidentStep

\* A restart ends what was in flight.
LEMMA StrandedCrash == ASSUME Typed, NothingStranded, Crash PROVE NothingStranded'
<1> SUFFICES ASSUME NEW e \in DOMAIN events, events[e].status = "BATCHED"
             PROVE  InBlock(e)' \/ e \in failed'
  BY DEF NothingStranded, Crash, stores
<1>1. failed' = failed \cup UNION { batch[r].events : r \in { q \in Requests : pc[q] # "mark" } }
  BY DEF Crash
<1>2. InFlight(e) => e \in failed'
  BY <1>1 DEF InFlight
<1>3. InBlock(e) => InBlock(e)'
  BY DEF InBlock, Crash, stores
<1> QED
  BY <1>1, <1>2, <1>3 DEF NothingStranded

\* A new row is PENDING.
LEMMA StrandedCreateAuditEvent ==
    ASSUME Typed, NothingStranded, CreateAuditEvent PROVE NothingStranded'
<1> SUFFICES ASSUME NEW e \in DOMAIN events', events'[e].status = "BATCHED"
             PROVE  InBlock(e)' \/ InFlight(e)' \/ e \in failed'
  BY DEF NothingStranded
<1>1. e \in DOMAIN events /\ events'[e] = events[e]
  BY DEF CreateAuditEvent, Typed, StoresTyped
<1>2. UNCHANGED << main, local, pc, batch, failed >>
  BY DEF CreateAuditEvent
<1> QED
  BY <1>1, <1>2 DEF NothingStranded, InBlock, InFlight

\* Every BATCHED event is in a block, on its way to one, or of a request that
\* was answered 500 or cut by a restart: however /create requests overlap,
\* whatever batchIds they share, and wherever the process stops.
THEOREM NothingEverStranded == Spec => []NothingStranded
<1>1. Init => NothingStranded
  BY DEF Init, NothingStranded
<1>2. ASSUME Typed, NothingStranded, [Next]_vars PROVE NothingStranded'
  <2>1. ASSUME NEW r \in Requests, CreateStep(r) PROVE NothingStranded'
    <3>1. r \in Processes
      BY DEF Processes
    <3>2. CASE PingDecides(r)
      BY <1>2, <3>1, <3>2, TypePingDecides, StrandedKeptQuietly DEF PingDecides, stores, locals
    <3>3. CASE ReadLocalTail(r) \/ ReadMainTail(r)
      BY <1>2, <3>1, <3>3, TypeReadTail, StrandedKeptQuietly DEF ReadLocalTail, ReadMainTail, stores
    <3> QED
      BY <1>2, <2>1, <3>2, <3>3, StrandedSelectPending, StrandedMarkBatched, StrandedCreateBlock
         DEF CreateStep
  <2>2. ASSUME NEW p \in Processes, IncidentStep(p) PROVE NothingStranded'
    BY <1>2, <2>2, StrandedIncidentStep
  <2>3. CASE WorkerStep
    <3>1. UNCHANGED << events, main, local, batch, failed >> /\ Worker \in Processes
      BY <2>3 DEF WorkerStep, WorkerOutage, WorkerRecovers, AnchorFails, SaveClosed, ClearActive,
                  stores, locals, Processes
    <3> QED
      BY <1>2, <2>3, <3>1, TypeWorkerStep, StrandedKeptQuietly
  <2>4. CASE NetworkChange \/ Tick \/ UNCHANGED vars
    <3>1. UNCHANGED << events, main, local, pc, batch, failed >>
      BY <2>4 DEF NetworkChange, Tick, vars, stores, locals
    <3> QED
      BY <1>2, <3>1 DEF NothingStranded, InBlock, InFlight
  <2> QED
    BY <1>2, <2>1, <2>2, <2>3, <2>4, StrandedCrash, StrandedCreateAuditEvent DEF Next
<1>3. Spec => []Typed
  BY TypeInit, TypeStep, PTL DEF Spec
<1> QED
  BY <1>1, <1>2, <1>3, PTL DEF Spec

-----------------------------------------------------------------------------
(* Requests and cycles one at a time *)

\* What a process at a step knows of the incidents.
AtStep(p) ==
    /\ pc[p] \in {"check", "findExisting", "insert"} => OpenIncidents = {}
    /\ pc[p] = "remember" => incident[p] \in OpenIncidents
    /\ pc[p] \in {"localTail", "localCreate"} => incident[p] # None

OneOpen == \A i, j \in OpenIncidents : i = j
MemoryOpen == activeIncident # None => activeIncident \in OpenIncidents \/ pc[Worker] = "clear"
LocalsHaveIncident == \A n \in DOMAIN local : local[n].incidentId # None

\* One process at most is under way, one incident at most is OPEN, the memory
\* holds an OPEN one but for the moment before it is cleared.
Alone ==
    /\ \A p, q \in Processes : ~Idle(p) /\ ~Idle(q) => p = q
    /\ OneOpen /\ MemoryOpen /\ LocalsHaveIncident
    /\ \A p \in Processes : AtStep(p)

\* Nothing else is under way beside p.
OnlyOne(p) == \A q \in Processes : q # p => Idle(q)

LEMMA AloneActs ==
    ASSUME Alone, NEW p \in Processes, pc[p] # "idle"
    PROVE  OnlyOne(p)
  BY DEF Alone, OnlyOne, Idle

LEMMA AloneStarts ==
    ASSUME schedule = "alone", NEW p \in Processes, MayStart(p)
    PROVE  OnlyOne(p)
  BY DEF OnlyOne, MayStart

\* A step of p keeps Alone when p's own part holds after it.
LEMMA AloneKept ==
    ASSUME NEW p \in Processes, OnlyOne(p), OthersKept(p),
           OneOpen', MemoryOpen', LocalsHaveIncident', AtStep(p)'
    PROVE  Alone'
<1>1. ASSUME NEW q \in Processes, q # p PROVE pc'[q] = "idle"
  BY <1>1 DEF OnlyOne, OthersKept, Idle
<1>2. ASSUME NEW q \in Processes PROVE AtStep(q)'
  <2>1. CASE q = p
    BY <2>1
  <2>2. CASE q # p
    BY <1>1, <2>2 DEF AtStep
  <2> QED
    BY <2>1, <2>2
<1>3. \A q, r \in Processes : ~Idle(q)' /\ ~Idle(r)' => q = r
  BY <1>1 DEF Idle
<1> QED
  BY <1>2, <1>3 DEF Alone

\* A step that changes neither the incidents, nor the memory, nor the chain.
LEMMA AloneKeptQuietly ==
    ASSUME Alone, NEW p \in Processes, OnlyOne(p), OthersKept(p),
           UNCHANGED << incidents, activeIncident, local >>,
           pc[Worker] = "clear" => pc'[Worker] = "clear",
           AtStep(p)'
    PROVE  Alone'
<1>1. OneOpen' /\ LocalsHaveIncident' /\ MemoryOpen'
  BY DEF Alone, OneOpen, LocalsHaveIncident, MemoryOpen, OpenIncidents
<1> QED
  BY <1>1, AloneKept

\* createBatch and the ping.
LEMMA AloneCreateBatch ==
    ASSUME Typed, Alone, schedule = "alone", NEW r \in Requests,
           SelectPending(r) \/ MarkBatched(r) \/ PingDecides(r)
    PROVE  Alone'
<1>1. r \in Processes /\ r # Worker
  BY WorkerAssumption DEF Processes
<1>2. OnlyOne(r)
  BY <1>1, AloneActs, AloneStarts DEF SelectPending, MarkBatched, PingDecides
<1>3. OthersKept(r) /\ pc'[r] \in {"mark", "ping", "mainTail", "findOpen"}
  BY <1>1, TypeMarkBatched, TypePingDecides
     DEF SelectPending, Goto, OthersKept, Typed, LocalsTyped
<1>4. UNCHANGED << incidents, activeIncident, local >>
  BY DEF SelectPending, MarkBatched, PingDecides, stores
<1>5. AtStep(r)'
  BY <1>3 DEF AtStep
<1>6. pc[Worker] = "clear" => pc'[Worker] = "clear"
  BY <1>1, <1>3 DEF OthersKept, Processes
<1> QED
  BY <1>1, <1>2, <1>3, <1>4, <1>5, <1>6, AloneKeptQuietly

\* A process that is not at "clear" leaves the worker there, or was not it.
LEMMA ClearKept ==
    ASSUME NEW p \in Processes, pc[p] # "clear", OthersKept(p)
    PROVE  pc[Worker] = "clear" => pc'[Worker] = "clear"
  BY DEF OthersKept, Processes

\* Towards the incident: nothing is OPEN when a new one is inserted.
LEMMA AloneIncidentStep ==
    ASSUME Typed, Alone, schedule = "alone", NEW p \in Processes, IncidentStep(p)
    PROVE  Alone'
<1>1. pc[p] \in {"findOpen", "check", "findExisting", "insert", "remember"}
  BY DEF IncidentStep, FindOpen, CheckActive, FindExisting, InsertIncident, Remember
<1>2. OnlyOne(p) /\ AtStep(p)
  BY <1>1, AloneActs DEF Alone
<1>3. OthersKept(p)
  BY TypeFindOpen, TypeCheckActive, TypeFindExisting, TypeInsertIncident, TypeRemember
     DEF IncidentStep
<1>4. pc[Worker] # "clear"
  BY <1>1, <1>2 DEF OnlyOne, Idle, Processes
<1>5. pc \in [Processes -> Steps] /\ incident \in [Processes -> Nat]
  BY DEF Typed, LocalsTyped
<1>6. CASE FindOpen(p)
  <2>1. UNCHANGED << incidents, activeIncident, local >>
    BY <1>6 DEF FindOpen, stores
  <2>2. CASE OpenIncidents # {}
    <3>1. FirstOpen # None /\ WithIncident(p, FirstOpen)
      BY <1>6, <2>2, FirstOpenIncident DEF FindOpen
    <3>2. pc'[p] = "idle" \/ (pc'[p] = "localTail" /\ incident'[p] # None)
      BY <1>5, <3>1 DEF WithIncident, Goto
    <3>3. AtStep(p)'
      BY <3>2 DEF AtStep
    <3> QED
      BY <1>2, <1>3, <1>4, <2>1, <3>3, AloneKeptQuietly
  <2>3. CASE OpenIncidents = {}
    <3>1. pc'[p] = "check" /\ OpenIncidents' = {}
      BY <1>5, <1>6, <2>1, <2>3 DEF FindOpen, Goto, OpenIncidents
    <3>2. AtStep(p)'
      BY <3>1 DEF AtStep
    <3> QED
      BY <1>2, <1>3, <1>4, <2>1, <3>2, AloneKeptQuietly
  <2> QED
    BY <2>2, <2>3
<1>7. CASE CheckActive(p)
  <2>1. UNCHANGED << incidents, activeIncident, local >> /\ OpenIncidents = {}
    BY <1>2, <1>7 DEF CheckActive, stores, AtStep
  <2>2. activeIncident = None
    BY <1>4, <2>1 DEF Alone, MemoryOpen
  <2>3. pc'[p] = "findExisting" /\ OpenIncidents' = {}
    BY <1>5, <1>7, <2>1, <2>2 DEF CheckActive, Goto, OpenIncidents
  <2>4. AtStep(p)'
    BY <2>3 DEF AtStep
  <2> QED
    BY <1>2, <1>3, <1>4, <2>1, <2>4, AloneKeptQuietly
<1>8. CASE FindExisting(p)
  <2>1. UNCHANGED << incidents, activeIncident, local >> /\ OpenIncidents = {}
    BY <1>2, <1>8 DEF FindExisting, stores, AtStep
  <2>2. pc'[p] = "insert" /\ OpenIncidents' = {}
    BY <1>5, <1>8, <2>1 DEF FindExisting, Goto, OpenIncidents
  <2>3. AtStep(p)'
    BY <2>2 DEF AtStep
  <2> QED
    BY <1>2, <1>3, <1>4, <2>1, <2>3, AloneKeptQuietly
<1>9. CASE InsertIncident(p)
  <2>1. UNCHANGED << activeIncident, local >> /\ OpenIncidents = {}
    BY <1>2, <1>9 DEF InsertIncident, AtStep
  <2>2. CASE Refused(p) /\ UNCHANGED incidents
    <3>1. pc'[p] = "idle"
      BY <2>2, RefusedTyped
    <3>2. AtStep(p)'
      BY <3>1 DEF AtStep
    <3> QED
      BY <1>2, <1>3, <1>4, <2>1, <2>2, <3>2, AloneKeptQuietly
  <2>3. CASE ~(Refused(p) /\ UNCHANGED incidents)
    <3> DEFINE row == [incidentId |-> clock, status |-> "OPEN"]
               last == Len(incidents) + 1
    <3>1. incidents' = Append(incidents, row) /\ pc'[p] = "remember" /\ incident'[p] = last
      BY <1>5, <1>9, <2>3 DEF InsertIncident, Goto
    <3>2. incidents \in Seq(Incident)
      BY DEF Typed, StoresTyped
    <3>3. OpenIncidents' = {last}
      <4>1. DOMAIN incidents' = DOMAIN incidents \cup {last} /\ incidents'[last] = row
            /\ \A i \in DOMAIN incidents : incidents'[i] = incidents[i]
        BY <3>1, <3>2
      <4> QED
        BY <2>1, <4>1 DEF OpenIncidents
    <3>4. activeIncident = None
      BY <1>4, <2>1 DEF Alone, MemoryOpen
    <3>5. OneOpen' /\ MemoryOpen' /\ AtStep(p)'
      BY <2>1, <3>1, <3>3, <3>4 DEF OneOpen, MemoryOpen, AtStep
    <3>6. LocalsHaveIncident'
      BY <2>1 DEF Alone, LocalsHaveIncident
    <3> QED
      BY <1>2, <1>3, <3>5, <3>6, AloneKept
  <2> QED
    BY <2>2, <2>3
<1>10. CASE Remember(p)
  <2>1. UNCHANGED << incidents, local >> /\ activeIncident' = incident[p]
        /\ WithIncident(p, incident[p]) /\ incident[p] \in OpenIncidents
    BY <1>2, <1>10 DEF Remember, stores, AtStep
  <2>2. incident[p] # None /\ OpenIncidents' = OpenIncidents
    BY <2>1, FirstOpenIncident DEF OpenIncidents
  <2>3. pc'[p] = "idle" \/ (pc'[p] = "localTail" /\ incident'[p] # None)
    BY <1>5, <2>1, <2>2 DEF WithIncident, Goto
  <2>4. OneOpen' /\ LocalsHaveIncident' /\ MemoryOpen' /\ AtStep(p)'
    BY <2>1, <2>2, <2>3 DEF Alone, OneOpen, LocalsHaveIncident, MemoryOpen, AtStep
  <2> QED
    BY <1>2, <1>3, <2>4, AloneKept
<1> QED
  BY <1>6, <1>7, <1>8, <1>9, <1>10 DEF IncidentStep

\* The block is staged under the incident of its request.
LEMMA AloneCreateBlock ==
    ASSUME Typed, Alone, schedule = "alone", NEW r \in Requests,
           \/ ReadLocalTail(r) \/ ReadMainTail(r) \/ CreateLocalBlock(r) \/ CreateMainBlock(r)
    PROVE  Alone'
<1>1. r \in Processes /\ r # Worker /\ pc[r] \in {"localTail", "mainTail", "localCreate", "mainCreate"}
  BY WorkerAssumption DEF Processes, ReadLocalTail, ReadMainTail, CreateLocalBlock, CreateMainBlock
<1>2. OnlyOne(r) /\ AtStep(r)
  BY <1>1, AloneActs DEF Alone
<1>3. OthersKept(r)
  BY TypeReadTail, TypeCreateLocalBlock, TypeCreateMainBlock
<1>4. pc[Worker] # "clear" /\ UNCHANGED << incidents, activeIncident >>
  BY <1>1, <1>2 DEF OnlyOne, Idle, Processes, ReadLocalTail, ReadMainTail, CreateLocalBlock,
                    CreateMainBlock, stores
<1>5. CASE CreateLocalBlock(r)
  <2> DEFINE block == [ batchId |-> batch[r].batchId, events |-> batch[r].events,
                        previous |-> tail[r], incidentId |-> incident[r] ]
  <2>1. pc'[r] = "idle" /\ pc[r] = "localCreate"
    BY <1>5, TypeCreateLocalBlock DEF CreateLocalBlock
  <2>2. local' = local \/ local' = Append(local, block)
    BY <1>5 DEF CreateLocalBlock
  <2>3. local \in Seq(LocalBlock) /\ block.incidentId # None
    BY <1>2, <2>1 DEF Typed, StoresTyped, AtStep
  <2> HIDE DEF block
  <2>4. LocalsHaveIncident'
    BY <2>2, <2>3 DEF Alone, LocalsHaveIncident
  <2>5. OneOpen' /\ MemoryOpen'
    BY <1>4 DEF Alone, OneOpen, MemoryOpen, OpenIncidents
  <2>6. AtStep(r)'
    BY <2>1 DEF AtStep
  <2> QED
    BY <1>1, <1>2, <1>3, <2>4, <2>5, <2>6, AloneKept
<1>6. CASE ReadLocalTail(r)
  <2>1. pc'[r] = "localCreate" /\ incident' = incident /\ local' = local /\ pc[r] = "localTail"
    BY <1>1, <1>6 DEF ReadLocalTail, Goto, stores, Typed, LocalsTyped
  <2>2. AtStep(r)'
    BY <1>2, <2>1 DEF AtStep
  <2> QED
    BY <1>1, <1>2, <1>3, <1>4, <2>1, <2>2, AloneKeptQuietly
<1>7. CASE ReadMainTail(r) \/ CreateMainBlock(r)
  <2>1. pc'[r] \in {"mainCreate", "idle"} /\ local' = local
    BY <1>1, <1>7, TypeCreateMainBlock DEF ReadMainTail, CreateMainBlock, Goto, stores, Typed, LocalsTyped
  <2>2. AtStep(r)'
    BY <2>1 DEF AtStep
  <2> QED
    BY <1>1, <1>2, <1>3, <1>4, <2>1, <2>2, AloneKeptQuietly
<1> QED
  BY <1>5, <1>6, <1>7

\* The worker's part: what it closes is no longer OPEN, and leaves the memory.
LEMMA AloneWorkerStep ==
    ASSUME Typed, Alone, schedule = "alone", WorkerStep
    PROVE  Alone'
<1>1. Worker \in Processes /\ OthersKept(Worker)
  BY TypeWorkerStep DEF Processes
<1>2. OnlyOne(Worker)
  BY <1>1, AloneActs, AloneStarts
     DEF WorkerStep, WorkerOutage, WorkerRecovers, AnchorFails, SaveClosed, ClearActive
<1>3. pc \in [Processes -> Steps] /\ local' = local
  BY DEF Typed, LocalsTyped, WorkerStep, WorkerOutage, WorkerRecovers, AnchorFails, SaveClosed,
         ClearActive, stores
<1>4. LocalsHaveIncident'
  BY <1>3 DEF Alone, LocalsHaveIncident
<1>5. CASE WorkerOutage \/ WorkerRecovers \/ AnchorFails
  <2>1. /\ pc'[Worker] \in {"findOpen", "anchor", "idle"} /\ pc[Worker] # "clear"
        /\ UNCHANGED << incidents, activeIncident >>
    BY <1>1, <1>3, <1>5 DEF WorkerOutage, WorkerRecovers, AnchorFails, WithIncident, Goto, stores, Idle
  <2>2. AtStep(Worker)'
    BY <2>1 DEF AtStep
  <2> QED
    BY <1>1, <1>2, <1>3, <2>1, <2>2, AloneKeptQuietly
<1>6. CASE SaveClosed
  <2> DEFINE i == incident[Worker]
  <2>1. pc'[Worker] = "clear" /\ activeIncident' = activeIncident
    BY <1>1, <1>3, <1>6 DEF SaveClosed, Goto
  <2>2. incidents' = [incidents EXCEPT ![i].status = "CLOSED"] /\ i \in DOMAIN incidents
        /\ incidents \in Seq(Incident)
    BY <1>6 DEF SaveClosed, Typed, StoresTyped, Holds
  <2> HIDE DEF i
  <2>3. OpenIncidents' \subseteq OpenIncidents
    <3>1. DOMAIN incidents' = DOMAIN incidents /\ \A j \in DOMAIN incidents : j # i => incidents'[j] = incidents[j]
      BY <2>2
    <3>2. incidents'[i].status = "CLOSED"
      <4> DEFINE old == incidents[i]
      <4>1. incidents'[i] = [old EXCEPT !.status = "CLOSED"]
        BY <2>2
      <4>2. old \in Incident
        BY <2>2
      <4> HIDE DEF old
      <4> QED
        BY <4>1, <4>2 DEF Incident
    <3> QED
      BY <3>1, <3>2 DEF OpenIncidents
  <2>4. OneOpen' /\ MemoryOpen' /\ AtStep(Worker)'
    BY <2>1, <2>3 DEF Alone, OneOpen, MemoryOpen, AtStep
  <2> QED
    BY <1>1, <1>2, <1>4, <2>4, AloneKept
<1>7. CASE ClearActive
  <2>1. pc'[Worker] = "idle" /\ activeIncident' = None /\ incidents' = incidents
    BY <1>1, <1>3, <1>7 DEF ClearActive, Goto, stores
  <2>2. OneOpen' /\ MemoryOpen' /\ AtStep(Worker)'
    BY <2>1 DEF Alone, OneOpen, MemoryOpen, AtStep, OpenIncidents
  <2> QED
    BY <1>1, <1>2, <1>4, <2>2, AloneKept
<1> QED
  BY <1>5, <1>6, <1>7 DEF WorkerStep

\* The rest touches none of it; a restart forgets the memory and every step.
LEMMA AloneRest ==
    ASSUME Typed, Alone, CreateAuditEvent \/ NetworkChange \/ Tick \/ Crash \/ UNCHANGED vars
    PROVE  Alone'
<1>1. CASE Crash
  <2>1. \A p \in Processes : pc'[p] = "idle"
    BY <1>1 DEF Crash
  <2>2. activeIncident' = None /\ UNCHANGED << incidents, local >>
    BY <1>1 DEF Crash, stores
  <2>3. \A p \in Processes : AtStep(p)'
    BY <2>1 DEF AtStep
  <2> QED
    BY <2>1, <2>2, <2>3 DEF Alone, OneOpen, MemoryOpen, LocalsHaveIncident, OpenIncidents, Idle
<1>2. CASE CreateAuditEvent \/ NetworkChange \/ Tick \/ UNCHANGED vars
  <2>1. UNCHANGED << incidents, activeIncident, local, pc, incident >>
    BY <1>2 DEF CreateAuditEvent, NetworkChange, Tick, vars, stores, locals
  <2> QED
    BY <2>1 DEF Alone, OneOpen, MemoryOpen, LocalsHaveIncident, OpenIncidents, Idle, AtStep
<1> QED
  BY <1>1, <1>2

LEMMA ScheduleKept == [Next]_vars => schedule' = schedule
  BY DEF Next, CreateStep, IncidentStep, WorkerStep, SelectPending, MarkBatched, PingDecides,
         ReadLocalTail, CreateLocalBlock, ReadMainTail, CreateMainBlock, FindOpen, CheckActive,
         FindExisting, InsertIncident, Remember, WorkerOutage, WorkerRecovers, AnchorFails,
         SaveClosed, ClearActive, CreateAuditEvent, NetworkChange, Tick, Crash, vars

LEMMA AloneAlways == Spec => [](schedule = "alone" => Alone)
<1>1. Init => Alone
  <2> SUFFICES ASSUME Init PROVE Alone
    OBVIOUS
  <2>1. /\ incidents = << >> /\ local = << >> /\ activeIncident = None
        /\ \A p \in Processes : pc[p] = "idle"
    BY DEF Init
  <2> QED
    BY <2>1 DEF Alone, OneOpen, MemoryOpen, LocalsHaveIncident, OpenIncidents, Idle, AtStep
<1>2. ASSUME Typed, schedule = "alone" => Alone, [Next]_vars
      PROVE  (schedule = "alone" => Alone)'
  <2> SUFFICES ASSUME schedule' = "alone" PROVE Alone'
    OBVIOUS
  <2>1. schedule = "alone" /\ Alone
    BY <1>2, ScheduleKept
  <2>2. ASSUME NEW r \in Requests, CreateStep(r) PROVE Alone'
    BY <1>2, <2>1, <2>2, AloneCreateBatch, AloneCreateBlock DEF CreateStep
  <2>3. ASSUME NEW p \in Processes, IncidentStep(p) PROVE Alone'
    BY <1>2, <2>1, <2>3, AloneIncidentStep
  <2> QED
    BY <1>2, <2>1, <2>2, <2>3, AloneWorkerStep, AloneRest DEF Next
<1>3. Spec => []Typed
  BY TypeInit, TypeStep, PTL DEF Spec
<1> QED
  BY <1>1, <1>2, <1>3, PTL DEF Spec

\* With the worker's cycles and the requests one at a time, every block of a
\* LOCAL chain has an incident, through any outages and restarts.
THEOREM AlwaysStagedUnderIncident == Spec => []StagedUnderIncident
<1>1. (schedule = "alone" => Alone) => StagedUnderIncident
  BY DEF Alone, LocalsHaveIncident, StagedUnderIncident
<1> QED
  BY <1>1, AloneAlways, PTL

\* ... and there is never a second OPEN incident.
THEOREM AlwaysOneIncidentOpen == Spec => []OneIncidentOpen
<1>1. (schedule = "alone" => Alone) => OneIncidentOpen
  BY DEF Alone, OneOpen, OneIncidentOpen, OpenIncidents
<1> QED
  BY <1>1, AloneAlways, PTL

-----------------------------------------------------------------------------
(* Requests one at a time, beside the worker *)

\* The rows of a batch, by the identifier they carry.
RowsOf(id) == { e \in DOMAIN events : events[e].batchId = id }

\* One request at most is under way.
One == \A q, r \in Requests : ~Idle(q) /\ ~Idle(r) => q = r

\* Identifiers are times that have passed; what is PENDING has none, and
\* what failed is not PENDING.
RowsDated ==
    /\ \A e \in DOMAIN events : events[e].batchId <= clock
    /\ \A e \in Pending : events[e].batchId = None
    /\ failed \subseteq DOMAIN events /\ failed \cap Pending = {}

\* A block is made of the rows of its batch, none of which failed, and no other
\* block of the chain has its identifier.
Exact(chain) ==
    /\ \A n \in DOMAIN chain :
          /\ chain[n].events = RowsOf(chain[n].batchId) /\ chain[n].events # {}
          /\ chain[n].batchId # None /\ chain[n].events \cap failed = {}
    /\ \A m, n \in DOMAIN chain : chain[m].batchId = chain[n].batchId => m = n

\* The blocks of an incident are linked one to the next.
Linked ==
    \A n \in DOMAIN local :
        /\ local[n].previous < n
        /\ \A m \in DOMAIN local :
              m < n /\ local[m].incidentId = local[n].incidentId => m <= local[n].previous

\* What a request knows of its rows, before and after it has marked them ...
Selected(r) ==
    pc[r] = "mark" => /\ batch[r].events \subseteq Pending /\ batch[r].events # {}
                      /\ \A e \in DOMAIN events : events[e].batchId # clock
Marked(r) ==
    pc[r] \notin {"idle", "mark"} =>
        /\ batch[r].events = RowsOf(batch[r].batchId) /\ batch[r].events # {}
        /\ batch[r].batchId \notin BatchIds(main) \cup BatchIds(local)
        /\ batch[r].events \cap failed = {}

\* ... and of the end of its LOCAL chain.
Linking(r) ==
    pc[r] = "localCreate" =>
        /\ tail[r] <= Len(local)
        /\ \A n \in DOMAIN local : local[n].incidentId = incident[r] => n <= tail[r]

Serial ==
    /\ One /\ RowsDated /\ Linked
    /\ Exact(main) /\ Exact(local) /\ BatchIds(main) \cap BatchIds(local) = {}
    /\ \A r \in Requests : Selected(r) /\ Marked(r) /\ Linking(r)

LEMMA SerialInit == Init => Serial
<1> SUFFICES ASSUME Init PROVE Serial
  OBVIOUS
<1>1. /\ events = << >> /\ main = << >> /\ local = << >> /\ failed = {}
      /\ \A r \in Requests : pc[r] = "idle"
  BY DEF Init, Processes
<1>2. BatchIds(main) = {} /\ Exact(main) /\ Exact(local) /\ Linked
  BY <1>1 DEF BatchIds, Exact, Linked
<1> QED
  BY <1>1, <1>2 DEF Serial, One, Idle, RowsDated, Pending, Selected, Marked, Linking

\* Beside a request that is under way the others are idle.
LEMMA SerialOthers ==
    ASSUME Serial, NEW r \in Requests, pc[r] # "idle", OthersKept(r)
    PROVE  \A q \in Requests : q # r => pc[q] = "idle" /\ pc'[q] = "idle"
  BY DEF Serial, One, Idle, OthersKept, Processes

\* Requests that are idle know nothing.
LEMMA SerialIdle ==
    ASSUME NEW r \in Requests, pc'[r] = "idle"
    PROVE  Selected(r)' /\ Marked(r)' /\ Linking(r)'
  BY DEF Selected, Marked, Linking

\* The chains when the rows of their batches stay.
LEMMA ExactKept ==
    ASSUME Serial, UNCHANGED << main, local >>,
           \A id \in BatchIds(main) \cup BatchIds(local) :
               RowsOf(id)' = RowsOf(id) /\ RowsOf(id) \cap failed' = {}
    PROVE  Exact(main)' /\ Exact(local)' /\ (BatchIds(main) \cap BatchIds(local) = {})' /\ Linked'
<1>1. Exact(main)'
  <2>1. ASSUME NEW n \in DOMAIN main
        PROVE  /\ main[n].events = RowsOf(main[n].batchId)' /\ main[n].events # {}
               /\ main[n].batchId # None /\ main[n].events \cap failed' = {}
    <3>1. main[n].batchId \in BatchIds(main)
      BY DEF BatchIds
    <3>2. main[n].events = RowsOf(main[n].batchId) /\ main[n].events # {} /\ main[n].batchId # None
      BY DEF Serial, Exact
    <3> QED
      BY <3>1, <3>2
  <2> QED
    BY <2>1 DEF Serial, Exact
<1>2. Exact(local)'
  <2>1. ASSUME NEW n \in DOMAIN local
        PROVE  /\ local[n].events = RowsOf(local[n].batchId)' /\ local[n].events # {}
               /\ local[n].batchId # None /\ local[n].events \cap failed' = {}
    <3>1. local[n].batchId \in BatchIds(local)
      BY DEF BatchIds
    <3>2. local[n].events = RowsOf(local[n].batchId) /\ local[n].events # {} /\ local[n].batchId # None
      BY DEF Serial, Exact
    <3> QED
      BY <3>1, <3>2
  <2> QED
    BY <2>1 DEF Serial, Exact
<1> QED
  BY <1>1, <1>2 DEF Serial, BatchIds, Linked

\* Identifiers of blocks are not null, their rows are there and did not fail.
LEMMA IdsOfBlocks ==
    ASSUME Serial, NEW id \in BatchIds(main) \cup BatchIds(local)
    PROVE  id # None /\ RowsOf(id) # {} /\ RowsOf(id) \cap failed = {}
  BY DEF Serial, Exact, BatchIds

\* A step that leaves rows, chains and batches alone.
LEMMA SerialKeptQuietly ==
    ASSUME Typed, Serial, NEW p \in Processes, OthersKept(p),
           UNCHANGED << events, main, local, batch, failed, clock >>,
           p # Worker => /\ pc[p] \notin {"idle", "mark"} /\ pc'[p] \notin {"idle", "mark"}
                         /\ Linking(p)'
    PROVE  Serial'
<1>1. RowsDated' /\ Exact(main)' /\ Exact(local)' /\ (BatchIds(main) \cap BatchIds(local) = {})' /\ Linked'
  <2>1. \A id : RowsOf(id)' = RowsOf(id)
    BY DEF RowsOf
  <2>2. RowsDated'
    BY DEF Serial, RowsDated, Pending
  <2> QED
    BY <2>1, <2>2, IdsOfBlocks, ExactKept
<1>2. ASSUME NEW r \in Requests
      PROVE  Selected(r)' /\ Marked(r)' /\ Linking(r)' /\ (pc'[r] = "idle" <=> pc[r] = "idle")
  <2>1. CASE r = p
    <3>1. p # Worker
      BY <2>1, WorkerAssumption
    <3>2. Selected(r)' /\ Linking(r)'
      BY <2>1, <3>1 DEF Selected
    <3>3. Marked(r)'
      BY <2>1, <3>1 DEF Serial, Marked, RowsOf, BatchIds
    <3> QED
      BY <2>1, <3>1, <3>2, <3>3
  <2>2. CASE r # p
    <3>1. /\ pc'[r] = pc[r] /\ incident'[r] = incident[r]
          /\ batch'[r] = batch[r] /\ tail'[r] = tail[r]
      BY <2>2 DEF OthersKept, Processes
    <3>2. Selected(r)'
      BY <3>1 DEF Serial, Selected, Pending
    <3>3. Marked(r)'
      BY <3>1 DEF Serial, Marked, RowsOf, BatchIds
    <3>4. Linking(r)'
      BY <3>1 DEF Serial, Linking
    <3> QED
      BY <3>1, <3>2, <3>3, <3>4
  <2> QED
    BY <2>1, <2>2
<1>3. One'
  BY <1>2 DEF Serial, One, Idle
<1> QED
  BY <1>1, <1>2, <1>3 DEF Serial

\* A request that ends without a block, or a restart that ends all: what they
\* had marked counts as failed.
LEMMA SerialFails ==
    ASSUME Typed, Serial, UNCHANGED << events, main, local, clock >>,
           \A e \in failed' : \/ e \in failed
                              \/ \E r \in Requests : pc[r] # "mark" /\ e \in batch[r].events,
           \A r \in Requests : pc'[r] = "idle"
    PROVE  Serial'
<1>1. ASSUME NEW r \in Requests, pc[r] # "mark", NEW e \in batch[r].events
      PROVE  /\ e \in DOMAIN events /\ events[e].batchId = batch[r].batchId
             /\ batch[r].batchId \notin BatchIds(main) \cup BatchIds(local)
             /\ batch[r].batchId # None
  <2>1. pc[r] # "idle"
    BY DEF Typed, Holds, Idle, NoBatch
  <2>2. batch[r].events = RowsOf(batch[r].batchId)
        /\ batch[r].batchId \notin BatchIds(main) \cup BatchIds(local)
    BY <1>1, <2>1 DEF Serial, Marked
  <2>3. batch[r].batchId \in Times
    BY <1>1, <2>1 DEF Typed, Holds
  <2> QED
    BY <2>2, <2>3, BoundsAssumption DEF RowsOf, Times, None
<1>2. \A id : RowsOf(id)' = RowsOf(id)
  BY DEF RowsOf
<1>3. ASSUME NEW id \in BatchIds(main) \cup BatchIds(local) PROVE RowsOf(id) \cap failed' = {}
  <2>1. \A e \in RowsOf(id) : e \notin failed /\ events[e].batchId = id
    BY IdsOfBlocks DEF RowsOf
  <2> QED
    BY <1>1, <1>3, <2>1
<1>4. RowsDated'
  <2>1. failed' \subseteq DOMAIN events
    BY <1>1 DEF Serial, RowsDated
  <2>2. \A e \in failed' : e \notin Pending
    BY <1>1 DEF Serial, RowsDated
  <2>3. Pending' = Pending
    BY DEF Pending
  <2> QED
    BY <2>1, <2>2, <2>3 DEF Serial, RowsDated
<1>5. Exact(main)' /\ Exact(local)' /\ (BatchIds(main) \cap BatchIds(local) = {})' /\ Linked'
  BY <1>2, <1>3, ExactKept
<1>6. One'
  BY DEF One, Idle
<1> QED
  BY <1>4, <1>5, <1>6, SerialIdle DEF Serial

\* Rows are selected at a time that no row carries.
LEMMA SerialSelectPending ==
    ASSUME Typed, Serial, schedule # "concurrent", NEW r \in Requests, SelectPending(r)
    PROVE  Serial'
<1>1. \A q \in Requests : pc[q] = "idle"
  BY WorkerAssumption DEF SelectPending, MayStart, Idle, Processes
<1>2. /\ UNCHANGED << events, main, local, failed, clock >>
      /\ pc' = [pc EXCEPT ![r] = "mark"]
      /\ batch' = [batch EXCEPT ![r] = [batchId |-> None, events |-> Oldest(Pending)]]
  BY DEF SelectPending, Goto, stores
<1>3. pc \in [Processes -> Steps] /\ batch \in [Requests -> Batch] /\ r \in Processes
  BY DEF Typed, LocalsTyped, Processes
<1>4. pc'[r] = "mark" /\ batch'[r].events = Oldest(Pending) /\ \A q \in Requests : q # r => pc'[q] = "idle"
  BY <1>1, <1>2, <1>3 DEF Processes
<1>5. Oldest(Pending) \subseteq Pending /\ Oldest(Pending) # {}
  <2>1. Pending \subseteq Nat
    BY EventRows DEF Pending
  <2> QED
    BY <2>1, OldestRows DEF SelectPending
<1>6. \A e \in DOMAIN events : events[e].batchId # clock
  BY DEF SelectPending, NewTime
<1>7. Selected(r)' /\ Marked(r)' /\ Linking(r)'
  BY <1>2, <1>4, <1>5, <1>6 DEF Selected, Marked, Linking, Pending
<1>8. \A id : RowsOf(id)' = RowsOf(id)
  BY <1>2 DEF RowsOf
<1>9. Exact(main)' /\ Exact(local)' /\ (BatchIds(main) \cap BatchIds(local) = {})' /\ Linked'
  BY <1>2, <1>8, IdsOfBlocks, ExactKept
<1>10. RowsDated'
  BY <1>2 DEF Serial, RowsDated, Pending
<1>11. One'
  BY <1>4 DEF One, Idle
<1> QED
  BY <1>4, <1>7, <1>9, <1>10, <1>11, SerialIdle DEF Serial

\* ... and marked with a time that no row and no block carries.
LEMMA SerialMarkBatched ==
    ASSUME Typed, Serial, NEW r \in Requests, MarkBatched(r)
    PROVE  Serial'
<1> DEFINE mine == batch[r].events
<1>1. /\ OthersKept(r) /\ DOMAIN events' = DOMAIN events /\ pc'[r] = "ping"
      /\ batch'[r].batchId = clock /\ batch'[r].events = mine
      /\ \A e \in mine : events'[e] = [status |-> "BATCHED", batchId |-> clock]
      /\ \A e \in DOMAIN events \ mine : events'[e] = events[e]
  <2>1. mine \subseteq DOMAIN events
    BY DEF Typed, Holds
  <2> QED
    BY <2>1, TypeMarkBatched
<1>2. UNCHANGED << main, local, failed, clock >> /\ pc[r] = "mark"
  BY DEF MarkBatched
<1>3. /\ mine \subseteq Pending /\ mine # {}
      /\ \A e \in DOMAIN events : events[e].batchId # clock
  BY <1>2 DEF Serial, Selected
<1>4. clock \in Nat /\ clock # None /\ \A e \in DOMAIN events : events[e].batchId \in Nat
  BY EventRows, BoundsAssumption DEF Typed, RestTyped, Times, Row, None
<1>5. \A e \in mine : e \in DOMAIN events /\ events[e].batchId = None /\ e \notin failed
  BY <1>3 DEF Serial, RowsDated, Pending
<1> HIDE DEF mine
<1>6. RowsOf(clock)' = mine /\ \A id : id # clock /\ id # None => RowsOf(id)' = RowsOf(id)
  <2>1. \A e \in mine : events'[e].batchId = clock
    BY <1>1
  <2>2. \A e \in DOMAIN events \ mine : events'[e].batchId = events[e].batchId
    BY <1>1
  <2> QED
    BY <1>1, <1>2, <1>3, <1>5, <2>1, <2>2 DEF RowsOf
<1>7. clock \notin BatchIds(main) \cup BatchIds(local)
  <2>1. RowsOf(clock) = {}
    BY <1>3 DEF RowsOf
  <2> QED
    BY <2>1, IdsOfBlocks
<1>8. Exact(main)' /\ Exact(local)' /\ (BatchIds(main) \cap BatchIds(local) = {})' /\ Linked'
  <2>1. \A id \in BatchIds(main) \cup BatchIds(local) :
           RowsOf(id)' = RowsOf(id) /\ RowsOf(id) \cap failed' = {}
    BY <1>2, <1>6, <1>7, IdsOfBlocks
  <2> QED
    BY <1>2, <2>1, ExactKept
<1>9. RowsDated'
  <2>1. Pending' = Pending \ mine
    <3>1. \A e \in mine : events'[e].status = "BATCHED"
      BY <1>1
    <3> QED
      BY <1>1, <3>1 DEF Pending
  <2>2. \A e \in DOMAIN events' : events'[e].batchId <= clock
    <3>1. \A e \in mine : events'[e].batchId = clock
      BY <1>1
    <3> QED
      BY <1>1, <1>4, <3>1 DEF Serial, RowsDated
  <2>3. \A e \in Pending' : events'[e].batchId = None
    BY <1>1, <2>1 DEF Serial, RowsDated, Pending
  <2> QED
    BY <1>1, <1>2, <2>1, <2>2, <2>3 DEF Serial, RowsDated
<1>10. Selected(r)' /\ Marked(r)' /\ Linking(r)'
  <2>1. mine \cap failed = {}
    BY <1>5
  <2>2. BatchIds(main)' = BatchIds(main) /\ BatchIds(local)' = BatchIds(local)
    BY <1>2 DEF BatchIds
  <2> QED
    BY <1>1, <1>2, <1>3, <1>6, <1>7, <2>1, <2>2 DEF Selected, Marked, Linking
<1>11. \A q \in Requests : q # r => pc'[q] = "idle"
  BY <1>1, <1>2, SerialOthers
<1>12. One'
  BY <1>11 DEF One, Idle
<1> QED
  BY <1>8, <1>9, <1>10, <1>11, <1>12, SerialIdle DEF Serial

\* The block takes an identifier that neither chain has.
LEMMA SerialCreateMainBlock ==
    ASSUME Typed, Serial, NEW r \in Requests, CreateMainBlock(r)
    PROVE  Serial'
<1> DEFINE block == [ batchId |-> batch[r].batchId, events |-> batch[r].events, previous |-> tail[r] ]
<1>1. pc[r] = "mainCreate" /\ pc'[r] = "idle" /\ OthersKept(r)
  BY TypeCreateMainBlock DEF CreateMainBlock
<1>2. /\ batch[r].events = RowsOf(batch[r].batchId) /\ batch[r].events # {}
      /\ batch[r].batchId \notin BatchIds(main) \cup BatchIds(local)
      /\ batch[r].events \cap failed = {} /\ batch[r].batchId \in Times
  BY <1>1 DEF Serial, Marked, Typed, Holds
<1>3. main' = Append(main, block) /\ UNCHANGED << events, local, failed, clock >>
  BY <1>2 DEF CreateMainBlock
<1>4. /\ block.batchId = batch[r].batchId /\ block.events = batch[r].events
      /\ block.batchId # None
  BY <1>2, BoundsAssumption DEF Times, None
<1>5. main \in Seq(MainBlock)
  BY DEF Typed, StoresTyped
<1> HIDE DEF block
<1> DEFINE last == Len(main) + 1
<1>6. /\ DOMAIN main' = DOMAIN main \cup {last} /\ last \notin DOMAIN main /\ main'[last] = block
      /\ \A n \in DOMAIN main : main'[n] = main[n]
  BY <1>3, <1>5
<1> HIDE DEF last
<1>7. \A id : RowsOf(id)' = RowsOf(id)
  BY <1>3 DEF RowsOf
<1>8. BatchIds(main)' = BatchIds(main) \cup {block.batchId}
  BY <1>6 DEF BatchIds
<1>9. Exact(main)'
  <2>1. ASSUME NEW n \in DOMAIN main'
        PROVE  /\ main'[n].events = RowsOf(main'[n].batchId) /\ main'[n].events # {}
               /\ main'[n].batchId # None /\ main'[n].events \cap failed = {}
    <3>1. CASE n = last
      BY <1>2, <1>4, <1>6, <3>1
    <3>2. CASE n \in DOMAIN main
      BY <1>6, <3>2 DEF Serial, Exact
    <3> QED
      BY <1>6, <3>1, <3>2
  <2>2. ASSUME NEW m \in DOMAIN main', NEW n \in DOMAIN main', main'[m].batchId = main'[n].batchId
        PROVE  m = n
    <3>1. \A k \in DOMAIN main : main[k].batchId # block.batchId
      BY <1>2, <1>4 DEF BatchIds
    <3> QED
      BY <1>6, <2>2, <3>1 DEF Serial, Exact
  <2> QED
    BY <1>3, <1>7, <2>1, <2>2 DEF Exact
<1>10. Exact(local)' /\ (BatchIds(main) \cap BatchIds(local) = {})' /\ Linked'
  <2>1. BatchIds(local)' = BatchIds(local) /\ Linked'
    BY <1>3 DEF BatchIds, Serial, Linked
  <2>2. Exact(local)'
    BY <1>3, <1>7 DEF Serial, Exact
  <2> QED
    BY <1>2, <1>4, <1>8, <2>1, <2>2 DEF Serial
<1>11. RowsDated'
  BY <1>3 DEF Serial, RowsDated, Pending
<1>12. \A q \in Requests : pc'[q] = "idle"
  BY <1>1, SerialOthers
<1>13. One'
  BY <1>12 DEF One, Idle
<1> QED
  BY <1>9, <1>10, <1>11, <1>12, <1>13, SerialIdle DEF Serial

LEMMA SerialCreateLocalBlock ==
    ASSUME Typed, Serial, NEW r \in Requests, CreateLocalBlock(r)
    PROVE  Serial'
<1> DEFINE block == [ batchId |-> batch[r].batchId, events |-> batch[r].events,
                      previous |-> tail[r], incidentId |-> incident[r] ]
<1>1. pc[r] = "localCreate" /\ pc'[r] = "idle" /\ OthersKept(r)
  BY TypeCreateLocalBlock DEF CreateLocalBlock
<1>2. /\ batch[r].events = RowsOf(batch[r].batchId) /\ batch[r].events # {}
      /\ batch[r].batchId \notin BatchIds(main) \cup BatchIds(local)
      /\ batch[r].events \cap failed = {} /\ batch[r].batchId \in Times
  BY <1>1 DEF Serial, Marked, Typed, Holds
<1>3. local' = Append(local, block) /\ UNCHANGED << events, main, failed, clock >>
  BY <1>2 DEF CreateLocalBlock
<1>4. /\ block.batchId = batch[r].batchId /\ block.events = batch[r].events
      /\ block.previous = tail[r] /\ block.incidentId = incident[r]
      /\ block.batchId # None
  BY <1>2, BoundsAssumption DEF Times, None
<1>5. local \in Seq(LocalBlock) /\ Len(local) \in Nat /\ tail[r] \in Nat
  BY DEF Typed, StoresTyped, LocalsTyped
<1>0. tail[r] <= Len(local) /\ \A n \in DOMAIN local : local[n].incidentId = incident[r] => n <= tail[r]
  BY <1>1 DEF Serial, Linking
<1> HIDE DEF block
<1> DEFINE last == Len(local) + 1
<1>6. /\ DOMAIN local' = DOMAIN local \cup {last} /\ last \notin DOMAIN local /\ local'[last] = block
      /\ \A n \in DOMAIN local : local'[n] = local[n]
  BY <1>3, <1>5
<1>14. tail[r] < last /\ \A n \in DOMAIN local : n < last
  BY <1>0, <1>5
<1> HIDE DEF last
<1>7. \A id : RowsOf(id)' = RowsOf(id)
  BY <1>3 DEF RowsOf
<1>8. BatchIds(local)' = BatchIds(local) \cup {block.batchId}
  BY <1>6 DEF BatchIds
<1>9. Exact(local)'
  <2>1. ASSUME NEW n \in DOMAIN local'
        PROVE  /\ local'[n].events = RowsOf(local'[n].batchId) /\ local'[n].events # {}
               /\ local'[n].batchId # None /\ local'[n].events \cap failed = {}
    <3>1. CASE n = last
      BY <1>2, <1>4, <1>6, <3>1
    <3>2. CASE n \in DOMAIN local
      BY <1>6, <3>2 DEF Serial, Exact
    <3> QED
      BY <1>6, <3>1, <3>2
  <2>2. ASSUME NEW m \in DOMAIN local', NEW n \in DOMAIN local', local'[m].batchId = local'[n].batchId
        PROVE  m = n
    <3>1. \A k \in DOMAIN local : local[k].batchId # block.batchId
      BY <1>2, <1>4 DEF BatchIds
    <3> QED
      BY <1>6, <2>2, <3>1 DEF Serial, Exact
  <2> QED
    BY <1>3, <1>7, <2>1, <2>2 DEF Exact
<1>10. Exact(main)' /\ (BatchIds(main) \cap BatchIds(local) = {})'
  <2>1. BatchIds(main)' = BatchIds(main)
    BY <1>3 DEF BatchIds
  <2>2. Exact(main)'
    BY <1>3, <1>7 DEF Serial, Exact
  <2> QED
    BY <1>2, <1>4, <1>8, <2>1, <2>2 DEF Serial
<1>15. Linked'
  <2> SUFFICES ASSUME NEW n \in DOMAIN local'
               PROVE  /\ local'[n].previous < n
                      /\ \A m \in DOMAIN local' :
                            m < n /\ local'[m].incidentId = local'[n].incidentId
                                => m <= local'[n].previous
    BY DEF Linked
  <2>1. CASE n = last
    <3>1. local'[n].previous = tail[r] /\ local'[n].incidentId = incident[r]
      BY <1>4, <1>6, <2>1
    <3>2. ASSUME NEW m \in DOMAIN local', m < n PROVE m \in DOMAIN local /\ local'[m] = local[m]
      <4>1. ~(last < last)
        BY <1>5 DEF last
      <4> QED
        BY <1>6, <2>1, <3>2, <4>1
    <3> QED
      BY <1>0, <1>14, <2>1, <3>1, <3>2
  <2>2. CASE n \in DOMAIN local
    <3>1. n < last /\ n \in Nat /\ last \in Nat
      BY <1>5, <1>14, <2>2 DEF last
    <3>2. ASSUME NEW m \in DOMAIN local', m < n PROVE m \in DOMAIN local
      BY <1>6, <3>1, <3>2
    <3>3. /\ local[n].previous < n
          /\ \A m \in DOMAIN local :
                m < n /\ local[m].incidentId = local[n].incidentId => m <= local[n].previous
      BY <2>2 DEF Serial, Linked
    <3> QED
      BY <1>6, <2>2, <3>2, <3>3
  <2> QED
    BY <1>6, <2>1, <2>2
<1>11. RowsDated'
  BY <1>3 DEF Serial, RowsDated, Pending
<1>12. \A q \in Requests : pc'[q] = "idle"
  BY <1>1, SerialOthers
<1>13. One'
  BY <1>12 DEF One, Idle
<1> QED
  BY <1>9, <1>10, <1>11, <1>12, <1>13, <1>15, SerialIdle DEF Serial

\* The end of the LOCAL chain is read, and stays until the block is created.
LEMMA SerialReadTail ==
    ASSUME Typed, Serial, NEW r \in Requests, ReadLocalTail(r) \/ ReadMainTail(r) \/ PingDecides(r)
    PROVE  Serial'
<1>1. r \in Processes /\ UNCHANGED << events, main, local, batch, failed, clock >>
  BY DEF ReadLocalTail, ReadMainTail, PingDecides, stores, locals, Processes
<1>2. OthersKept(r) /\ pc[r] \notin {"idle", "mark"} /\ pc'[r] \notin {"idle", "mark"}
  BY TypeReadTail, TypePingDecides DEF ReadLocalTail, ReadMainTail, PingDecides
<1>3. Linking(r)'
  <2>1. CASE ReadLocalTail(r)
    <3>1. tail'[r] = LastOfIncident(incident[r]) /\ incident' = incident /\ local' = local
      BY <2>1 DEF ReadLocalTail, stores, Typed, LocalsTyped
    <3>2. Len(local) \in Nat
      BY DEF Typed, StoresTyped
    <3> QED
      BY <3>1, <3>2, LastBlock DEF Linking
  <2>2. CASE ReadMainTail(r) \/ PingDecides(r)
    <3>1. pc'[r] # "localCreate"
      BY <1>1, <2>2, TypePingDecides DEF ReadMainTail, Goto, Typed, LocalsTyped
    <3> QED
      BY <3>1 DEF Linking
  <2> QED
    BY <2>1, <2>2
<1> QED
  BY <1>1, <1>2, <1>3, SerialKeptQuietly

\* The steps towards an incident; a refused insert ends the request.
LEMMA SerialIncidentStep ==
    ASSUME Typed, Serial, NEW p \in Processes, IncidentStep(p)
    PROVE  Serial'
<1>1. UNCHANGED << events, main, local, clock >>
  BY DEF IncidentStep, FindOpen, CheckActive, FindExisting, InsertIncident, Remember, stores
<1>2. OthersKept(p) /\ pc[p] \in {"findOpen", "check", "findExisting", "insert", "remember"}
  BY TypeFindOpen, TypeCheckActive, TypeFindExisting, TypeInsertIncident, TypeRemember
     DEF IncidentStep, FindOpen, CheckActive, FindExisting, InsertIncident, Remember
<1>3. CASE Refused(p) /\ pc[p] = "insert" /\ p # Worker
  <2>1. p \in Requests /\ failed' = failed \cup batch[p].events /\ pc'[p] = "idle"
    BY <1>3, RefusedTyped DEF Processes
  <2>2. \A q \in Requests : pc'[q] = "idle"
    BY <1>2, <2>1, SerialOthers
  <2> QED
    BY <1>1, <1>3, <2>1, <2>2, SerialFails
<1>4. CASE Refused(p) /\ p = Worker
  BY <1>1, <1>2, <1>4, RefusedTyped, SerialKeptQuietly
<1>5. CASE ~Refused(p)
  <2>1. UNCHANGED << batch, failed >>
    BY <1>5 DEF IncidentStep, FindOpen, CheckActive, FindExisting, InsertIncident, Remember
  <2>2. ASSUME p # Worker PROVE pc'[p] \notin {"idle", "mark", "localCreate"}
    <3>1. pc \in [Processes -> Steps]
      BY DEF Typed, LocalsTyped
    <3>2. \E step \in {"localTail", "check", "findExisting", "remember", "insert"} : Goto(p, step)
      BY <1>5, <2>2 DEF IncidentStep, FindOpen, CheckActive, FindExisting, InsertIncident, Remember,
                        WithIncident
    <3> QED
      BY <3>1, <3>2 DEF Goto
  <2>3. p # Worker => Linking(p)'
    BY <2>2 DEF Linking
  <2> QED
    BY <1>1, <1>2, <2>1, <2>2, <2>3, SerialKeptQuietly
<1>6. Refused(p) /\ p # Worker /\ pc[p] # "insert" => ~Idle(p)' /\ Idle(p)'
  <2> SUFFICES ASSUME Refused(p), p # Worker, pc[p] # "insert" PROVE FALSE
    OBVIOUS
  <2>1. pc'[p] = "idle"
    BY RefusedTyped
  <2>2. \E step \in {"localTail", "check", "findExisting", "remember", "insert"} : Goto(p, step)
    BY DEF IncidentStep, FindOpen, CheckActive, FindExisting, InsertIncident, Remember, WithIncident
  <2> QED
    BY <2>1, <2>2 DEF Goto, Typed, LocalsTyped
<1> QED
  BY <1>3, <1>4, <1>5, <1>6

\* The worker's cycle touches neither rows nor chains.
LEMMA SerialWorkerStep ==
    ASSUME Typed, Serial, WorkerStep
    PROVE  Serial'
<1>1. Worker \in Processes /\ OthersKept(Worker)
  BY TypeWorkerStep DEF Processes
<1>2. UNCHANGED << events, main, local, batch, failed, clock >>
  BY DEF WorkerStep, WorkerOutage, WorkerRecovers, AnchorFails, SaveClosed, ClearActive, stores, locals
<1> QED
  BY <1>1, <1>2, SerialKeptQuietly

\* A new row has no identifier.
LEMMA SerialCreateAuditEvent ==
    ASSUME Typed, Serial, CreateAuditEvent
    PROVE  Serial'
<1> DEFINE row == [status |-> "PENDING", batchId |-> None]
           last == Len(events) + 1
<1>1. /\ events' = Append(events, row)
      /\ UNCHANGED << main, local, pc, batch, incident, tail, failed, clock >>
  BY DEF CreateAuditEvent
<1>2. events \in Seq(Row) /\ clock \in Nat /\ clock # None
  BY BoundsAssumption DEF Typed, StoresTyped, RestTyped, Times, None
<1>3. row.status = "PENDING" /\ row.batchId = None
  OBVIOUS
<1> HIDE DEF row
<1>4. /\ DOMAIN events' = DOMAIN events \cup {last} /\ last \notin DOMAIN events /\ events'[last] = row
      /\ \A e \in DOMAIN events : events'[e] = events[e]
  BY <1>1, <1>2
<1> HIDE DEF last
<1>5. \A id : id # None => RowsOf(id)' = RowsOf(id)
  BY <1>3, <1>4 DEF RowsOf
<1>6. Pending' = Pending \cup {last}
  BY <1>3, <1>4 DEF Pending
<1>7. RowsDated'
  <2>1. \A e \in DOMAIN events' : events'[e].batchId <= clock
    BY <1>2, <1>3, <1>4 DEF Serial, RowsDated, None
  <2>2. \A e \in Pending' : events'[e].batchId = None
    BY <1>3, <1>4, <1>6 DEF Serial, RowsDated, Pending
  <2>3. failed \subseteq DOMAIN events' /\ failed \cap Pending' = {}
    BY <1>4, <1>6 DEF Serial, RowsDated
  <2> QED
    BY <1>1, <2>1, <2>2, <2>3 DEF RowsDated
<1>8. Exact(main)' /\ Exact(local)' /\ (BatchIds(main) \cap BatchIds(local) = {})' /\ Linked'
  <2>1. \A id \in BatchIds(main) \cup BatchIds(local) :
           RowsOf(id)' = RowsOf(id) /\ RowsOf(id) \cap failed' = {}
    BY <1>1, <1>5, IdsOfBlocks
  <2> QED
    BY <1>1, <2>1, ExactKept
<1>9. ASSUME NEW r \in Requests PROVE Selected(r)' /\ Marked(r)' /\ Linking(r)'
  <2>1. Selected(r)'
    BY <1>1, <1>2, <1>3, <1>4, <1>6 DEF Serial, Selected
  <2>2. Marked(r)'
    <3>1. pc[r] \notin {"idle", "mark"} => batch[r].batchId # None
      BY BoundsAssumption DEF Typed, Holds, Times, None
    <3> QED
      BY <1>1, <1>5, <3>1 DEF Serial, Marked, BatchIds
  <2>3. Linking(r)'
    BY <1>1 DEF Serial, Linking
  <2> QED
    BY <2>1, <2>2, <2>3
<1>10. One'
  BY <1>1 DEF Serial, One, Idle
<1> QED
  BY <1>7, <1>8, <1>9, <1>10 DEF Serial

\* Time passes; no row carries the new time.
LEMMA SerialTick ==
    ASSUME Typed, Serial, Tick
    PROVE  Serial'
<1>1. /\ UNCHANGED << events, main, local, pc, batch, incident, tail, failed >>
      /\ clock' = clock + 1 /\ clock \in Nat
  BY BoundsAssumption DEF Tick, stores, locals, Typed, RestTyped, Times
<1>2. \A e \in DOMAIN events : events[e].batchId \in Nat /\ events[e].batchId <= clock
  BY EventRows, BoundsAssumption DEF Serial, RowsDated, Row, Times, None
<1>3. RowsDated'
  BY <1>1, <1>2 DEF Serial, RowsDated, Pending
<1>4. \A r \in Requests : Selected(r)'
  BY <1>1, <1>2 DEF Serial, Selected, Pending
<1>5. \A r \in Requests : Marked(r)' /\ Linking(r)'
  BY <1>1 DEF Serial, Marked, Linking, RowsOf, BatchIds
<1>6. Exact(main)' /\ Exact(local)' /\ (BatchIds(main) \cap BatchIds(local) = {})' /\ Linked' /\ One'
  <2>1. \A id : RowsOf(id)' = RowsOf(id)
    BY <1>1 DEF RowsOf
  <2>2. One'
    BY <1>1 DEF Serial, One, Idle
  <2> QED
    BY <1>1, <2>1, <2>2, IdsOfBlocks, ExactKept
<1> QED
  BY <1>3, <1>4, <1>5, <1>6 DEF Serial

LEMMA SerialCrash ==
    ASSUME Typed, Serial, Crash
    PROVE  Serial'
<1>1. UNCHANGED << events, main, local, clock >> /\ \A r \in Requests : pc'[r] = "idle"
  BY DEF Crash, stores, Processes
<1>2. failed' = failed \cup UNION { batch[r].events : r \in { q \in Requests : pc[q] # "mark" } }
  BY DEF Crash
<1>3. \A e \in failed' : e \in failed \/ \E r \in Requests : pc[r] # "mark" /\ e \in batch[r].events
  BY <1>2
<1> QED
  BY <1>1, <1>3, SerialFails

LEMMA SerialAlways == Spec => [](schedule # "concurrent" => Serial)
<1>1. ASSUME Typed, schedule # "concurrent" => Serial, [Next]_vars
      PROVE  (schedule # "concurrent" => Serial)'
  <2> SUFFICES ASSUME schedule' # "concurrent" PROVE Serial'
    OBVIOUS
  <2>1. schedule # "concurrent" /\ Serial
    BY <1>1, ScheduleKept
  <2>2. ASSUME NEW r \in Requests, CreateStep(r) PROVE Serial'
    BY <1>1, <2>1, <2>2, SerialSelectPending, SerialMarkBatched, SerialReadTail,
       SerialCreateLocalBlock, SerialCreateMainBlock DEF CreateStep
  <2>3. ASSUME NEW p \in Processes, IncidentStep(p) PROVE Serial'
    BY <1>1, <2>1, <2>3, SerialIncidentStep
  <2>4. CASE NetworkChange \/ UNCHANGED vars
    <3>1. UNCHANGED << events, main, local, pc, batch, incident, tail, failed, clock >>
      BY <2>4 DEF NetworkChange, vars, stores, locals
    <3>2. One' /\ RowsDated' /\ Linked' /\ Exact(main)' /\ Exact(local)'
          /\ (BatchIds(main) \cap BatchIds(local) = {})'
      BY <2>1, <3>1 DEF Serial, One, Idle, RowsDated, Pending, Linked, Exact, RowsOf, BatchIds
    <3>3. \A r \in Requests : Selected(r)' /\ Marked(r)' /\ Linking(r)'
      BY <2>1, <3>1 DEF Serial, Selected, Marked, Linking, Pending, RowsOf, BatchIds
    <3> QED
      BY <3>2, <3>3 DEF Serial
  <2> QED
    BY <1>1, <2>1, <2>2, <2>3, <2>4, SerialWorkerStep, SerialCreateAuditEvent, SerialTick, SerialCrash
       DEF Next
<1>2. Spec => []Typed
  BY TypeInit, TypeStep, PTL DEF Spec
<1> QED
  BY SerialInit, <1>1, <1>2, PTL DEF Spec

\* Requests one at a time: no event is in two blocks of the chains, and none
\* whose request failed is in any, wherever the process restarts.
THEOREM EventAlwaysInOneBlock == Spec => []EventInOneBlock
<1>1. ASSUME schedule # "concurrent" => Serial PROVE EventInOneBlock
  <2> SUFFICES ASSUME Serial PROVE
        /\ \A m, n \in DOMAIN main : m # n => main[m].events \cap main[n].events = {}
        /\ \A m, n \in DOMAIN local : m # n => local[m].events \cap local[n].events = {}
        /\ \A m \in DOMAIN main, n \in DOMAIN local : main[m].events \cap local[n].events = {}
        /\ \A n \in DOMAIN main : main[n].events \cap failed = {}
        /\ \A n \in DOMAIN local : local[n].events \cap failed = {}
    BY <1>1 DEF EventInOneBlock
  <2>1. \A i, j : i # j => RowsOf(i) \cap RowsOf(j) = {}
    BY DEF RowsOf
  <2>2. \A m, n \in DOMAIN main : m # n => main[m].events \cap main[n].events = {}
    BY <2>1 DEF Serial, Exact
  <2>3. \A m, n \in DOMAIN local : m # n => local[m].events \cap local[n].events = {}
    BY <2>1 DEF Serial, Exact
  <2>4. \A m \in DOMAIN main, n \in DOMAIN local : main[m].events \cap local[n].events = {}
    <3>1. \A m \in DOMAIN main, n \in DOMAIN local : main[m].batchId # local[n].batchId
      BY DEF Serial, BatchIds
    <3> QED
      BY <2>1, <3>1 DEF Serial, Exact
  <2> QED
    BY <2>2, <2>3, <2>4 DEF Serial, Exact
<1> QED
  BY <1>1, SerialAlways, PTL

\* ... the rows of a LOCAL block's batchId are the rows it was made of ...
THEOREM RecoveryRowsAlwaysExact == Spec => []RecoveryRowsExact
<1>1. (schedule # "concurrent" => Serial) => RecoveryRowsExact
  BY DEF Serial, Exact, RowsOf, RecoveryRowsExact
<1> QED
  BY <1>1, SerialAlways, PTL

\* ... and no LOCAL chain forks, though the worker declares and closes
\* incidents beside the requests.
THEOREM EpochsAlwaysLinear == Spec => []EpochsLinear
<1>1. ASSUME Typed, schedule # "concurrent" => Serial PROVE EpochsLinear
  <2> SUFFICES ASSUME Serial, NEW m \in DOMAIN local, NEW n \in DOMAIN local,
                      local[m].incidentId = local[n].incidentId,
                      local[m].previous = local[n].previous
               PROVE  m = n
    BY <1>1 DEF EpochsLinear
  <2>1. m \in Nat /\ n \in Nat /\ local[m].previous \in Nat
    <3>1. local \in Seq(LocalBlock)
      BY <1>1 DEF Typed, StoresTyped
    <3>2. local[m] \in LocalBlock /\ m \in Nat /\ n \in Nat
      BY <3>1
    <3> QED
      BY <3>2 DEF LocalBlock
  <2>2. /\ local[m].previous < m /\ local[n].previous < n
        /\ m < n => m <= local[n].previous
        /\ n < m => n <= local[m].previous
    BY DEF Serial, Linked
  <2> QED
    BY <2>1, <2>2
<1>2. Spec => []Typed
  BY TypeInit, TypeStep, PTL DEF Spec
<1> QED
  BY <1>1, <1>2, SerialAlways, PTL
=============================================================================
