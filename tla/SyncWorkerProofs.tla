--------------------------- MODULE SyncWorkerProofs ---------------------------
(***************************************************************************)
(* Type correctness of SyncWorker for every number of blocks, incidents,   *)
(* restarts and pending transactions and every failure threshold.  The     *)
(* invariant that is preserved, WellFormed, also says that the locals of   *)
(* the worker are set where a step uses them; module SyncWorkerSafety      *)
(* builds on it.                                                           *)
(***************************************************************************)
EXTENDS SyncWorker, OrderLemmas, SequenceTheorems, FiniteSetTheorems, Functions

-----------------------------------------------------------------------------
(* Types *)

Anchoring == worker.pc \in {"nonce", "send", "wait", "save"}
Resolving == worker.pc \in {"incident", "incidentWait", "incidentClose"}

\* A root transaction names a block, the others name an incident.
NamesItsObject(t) ==
    /\ t.kind = "root" => t.of \in Blocks
    /\ t.kind # "root" => t.of \in Incidents

\* The strengthening of TypeOK that the steps preserve: the locals of the
\* worker are set where they are used.
LocalsSet ==
    /\ Anchoring => worker.block \in Blocks
    /\ worker.pc \in {"send", "wait"} => worker.tx.kind = "root" /\ worker.tx.of = worker.block
    /\ Resolving => worker.incident \in Incidents

WellFormed ==
    TypeOK /\ IsFiniteSet(mempool) /\ (\A t \in mempool : NamesItsObject(t)) /\ LocalsSet

\* Oldest picks a least element of its set.
LEMMA OldestOfSet ==
    ASSUME NEW S, S \subseteq Nat, S # {}
    PROVE  Oldest(S) \in S /\ \A a \in S : Oldest(S) <= a
BY LeastElement DEF Oldest

\* A queue that is not empty has an oldest block.
LEMMA OldestInQueue ==
    ASSUME Queue # {}
    PROVE  /\ Oldest(Queue) \in Blocks /\ status[Oldest(Queue)] \in Retryable
           /\ \A b \in Queue : Oldest(Queue) <= b
BY OldestOfSet, BoundsAssumption DEF Queue, Blocks

\* The nonce the node answers with is the first that is neither mined nor
\* pending: among as many nonces as there are pending transactions, and one
\* more, one is free.
LEMMA PendingNonceFree ==
    ASSUME WellFormed
    PROVE  /\ PendingNonce \in Nat /\ PendingNonce >= AccountNonce
           /\ \A t \in mempool : t.nonce # PendingNonce
           /\ \A m \in Nat : m >= AccountNonce /\ m < PendingNonce
                                => \E t \in mempool : t.nonce = m
<1> DEFINE n == Len(mined)
           c == Cardinality(mempool)
           taken == { t.nonce : t \in mempool }
           range == n .. (n + c)
           free == { m \in range : m \notin taken }
<1>1. n \in Nat
  BY LenProperties DEF WellFormed, TypeOK
<1>2. c \in Nat
  BY FS_CardinalityType DEF WellFormed
<1>3. IsFiniteSet(taken) /\ Cardinality(taken) <= c
  <2> DEFINE f == [t \in mempool |-> t.nonce]
  <2>1. f \in Surjection(mempool, taken)
    BY DEF Surjection
  <2> QED
    BY <2>1, FS_Surjection DEF WellFormed
<1>4. IsFiniteSet(range) /\ Cardinality(range) = c + 1
  <2>1. ASSUME NEW a \in Nat, NEW k \in Nat
        PROVE  IsFiniteSet(a .. (a + k)) /\ Cardinality(a .. (a + k)) = k + 1
    <3>1. a \in Int /\ a + k \in Int /\ ~(a > a + k) /\ (a + k) - a + 1 = k + 1
      OBVIOUS
    <3> QED
      BY <3>1, FS_Interval
  <2> QED
    BY <1>1, <1>2, <2>1
<1>5. free # {}
  <2>1. ASSUME free = {} PROVE FALSE
    <3>1. range \subseteq taken
      BY <2>1
    <3> HIDE DEF range, taken
    <3>2. Cardinality(range) <= Cardinality(taken)
      BY <1>3, <3>1, FS_Subset
    <3>3. Cardinality(taken) \in Nat
      BY <1>3, FS_CardinalityType
    <3> QED
      BY <1>2, <1>3, <1>4, <3>2, <3>3
  <2> QED
    BY <2>1
<1>6. free \subseteq Nat
  BY <1>1, <1>2
<1>7. Oldest(free) \in free /\ \A m \in free : Oldest(free) <= m
  <2> HIDE DEF free
  <2> QED
    BY <1>5, <1>6, OldestOfSet
<1>8. PendingNonce = Oldest(free)
  BY DEF PendingNonce, AccountNonce
<1>9. /\ PendingNonce \in Nat /\ PendingNonce >= n /\ PendingNonce <= n + c
      /\ PendingNonce \notin taken
  BY <1>1, <1>2, <1>7, <1>8
<1>10. ASSUME NEW m \in Nat, m >= n, m < PendingNonce PROVE m \in taken
  <2>1. m \in range
    BY <1>1, <1>2, <1>9, <1>10
  <2>2. m \notin free
    BY <1>7, <1>8, <1>9, <1>10
  <2> QED
    BY <2>1, <2>2
<1> QED
  BY <1>9, <1>10 DEF AccountNonce

\* In particular it is a natural number.
LEMMA PendingNonceType ==
    ASSUME WellFormed
    PROVE  PendingNonce \in Nat
BY PendingNonceFree

\* The idle worker is well typed.
LEMMA IdleType ==
    /\ NoTx \in Tx /\ Idle \in WorkerState
    /\ Idle.pc = "idle" /\ [Idle EXCEPT !.pc = "merge"] \in WorkerState
BY BoundsAssumption DEF NoTx, Tx, Idle, WorkerState

\* The initial state is well formed.
LEMMA WellFormedInit == Init => WellFormed
<1> SUFFICES ASSUME Init PROVE WellFormed
  OBVIOUS
<1>1. mined = << >> /\ rootHistory = << >> /\ mempool = {} /\ worker = Idle
  BY DEF Init
<1>2. TypeOK
  BY <1>1, IdleType, EmptySeq, BoundsAssumption DEF Init, TypeOK, Status, NoNonce
<1> QED
  BY <1>1, <1>2, FS_EmptySet DEF WellFormed, LocalsSet, Anchoring, Resolving, Idle

\* A transaction that is mined leaves everything well formed.
LEMMA WellFormedMine ==
    ASSUME WellFormed, Mine
    PROVE  WellFormed'
<1>1. PICK t \in mempool :
         /\ mempool' = mempool \ {t}
         /\ mined' = Append(mined, [tx |-> t,
               ok |-> IF t.kind = "root" THEN LogRootSucceeds(t.of) ELSE LogIncidentSucceeds(t.kind, t.of)])
         /\ (t.kind = "root" /\ LogRoot(t.of)) \/ UNCHANGED rootHistory
         /\ (t.kind # "root" /\ LogIncident(t.kind, t.of)) \/ UNCHANGED incidentLog
  BY DEF Mine
<1>2. t \in Tx /\ NamesItsObject(t)
  BY DEF WellFormed, TypeOK
<1>3. mined' \in Seq([tx: Tx, ok: BOOLEAN])
  <2>1. LogRootSucceeds(t.of) \in BOOLEAN /\ LogIncidentSucceeds(t.kind, t.of) \in BOOLEAN
    BY DEF LogRootSucceeds, LogIncidentSucceeds
  <2>2. [tx |-> t, ok |-> IF t.kind = "root" THEN LogRootSucceeds(t.of)
                           ELSE LogIncidentSucceeds(t.kind, t.of)] \in [tx: Tx, ok: BOOLEAN]
    BY <1>2, <2>1
  <2> QED
    BY <1>1, <2>2, AppendProperties DEF WellFormed, TypeOK
<1>4. rootHistory' \in Seq([currentRoot: Blocks, previousRoot: 0 .. MaxBlocks])
  <2>1. CASE t.kind = "root" /\ LogRoot(t.of)
    <3>1. t.of \in Blocks /\ t.of - 1 \in 0 .. MaxBlocks
      BY <1>2, <2>1, BoundsAssumption DEF NamesItsObject, Blocks
    <3> QED
      BY <2>1, <3>1, AppendProperties DEF LogRoot, WellFormed, TypeOK
  <2>2. CASE UNCHANGED rootHistory
    BY <2>2 DEF WellFormed, TypeOK
  <2> QED
    BY <1>1, <2>1, <2>2
<1>5. incidentLog' \in [Incidents -> {"NONE", "OPEN", "CLOSED"}]
  BY <1>1 DEF LogIncident, WellFormed, TypeOK
<1>6. IsFiniteSet(mempool')
  BY <1>1, FS_RemoveElement DEF WellFormed
<1>7. /\ worker' = worker /\ UNCHANGED << openIncidents, declared, declaring >>
      /\ UNCHANGED << rpcUp, status, failures, currentNonce, crashes >>
  BY DEF Mine, incidentVars
<1>8. TypeOK'
  BY <1>1, <1>3, <1>4, <1>5, <1>7 DEF WellFormed, TypeOK
<1> QED
  BY <1>1, <1>6, <1>7, <1>8 DEF WellFormed, LocalsSet, Anchoring, Resolving, NamesItsObject

\* An incident is declared under the next number.
LEMMA DeclareTypes ==
    ASSUME TypeOK, Declare
    PROVE  openIncidents' \subseteq Incidents /\ declared' \in 0 .. MaxIncidents
<1>1. CASE declared < MaxIncidents
  <2>1. declared + 1 \in Incidents /\ declared + 1 \in 0 .. MaxIncidents
    BY <1>1, BoundsAssumption DEF TypeOK, Incidents
  <2> QED
    BY <1>1, <2>1 DEF Declare, TypeOK
<1>2. CASE ~(declared < MaxIncidents)
  BY <1>2 DEF Declare, TypeOK
<1> QED
  BY <1>1, <1>2

\* So does a step of the worker that resolves an incident.
LEMMA WellFormedResolve ==
    ASSUME WellFormed, Resolve \/ PingFails \/ WorkerDeclares \/ PingSucceeds \/ MergeAll
    PROVE  WellFormed'
<1>1. worker \in WorkerState /\ TypeOK
  BY DEF WellFormed, TypeOK
<1>2. \A pc \in {"declare", "incident", "incidentClose", "merge", "pick"} :
         /\ [worker EXCEPT !.pc = pc] \in WorkerState /\ [worker EXCEPT !.pc = pc].pc = pc
         /\ [worker EXCEPT !.pc = pc].incident = worker.incident
  BY <1>1 DEF WorkerState
<1>3. Declare => openIncidents' \subseteq Incidents /\ declared' \in 0 .. MaxIncidents
  BY <1>1, DeclareTypes
<1>4. CASE IncidentSend
  <2> DEFINE kind == IF incidentLog[worker.incident] = "NONE" THEN "failure" ELSE "recovery"
             tx == [nonce |-> PendingNonce, kind |-> kind, of |-> worker.incident]
  <2>1. worker.incident \in Incidents
    BY <1>4 DEF IncidentSend, WellFormed, LocalsSet, Resolving
  <2>2. tx \in Tx /\ NamesItsObject(tx)
    <3>1. worker.incident \in Nat /\ PendingNonce \in Nat
      BY <2>1, PendingNonceType, BoundsAssumption DEF Incidents
    <3>2. tx \in Tx
      BY <3>1 DEF Tx
    <3> QED
      BY <2>1, <3>2 DEF NamesItsObject
  <2>3. mempool' = mempool \cup {tx} /\ worker' = [worker EXCEPT !.pc = "incidentWait", !.tx = tx]
    BY <1>4 DEF IncidentSend
  <2> HIDE DEF tx
  <2>4. worker' \in WorkerState /\ worker'.pc = "incidentWait" /\ worker'.incident = worker.incident
    BY <1>1, <2>2, <2>3 DEF WorkerState
  <2>5. IsFiniteSet(mempool') /\ \A t \in mempool' : NamesItsObject(t)
    BY <2>2, <2>3, FS_AddElement DEF WellFormed
  <2>6. TypeOK'
    BY <1>1, <1>4, <2>2, <2>3, <2>4 DEF IncidentSend, TypeOK, incidentVars
  <2> QED
    BY <1>4, <2>1, <2>4, <2>5, <2>6
    DEF WellFormed, LocalsSet, Anchoring, Resolving, NamesItsObject
<1>5. CASE IncidentLogged \/ IncidentReceipt
  <2>1. /\ worker' \in WorkerState /\ worker'.pc \in {"incident", "incidentClose"}
        /\ worker'.incident = worker.incident /\ Resolving
    BY <1>2, <1>5 DEF IncidentLogged, IncidentReceipt, Goto, Resolving
  <2> QED
    BY <1>1, <1>5, <2>1
    DEF IncidentLogged, IncidentReceipt, WellFormed, TypeOK, LocalsSet, Anchoring, Resolving,
        NamesItsObject, incidentVars, chainVars
<1>6. CASE IncidentClose \/ IncidentFails
  <2>1. worker' \in WorkerState /\ worker'.pc \in {"idle", "merge"}
    BY <1>6, IdleType DEF IncidentClose, IncidentFails, Idle
  <2>2. openIncidents' \subseteq Incidents /\ failures' \in 0 .. FAILURE_THRESHOLD
    BY <1>1, <1>6, BoundsAssumption DEF IncidentClose, IncidentFails, TypeOK, incidentVars
  <2> QED
    BY <1>1, <1>6, <2>1, <2>2
    DEF IncidentClose, IncidentFails, WellFormed, TypeOK, LocalsSet, Anchoring, Resolving,
        NamesItsObject, incidentVars, chainVars
<1>7. CASE PingSucceeds
  <2>1. CASE openIncidents = {}
    <3>1. worker' \in WorkerState /\ worker'.pc = "merge"
      BY <1>2, <1>7, <2>1 DEF PingSucceeds, Goto
    <3> QED
      BY <1>1, <1>7, <3>1, BoundsAssumption
      DEF PingSucceeds, WellFormed, TypeOK, LocalsSet, Anchoring, Resolving, NamesItsObject,
          incidentVars, chainVars
  <2>2. CASE openIncidents # {}
    <3>1. Oldest(openIncidents) \in Incidents
      <4>1. openIncidents \subseteq Incidents /\ openIncidents \subseteq Nat
        BY <1>1 DEF TypeOK, Incidents
      <4>2. Oldest(openIncidents) \in openIncidents
        BY <2>2, <4>1, OldestOfSet
      <4> QED
        BY <4>1, <4>2
    <3>2. worker' = [worker EXCEPT !.pc = "incident", !.incident = Oldest(openIncidents)]
      BY <1>7, <2>2 DEF PingSucceeds
    <3>3. PICK i \in Incidents : i = Oldest(openIncidents) /\ i \in 0 .. MaxIncidents
      BY <3>1, BoundsAssumption DEF Incidents
    <3>4. worker' = [worker EXCEPT !.pc = "incident", !.incident = i]
      BY <3>2, <3>3
    <3>5. worker' \in WorkerState /\ worker'.pc = "incident" /\ worker'.incident \in Incidents
      BY <1>1, <3>3, <3>4 DEF WorkerState
    <3> QED
      BY <1>1, <1>7, <3>5, BoundsAssumption
      DEF PingSucceeds, WellFormed, TypeOK, LocalsSet, Anchoring, Resolving, NamesItsObject,
          incidentVars, chainVars
  <2> QED
    BY <2>1, <2>2
<1>8. CASE PingFails \/ WorkerDeclares
  <2>1. MarkBatchForRetry => status' \in [Blocks -> Status]
    BY <1>1 DEF MarkBatchForRetry, TypeOK, Status
  <2>2. status' \in [Blocks -> Status]
    BY <1>1, <1>8, <2>1 DEF PingFails, WorkerDeclares, TypeOK
  <2>3. failures' \in 0 .. FAILURE_THRESHOLD
    BY <1>1, <1>8, BoundsAssumption DEF PingFails, WorkerDeclares, TypeOK
  <2>4. /\ openIncidents' \subseteq Incidents /\ declared' \in 0 .. MaxIncidents
        /\ UNCHANGED declaring
    BY <1>1, <1>3, <1>8 DEF PingFails, WorkerDeclares, TypeOK, incidentVars
  <2>5. worker' \in WorkerState /\ worker'.pc \in {"idle", "declare"}
    BY <1>1, <1>2, <1>8, IdleType DEF PingFails, WorkerDeclares, Goto
  <2>6. UNCHANGED << rpcUp, currentNonce, mempool, mined, rootHistory, incidentLog, crashes >>
    BY <1>8 DEF PingFails, WorkerDeclares, chainVars
  <2> QED
    BY <1>1, <2>2, <2>3, <2>4, <2>5, <2>6
    DEF WellFormed, TypeOK, LocalsSet, Anchoring, Resolving, NamesItsObject
<1>9. CASE MergeAll
  <2>1. worker' \in WorkerState /\ worker'.pc \in {"pick", "idle"}
    BY <1>2, <1>9, IdleType DEF MergeAll, Goto
  <2> QED
    BY <1>1, <1>9, <2>1
    DEF MergeAll, WellFormed, TypeOK, LocalsSet, Anchoring, Resolving, NamesItsObject, incidentVars, chainVars
<1> QED
  BY <1>4, <1>5, <1>6, <1>7, <1>8, <1>9 DEF Resolve

\* So does a step that anchors a block.
LEMMA WellFormedAnchor ==
    ASSUME WellFormed, Anchor
    PROVE  WellFormed'
<1>1. worker \in WorkerState /\ TypeOK
  BY DEF WellFormed, TypeOK
<1>2. \A s \in Status : \A b \in Blocks : [status EXCEPT ![b] = s] \in [Blocks -> Status]
  BY <1>1 DEF TypeOK
<1>3. \A b \in Blocks : b \in Nat /\ b \in 0 .. MaxBlocks
  BY BoundsAssumption DEF Blocks
<1>4. CASE Pick
  <2>1. CASE Queue = {}
    BY <1>1, <1>4, <2>1, IdleType
    DEF Pick, WellFormed, TypeOK, LocalsSet, Anchoring, Resolving, NamesItsObject, incidentVars, chainVars
  <2>2. CASE Queue # {}
    <3>1. Oldest(Queue) \in Blocks
      BY <2>2, OldestInQueue
    <3>2. status' \in [Blocks -> Status]
      BY <1>2, <1>4, <2>2, <3>1 DEF Pick, Status
    <3>3. worker' \in WorkerState /\ worker'.pc = "nonce" /\ worker'.block \in Blocks
      BY <1>1, <1>3, <1>4, <2>2, <3>1 DEF Pick, WorkerState
    <3> QED
      BY <1>1, <1>4, <3>2, <3>3
      DEF Pick, WellFormed, TypeOK, LocalsSet, Anchoring, Resolving, NamesItsObject, incidentVars, chainVars
  <2> QED
    BY <2>1, <2>2
<1>5. CASE GetNextNonce
  <2> DEFINE nonce == IF currentNonce = NoNonce THEN PendingNonce ELSE currentNonce
             tx == [nonce |-> nonce, kind |-> "root", of |-> worker.block]
  <2>1. nonce \in Nat
    BY <1>1, PendingNonceType DEF TypeOK
  <2>2. worker.block \in Blocks
    BY <1>5 DEF GetNextNonce, WellFormed, LocalsSet, Anchoring
  <2>3. tx \in Tx /\ tx.kind = "root" /\ tx.of = worker.block
    <3> HIDE DEF nonce
    <3> QED
      BY <1>3, <2>1, <2>2 DEF Tx
  <2>4. currentNonce' \in Nat \cup {NoNonce}
    <3>1. currentNonce' = IF nonce < MaxNonce THEN nonce + 1 ELSE nonce
      BY <1>5 DEF GetNextNonce
    <3> HIDE DEF nonce
    <3> QED
      BY <2>1, <3>1
  <2>5. /\ worker' \in WorkerState /\ worker'.pc = "send" /\ worker'.block = worker.block
        /\ worker'.tx = tx
    <3>1. worker' = [worker EXCEPT !.pc = "send", !.tx = tx]
      BY <1>5 DEF GetNextNonce
    <3> HIDE DEF tx
    <3> QED
      BY <1>1, <2>3, <3>1 DEF WorkerState
  <2> HIDE DEF tx, nonce
  <2> QED
    BY <1>1, <1>5, <2>2, <2>3, <2>4, <2>5
    DEF GetNextNonce, WellFormed, TypeOK, LocalsSet, Anchoring, Resolving, NamesItsObject, incidentVars, chainVars
<1>6. CASE Send
  <2>1. worker.tx \in Tx /\ NamesItsObject(worker.tx)
    BY <1>1, <1>6 DEF Send, WellFormed, LocalsSet, Anchoring, NamesItsObject, WorkerState
  <2>2. mempool' = mempool \cup {worker.tx} /\ worker' = [worker EXCEPT !.pc = "wait"]
    BY <1>6 DEF Send, Goto
  <2>3. /\ worker' \in WorkerState /\ worker'.pc = "wait" /\ worker'.block = worker.block
        /\ worker'.tx = worker.tx
    BY <1>1, <2>2 DEF WorkerState
  <2>4. IsFiniteSet(mempool') /\ (\A t \in mempool' : NamesItsObject(t)) /\ mempool' \subseteq Tx
    BY <1>1, <2>1, <2>2, FS_AddElement DEF WellFormed, TypeOK
  <2> QED
    BY <1>1, <1>6, <2>3, <2>4
    DEF Send, incidentVars, WellFormed, TypeOK, LocalsSet, Anchoring, Resolving, NamesItsObject
<1>7. CASE WaitReceipt
  <2>1. worker' \in WorkerState /\ worker'.pc = "save" /\ worker'.block = worker.block
    BY <1>1, <1>7 DEF WaitReceipt, Goto, WorkerState
  <2> QED
    BY <1>1, <1>7, <2>1
    DEF WaitReceipt, WellFormed, TypeOK, LocalsSet, Anchoring, Resolving, NamesItsObject, incidentVars, chainVars
<1>8. CASE SaveConfirmed \/ SendFails
  <2>1. worker.block \in Blocks
    BY <1>8 DEF SaveConfirmed, SendFails, WellFormed, LocalsSet, Anchoring
  <2>2. status' \in [Blocks -> Status]
    BY <1>2, <1>8, <2>1 DEF SaveConfirmed, SendFails, Status
  <2> QED
    BY <1>1, <1>8, <2>2, IdleType
    DEF SaveConfirmed, SendFails, WellFormed, TypeOK, LocalsSet, Anchoring, Resolving,
        NamesItsObject, incidentVars, chainVars
<1> QED
  BY <1>4, <1>5, <1>6, <1>7, <1>8 DEF Anchor

\* WellFormed is inductive.
LEMMA WellFormedStep == WellFormed /\ [Next]_vars => WellFormed'
<1> SUFFICES ASSUME WellFormed, [Next]_vars PROVE WellFormed'
  OBVIOUS
<1>1. TypeOK
  BY DEF WellFormed
<1>2. CASE UNCHANGED vars
  BY <1>1, <1>2 DEF vars, WellFormed, TypeOK, LocalsSet, Anchoring, Resolving, NamesItsObject
<1>3. CASE CreateBlock
  <2>1. status' \in [Blocks -> Status]
    BY <1>1, <1>3 DEF CreateBlock, TypeOK, Status
  <2> QED
    BY <1>1, <1>3, <2>1
    DEF CreateBlock, WellFormed, TypeOK, LocalsSet, Anchoring, Resolving, NamesItsObject, incidentVars, chainVars
<1>4. CASE RouteLooks \/ RouteDeclares
  <2>1. openIncidents' \subseteq Incidents /\ declared' \in 0 .. MaxIncidents
    BY <1>1, <1>4, DeclareTypes DEF RouteLooks, RouteDeclares, TypeOK
  <2>2. declaring' \in 0 .. MaxRequests
    BY <1>1, <1>4, BoundsAssumption DEF RouteLooks, RouteDeclares, TypeOK
  <2> QED
    BY <1>1, <1>4, <2>1, <2>2
    DEF RouteLooks, RouteDeclares, WellFormed, TypeOK, LocalsSet, Anchoring, Resolving, NamesItsObject, incidentVars, chainVars
<1>5. CASE NetworkChange
  BY <1>1, <1>5
  DEF NetworkChange, WellFormed, TypeOK, LocalsSet, Anchoring, Resolving, NamesItsObject, incidentVars, chainVars
<1>6. CASE Crash
  <2>1. crashes' \in 0 .. MaxCrashes /\ 0 \in 0 .. FAILURE_THRESHOLD /\ 0 \in 0 .. MaxRequests
    BY <1>1, <1>6, BoundsAssumption DEF Crash, TypeOK
  <2> QED
    BY <1>1, <1>6, <2>1, IdleType
    DEF Crash, WellFormed, TypeOK, LocalsSet, Anchoring, Resolving, NamesItsObject, incidentVars, chainVars
<1> QED
  BY <1>2, <1>3, <1>4, <1>5, <1>6, WellFormedMine, WellFormedResolve, WellFormedAnchor
  DEF Next, Cycle

\* Every reachable state is well typed, for every value of the constants.
THEOREM TypeCorrect == Spec => []TypeOK
<1>1. WellFormed => TypeOK
  BY DEF WellFormed
<1> QED
  BY <1>1, WellFormedInit, WellFormedStep, PTL DEF Spec

=============================================================================
