--------------------------- MODULE SyncWorkerSafety ---------------------------
(***************************************************************************)
(* Safety of SyncWorker, for every value of its constants:                 *)
(*   - a CONFIRMED block has its root in the contract, and the contract    *)
(*     stores no root twice;                                               *)
(*   - an incident that is not open any more is closed on the chain, and   *)
(*     no root is sent while the chain has an incident without recovery;   *)
(*   - as long as the server has not restarted, a PROCESSING block is the  *)
(*     one of the cycle in progress and the stored roots form one chain;   *)
(*   - the pipeline implements the abstract log of anchors (AnchorLog);    *)
(*   - with an RPC that answers through whole cycles, no root is sent      *)
(*     twice, and the cached nonce leaves no gap in the account's nonces.  *)
(***************************************************************************)
EXTENDS SyncWorkerProofs

-----------------------------------------------------------------------------
(* The contract *)

\* rootHistory only grows, and never by a root it has.
LEMMA RootHistoryStep ==
    ASSUME WellFormed, [Next]_vars
    PROVE  \/ UNCHANGED rootHistory
           \/ \E t \in mempool :
                /\ t.kind = "root" /\ t.of \in Blocks /\ t.of \notin StoredRoots
                /\ rootHistory' = Append(rootHistory,
                                         [currentRoot |-> t.of, previousRoot |-> t.of - 1])
<1>1. CASE Mine
  BY <1>1 DEF Mine, LogRoot, LogRootSucceeds, WellFormed, NamesItsObject
<1>2. CASE UNCHANGED vars
  BY <1>2 DEF vars
<1>3. CASE CreateBlock \/ RouteLooks \/ RouteDeclares \/ NetworkChange \/ Crash
  BY <1>3 DEF CreateBlock, RouteLooks, RouteDeclares, NetworkChange, Crash, incidentVars, chainVars
<1>4. CASE Cycle
  BY <1>4
  DEF Cycle, Resolve, Anchor, PingFails, WorkerDeclares, PingSucceeds, MergeAll, IncidentSend, IncidentLogged,
      IncidentReceipt, IncidentFails, IncidentClose, Pick, GetNextNonce, Send, WaitReceipt,
      SaveConfirmed, SendFails, incidentVars, chainVars
<1> QED
  BY <1>1, <1>2, <1>3, <1>4 DEF Next

\* Appending a root to the history adds it to the stored roots.
LEMMA StoredRootsAppend ==
    ASSUME WellFormed, NEW b \in Blocks,
           rootHistory' = Append(rootHistory, [currentRoot |-> b, previousRoot |-> b - 1])
    PROVE  /\ Len(rootHistory') = Len(rootHistory) + 1
           /\ \A n \in DOMAIN rootHistory : rootHistory'[n] = rootHistory[n]
           /\ rootHistory'[Len(rootHistory) + 1] = [currentRoot |-> b, previousRoot |-> b - 1]
           /\ DOMAIN rootHistory' = DOMAIN rootHistory \cup {Len(rootHistory) + 1}
           /\ StoredRoots' = StoredRoots \cup {b}
<1> DEFINE R == [currentRoot: Blocks, previousRoot: 0 .. MaxBlocks]
           r == [currentRoot |-> b, previousRoot |-> b - 1]
<1>1. rootHistory \in Seq(R) /\ r \in R
  BY BoundsAssumption DEF WellFormed, TypeOK, Blocks
<1>2. r.currentRoot = b
  OBVIOUS
<1> HIDE DEF R, r
<1>3. rootHistory' = Append(rootHistory, r)
  BY DEF r
<1>4. /\ Len(rootHistory') = Len(rootHistory) + 1
      /\ rootHistory'[Len(rootHistory) + 1] = r
      /\ \A n \in 1 .. Len(rootHistory) : rootHistory'[n] = rootHistory[n]
      /\ DOMAIN rootHistory = 1 .. Len(rootHistory) /\ Len(rootHistory) \in Nat
      /\ DOMAIN rootHistory' = 1 .. Len(rootHistory')
  BY <1>1, <1>3, AppendProperties, LenProperties
<1>5. DOMAIN rootHistory' = DOMAIN rootHistory \cup {Len(rootHistory) + 1}
  BY <1>4
<1>6. StoredRoots' = StoredRoots \cup {b}
  BY <1>2, <1>4, <1>5 DEF StoredRoots
<1> QED
  BY <1>4, <1>5, <1>6 DEF r

\* A root that is stored stays stored.
LEMMA StoredRootsGrow ==
    ASSUME WellFormed, [Next]_vars
    PROVE  StoredRoots \subseteq StoredRoots'
<1>1. CASE UNCHANGED rootHistory
  BY <1>1 DEF StoredRoots
<1>2. CASE ~ UNCHANGED rootHistory
  BY <1>2, RootHistoryStep, StoredRootsAppend
<1> QED
  BY <1>1, <1>2

-----------------------------------------------------------------------------
(* Confirmed blocks *)

\* The receipts the account has, and the block that is about to be saved as
\* CONFIRMED, which is what a receipt was seen for.
AnchorInv ==
    /\ ConfirmedIsAnchored
    /\ AnchoredOnce
    /\ worker.pc = "save" => worker.block \in StoredRoots
    /\ \A n \in DOMAIN mined :
          mined[n].ok /\ mined[n].tx.kind = "root" => mined[n].tx.of \in StoredRoots

\* Nothing is confirmed, anchored or pending at the start.
LEMMA AnchorInvInit == Init => AnchorInv
BY EmptySeq DEF Init, AnchorInv, ConfirmedIsAnchored, AnchoredOnce, Idle

\* A transaction that is mined confirms nothing, and its root is new.
LEMMA AnchorInvMine ==
    ASSUME WellFormed, AnchorInv, Mine
    PROVE  AnchorInv'
<1>1. PICK t \in mempool :
         /\ mined' = Append(mined, [tx |-> t,
               ok |-> IF t.kind = "root" THEN LogRootSucceeds(t.of) ELSE LogIncidentSucceeds(t.kind, t.of)])
         /\ IF t.kind = "root" /\ LogRootSucceeds(t.of) THEN LogRoot(t.of) ELSE UNCHANGED rootHistory
  BY DEF Mine
<1> DEFINE ok == IF t.kind = "root" THEN LogRootSucceeds(t.of) ELSE LogIncidentSucceeds(t.kind, t.of)
           r == [tx |-> t, ok |-> ok]
<1>2. r.tx = t /\ r.ok = ok
  OBVIOUS
<1>3. ok \in BOOLEAN /\ t \in Tx
  BY DEF LogRootSucceeds, LogIncidentSucceeds, WellFormed, TypeOK
<1>4. r \in [tx: Tx, ok: BOOLEAN]
  BY <1>3
<1>5. mined' = Append(mined, r)
  BY <1>1
<1>6. (t.kind = "root" /\ ok) => t.of \in StoredRoots'
  <2> SUFFICES ASSUME t.kind = "root", LogRootSucceeds(t.of) PROVE t.of \in StoredRoots'
    OBVIOUS
  <2>1. t.of \in Blocks
    BY DEF WellFormed, NamesItsObject
  <2> QED
    BY <1>1, <2>1, StoredRootsAppend DEF LogRoot
<1> HIDE DEF r, ok
<1>7. /\ DOMAIN mined' = 1 .. Len(mined) + 1 /\ Len(mined) \in Nat /\ DOMAIN mined = 1 .. Len(mined)
      /\ mined'[Len(mined) + 1] = r
      /\ \A n \in 1 .. Len(mined) : mined'[n] = mined[n]
  BY <1>4, <1>5, AppendProperties, LenProperties DEF WellFormed, TypeOK
<1>8. \A n \in DOMAIN mined' : n \in DOMAIN mined \/ n = Len(mined) + 1
  BY <1>7
<1>9. Next
  BY DEF Next
<1>10. StoredRoots \subseteq StoredRoots'
  BY <1>9, StoredRootsGrow
<1>11. \A n \in DOMAIN mined' :
          mined'[n].ok /\ mined'[n].tx.kind = "root" => mined'[n].tx.of \in StoredRoots'
  BY <1>2, <1>6, <1>7, <1>8, <1>10 DEF AnchorInv
<1>12. AnchoredOnce'
  <2>1. CASE UNCHANGED rootHistory
    BY <2>1 DEF AnchorInv, AnchoredOnce
  <2>2. CASE ~ UNCHANGED rootHistory
    <3>1. PICK b \in Blocks :
             /\ b \notin StoredRoots
             /\ rootHistory' = Append(rootHistory, [currentRoot |-> b, previousRoot |-> b - 1])
      BY <1>9, <2>2, RootHistoryStep
    <3>2. [currentRoot |-> b, previousRoot |-> b - 1].currentRoot = b
      OBVIOUS
    <3>3. /\ \A n \in DOMAIN rootHistory : rootHistory'[n] = rootHistory[n]
          /\ rootHistory'[Len(rootHistory) + 1].currentRoot = b
          /\ DOMAIN rootHistory' = DOMAIN rootHistory \cup {Len(rootHistory) + 1}
      BY <3>1, <3>2, StoredRootsAppend
    <3>4. \A n \in DOMAIN rootHistory : rootHistory[n].currentRoot # b
      BY <3>1 DEF StoredRoots
    <3> QED
      BY <3>3, <3>4 DEF AnchorInv, AnchoredOnce
  <2> QED
    BY <2>1, <2>2
<1>13. UNCHANGED << worker, status >>
  BY DEF Mine
<1> QED
  BY <1>10, <1>11, <1>12, <1>13 DEF AnchorInv, ConfirmedIsAnchored

\* The other steps leave the contract alone; only SaveConfirmed confirms a
\* block, and WaitReceipt has seen the receipt before.
LEMMA AnchorInvStep == WellFormed /\ AnchorInv /\ [Next]_vars => AnchorInv'
<1> SUFFICES ASSUME WellFormed, AnchorInv, [Next]_vars, ~ Mine PROVE AnchorInv'
  BY AnchorInvMine
<1>1. UNCHANGED << mined, rootHistory >>
  BY DEF Next, vars, incidentVars, chainVars, CreateBlock, RouteLooks, RouteDeclares, NetworkChange, Crash, Cycle, Resolve,
         Anchor, PingFails, WorkerDeclares, PingSucceeds, MergeAll, IncidentSend, IncidentLogged, IncidentReceipt,
         IncidentFails, IncidentClose, Pick, GetNextNonce, Send, WaitReceipt, SaveConfirmed, SendFails
<1>2. StoredRoots' = StoredRoots /\ AnchoredOnce'
  BY <1>1 DEF StoredRoots, AnchorInv, AnchoredOnce
<1>3. worker \in WorkerState /\ status \in [Blocks -> Status]
  BY DEF WellFormed, TypeOK
<1>4. worker'.pc = "save" => worker'.block \in StoredRoots
  <2>1. CASE WaitReceipt
    <3>1. PICK n \in DOMAIN mined : mined[n].tx = worker.tx /\ mined[n].ok
      BY <2>1 DEF WaitReceipt, ReceiptOk, Receipt
    <3>2. worker.tx.kind = "root" /\ worker.tx.of = worker.block
      BY <2>1 DEF WaitReceipt, WellFormed, LocalsSet
    <3>3. worker'.block = worker.block
      BY <1>3, <2>1 DEF WaitReceipt, Goto, WorkerState
    <3> QED
      BY <3>1, <3>2, <3>3 DEF AnchorInv
  <2>2. CASE ~ WaitReceipt
    <3>1. worker' = worker \/ worker'.pc # "save"
      <4>1. \A pc \in {"declare", "incident", "incidentWait", "incidentClose", "merge", "pick",
                     "nonce", "send", "wait"} :
               [worker EXCEPT !.pc = pc].pc # "save"
        BY <1>3 DEF WorkerState
      <4>2. \A tx : /\ [worker EXCEPT !.pc = "send", !.tx = tx].pc # "save"
                    /\ [worker EXCEPT !.pc = "incidentWait", !.tx = tx].pc # "save"
        BY <1>3 DEF WorkerState
      <4>3. \A b : /\ [worker EXCEPT !.pc = "nonce", !.block = b].pc # "save"
                   /\ [worker EXCEPT !.pc = "incident", !.incident = b].pc # "save"
        BY <1>3 DEF WorkerState
      <4>4. Idle.pc # "save" /\ [Idle EXCEPT !.pc = "merge"].pc # "save"
        BY IdleType
      <4>5. CASE Resolve \/ PingFails \/ WorkerDeclares \/ PingSucceeds \/ MergeAll
        <5>1. CASE IncidentSend
          BY <4>2, <5>1 DEF IncidentSend
        <5>2. CASE IncidentLogged \/ IncidentReceipt \/ MergeAll
          BY <4>1, <4>4, <5>2 DEF IncidentLogged, IncidentReceipt, MergeAll, Goto
        <5>3. CASE IncidentClose \/ IncidentFails \/ WorkerDeclares
          BY <4>4, <5>3 DEF IncidentClose, IncidentFails, WorkerDeclares
        <5>4. CASE PingSucceeds
          <6>1. \/ worker' = [worker EXCEPT !.pc = "merge"]
                \/ \E i : worker' = [worker EXCEPT !.pc = "incident", !.incident = i]
            BY <5>4 DEF PingSucceeds, Goto
          <6> QED
            BY <4>1, <4>3, <6>1
        <5>5. CASE PingFails
          BY <4>1, <5>5 DEF PingFails, Goto
        <5> QED
          BY <4>5, <5>1, <5>2, <5>3, <5>4, <5>5 DEF Resolve
      <4>6. CASE Anchor
        <5>1. CASE Pick
          BY <4>3, <4>4, <5>1 DEF Pick
        <5>2. CASE GetNextNonce
          BY <4>2, <5>2 DEF GetNextNonce
        <5>3. CASE Send
          BY <4>1, <5>3 DEF Send, Goto
        <5>4. CASE SaveConfirmed \/ SendFails
          BY <4>4, <5>4 DEF SaveConfirmed, SendFails
        <5> QED
          BY <2>2, <4>6, <5>1, <5>2, <5>3, <5>4 DEF Anchor
      <4>7. CASE UNCHANGED vars \/ CreateBlock \/ RouteLooks \/ RouteDeclares \/ NetworkChange \/ Crash
        BY <4>4, <4>7 DEF vars, CreateBlock, RouteLooks, RouteDeclares, NetworkChange, Crash
      <4> QED
        BY <4>5, <4>6, <4>7 DEF Next, Cycle
    <3> QED
      BY <3>1 DEF AnchorInv
  <2> QED
    BY <2>1, <2>2
<1>5. \A b \in Blocks : status'[b] = "CONFIRMED" => status[b] = "CONFIRMED" \/ b \in StoredRoots
  <2>1. CASE SaveConfirmed
    BY <1>3, <2>1 DEF SaveConfirmed, AnchorInv
  <2>2. CASE PingFails \/ WorkerDeclares
    BY <2>2 DEF PingFails, WorkerDeclares, MarkBatchForRetry
  <2>3. CASE Pick \/ SendFails \/ CreateBlock
    BY <1>3, <2>3 DEF Pick, SendFails, CreateBlock
  <2>4. CASE UNCHANGED status
    BY <2>4
  <2> QED
    BY <2>1, <2>2, <2>3, <2>4
    DEF Next, vars, incidentVars, chainVars, RouteLooks, RouteDeclares, NetworkChange, Crash, Cycle, Resolve, Anchor,
        PingSucceeds, MergeAll, IncidentSend, IncidentLogged, IncidentReceipt, IncidentFails,
        IncidentClose, GetNextNonce, Send, WaitReceipt
<1> QED
  BY <1>1, <1>2, <1>4, <1>5 DEF AnchorInv, ConfirmedIsAnchored

\* ConfirmedIsAnchored for every number of blocks, incidents, restarts and
\* pending transactions.
THEOREM ConfirmedAlwaysAnchored == Spec => []ConfirmedIsAnchored
<1>1. AnchorInv => ConfirmedIsAnchored
  BY DEF AnchorInv
<1> QED
  BY <1>1, WellFormedInit, WellFormedStep, AnchorInvInit, AnchorInvStep, PTL DEF Spec

\* AnchoredOnce: no root is stored twice, however often it is sent.
THEOREM NeverAnchoredTwice == Spec => []AnchoredOnce
<1>1. AnchorInv => AnchoredOnce
  BY DEF AnchorInv
<1> QED
  BY <1>1, WellFormedInit, WellFormedStep, AnchorInvInit, AnchorInvStep, PTL DEF Spec

-----------------------------------------------------------------------------
(* Closed incidents *)

\* The worker closes an incident in the database only after it has read from
\* the contract that it is CLOSED there; the one it resolves is the oldest of
\* those that are OPEN, however many overlapping declarations have made.
IncidentInv ==
    /\ ClosedIncidentIsLogged
    /\ openIncidents \subseteq 1 .. declared
    /\ Resolving => worker.incident \in openIncidents
                    /\ \A j \in openIncidents : worker.incident <= j
    /\ worker.pc = "incidentClose" => incidentLog[worker.incident] = "CLOSED"

\* No incident is declared at the start.
LEMMA IncidentInvInit == Init => IncidentInv
BY BoundsAssumption DEF Init, IncidentInv, ClosedIncidentIsLogged, Resolving, Idle

\* The contract never changes an incident that is CLOSED.
LEMMA IncidentLogStep ==
    ASSUME WellFormed, [Next]_vars
    PROVE  \A i \in Incidents : incidentLog[i] = "CLOSED" => incidentLog'[i] = "CLOSED"
<1>1. CASE Mine
  <2>1. PICK t \in mempool :
           \/ UNCHANGED incidentLog
           \/ t.kind # "root" /\ LogIncidentSucceeds(t.kind, t.of) /\ LogIncident(t.kind, t.of)
    BY <1>1 DEF Mine
  <2>2. CASE UNCHANGED incidentLog
    BY <2>2
  <2>3. CASE LogIncidentSucceeds(t.kind, t.of) /\ LogIncident(t.kind, t.of)
    <3>1. incidentLog[t.of] # "CLOSED"
      BY <2>3 DEF LogIncidentSucceeds
    <3>2. \A i \in Incidents : i # t.of => incidentLog'[i] = incidentLog[i]
      BY <2>3 DEF LogIncident, WellFormed, TypeOK
    <3> QED
      BY <3>1, <3>2
  <2> QED
    BY <2>1, <2>2, <2>3
<1>2. CASE ~ Mine
  BY <1>2
  DEF Next, vars, incidentVars, chainVars, CreateBlock, RouteLooks, RouteDeclares, NetworkChange, Crash, Cycle, Resolve,
      Anchor, PingFails, WorkerDeclares, PingSucceeds, MergeAll, IncidentSend, IncidentLogged, IncidentReceipt,
      IncidentFails, IncidentClose, Pick, GetNextNonce, Send, WaitReceipt, SaveConfirmed, SendFails
<1> QED
  BY <1>1, <1>2

\* An incident is declared under the next number, by the worker or a request,
\* and closed by IncidentClose.
LEMMA OpenIncidentsStep ==
    ASSUME WellFormed, [Next]_vars
    PROVE  \/ UNCHANGED << openIncidents, declared >>
           \/ /\ openIncidents' = openIncidents \cup {declared + 1} /\ declared' = declared + 1
              /\ declared < MaxIncidents /\ UNCHANGED incidentLog
              /\ UNCHANGED worker \/ worker'.pc = "idle"
           \/ /\ worker.pc = "incidentClose" /\ worker'.pc = "merge"
              /\ openIncidents' = openIncidents \ {worker.incident} /\ UNCHANGED declared
<1>1. CASE WorkerDeclares
  BY <1>1, IdleType DEF WorkerDeclares, Declare, chainVars
<1>2. CASE RouteDeclares
  BY <1>2 DEF RouteDeclares, Declare, chainVars
<1>3. CASE IncidentClose
  BY <1>3, IdleType DEF IncidentClose
<1>4. CASE ~ WorkerDeclares /\ ~ RouteDeclares /\ ~ IncidentClose
  <2>1. UNCHANGED << openIncidents, declared >>
    BY <1>4
    DEF Next, vars, incidentVars, chainVars, CreateBlock, RouteLooks, NetworkChange, Crash, Cycle,
        Resolve, Anchor, Mine, PingFails, PingSucceeds, MergeAll, IncidentSend, IncidentLogged,
        IncidentReceipt, IncidentFails, Pick, GetNextNonce, Send, WaitReceipt, SaveConfirmed,
        SendFails
  <2> QED
    BY <2>1
<1> QED
  BY <1>1, <1>2, <1>3, <1>4

\* The incident that is resolved is the oldest one OPEN when a cycle takes it up,
\* and stays the same until it is closed or given up.
LEMMA ResolvingStep ==
    ASSUME WellFormed, [Next]_vars, Resolving'
    PROVE  \/ /\ PingSucceeds /\ openIncidents # {}
              /\ worker'.pc = "incident" /\ worker'.incident = Oldest(openIncidents)
           \/ /\ Resolving /\ worker'.incident = worker.incident
              /\ worker' = worker \/ worker'.pc # "incidentClose" \/ IncidentLogged
<1>1. worker \in WorkerState
  BY DEF WellFormed, TypeOK
<1>2. \A pc : /\ [worker EXCEPT !.pc = pc].pc = pc
              /\ [worker EXCEPT !.pc = pc].incident = worker.incident
  BY <1>1 DEF WorkerState
<1>3. \A tx, pc : /\ [worker EXCEPT !.pc = pc, !.tx = tx].pc = pc
                  /\ [worker EXCEPT !.pc = pc, !.tx = tx].incident = worker.incident
  BY <1>1 DEF WorkerState
<1>4. \A b : [worker EXCEPT !.pc = "nonce", !.block = b].pc = "nonce"
  BY <1>1 DEF WorkerState
<1>5. Idle.pc = "idle" /\ [Idle EXCEPT !.pc = "merge"].pc = "merge"
  BY DEF Idle
<1>6. CASE PingSucceeds
  <2>1. CASE openIncidents = {}
    BY <1>2, <1>6, <2>1 DEF PingSucceeds, Goto, Resolving
  <2>2. CASE openIncidents # {}
    <3>1. worker' = [worker EXCEPT !.pc = "incident", !.incident = Oldest(openIncidents)]
      BY <1>6, <2>2 DEF PingSucceeds
    <3>2. \A i : /\ [worker EXCEPT !.pc = "incident", !.incident = i].pc = "incident"
                 /\ [worker EXCEPT !.pc = "incident", !.incident = i].incident = i
      BY <1>1 DEF WorkerState
    <3> QED
      BY <1>6, <2>2, <3>1, <3>2
  <2> QED
    BY <2>1, <2>2
<1>7. CASE IncidentSend
  <2>1. \E tx : worker' = [worker EXCEPT !.pc = "incidentWait", !.tx = tx]
    BY <1>7 DEF IncidentSend
  <2>2. worker'.pc = "incidentWait" /\ worker'.incident = worker.incident
    BY <1>3, <2>1
  <2> QED
    BY <1>7, <2>2 DEF IncidentSend, Resolving
<1>8. CASE IncidentLogged
  BY <1>2, <1>8 DEF IncidentLogged, Goto, Resolving
<1>9. CASE IncidentReceipt
  BY <1>2, <1>9 DEF IncidentReceipt, Goto, Resolving
<1>10. CASE PingFails
  <2>1. worker' = worker \/ worker'.pc = "declare"
    BY <1>2, <1>10 DEF PingFails, Goto
  <2> QED
    BY <1>10, <2>1 DEF PingFails, Resolving
<1>11. CASE MergeAll
  <2>1. worker'.pc \in {"pick", "idle"}
    BY <1>2, <1>5, <1>11 DEF MergeAll, Goto
  <2> QED
    BY <2>1 DEF Resolving
<1>12. CASE Send \/ WaitReceipt
  <2>1. worker'.pc \in {"wait", "save"}
    BY <1>2, <1>12 DEF Send, WaitReceipt, Goto
  <2> QED
    BY <2>1 DEF Resolving
<1>13. CASE GetNextNonce
  <2>1. \E tx : worker' = [worker EXCEPT !.pc = "send", !.tx = tx]
    BY <1>13 DEF GetNextNonce
  <2> QED
    BY <1>3, <2>1 DEF Resolving
<1>14. CASE Pick
  BY <1>4, <1>5, <1>14 DEF Pick, Resolving
<1>15. CASE IncidentClose \/ IncidentFails \/ SaveConfirmed \/ SendFails \/ Crash \/ WorkerDeclares
  <2>1. worker' = Idle \/ worker' = [Idle EXCEPT !.pc = "merge"]
    BY <1>15 DEF IncidentClose, IncidentFails, SaveConfirmed, SendFails, Crash, WorkerDeclares
  <2>2. worker'.pc \in {"idle", "merge"}
    BY <1>5, <2>1, Zenon
  <2> QED
    BY <2>2 DEF Resolving
<1>16. CASE \/ UNCHANGED vars \/ Mine \/ CreateBlock \/ RouteLooks \/ RouteDeclares
            \/ NetworkChange
  <2>1. worker' = worker
    BY <1>16 DEF vars, Mine, CreateBlock, RouteLooks, RouteDeclares, NetworkChange
  <2> QED
    BY <2>1 DEF Resolving
<1> QED
  BY <1>6, <1>7, <1>8, <1>9, <1>10, <1>11, <1>12, <1>13, <1>14, <1>15, <1>16
  DEF Next, Cycle, Resolve, Anchor

\* The invariant follows.
LEMMA IncidentInvStep == WellFormed /\ IncidentInv /\ [Next]_vars => IncidentInv'
<1> SUFFICES ASSUME WellFormed, IncidentInv, [Next]_vars PROVE IncidentInv'
  OBVIOUS
<1>1. \A i \in Incidents : incidentLog[i] = "CLOSED" => incidentLog'[i] = "CLOSED"
  BY IncidentLogStep
<1>2. /\ declared \in Nat /\ declared <= MaxIncidents /\ 1 .. declared \subseteq Incidents
      /\ openIncidents \subseteq Incidents /\ openIncidents \subseteq 1 .. declared
      /\ Incidents \subseteq Nat
  BY BoundsAssumption DEF WellFormed, TypeOK, Incidents, IncidentInv
<1>3. \/ UNCHANGED << openIncidents, declared >>
      \/ /\ openIncidents' = openIncidents \cup {declared + 1} /\ declared' = declared + 1
         /\ declared < MaxIncidents /\ UNCHANGED incidentLog
         /\ UNCHANGED worker \/ worker'.pc = "idle"
      \/ /\ worker.pc = "incidentClose" /\ worker'.pc = "merge"
         /\ openIncidents' = openIncidents \ {worker.incident} /\ UNCHANGED declared
  BY OpenIncidentsStep
<1>4. \A i \in 1 .. declared : i \notin openIncidents => incidentLog'[i] = "CLOSED"
  BY <1>1, <1>2 DEF IncidentInv, ClosedIncidentIsLogged
<1>5. openIncidents' \subseteq 1 .. declared'
  <2>1. 1 .. declared \subseteq 1 .. (declared + 1) /\ declared + 1 \in 1 .. (declared + 1)
    BY <1>2
  <2> QED
    BY <1>2, <1>3, <2>1
<1>6. ClosedIncidentIsLogged'
  <2>1. CASE worker.pc = "incidentClose" /\ openIncidents' = openIncidents \ {worker.incident}
             /\ UNCHANGED declared
    <3>1. worker.incident \in Incidents /\ incidentLog'[worker.incident] = "CLOSED"
      BY <1>1, <2>1 DEF IncidentInv, WellFormed, LocalsSet, Resolving
    <3> QED
      BY <1>4, <2>1, <3>1 DEF ClosedIncidentIsLogged
  <2>2. CASE openIncidents' = openIncidents \cup {declared + 1} /\ declared' = declared + 1
    <3>1. \A i \in 1 .. declared' : i \notin openIncidents' => i \in 1 .. declared /\ i \notin openIncidents
      BY <1>2, <2>2
    <3> QED
      BY <1>4, <3>1 DEF ClosedIncidentIsLogged
  <2>3. CASE UNCHANGED << openIncidents, declared >>
    BY <1>4, <2>3 DEF ClosedIncidentIsLogged
  <2> QED
    BY <1>3, <2>1, <2>2, <2>3
<1>7. Resolving' => /\ worker'.incident \in openIncidents'
                    /\ \A j \in openIncidents' : worker'.incident <= j
  <2> SUFFICES ASSUME Resolving'
               PROVE  /\ worker'.incident \in openIncidents'
                      /\ \A j \in openIncidents' : worker'.incident <= j
    OBVIOUS
  <2>1. CASE PingSucceeds /\ openIncidents # {} /\ worker'.incident = Oldest(openIncidents)
    <3>1. openIncidents' = openIncidents /\ openIncidents \subseteq Nat
      BY <1>2, <2>1 DEF PingSucceeds, incidentVars
    <3>2. Oldest(openIncidents) \in openIncidents /\ \A j \in openIncidents : Oldest(openIncidents) <= j
      BY <2>1, <3>1, OldestOfSet
    <3> QED
      BY <2>1, <3>1, <3>2
  <2>2. CASE Resolving /\ worker'.incident = worker.incident
    <3>1. /\ worker.incident \in openIncidents /\ worker.incident \in 1 .. declared
          /\ \A j \in openIncidents : worker.incident <= j
      BY <1>2, <2>2 DEF IncidentInv
    <3>2. \/ UNCHANGED << openIncidents, declared >>
          \/ openIncidents' = openIncidents \cup {declared + 1}
      BY <1>3 DEF Resolving
    <3>3. worker.incident \in Nat /\ worker.incident <= declared + 1
      BY <1>2, <3>1
    <3> QED
      BY <2>2, <3>1, <3>2, <3>3
  <2> QED
    BY <2>1, <2>2, ResolvingStep
<1>8. worker'.pc = "incidentClose" => incidentLog'[worker'.incident] = "CLOSED"
  <2> SUFFICES ASSUME worker'.pc = "incidentClose"
               PROVE  incidentLog'[worker'.incident] = "CLOSED"
    OBVIOUS
  <2>1. Resolving /\ worker'.incident = worker.incident /\ (worker' = worker \/ IncidentLogged)
    BY ResolvingStep DEF Resolving
  <2>2. worker.incident \in Incidents /\ incidentLog[worker.incident] = "CLOSED"
    BY <2>1 DEF IncidentInv, IncidentLogged, WellFormed, LocalsSet
  <2> QED
    BY <1>1, <2>1, <2>2
<1> QED
  BY <1>5, <1>6, <1>7, <1>8 DEF IncidentInv

\* ClosedIncidentIsLogged, whichever cycle or restart sent the transactions.
THEOREM ClosedIncidentAlwaysLogged == Spec => []ClosedIncidentIsLogged
<1>1. IncidentInv => ClosedIncidentIsLogged
  BY DEF IncidentInv
<1> QED
  BY <1>1, WellFormedInit, WellFormedStep, IncidentInvInit, IncidentInvStep, PTL DEF Spec

-----------------------------------------------------------------------------
(* No root while the chain shows an outage *)

\* The part of a cycle after the incident, if there was one.
Syncing == worker.pc \in {"merge", "pick", "nonce", "send", "wait", "save"}

\* Only incidents that were declared are, or will be, on the chain, and none
\* before an earlier one is closed in the database; and in the second part of a
\* cycle none is OPEN there, nor will one be: no transaction of a failure is
\* pending that could still succeed.
OutageInv ==
    /\ \A i \in Incidents : incidentLog[i] # "NONE" => i <= declared
    /\ \A t \in mempool : t.kind # "root" => t.of <= declared
    /\ \A i \in Incidents : incidentLog[i] # "NONE" => \A j \in openIncidents : i <= j
    /\ \A t \in mempool : t.kind # "root" => \A j \in openIncidents : t.of <= j
    /\ Syncing => \A i \in Incidents : incidentLog[i] # "OPEN"
    /\ Syncing => \A t \in mempool : t.kind = "failure" => incidentLog[t.of] # "NONE"

\* Nothing is declared or pending at the start.
LEMMA OutageInvInit == Init => OutageInv
BY DEF Init, OutageInv, Syncing, Idle

\* A mined transaction of an incident moves its log on, and in the second part
\* of a cycle it is not the transaction of a failure.
LEMMA OutageInvMine ==
    ASSUME WellFormed, OutageInv, Mine
    PROVE  OutageInv'
<1>1. PICK t \in mempool :
         /\ mempool' = mempool \ {t}
         /\ \/ UNCHANGED incidentLog
            \/ t.kind # "root" /\ LogIncidentSucceeds(t.kind, t.of) /\ LogIncident(t.kind, t.of)
         /\ UNCHANGED << worker, openIncidents, declared >>
  BY DEF Mine, incidentVars
<1>2. UNCHANGED Syncing
  BY <1>1 DEF Syncing
<1>3. \A s \in mempool : s.kind # "root" => s.of \in Incidents
  BY DEF WellFormed, NamesItsObject
<1>4. CASE UNCHANGED incidentLog
  BY <1>1, <1>2, <1>4 DEF OutageInv, Syncing
<1>5. CASE t.kind # "root" /\ LogIncidentSucceeds(t.kind, t.of) /\ LogIncident(t.kind, t.of)
  <2>1. t.of \in Incidents /\ t.of <= declared /\ \A j \in openIncidents : t.of <= j
    BY <1>3, <1>5 DEF OutageInv
  <2>2. /\ \A i \in Incidents \ {t.of} : incidentLog'[i] = incidentLog[i]
        /\ incidentLog'[t.of] = IF t.kind = "failure" THEN "OPEN" ELSE "CLOSED"
    BY <1>5, <2>1 DEF LogIncident, WellFormed, TypeOK
  <2>3. Syncing => t.kind # "failure"
    BY <1>5 DEF OutageInv, LogIncidentSucceeds
  <2> QED
    BY <1>1, <1>2, <1>3, <2>1, <2>2, <2>3 DEF OutageInv, Syncing
<1> QED
  BY <1>1, <1>4, <1>5

\* When none is OPEN in the database, or the oldest that is has its recovery
\* logged, every incident that is or may come on the chain is CLOSED there: the
\* second part of a cycle may begin.
LEMMA SyncingBegins ==
    ASSUME WellFormed, IncidentInv, OutageInv,
           openIncidents = {} \/ worker.pc = "incidentClose"
    PROVE  /\ \A i \in Incidents : incidentLog[i] # "OPEN"
           /\ \A t \in mempool : t.kind = "failure" => incidentLog[t.of] # "NONE"
<1>1. ASSUME NEW i \in Incidents, i <= declared, \A j \in openIncidents : i <= j
      PROVE  incidentLog[i] = "CLOSED"
  <2>1. i \in 1 .. declared /\ i \in Nat
    BY <1>1, BoundsAssumption DEF WellFormed, TypeOK, Incidents
  <2>2. CASE i \notin openIncidents
    BY <2>1, <2>2 DEF IncidentInv, ClosedIncidentIsLogged
  <2>3. CASE i \in openIncidents
    <3>1. worker.pc = "incidentClose" /\ worker.incident \in openIncidents /\ worker.incident <= i
      BY <2>3 DEF IncidentInv, Resolving
    <3>2. i <= worker.incident /\ worker.incident \in Nat
      <4>1. openIncidents \subseteq Nat
        BY DEF WellFormed, TypeOK, Incidents
      <4> QED
        BY <1>1, <3>1, <4>1
    <3>3. i = worker.incident
      BY <2>1, <3>1, <3>2
    <3> QED
      BY <3>1, <3>3 DEF IncidentInv
  <2> QED
    BY <2>2, <2>3
<1>2. \A t \in mempool : t.kind = "failure" =>
         t.of \in Incidents /\ t.of <= declared /\ \A j \in openIncidents : t.of <= j
  BY DEF WellFormed, NamesItsObject, OutageInv
<1> QED
  BY <1>1, <1>2 DEF OutageInv

\* Every other step: the second part of a cycle begins after PingSucceeds
\* without an incident, or after IncidentClose.
LEMMA OutageInvStep == WellFormed /\ IncidentInv /\ OutageInv /\ [Next]_vars => OutageInv'
<1> SUFFICES ASSUME WellFormed, IncidentInv, OutageInv, [Next]_vars PROVE OutageInv'
  OBVIOUS
<1>1. /\ worker \in WorkerState /\ declared \in Nat
      /\ \A i \in Incidents : i \in Nat
      /\ \A t \in mempool : t.kind # "root" => t.of \in Incidents
  BY DEF WellFormed, TypeOK, NamesItsObject, Incidents
<1>2. CASE Mine
  BY <1>2, OutageInvMine
<1>3. CASE IncidentSend
  <2>1. PICK tx : tx.of = worker.incident /\ mempool' = mempool \cup {tx}
                  /\ worker' = [worker EXCEPT !.pc = "incidentWait", !.tx = tx]
    <3> DEFINE kind == IF incidentLog[worker.incident] = "NONE" THEN "failure" ELSE "recovery"
               sent == [nonce |-> PendingNonce, kind |-> kind, of |-> worker.incident]
    <3>1. sent.of = worker.incident
      OBVIOUS
    <3>2. mempool' = mempool \cup {sent}
          /\ worker' = [worker EXCEPT !.pc = "incidentWait", !.tx = sent]
      BY <1>3 DEF IncidentSend
    <3> HIDE DEF sent
    <3> QED
      BY <3>1, <3>2
  <2>2. /\ worker.incident <= declared /\ \A j \in openIncidents : worker.incident <= j
        /\ UNCHANGED << openIncidents, declared, incidentLog >>
    BY <1>1, <1>3 DEF IncidentSend, IncidentInv, Resolving, incidentVars
  <2>3. worker'.pc = "incidentWait"
    BY <1>1, <2>1 DEF WorkerState
  <2> QED
    BY <2>1, <2>2, <2>3 DEF OutageInv, Syncing
<1>4. CASE Send
  <2>1. mempool' = mempool \cup {worker.tx} /\ worker.tx.kind = "root"
    BY <1>4 DEF Send, WellFormed, LocalsSet
  <2>2. Syncing /\ UNCHANGED << openIncidents, declared, incidentLog >>
    BY <1>4 DEF Send, Syncing, incidentVars
  <2> QED
    BY <2>1, <2>2 DEF OutageInv
<1>5. CASE PingSucceeds
  <2>1. UNCHANGED << mempool, incidentLog, openIncidents, declared >>
    BY <1>5 DEF PingSucceeds, incidentVars, chainVars
  <2>2. worker'.pc = "incident" \/ openIncidents = {}
    BY <1>1, <1>5 DEF PingSucceeds, WorkerState
  <2> QED
    BY <2>1, <2>2, SyncingBegins DEF OutageInv, Syncing
<1>6. CASE IncidentClose
  <2>1. UNCHANGED << mempool, incidentLog, declared >> /\ openIncidents' \subseteq openIncidents
    BY <1>6 DEF IncidentClose, chainVars
  <2>2. worker.pc = "incidentClose"
    BY <1>6 DEF IncidentClose
  <2> QED
    BY <2>1, <2>2, SyncingBegins DEF OutageInv
<1>7. CASE ~ Mine /\ ~ IncidentSend /\ ~ Send /\ ~ PingSucceeds /\ ~ IncidentClose
  <2>1. UNCHANGED << mempool, incidentLog >>
    BY <1>7
    DEF Next, vars, incidentVars, chainVars, CreateBlock, RouteLooks, RouteDeclares, NetworkChange, Crash, Cycle, Resolve,
        Anchor, PingFails, WorkerDeclares, MergeAll, IncidentLogged, IncidentReceipt,
        IncidentFails, Pick, GetNextNonce, WaitReceipt, SaveConfirmed, SendFails
  <2>2. /\ declared' \in Nat /\ declared <= declared'
        /\ \A j \in openIncidents' : j \in openIncidents \/ j = declared + 1
    BY <1>1, OpenIncidentsStep
  <2>3. Syncing' => Syncing
    <3>1. CASE UNCHANGED worker
      BY <3>1 DEF Syncing
    <3>5. CASE PingFails
      BY <1>1, <3>5 DEF PingFails, Goto, Syncing, WorkerState
    <3>2. CASE MergeAll \/ Pick \/ GetNextNonce \/ WaitReceipt
      BY <3>2 DEF MergeAll, Pick, GetNextNonce, WaitReceipt, Syncing
    <3>3. CASE SaveConfirmed \/ SendFails \/ IncidentFails \/ Crash \/ WorkerDeclares
      BY <3>3 DEF SaveConfirmed, SendFails, IncidentFails, Crash, WorkerDeclares, Syncing, Idle
    <3>4. CASE IncidentLogged \/ IncidentReceipt
      BY <1>1, <3>4 DEF IncidentLogged, IncidentReceipt, Goto, Syncing, WorkerState
    <3> QED
      BY <1>7, <3>1, <3>2, <3>3, <3>4, <3>5
      DEF Next, vars, CreateBlock, RouteLooks, RouteDeclares, NetworkChange, Cycle, Resolve, Anchor
  <2>4. \A i \in Incidents : incidentLog[i] # "NONE" => \A j \in openIncidents' : i <= j
    BY <1>1, <2>2 DEF OutageInv
  <2>5. \A t \in mempool : t.kind # "root" => \A j \in openIncidents' : t.of <= j
    BY <1>1, <2>2 DEF OutageInv
  <2> QED
    BY <1>1, <2>1, <2>2, <2>3, <2>4, <2>5 DEF OutageInv
<1> QED
  BY <1>2, <1>3, <1>4, <1>5, <1>6, <1>7

\* NoRootDuringIncident, whatever fails, is mined late, or is restarted.
THEOREM OutageBeforeRoots == Spec => []NoRootDuringIncident
<1>1. OutageInv => NoRootDuringIncident
  BY DEF OutageInv, Syncing, NoRootDuringIncident
<1> QED
  BY <1>1, WellFormedInit, WellFormedStep, IncidentInvInit, IncidentInvStep, OutageInvInit,
     OutageInvStep, PTL DEF Spec

-----------------------------------------------------------------------------
(* Linked history, without restarts *)

Smaller(b) == 1 .. (b - 1)

\* Blocks reach MAIN in order, and only a block that is being anchored has
\* been picked.
InOrder ==
    /\ \A b \in Blocks : status[b] # "NONE" => \A a \in Smaller(b) : status[a] # "NONE"
    /\ IF Anchoring THEN status[worker.block] # "NONE" ELSE worker.block = 0

\* Until the first restart, the n-th stored root is that of block n, and a
\* block is picked or sent only when the smaller ones are stored.
LinkInv ==
    /\ \A b \in Blocks : status[b] = "PROCESSING" => worker.block = b
    /\ \A n \in DOMAIN rootHistory : rootHistory[n] = [currentRoot |-> n, previousRoot |-> n - 1]
    /\ \A t \in mempool : t.kind = "root" => Smaller(t.of) \subseteq StoredRoots
    /\ Anchoring => Smaller(worker.block) \subseteq StoredRoots

Linked == InOrder /\ (crashes = 0 => LinkInv)

\* The history is empty at the start, and no block is picked.
LEMMA LinkedInit == Init => Linked
BY EmptySeq DEF Init, Linked, InOrder, LinkInv, Idle, Anchoring

\* How the block in hand changes: it is picked, kept, or let go.
LEMMA BlockInHand ==
    ASSUME WellFormed, InOrder, [Next]_vars
    PROVE  \/ Anchoring /\ Anchoring' /\ worker'.block = worker.block
           \/ Pick /\ Queue # {} /\ Anchoring' /\ worker'.block = Oldest(Queue)
           \/ ~Anchoring' /\ worker'.block = 0 /\ (Anchoring => SaveConfirmed \/ SendFails \/ Crash)
<1> DEFINE Kept == Anchoring /\ Anchoring' /\ worker'.block = worker.block
           Gone == ~Anchoring' /\ worker'.block = 0
<1>1. worker \in WorkerState
  BY DEF WellFormed, TypeOK
<1>2. \A pc : /\ [worker EXCEPT !.pc = pc].pc = pc
              /\ [worker EXCEPT !.pc = pc].block = worker.block
  BY <1>1 DEF WorkerState
<1>3. \A tx, pc : /\ [worker EXCEPT !.pc = pc, !.tx = tx].pc = pc
                  /\ [worker EXCEPT !.pc = pc, !.tx = tx].block = worker.block
  BY <1>1 DEF WorkerState
<1>4. \A b : /\ [worker EXCEPT !.pc = "nonce", !.block = b].pc = "nonce"
             /\ [worker EXCEPT !.pc = "nonce", !.block = b].block = b
  BY <1>1 DEF WorkerState
<1>14. \A i : /\ [worker EXCEPT !.pc = "incident", !.incident = i].pc = "incident"
              /\ [worker EXCEPT !.pc = "incident", !.incident = i].block = worker.block
  BY <1>1 DEF WorkerState
<1>5. /\ Idle.pc = "idle" /\ Idle.block = 0
      /\ [Idle EXCEPT !.pc = "merge"].pc = "merge" /\ [Idle EXCEPT !.pc = "merge"].block = 0
  BY DEF Idle
<1>6. CASE PingFails \/ PingSucceeds \/ IncidentLogged \/ IncidentReceipt \/ MergeAll
  <2>1. ~Anchoring /\ worker.block = 0
    BY <1>6 DEF PingFails, PingSucceeds, IncidentLogged, IncidentReceipt, MergeAll, Anchoring, InOrder
  <2>2. \/ worker' = Idle \/ worker' = worker
        \/ \E pc \in {"declare", "incident", "merge", "incidentClose", "pick"} :
              worker' = [worker EXCEPT !.pc = pc]
        \/ \E i : worker' = [worker EXCEPT !.pc = "incident", !.incident = i]
    <3>1. CASE PingSucceeds
      BY <3>1 DEF PingSucceeds, Goto
    <3>5. CASE PingFails
      BY <3>5 DEF PingFails, Goto
    <3>2. CASE IncidentLogged
      BY <3>2 DEF IncidentLogged, Goto
    <3>3. CASE IncidentReceipt
      BY <3>3 DEF IncidentReceipt, Goto
    <3>4. CASE MergeAll
      BY <3>4 DEF MergeAll, Goto
    <3> QED
      BY <1>6, <3>1, <3>2, <3>3, <3>4, <3>5
  <2>3. CASE worker' = Idle
    <3>1. worker'.pc = "idle" /\ worker'.block = 0
      BY <1>5, <2>3, Zenon
    <3>2. ~Anchoring'
      BY <3>1 DEF Anchoring
    <3> QED
      BY <2>1, <3>1, <3>2
  <2>4. ASSUME NEW pc \in {"declare", "incident", "merge", "incidentClose", "pick"},
               worker' = [worker EXCEPT !.pc = pc]
        PROVE  ~Anchoring' /\ worker'.block = 0
    <3>1. worker'.pc = pc /\ worker'.block = 0
      BY <1>2, <2>1, <2>4
    <3> QED
      BY <3>1 DEF Anchoring
  <2>5. CASE \E i : worker' = [worker EXCEPT !.pc = "incident", !.incident = i]
    <3>1. worker'.pc = "incident" /\ worker'.block = 0
      BY <1>14, <2>1, <2>5
    <3> QED
      BY <2>1, <3>1 DEF Anchoring
  <2>6. CASE worker' = worker
    BY <2>1, <2>6 DEF Anchoring
  <2> QED
    BY <2>1, <2>2, <2>3, <2>4, <2>5, <2>6
<1>7. CASE IncidentSend
  <2>1. ~Anchoring /\ worker.block = 0
    BY <1>7 DEF IncidentSend, Anchoring, InOrder
  <2>2. \E tx : worker' = [worker EXCEPT !.pc = "incidentWait", !.tx = tx]
    BY <1>7 DEF IncidentSend
  <2> QED
    BY <1>3, <2>1, <2>2 DEF Anchoring
<1>8. CASE IncidentClose \/ IncidentFails \/ WorkerDeclares
  <2>1. ~Anchoring
    BY <1>8 DEF IncidentClose, IncidentFails, WorkerDeclares, Anchoring
  <2> QED
    BY <1>5, <1>8, <2>1 DEF IncidentClose, IncidentFails, WorkerDeclares, Anchoring
<1>9. CASE Pick
  <2>1. ~Anchoring
    BY <1>9 DEF Pick, Anchoring
  <2> QED
    <3>1. CASE Queue = {}
      BY <1>5, <1>9, <2>1, <3>1 DEF Pick, Anchoring
    <3>2. CASE Queue # {}
      <4>1. worker' = [worker EXCEPT !.pc = "nonce", !.block = Oldest(Queue)]
        BY <1>9, <3>2 DEF Pick
      <4>2. worker'.pc = "nonce" /\ worker'.block = Oldest(Queue)
        BY <1>4, <4>1
      <4> QED
        BY <1>9, <3>2, <4>2 DEF Anchoring
    <3> QED
      BY <3>1, <3>2
<1>10. CASE GetNextNonce
  <2>1. \E tx : worker' = [worker EXCEPT !.pc = "send", !.tx = tx]
    BY <1>10 DEF GetNextNonce
  <2> QED
    BY <1>3, <1>10, <2>1 DEF GetNextNonce, Anchoring
<1>11. CASE Send \/ WaitReceipt
  BY <1>2, <1>11 DEF Send, WaitReceipt, Goto, Anchoring
<1>12. CASE SaveConfirmed \/ SendFails \/ Crash
  BY <1>5, <1>12 DEF SaveConfirmed, SendFails, Crash, Anchoring
<1>13. CASE UNCHANGED vars \/ Mine \/ CreateBlock \/ RouteLooks \/ RouteDeclares \/ NetworkChange
  <2>1. worker' = worker
    BY <1>13 DEF vars, Mine, CreateBlock, RouteLooks, RouteDeclares, NetworkChange
  <2> QED
    BY <2>1 DEF Anchoring, InOrder
<1> QED
  BY <1>6, <1>7, <1>8, <1>9, <1>10, <1>11, <1>12, <1>13 DEF Next, Cycle, Resolve, Anchor

\* Every step keeps the created blocks a prefix, and the worker holds a created
\* block while it anchors, and none otherwise.
LEMMA InOrderStep == WellFormed /\ InOrder /\ [Next]_vars => InOrder'
<1> SUFFICES ASSUME WellFormed, InOrder, [Next]_vars PROVE InOrder'
  OBVIOUS
<1>1. worker \in WorkerState /\ status \in [Blocks -> Status]
  BY DEF WellFormed, TypeOK
<1>2. \A b \in Blocks : b \in Nat /\ Smaller(b) \subseteq Blocks
  BY BoundsAssumption DEF Blocks, Smaller
<1>3. CASE CreateBlock
  <2>1. PICK b \in Blocks : Created = Smaller(b) /\ status' = [status EXCEPT ![b] = "PENDING"]
    BY <1>3 DEF CreateBlock, Smaller
  <2>2. \A c \in Blocks : status'[c] # "NONE" <=> c \in Smaller(b) \cup {b}
    BY <1>1, <2>1 DEF Created
  <2>3. \A c \in Smaller(b) \cup {b} : Smaller(c) \subseteq Smaller(b)
    BY <1>2 DEF Smaller
  <2>4. \A c \in Blocks : status'[c] # "NONE" => \A a \in Smaller(c) : status'[a] # "NONE"
    BY <1>2, <2>2, <2>3
  <2>5. UNCHANGED worker
    BY <1>3 DEF CreateBlock
  <2>6. Anchoring => status'[worker.block] # "NONE"
    <3> SUFFICES ASSUME Anchoring PROVE status'[worker.block] # "NONE"
      OBVIOUS
    <3>1. worker.block \in Blocks /\ status[worker.block] # "NONE"
      BY DEF WellFormed, LocalsSet, InOrder
    <3> QED
      BY <1>1, <2>1, <3>1
  <2> QED
    BY <2>4, <2>5, <2>6 DEF InOrder, Anchoring
<1>4. CASE ~ CreateBlock
  <2>1. \A b \in Blocks : status'[b] = "NONE" <=> status[b] = "NONE"
    <3>1. CASE PingFails \/ WorkerDeclares
      <4>1. Queue # {} => Oldest(Queue) \in Blocks /\ status[Oldest(Queue)] # "NONE"
        BY OldestInQueue DEF Retryable
      <4> QED
        BY <3>1, <4>1 DEF PingFails, WorkerDeclares, MarkBatchForRetry
    <3>2. CASE Pick
      <4>1. Queue # {} => status[Oldest(Queue)] # "NONE"
        BY OldestInQueue DEF Retryable
      <4> QED
        BY <1>1, <3>2, <4>1 DEF Pick
    <3>3. CASE SaveConfirmed \/ SendFails
      <4>1. worker.block \in Blocks
        BY <3>3 DEF SaveConfirmed, SendFails, WellFormed, LocalsSet, Anchoring
      <4>2. status[worker.block] # "NONE"
        BY <3>3 DEF SaveConfirmed, SendFails, InOrder, Anchoring
      <4> QED
        BY <1>1, <3>3, <4>1, <4>2 DEF SaveConfirmed, SendFails
    <3>4. CASE UNCHANGED status
      BY <3>4
    <3> QED
      BY <1>4, <3>1, <3>2, <3>3, <3>4
      DEF Next, vars, incidentVars, chainVars, RouteLooks, RouteDeclares, NetworkChange, Crash, Mine, Cycle, Resolve, Anchor,
          PingSucceeds, MergeAll, IncidentSend, IncidentLogged, IncidentReceipt, IncidentFails,
          IncidentClose, GetNextNonce, Send, WaitReceipt
  <2>2. IF Anchoring' THEN status'[worker'.block] # "NONE" ELSE worker'.block = 0
    <3>1. Anchoring => worker.block \in Blocks /\ status[worker.block] # "NONE"
      BY DEF WellFormed, LocalsSet, InOrder
    <3>2. Queue # {} => Oldest(Queue) \in Blocks /\ status[Oldest(Queue)] # "NONE"
      BY OldestInQueue DEF Retryable
    <3> QED
      BY <2>1, <3>1, <3>2, BlockInHand
  <2> QED
    BY <1>2, <2>1, <2>2 DEF InOrder
<1> QED
  BY <1>3, <1>4

\* A pending root transaction is of the block in hand when it was sent.
LEMMA MempoolStep ==
    ASSUME WellFormed, [Next]_vars
    PROVE  \A t \in mempool' : t.kind = "root" =>
              t \in mempool \/ (Anchoring /\ t.of = worker.block)
<1>1. CASE IncidentSend
  <2> DEFINE tx == [nonce |-> PendingNonce, of |-> worker.incident,
                    kind |-> IF incidentLog[worker.incident] = "NONE" THEN "failure" ELSE "recovery"]
  <2>1. mempool' = mempool \cup {tx}
    BY <1>1 DEF IncidentSend
  <2>2. tx.kind # "root"
    OBVIOUS
  <2> HIDE DEF tx
  <2> QED
    BY <2>1, <2>2
<1>2. CASE Send
  BY <1>2 DEF Send, WellFormed, LocalsSet, Anchoring
<1>3. CASE ~IncidentSend /\ ~Send
  <2>1. mempool' \subseteq mempool
    BY <1>3
    DEF Next, vars, incidentVars, chainVars, CreateBlock, RouteLooks, RouteDeclares, NetworkChange, Crash, Mine, Cycle, Resolve,
        Anchor, PingFails, WorkerDeclares, PingSucceeds, MergeAll, IncidentLogged, IncidentReceipt, IncidentFails,
        IncidentClose, Pick, GetNextNonce, WaitReceipt, SaveConfirmed, SendFails
  <2> QED
    BY <2>1
<1> QED
  BY <1>1, <1>2, <1>3

\* The block that is picked has every smaller one stored: they are on MAIN,
\* they are not in the queue, and none of them is PROCESSING.
LEMMA PickedHasPredecessors ==
    ASSUME WellFormed, ConfirmedIsAnchored, InOrder, LinkInv, Pick, Queue # {}
    PROVE  Smaller(Oldest(Queue)) \subseteq StoredRoots
<1> SUFFICES ASSUME NEW a \in Smaller(Oldest(Queue)) PROVE a \in StoredRoots
  OBVIOUS
<1> DEFINE b == Oldest(Queue)
<1>1. b \in Blocks /\ status[b] \in Retryable /\ \A c \in Queue : b <= c
  BY OldestInQueue
<1> HIDE DEF b
<1>2. a \in Blocks /\ a < b /\ a # 0 /\ a \in Nat /\ b \in Nat
  BY <1>1, BoundsAssumption DEF Smaller, Blocks, b
<1>3. status[a] # "NONE"
  BY <1>1 DEF InOrder, Retryable, b
<1>4. a \notin Queue
  BY <1>1, <1>2
<1>5. worker.block = 0
  BY DEF Pick, InOrder, Anchoring
<1>6. status[a] # "PROCESSING"
  BY <1>2, <1>5 DEF LinkInv
<1>7. status[a] = "CONFIRMED"
  BY <1>2, <1>3, <1>4, <1>6 DEF WellFormed, TypeOK, Status, Queue, Retryable
<1> QED
  BY <1>2, <1>7 DEF ConfirmedIsAnchored

\* If the n-th root is that of block n, and the new root is not stored while
\* those of the smaller blocks are, the new one is that of the next block.
LEMMA NextRoot ==
    ASSUME WellFormed, LinkInv, NEW b \in Blocks,
           b \notin StoredRoots, Smaller(b) \subseteq StoredRoots
    PROVE  b = Len(rootHistory) + 1
<1>1. Len(rootHistory) \in Nat /\ DOMAIN rootHistory = 1 .. Len(rootHistory)
  BY LenProperties DEF WellFormed, TypeOK
<1>2. \A n \in DOMAIN rootHistory : rootHistory[n].currentRoot = n
  BY DEF LinkInv
<1>3. StoredRoots = 1 .. Len(rootHistory)
  BY <1>1, <1>2 DEF StoredRoots
<1>4. b \in Nat /\ b >= 1
  BY BoundsAssumption DEF Blocks
<1>5. ~(b <= Len(rootHistory))
  BY <1>1, <1>3, <1>4
<1>6. ~(b > Len(rootHistory) + 1)
  <2> SUFFICES ASSUME b > Len(rootHistory) + 1 PROVE FALSE
    OBVIOUS
  <2>1. Len(rootHistory) + 1 \in Smaller(b)
    BY <1>1, <1>4 DEF Smaller
  <2> QED
    BY <1>1, <1>3, <2>1
<1> QED
  BY <1>1, <1>4, <1>5, <1>6

\* Roots are stored in the order of their blocks, by each step.
LEMMA LinkInvStep ==
    ASSUME WellFormed, ConfirmedIsAnchored, InOrder, LinkInv, [Next]_vars, ~ Crash
    PROVE  LinkInv'
<1>1. worker \in WorkerState /\ status \in [Blocks -> Status]
  BY DEF WellFormed, TypeOK
<1>2. StoredRoots \subseteq StoredRoots'
  BY StoredRootsGrow
<1>3. \A t \in mempool' : t.kind = "root" => Smaller(t.of) \subseteq StoredRoots'
  BY <1>2, MempoolStep DEF LinkInv
<1>4. Anchoring' => Smaller(worker'.block) \subseteq StoredRoots'
  BY <1>2, BlockInHand, PickedHasPredecessors DEF LinkInv
<1>5. \A n \in DOMAIN rootHistory' :
         rootHistory'[n] = [currentRoot |-> n, previousRoot |-> n - 1]
  <2>1. CASE UNCHANGED rootHistory
    BY <2>1 DEF LinkInv
  <2>2. CASE ~ UNCHANGED rootHistory
    <3>1. PICK t \in mempool :
             /\ t.kind = "root" /\ t.of \in Blocks /\ t.of \notin StoredRoots
             /\ rootHistory' = Append(rootHistory, [currentRoot |-> t.of, previousRoot |-> t.of - 1])
      BY <2>2, RootHistoryStep
    <3>2. t.of = Len(rootHistory) + 1
      BY <3>1, NextRoot DEF LinkInv
    <3> QED
      BY <3>1, <3>2, StoredRootsAppend, ZenonT(40) DEF LinkInv
  <2> QED
    BY <2>1, <2>2
<1>6. \A b \in Blocks : status'[b] = "PROCESSING" => worker'.block = b
  <2> SUFFICES ASSUME NEW b \in Blocks, status'[b] = "PROCESSING" PROVE worker'.block = b
    OBVIOUS
  <2>1. CASE Pick
    <3>1. CASE Queue = {}
      <4>1. status[b] = "PROCESSING" /\ worker.block = 0
        BY <2>1, <3>1 DEF Pick, InOrder, Anchoring
      <4> QED
        BY <4>1, BoundsAssumption DEF LinkInv, Blocks
    <3>2. CASE Queue # {}
      <4>1. worker'.block = Oldest(Queue)
        BY <1>1, <2>1, <3>2 DEF Pick, WorkerState
      <4>2. worker.block = 0 /\ status[b] # "PROCESSING"
        BY <2>1, BoundsAssumption DEF Pick, InOrder, Anchoring, LinkInv, Blocks
      <4> QED
        BY <1>1, <2>1, <3>2, <4>1, <4>2 DEF Pick
    <3> QED
      BY <3>1, <3>2
  <2>2. CASE SaveConfirmed \/ SendFails
    <3>1. worker.block \in Blocks
      BY <2>2 DEF SaveConfirmed, SendFails, WellFormed, LocalsSet, Anchoring
    <3>2. b # worker.block /\ status[b] = "PROCESSING"
      BY <1>1, <2>2, <3>1 DEF SaveConfirmed, SendFails
    <3> QED
      BY <3>2 DEF LinkInv
  <2>3. CASE PingFails \/ WorkerDeclares \/ CreateBlock
    <3>1. status[b] = "PROCESSING"
      BY <1>1, <2>3 DEF PingFails, WorkerDeclares, MarkBatchForRetry, CreateBlock
    <3>2. worker.block = b /\ (PingFails \/ WorkerDeclares => worker.block = 0)
      BY <3>1 DEF LinkInv, InOrder, PingFails, WorkerDeclares, Anchoring
    <3>3. ~PingFails /\ ~WorkerDeclares
      BY <3>2, BoundsAssumption DEF Blocks
    <3> QED
      BY <2>3, <3>2, <3>3 DEF CreateBlock
  <2>4. CASE /\ ~Pick /\ ~SaveConfirmed /\ ~SendFails /\ ~PingFails /\ ~WorkerDeclares
             /\ ~CreateBlock
    <3>1. UNCHANGED status
      BY <2>4
      DEF Next, vars, incidentVars, chainVars, RouteLooks, RouteDeclares, NetworkChange, Mine, Cycle, Resolve, Anchor,
          PingSucceeds, MergeAll, IncidentSend, IncidentLogged, IncidentReceipt, IncidentFails,
          IncidentClose, GetNextNonce, Send, WaitReceipt, Crash
    <3>2. worker.block = b
      BY <3>1 DEF LinkInv
    <3>3. Anchoring /\ ~Pick
      BY <2>4, <3>2, BoundsAssumption DEF InOrder, Blocks
    <3> QED
      BY <2>4, <3>2, <3>3, BlockInHand
  <2> QED
    BY <2>1, <2>2, <2>3, <2>4
<1> QED
  BY <1>3, <1>4, <1>5, <1>6 DEF LinkInv

\* A restart counts itself, so that nothing is left to show after one.
LEMMA LinkedStep == WellFormed /\ ConfirmedIsAnchored /\ Linked /\ [Next]_vars => Linked'
<1> SUFFICES ASSUME WellFormed, ConfirmedIsAnchored, Linked, [Next]_vars PROVE Linked'
  OBVIOUS
<1>1. InOrder'
  BY InOrderStep DEF Linked
<1>2. CASE Crash
  BY <1>1, <1>2 DEF Crash, Linked, WellFormed, TypeOK
<1>3. CASE ~ Crash
  <2>1. crashes' = crashes
    BY <1>3
    DEF Next, vars, incidentVars, chainVars, CreateBlock, RouteLooks, RouteDeclares, NetworkChange, Mine, Cycle, Resolve, Anchor,
        PingFails, WorkerDeclares, PingSucceeds, MergeAll, IncidentSend, IncidentLogged, IncidentReceipt,
        IncidentFails, IncidentClose, Pick, GetNextNonce, Send, WaitReceipt, SaveConfirmed, SendFails
  <2> QED
    BY <1>1, <1>3, <2>1, LinkInvStep DEF Linked
<1> QED
  BY <1>2, <1>3

\* HistoryIsLinked and ProcessingIsOwned: until the server restarts, the roots
\* stored by the contract form one chain in the order of MAIN, whatever was
\* retried, and a block that is PROCESSING is the one of the cycle in progress.
THEOREM HistoryAlwaysLinked == Spec => [](HistoryIsLinked /\ ProcessingIsOwned)
<1>1. WellFormed /\ Linked => HistoryIsLinked /\ ProcessingIsOwned
  <2> SUFFICES ASSUME WellFormed, LinkInv PROVE HistoryIsLinked /\ ProcessingIsOwned
    BY DEF Linked, HistoryIsLinked, ProcessingIsOwned
  <2>1. DOMAIN rootHistory = 1 .. Len(rootHistory) /\ Len(rootHistory) \in Nat
    BY LenProperties DEF WellFormed, TypeOK
  <2>2. \A n \in DOMAIN rootHistory :
           rootHistory[n].currentRoot = n /\ rootHistory[n].previousRoot = n - 1
    BY DEF LinkInv
  <2>3. \A n \in DOMAIN rootHistory : n # 1 => n - 1 \in DOMAIN rootHistory
    BY <2>1
  <2>4. HistoryIsLinked
    BY <2>1, <2>2, <2>3 DEF HistoryIsLinked
  <2> QED
    BY <2>4 DEF LinkInv, ProcessingIsOwned
<1>2. AnchorInv => ConfirmedIsAnchored
  BY DEF AnchorInv
<1> QED
  BY <1>1, <1>2, WellFormedInit, WellFormedStep, AnchorInvInit, AnchorInvStep, LinkedInit,
     LinkedStep, PTL DEF Spec

\* In particular a PROCESSING block is the one the worker is sending, until a restart.
THEOREM ProcessingAlwaysOwned == Spec => []ProcessingIsOwned
<1>1. Spec => [](HistoryIsLinked /\ ProcessingIsOwned)
  BY HistoryAlwaysLinked
<1> QED
  BY <1>1, PTL

-----------------------------------------------------------------------------
(* The log of anchors *)

\* A transaction is only sent for a block of MAIN, and the block in hand is
\* one that is not confirmed.
BlocksSent ==
    /\ \A t \in mempool : t.kind = "root" => status[t.of] # "NONE"
    /\ Anchoring => status[worker.block] \notin {"NONE", "CONFIRMED"}

\* Nothing is pending or in hand at the start.
LEMMA BlocksSentInit == Init => BlocksSent
BY DEF Init, BlocksSent, Anchoring, Idle

\* How the status of a block moves in terms of the log of anchors.
LEMMA StageStep ==
    ASSUME WellFormed, InOrder, [Next]_vars
    PROVE  \/ \A b \in Blocks : /\ StageOf(b)' = StageOf(b)
                                /\ status'[b] = status[b] \/ StageOf(b) = "waiting"
           \/ \E b \in Blocks :
                 /\ CreateBlock /\ Created = Smaller(b)
                 /\ status' = [status EXCEPT ![b] = "PENDING"]
           \/ SaveConfirmed /\ status' = [status EXCEPT ![worker.block] = "CONFIRMED"]
           \/ SendFails /\ status' = [status EXCEPT ![worker.block] = "WAITING_RETRY"]
<1>1. status \in [Blocks -> Status]
  BY DEF WellFormed, TypeOK
<1>2. CASE CreateBlock
  BY <1>2 DEF CreateBlock, Smaller
<1>3. CASE SaveConfirmed \/ SendFails
  BY <1>3 DEF SaveConfirmed, SendFails
<1>4. CASE PingFails \/ WorkerDeclares
  <2>1. \A b \in Blocks : status'[b] = status[b]
           \/ (status'[b] = "WAITING_RETRY" /\ status[b] \in Retryable)
    BY <1>4, OldestInQueue DEF PingFails, WorkerDeclares, MarkBatchForRetry
  <2> QED
    BY <2>1 DEF StageOf, Retryable
<1>5. CASE Pick
  <2>1. \A b \in Blocks : status'[b] = status[b]
           \/ (status'[b] = "PROCESSING" /\ status[b] \in Retryable)
    BY <1>1, <1>5, OldestInQueue DEF Pick
  <2> QED
    BY <2>1 DEF StageOf, Retryable
<1>6. CASE UNCHANGED status
  BY <1>6 DEF StageOf
<1> QED
  BY <1>2, <1>3, <1>4, <1>5, <1>6
  DEF Next, vars, incidentVars, chainVars, RouteLooks, RouteDeclares, NetworkChange, Crash, Mine, Cycle, Resolve, Anchor,
      PingSucceeds, MergeAll, IncidentSend, IncidentLogged, IncidentReceipt, IncidentFails,
      IncidentClose, GetNextNonce, Send, WaitReceipt

\* A block that is created stays created, and one that is sent is in hand.
LEMMA BlocksSentStep == WellFormed /\ InOrder /\ BlocksSent /\ [Next]_vars => BlocksSent'
<1> SUFFICES ASSUME WellFormed, InOrder, BlocksSent, [Next]_vars PROVE BlocksSent'
  OBVIOUS
<1>1. status \in [Blocks -> Status] /\ (Anchoring => worker.block \in Blocks)
  BY DEF WellFormed, TypeOK, LocalsSet
<1>2. \A b \in Blocks : status[b] # "NONE" => status'[b] # "NONE"
  BY <1>1, StageStep DEF StageOf
<1>3. \A t \in mempool' : t.kind = "root" => status'[t.of] # "NONE"
  <2> SUFFICES ASSUME NEW t \in mempool', t.kind = "root" PROVE status'[t.of] # "NONE"
    OBVIOUS
  <2>1. CASE t \in mempool
    BY <1>2, <2>1 DEF BlocksSent, WellFormed, NamesItsObject
  <2>2. CASE Anchoring /\ t.of = worker.block
    BY <1>1, <1>2, <2>2 DEF BlocksSent
  <2> QED
    BY <2>1, <2>2, MempoolStep
<1>4. Anchoring' => status'[worker'.block] \notin {"NONE", "CONFIRMED"}
  <2>1. CASE Anchoring /\ Anchoring' /\ worker'.block = worker.block
    <3>1. ~ SaveConfirmed
      BY <2>1 DEF SaveConfirmed, Anchoring, Idle
    <3>2. StageOf(worker.block) = "waiting"
      BY <2>1 DEF BlocksSent, StageOf
    <3> QED
      <4>1. CASE SendFails
        BY <2>1, <4>1 DEF SendFails, Anchoring, Idle
      <4>2. CASE CreateBlock
        <5>1. status'[worker.block] \in {status[worker.block], "PENDING"}
          BY <1>1, <2>1, <4>2 DEF CreateBlock
        <5> QED
          BY <2>1, <5>1 DEF BlocksSent
      <4>3. CASE ~SendFails /\ ~CreateBlock
        <5>1. StageOf(worker.block)' = "waiting" \/ status'[worker.block] = status[worker.block]
          BY <1>1, <2>1, <3>1, <3>2, <4>3, StageStep
        <5>2. (\A b \in Blocks : StageOf(b)' = StageOf(b))
          BY <3>1, <4>3, StageStep
        <5>3. status'[worker.block] \notin {"NONE", "CONFIRMED"}
          BY <1>1, <2>1, <3>2, <5>2 DEF StageOf
        <5> QED
          BY <2>1, <5>3
      <4> QED
        BY <4>1, <4>2, <4>3
  <2>2. CASE Pick /\ Queue # {} /\ worker'.block = Oldest(Queue)
    <3>1. status'[Oldest(Queue)] = "PROCESSING"
      BY <1>1, <2>2, OldestInQueue DEF Pick
    <3> QED
      BY <2>2, <3>1
  <2> QED
    BY <2>1, <2>2, BlockInHand
<1> QED
  BY <1>3, <1>4 DEF BlocksSent

\* Functions of the mapping after a step that changes one of their values.
LEMMA StageChanged ==
    ASSUME NEW b \in Blocks, NEW s, StageOf(b)' = s,
           \A c \in Blocks : c # b => StageOf(c)' = StageOf(c)
    PROVE  Stage' = [Stage EXCEPT ![b] = s]
BY DEF Stage

LEMMA OutageChanged ==
    ASSUME NEW i \in Incidents, NEW s, OutageOf(i)' = s,
           \A j \in Incidents : j # i => OutageOf(j)' = OutageOf(j)
    PROVE  Outage' = [Outage EXCEPT ![i] = s]
BY DEF Outage

\* What the log of anchors has is what the contract stores.
LEMMA RootLogIsStored ==
    ASSUME WellFormed
    PROVE  Anchors!OnLog = StoredRoots
BY DEF Anchors!OnLog, RootLog, StoredRoots

\* A root that the contract takes is appended to the log.
LEMMA RootLogAppend ==
    ASSUME WellFormed, NEW b \in Blocks,
           rootHistory' = Append(rootHistory, [currentRoot |-> b, previousRoot |-> b - 1])
    PROVE  RootLog' = Append(RootLog, b)
<1>1. /\ Len(rootHistory') = Len(rootHistory) + 1
      /\ \A n \in DOMAIN rootHistory : rootHistory'[n] = rootHistory[n]
      /\ rootHistory'[Len(rootHistory) + 1].currentRoot = b
      /\ DOMAIN rootHistory' = DOMAIN rootHistory \cup {Len(rootHistory) + 1}
  BY StoredRootsAppend
<1>2. DOMAIN rootHistory = 1 .. Len(rootHistory) /\ Len(rootHistory) \in Nat
      /\ \A n \in DOMAIN rootHistory : rootHistory[n].currentRoot \in Blocks
  <2> DEFINE R == [currentRoot: Blocks, previousRoot: 0 .. MaxBlocks]
  <2>1. \A r \in R : r.currentRoot \in Blocks
    OBVIOUS
  <2>2. rootHistory \in Seq(R)
    BY DEF WellFormed, TypeOK
  <2> HIDE DEF R
  <2>3. \A n \in DOMAIN rootHistory : rootHistory[n] \in R
    BY <2>2
  <2> QED
    BY <2>1, <2>2, <2>3, LenProperties
<1>3. RootLog = [n \in 1 .. Len(rootHistory) |-> rootHistory[n].currentRoot]
  BY <1>2 DEF RootLog
<1>4. RootLog \in Seq(Blocks) /\ Len(RootLog) = Len(rootHistory)
  BY <1>2, <1>3
<1>5. RootLog' = [n \in 1 .. (Len(rootHistory) + 1) |-> rootHistory'[n].currentRoot]
  BY <1>1, <1>2 DEF RootLog
<1>6. RootLog' \in Seq(Blocks) /\ Len(RootLog') = Len(rootHistory) + 1
  <2>1. \A n \in 1 .. (Len(rootHistory) + 1) : rootHistory'[n].currentRoot \in Blocks
    BY <1>1, <1>2
  <2> QED
    BY <1>2, <1>5, <2>1
<1>7. /\ Append(RootLog, b) \in Seq(Blocks)
      /\ Len(Append(RootLog, b)) = Len(rootHistory) + 1
      /\ Append(RootLog, b)[Len(rootHistory) + 1] = b
      /\ \A n \in 1 .. Len(rootHistory) : Append(RootLog, b)[n] = RootLog[n]
  BY <1>4, AppendProperties
<1>8. \A n \in 1 .. Len(RootLog') : RootLog'[n] = Append(RootLog, b)[n]
  <2> SUFFICES ASSUME NEW n \in 1 .. (Len(rootHistory) + 1)
               PROVE  RootLog'[n] = Append(RootLog, b)[n]
    BY <1>6
  <2>1. RootLog'[n] = rootHistory'[n].currentRoot
    BY <1>5
  <2>2. CASE n = Len(rootHistory) + 1
    BY <1>1, <1>7, <2>1, <2>2
  <2>3. CASE n \in 1 .. Len(rootHistory)
    BY <1>1, <1>2, <1>3, <1>7, <2>1, <2>3
  <2>4. n = Len(rootHistory) + 1 \/ n \in 1 .. Len(rootHistory)
    BY <1>2
  <2> QED
    BY <2>2, <2>3, <2>4
<1> QED
  BY <1>6, <1>7, <1>8, SeqEqual

AnchorLogInv ==
    WellFormed /\ AnchorInv /\ IncidentInv /\ OutageInv /\ InOrder /\ BlocksSent

\* The log moves of an incident that is OPEN, and every earlier one is closed.
LEMMA OutageMined ==
    ASSUME AnchorLogInv, NEW i \in Incidents, i <= declared, incidentLog[i] # "CLOSED",
           \A j \in openIncidents : i <= j
    PROVE  /\ i \in openIncidents
           /\ \A j \in Incidents : j < i => OutageOf(j) = "closed"
<1>1. declared \in Nat /\ \A j \in Incidents : j \in Nat /\ j > 0
  BY DEF AnchorLogInv, WellFormed, TypeOK, Incidents
<1>2. i \in 1 .. declared
  BY <1>1
<1>3. i \in openIncidents
  BY <1>2 DEF AnchorLogInv, IncidentInv, ClosedIncidentIsLogged
<1>4. ASSUME NEW j \in Incidents, j < i PROVE OutageOf(j) = "closed"
  <2>1. ~(j > declared) /\ ~(i <= j)
    BY <1>1, <1>4
  <2> QED
    BY <2>1 DEF OutageOf
<1> QED
  BY <1>3, <1>4

\* A mined transaction logs a block, moves an outage on, or reverts.
LEMMA AnchorsMine ==
    ASSUME AnchorLogInv, Mine
    PROVE  [Anchors!Next]_<< Stage, RootLog, Outage >>
<1>1. PICK t \in mempool :
         /\ t.kind = "root" /\ LogRootSucceeds(t.of)
               => LogRoot(t.of) /\ UNCHANGED incidentLog
         /\ t.kind # "root" /\ LogIncidentSucceeds(t.kind, t.of)
               => LogIncident(t.kind, t.of) /\ UNCHANGED rootHistory
         /\ ~ (t.kind = "root" /\ LogRootSucceeds(t.of))
               /\ ~ (t.kind # "root" /\ LogIncidentSucceeds(t.kind, t.of))
               => UNCHANGED << rootHistory, incidentLog >>
  BY DEF Mine
<1>2. UNCHANGED << status, openIncidents, declared >>
  BY DEF Mine, incidentVars
<1>3. Stage' = Stage
  BY <1>2 DEF Stage, StageOf
<1>4. WellFormed
  BY DEF AnchorLogInv
<1>5. CASE t.kind = "root" /\ LogRootSucceeds(t.of)
  <2>1. t.of \in Blocks /\ t.of \notin StoredRoots
    BY <1>4, <1>5 DEF WellFormed, NamesItsObject, LogRootSucceeds
  <2>2. status[t.of] \notin {"NONE", "CONFIRMED"}
    BY <1>5, <2>1 DEF AnchorLogInv, AnchorInv, ConfirmedIsAnchored, BlocksSent
  <2>3. Stage[t.of] = "waiting"
    BY <2>1, <2>2 DEF Stage, StageOf
  <2>4. RootLog' = Append(RootLog, t.of)
    BY <1>1, <1>4, <1>5, <2>1, RootLogAppend DEF LogRoot
  <2>5. Outage' = Outage
    <3>1. UNCHANGED incidentLog
      BY <1>1, <1>5
    <3> QED
      BY <1>2, <3>1 DEF Outage, OutageOf
  <2>6. t.of \notin Anchors!OnLog
    BY <1>4, <2>1, RootLogIsStored
  <2>7. Anchors!Log(t.of)
    BY <1>3, <2>3, <2>4, <2>5, <2>6 DEF Anchors!Log
  <2> QED
    BY <2>1, <2>7 DEF Anchors!Next
<1>6. CASE t.kind # "root" /\ LogIncidentSucceeds(t.kind, t.of)
  <2>1. /\ t.of \in Incidents /\ t.of <= declared /\ incidentLog[t.of] # "CLOSED"
        /\ \A j \in openIncidents : t.of <= j
    BY <1>6 DEF AnchorLogInv, WellFormed, NamesItsObject, OutageInv, LogIncidentSucceeds
  <2>2. /\ t.of \in openIncidents /\ ~(t.of > declared)
        /\ \A j \in Incidents : j < t.of => Outage[j] = "closed"
    BY <2>1, OutageMined DEF AnchorLogInv, WellFormed, TypeOK, Incidents, Outage
  <2>3. incidentLog \in [Incidents -> {"NONE", "OPEN", "CLOSED"}]
    BY <1>4 DEF WellFormed, TypeOK
  <2>4. incidentLog' = [incidentLog EXCEPT ![t.of] = IF t.kind = "failure" THEN "OPEN" ELSE "CLOSED"]
    BY <1>1, <1>6 DEF LogIncident
  <2>5. \A j \in Incidents : j # t.of => OutageOf(j)' = OutageOf(j)
    BY <1>2, <2>3, <2>4 DEF OutageOf
  <2>6. RootLog' = RootLog
    BY <1>1, <1>6 DEF RootLog
  <2>7. CASE t.kind = "failure"
    <3>1. incidentLog[t.of] = "NONE" /\ incidentLog'[t.of] = "OPEN"
      BY <1>6, <2>1, <2>3, <2>4, <2>7 DEF LogIncidentSucceeds
    <3>2. OutageOf(t.of) = "declared" /\ OutageOf(t.of)' = "failed"
      BY <1>2, <2>2, <3>1 DEF OutageOf
    <3>3. Outage' = [Outage EXCEPT ![t.of] = "failed"]
      BY <2>1, <2>5, <3>2, OutageChanged
    <3>4. Outage[t.of] = "declared"
      BY <2>1, <3>2 DEF Outage
    <3>5. Anchors!Fails(t.of)
      BY <1>3, <2>2, <2>6, <3>3, <3>4 DEF Anchors!Fails
    <3> QED
      BY <2>1, <3>5 DEF Anchors!Next
  <2>8. CASE t.kind # "failure"
    <3>1. incidentLog[t.of] = "OPEN" /\ incidentLog'[t.of] = "CLOSED"
      BY <1>6, <2>1, <2>3, <2>4, <2>8 DEF LogIncidentSucceeds
    <3>2. OutageOf(t.of) = "failed" /\ OutageOf(t.of)' = "recovered"
      BY <1>2, <2>2, <3>1 DEF OutageOf
    <3>3. Outage' = [Outage EXCEPT ![t.of] = "recovered"]
      BY <2>1, <2>5, <3>2, OutageChanged
    <3>4. Outage[t.of] = "failed"
      BY <2>1, <3>2 DEF Outage
    <3>5. Anchors!Proceeds(t.of, "failed", "recovered")
      BY <1>3, <2>6, <3>3, <3>4 DEF Anchors!Proceeds
    <3> QED
      BY <2>1, <3>5 DEF Anchors!Next
  <2> QED
    BY <2>7, <2>8
<1>7. CASE ~ (t.kind = "root" /\ LogRootSucceeds(t.of))
           /\ ~ (t.kind # "root" /\ LogIncidentSucceeds(t.kind, t.of))
  <2>1. UNCHANGED << rootHistory, incidentLog >>
    BY <1>1, <1>7
  <2>2. RootLog' = RootLog /\ Outage' = Outage
    BY <1>2, <2>1 DEF RootLog, Outage, OutageOf
  <2> QED
    BY <1>3, <2>2
<1> QED
  BY <1>5, <1>6, <1>7

\* Blocks are created and confirmed, and nothing else changes their stage.
LEMMA AnchorsStage ==
    ASSUME AnchorLogInv, [Next]_vars
    PROVE  \/ Stage' = Stage
           \/ /\ UNCHANGED << rootHistory, incidentLog, openIncidents, declared >>
              /\ \E b \in Blocks :
                    \/ /\ Stage[b] = "new" /\ \A a \in Blocks : a < b => Stage[a] # "new"
                       /\ Stage' = [Stage EXCEPT ![b] = "waiting"]
                    \/ /\ Stage[b] = "waiting" /\ b \in StoredRoots
                       /\ Stage' = [Stage EXCEPT ![b] = "confirmed"]
<1>1. WellFormed /\ InOrder /\ status \in [Blocks -> Status]
  BY DEF AnchorLogInv, WellFormed, TypeOK
<1>2. ASSUME \A b \in Blocks : StageOf(b)' = StageOf(b) PROVE Stage' = Stage
  BY <1>2 DEF Stage
<1>3. ASSUME NEW b \in Blocks, CreateBlock, Created = Smaller(b),
             status' = [status EXCEPT ![b] = "PENDING"]
      PROVE  /\ Stage[b] = "new" /\ \A a \in Blocks : a < b => Stage[a] # "new"
             /\ Stage' = [Stage EXCEPT ![b] = "waiting"]
             /\ UNCHANGED << rootHistory, incidentLog, openIncidents, declared >>
  <2>1. b \in Nat /\ \A a \in Blocks : a \in Nat /\ (a < b => a \in Smaller(b))
    BY BoundsAssumption DEF Blocks, Smaller
  <2>2. b \notin Created
    BY <1>3, <2>1 DEF Smaller
  <2>3. status[b] = "NONE" /\ \A a \in Blocks : a < b => status[a] # "NONE"
    BY <1>3, <2>1, <2>2 DEF Created
  <2>4. Stage[b] = "new" /\ \A a \in Blocks : a < b => Stage[a] # "new"
    BY <2>3 DEF Stage, StageOf
  <2>5. StageOf(b)' = "waiting" /\ \A c \in Blocks : c # b => StageOf(c)' = StageOf(c)
    BY <1>1, <1>3 DEF StageOf
  <2> QED
    BY <1>3, <2>4, <2>5, StageChanged DEF CreateBlock, incidentVars, chainVars
<1>4. ASSUME SaveConfirmed, status' = [status EXCEPT ![worker.block] = "CONFIRMED"]
      PROVE  \E b \in Blocks :
                /\ Stage[b] = "waiting" /\ b \in StoredRoots
                /\ Stage' = [Stage EXCEPT ![b] = "confirmed"]
                /\ UNCHANGED << rootHistory, incidentLog, openIncidents, declared >>
  <2>1. worker.block \in Blocks /\ worker.block \in StoredRoots
        /\ status[worker.block] \notin {"NONE", "CONFIRMED"}
    BY <1>1, <1>4
    DEF SaveConfirmed, WellFormed, LocalsSet, Anchoring, AnchorLogInv, AnchorInv, BlocksSent
  <2>2. /\ StageOf(worker.block) = "waiting"
        /\ \A c \in Blocks : status'[c] = IF c = worker.block THEN "CONFIRMED" ELSE status[c]
    BY <1>1, <1>4, <2>1 DEF StageOf
  <2>3. /\ StageOf(worker.block) = "waiting"
        /\ \A c \in Blocks : c = worker.block => StageOf(c)' = "confirmed"
        /\ \A c \in Blocks : c # worker.block => StageOf(c)' = StageOf(c)
    BY <2>2 DEF StageOf
  <2>4. PICK b \in Blocks : b = worker.block
    BY <2>1
  <2>5. Stage' = [Stage EXCEPT ![b] = "confirmed"]
    BY <2>3, <2>4, StageChanged
  <2>6. Stage[b] = "waiting"
    BY <2>2, <2>4 DEF Stage
  <2> QED
    BY <1>4, <2>1, <2>4, <2>5, <2>6 DEF SaveConfirmed, incidentVars, chainVars
<1>5. ASSUME SendFails, status' = [status EXCEPT ![worker.block] = "WAITING_RETRY"]
      PROVE  Stage' = Stage
  <2>1. worker.block \in Blocks /\ status[worker.block] \notin {"NONE", "CONFIRMED"}
    BY <1>1, <1>5
    DEF SendFails, WellFormed, LocalsSet, Anchoring, AnchorLogInv, BlocksSent
  <2>2. \A c \in Blocks : status'[c] = IF c = worker.block THEN "WAITING_RETRY" ELSE status[c]
    BY <1>1, <1>5, <2>1
  <2>3. \A c \in Blocks : StageOf(c)' = StageOf(c)
    BY <2>1, <2>2 DEF StageOf
  <2> QED
    BY <1>2, <2>3
<1> QED
  <2>1. \/ \A b \in Blocks : StageOf(b)' = StageOf(b)
        \/ \E b \in Blocks : /\ CreateBlock /\ Created = Smaller(b)
                             /\ status' = [status EXCEPT ![b] = "PENDING"]
        \/ SaveConfirmed /\ status' = [status EXCEPT ![worker.block] = "CONFIRMED"]
        \/ SendFails /\ status' = [status EXCEPT ![worker.block] = "WAITING_RETRY"]
    BY <1>1, StageStep, Zenon
  <2> QED
    BY <1>2, <1>3, <1>4, <1>5, <2>1

\* Outages are declared in order, and closed when both of their transactions
\* are logged, by steps that leave the chain alone.
LEMMA AnchorsOutage ==
    ASSUME AnchorLogInv, [Next]_vars, UNCHANGED incidentLog
    PROVE  \/ Outage' = Outage
           \/ \E i \in Incidents :
                 \/ /\ Outage[i] = "none"
                    /\ \A j \in Incidents : j < i => Outage[j] # "none"
                    /\ Outage' = [Outage EXCEPT ![i] = "declared"]
                 \/ Outage[i] = "recovered" /\ Outage' = [Outage EXCEPT ![i] = "closed"]
<1>1. /\ WellFormed /\ declared \in Nat /\ declared <= MaxIncidents
      /\ openIncidents \subseteq 1 .. declared
      /\ \A i \in Incidents : i \in Nat /\ i > 0
      /\ incidentLog \in [Incidents -> {"NONE", "OPEN", "CLOSED"}]
  BY BoundsAssumption DEF AnchorLogInv, WellFormed, TypeOK, Incidents, IncidentInv
<1>2. CASE UNCHANGED << openIncidents, declared >>
  BY <1>2 DEF Outage, OutageOf
<1>3. CASE openIncidents' = openIncidents \cup {declared + 1} /\ declared' = declared + 1
           /\ declared < MaxIncidents
  <2>1. PICK i \in Incidents : i = declared + 1
    BY <1>1, <1>3, BoundsAssumption DEF Incidents
  <2>2. incidentLog[i] = "NONE"
    BY <1>1, <2>1 DEF AnchorLogInv, OutageInv
  <2>3. OutageOf(i) = "none" /\ OutageOf(i)' = "declared"
    BY <1>1, <1>3, <2>1, <2>2 DEF OutageOf
  <2>4. \A j \in Incidents : j # i => OutageOf(j)' = OutageOf(j)
    BY <1>1, <1>3, <2>1 DEF OutageOf
  <2>5. \A j \in Incidents : j < i => OutageOf(j) # "none"
    BY <1>1, <1>3, <2>1 DEF OutageOf
  <2>6. Outage' = [Outage EXCEPT ![i] = "declared"]
    BY <2>3, <2>4, OutageChanged
  <2>7. Outage[i] = "none" /\ \A j \in Incidents : j < i => Outage[j] # "none"
    BY <2>3, <2>5 DEF Outage
  <2> QED
    BY <2>6, <2>7
<1>4. CASE worker.pc = "incidentClose" /\ openIncidents' = openIncidents \ {worker.incident}
           /\ UNCHANGED declared
  <2>1. /\ worker.incident \in Incidents /\ worker.incident \in openIncidents
        /\ incidentLog[worker.incident] = "CLOSED"
    BY <1>4 DEF AnchorLogInv, WellFormed, LocalsSet, Resolving, IncidentInv
  <2>2. PICK i \in Incidents : i = worker.incident
    BY <2>1
  <2>3. OutageOf(i) = "recovered" /\ OutageOf(i)' = "closed"
    BY <1>1, <1>4, <2>1, <2>2 DEF OutageOf
  <2>4. \A j \in Incidents : j # i => OutageOf(j)' = OutageOf(j)
    BY <1>1, <1>4, <2>2 DEF OutageOf
  <2>5. Outage' = [Outage EXCEPT ![i] = "closed"]
    BY <2>3, <2>4, OutageChanged
  <2>6. Outage[i] = "recovered"
    BY <2>3 DEF Outage
  <2> QED
    BY <2>5, <2>6
<1> QED
  BY <1>1, <1>2, <1>3, <1>4, OpenIncidentsStep

\* A step is one of the log of anchors, or leaves it unchanged.
LEMMA AnchorsStep == AnchorLogInv /\ [Next]_vars => [Anchors!Next]_<< Stage, RootLog, Outage >>
<1> SUFFICES ASSUME AnchorLogInv, [Next]_vars, ~ Mine
             PROVE  [Anchors!Next]_<< Stage, RootLog, Outage >>
  BY AnchorsMine
<1>1. UNCHANGED << rootHistory, incidentLog >>
  BY DEF Next, vars, incidentVars, chainVars, CreateBlock, RouteLooks, RouteDeclares, NetworkChange, Crash, Cycle, Resolve,
         Anchor, PingFails, WorkerDeclares, PingSucceeds, MergeAll, IncidentSend, IncidentLogged, IncidentReceipt,
         IncidentFails, IncidentClose, Pick, GetNextNonce, Send, WaitReceipt, SaveConfirmed, SendFails
<1>2. RootLog' = RootLog
  BY <1>1 DEF RootLog
<1>3. Anchors!OnLog = StoredRoots
  BY RootLogIsStored DEF AnchorLogInv
<1>4. CASE Stage' = Stage
  <2>1. CASE Outage' = Outage
    BY <1>2, <1>4, <2>1
  <2>2. ASSUME NEW i \in Incidents, Outage[i] = "none",
               \A j \in Incidents : j < i => Outage[j] # "none",
               Outage' = [Outage EXCEPT ![i] = "declared"]
        PROVE  Anchors!Next
    <3>1. Anchors!Declare(i)
      BY <1>2, <1>4, <2>2 DEF Anchors!Declare
    <3> QED
      BY <3>1 DEF Anchors!Next
  <2>3. ASSUME NEW i \in Incidents, Outage[i] = "recovered",
               Outage' = [Outage EXCEPT ![i] = "closed"]
        PROVE  Anchors!Next
    <3>1. Anchors!Proceeds(i, "recovered", "closed")
      BY <1>2, <1>4, <2>3 DEF Anchors!Proceeds
    <3> QED
      BY <3>1 DEF Anchors!Next
  <2> QED
    BY <1>1, <2>1, <2>2, <2>3, AnchorsOutage
<1>5. CASE Stage' # Stage
  <2>1. UNCHANGED << openIncidents, declared >>
    BY <1>5, AnchorsStage
  <2>2. Outage' = Outage
    BY <1>1, <2>1 DEF Outage, OutageOf
  <2>3. ASSUME NEW b \in Blocks, Stage[b] = "new",
               \A a \in Blocks : a < b => Stage[a] # "new",
               Stage' = [Stage EXCEPT ![b] = "waiting"]
        PROVE  Anchors!Next
    <3>1. Anchors!Create(b)
      BY <1>2, <2>2, <2>3 DEF Anchors!Create
    <3> QED
      BY <3>1 DEF Anchors!Next
  <2>4. ASSUME NEW b \in Blocks, Stage[b] = "waiting", b \in StoredRoots,
               Stage' = [Stage EXCEPT ![b] = "confirmed"]
        PROVE  Anchors!Next
    <3>1. Anchors!Confirm(b)
      BY <1>2, <1>3, <2>2, <2>4 DEF Anchors!Confirm
    <3> QED
      BY <3>1 DEF Anchors!Next
  <2> QED
    BY <1>5, <2>3, <2>4, AnchorsStage
<1> QED
  BY <1>4, <1>5

\* ImplementsAnchorLog: the pipeline implements the log of anchors, whatever
\* fails, is retried, is mined late or is restarted, and however many incidents
\* the worker and overlapping requests declare beside one that is OPEN.
THEOREM AnchorLogImplemented == Spec => ImplementsAnchorLog
<1>1. Init => Anchors!Init
  <2> SUFFICES ASSUME Init PROVE Anchors!Init
    OBVIOUS
  <2>1. /\ rootHistory = << >> /\ declared = 0
        /\ \A b \in Blocks : status[b] = "NONE"
    BY DEF Init
  <2>2. \A i \in Incidents : i > declared
    BY <2>1 DEF Incidents
  <2>3. RootLog = << >>
    BY <2>1 DEF RootLog
  <2> QED
    BY <2>1, <2>2, <2>3 DEF Anchors!Init, Stage, StageOf, Outage, OutageOf
<1>2. Init => AnchorLogInv
  BY WellFormedInit, AnchorInvInit, IncidentInvInit, OutageInvInit, LinkedInit, BlocksSentInit
  DEF AnchorLogInv, Linked
<1>3. AnchorLogInv /\ [Next]_vars => AnchorLogInv'
  BY WellFormedStep, AnchorInvStep, IncidentInvStep, OutageInvStep, InOrderStep, BlocksSentStep
  DEF AnchorLogInv
<1> QED
  BY <1>1, <1>2, <1>3, AnchorsStep, PTL
  DEF Spec, ImplementsAnchorLog, Anchors!Spec, Anchors!vars

-----------------------------------------------------------------------------
(* The account and its nonces *)

\* The n-th mined transaction has nonce n - 1, a pending one has a later nonce,
\* and no other pending one has it.
AccountInv ==
    /\ \A n \in DOMAIN mined : mined[n].tx.nonce = n - 1
    /\ \A t \in mempool : t.nonce >= AccountNonce
    /\ \A t, u \in mempool : t.nonce = u.nonce => t = u

\* The account is new at the start.
LEMMA AccountInvInit == Init => AccountInv
BY EmptySeq DEF Init, AccountInv

\* What a mined transaction changes.
LEMMA MineEffect ==
    ASSUME WellFormed, Mine
    PROVE  \E t \in mempool : \E ok \in BOOLEAN :
              /\ t.nonce = AccountNonce /\ mempool' = mempool \ {t}
              /\ AccountNonce \in Nat /\ AccountNonce' = AccountNonce + 1
              /\ DOMAIN mined' = DOMAIN mined \cup {AccountNonce + 1}
              /\ AccountNonce + 1 \notin DOMAIN mined
              /\ mined'[AccountNonce + 1].tx = t /\ mined'[AccountNonce + 1].ok = ok
              /\ \A n \in DOMAIN mined : mined'[n] = mined[n]
              /\ t.kind = "root" => (ok <=> t.of \notin StoredRoots)
              /\ t.kind = "root" => StoredRoots' = StoredRoots \cup {t.of}
              /\ t.kind # "root" => StoredRoots' = StoredRoots
<1>1. PICK t \in mempool :
         /\ t.nonce = AccountNonce /\ mempool' = mempool \ {t}
         /\ mined' = Append(mined, [tx |-> t,
               ok |-> IF t.kind = "root" THEN LogRootSucceeds(t.of) ELSE LogIncidentSucceeds(t.kind, t.of)])
         /\ IF t.kind = "root" /\ LogRootSucceeds(t.of) THEN LogRoot(t.of) ELSE UNCHANGED rootHistory
  BY DEF Mine
<1> DEFINE ok == IF t.kind = "root" THEN LogRootSucceeds(t.of) ELSE LogIncidentSucceeds(t.kind, t.of)
           r == [tx |-> t, ok |-> ok]
<1>2. ok \in BOOLEAN /\ r.tx = t /\ r.ok = ok /\ r \in [tx: Tx, ok: BOOLEAN]
  BY DEF LogRootSucceeds, LogIncidentSucceeds, WellFormed, TypeOK
<1>3. mined' = Append(mined, r)
  BY <1>1
<1>4. t.kind = "root" => (ok <=> t.of \notin StoredRoots)
  BY DEF LogRootSucceeds
<1>5. t.kind = "root" => t.of \in Blocks
  BY DEF WellFormed, NamesItsObject
<1>6. t.kind = "root" => StoredRoots' = StoredRoots \cup {t.of}
  <2>1. CASE t.of \notin StoredRoots
    BY <1>1, <1>5, <2>1, StoredRootsAppend DEF LogRoot, LogRootSucceeds
  <2>2. CASE t.of \in StoredRoots
    BY <1>1, <2>2 DEF LogRootSucceeds, StoredRoots
  <2> QED
    BY <2>1, <2>2
<1>7. t.kind # "root" => StoredRoots' = StoredRoots
  BY <1>1 DEF StoredRoots
<1> HIDE DEF r, ok
<1>8. /\ DOMAIN mined' = 1 .. Len(mined) + 1 /\ Len(mined) \in Nat /\ DOMAIN mined = 1 .. Len(mined)
      /\ mined'[Len(mined) + 1] = r /\ Len(mined') = Len(mined) + 1
      /\ \A n \in 1 .. Len(mined) : mined'[n] = mined[n]
  BY <1>2, <1>3, AppendProperties, LenProperties DEF WellFormed, TypeOK
<1> QED
  BY <1>1, <1>2, <1>4, <1>6, <1>7, <1>8 DEF AccountNonce

\* What the other steps do to the account: nothing, or one more transaction,
\* with a nonce that is free.
LEMMA PendingStep ==
    ASSUME WellFormed, [Next]_vars, ~ Mine
    PROVE  /\ UNCHANGED << mined, rootHistory >>
           /\ \/ mempool' = mempool
              \/ \E tx : /\ IncidentSend /\ mempool' = mempool \cup {tx}
                         /\ tx.nonce = PendingNonce /\ tx.kind # "root"
              \/ /\ Send /\ mempool' = mempool \cup {worker.tx}
                 /\ NodeAccepts(worker.tx.nonce)
<1>1. CASE IncidentSend
  <2> DEFINE tx == [nonce |-> PendingNonce, of |-> worker.incident,
                    kind |-> IF incidentLog[worker.incident] = "NONE" THEN "failure" ELSE "recovery"]
  <2>1. mempool' = mempool \cup {tx} /\ UNCHANGED << mined, rootHistory >>
    BY <1>1 DEF IncidentSend
  <2>2. tx.kind # "root" /\ tx.nonce = PendingNonce
    OBVIOUS
  <2> HIDE DEF tx
  <2> QED
    BY <1>1, <2>1, <2>2
<1>2. CASE Send
  BY <1>2 DEF Send, SendSucceeds
<1>3. CASE ~IncidentSend /\ ~Send
  BY <1>3
  DEF Next, vars, incidentVars, chainVars, CreateBlock, RouteLooks, RouteDeclares, NetworkChange, Crash, Cycle, Resolve,
      Anchor, PingFails, WorkerDeclares, PingSucceeds, MergeAll, IncidentLogged, IncidentReceipt, IncidentFails,
      IncidentClose, Pick, GetNextNonce, WaitReceipt, SaveConfirmed, SendFails
<1> QED
  BY <1>1, <1>2, <1>3

\* The node gives out, and accepts, free nonces only.
LEMMA AccountInvStep == WellFormed /\ AccountInv /\ [Next]_vars => AccountInv'
<1> SUFFICES ASSUME WellFormed, AccountInv, [Next]_vars PROVE AccountInv'
  OBVIOUS
<1>1. \A t \in mempool : t.nonce \in Nat
  BY DEF WellFormed, TypeOK, Tx
<1>2. CASE Mine
  <2>1. PICK t \in mempool :
              /\ t.nonce = AccountNonce /\ mempool' = mempool \ {t}
              /\ AccountNonce \in Nat /\ AccountNonce' = AccountNonce + 1
              /\ DOMAIN mined' = DOMAIN mined \cup {AccountNonce + 1}
              /\ mined'[AccountNonce + 1].tx = t
              /\ \A n \in DOMAIN mined : mined'[n] = mined[n]
    BY <1>2, MineEffect
  <2>2. \A u \in mempool' : u.nonce >= AccountNonce'
    BY <1>1, <2>1 DEF AccountInv
  <2>3. \A n \in DOMAIN mined' : mined'[n].tx.nonce = n - 1
    BY <2>1 DEF AccountInv
  <2> QED
    BY <2>1, <2>2, <2>3 DEF AccountInv
<1>3. CASE ~ Mine
  <2>1. AccountNonce' = AccountNonce
    BY <1>3, PendingStep DEF AccountNonce
  <2>2. \/ mempool' = mempool
        \/ \E tx : /\ mempool' = mempool \cup {tx} /\ tx.nonce >= AccountNonce
                   /\ \A t \in mempool : t.nonce # tx.nonce
    BY <1>3, PendingStep, PendingNonceFree DEF NodeAccepts
  <2>3. \A n \in DOMAIN mined' : mined'[n].tx.nonce = n - 1
    BY <1>3, PendingStep DEF AccountInv
  <2> QED
    BY <2>1, <2>2, <2>3 DEF AccountInv
<1> QED
  BY <1>2, <1>3

-----------------------------------------------------------------------------
(* Roots are sent once when the RPC answers through whole cycles *)

\* The worker's steps from Pick to the receipt.
LEMMA SendingMoves ==
    ASSUME WellFormed, [Next]_vars
    PROVE  \/ worker' = worker
           \/ Pick /\ Queue # {} /\ worker'.pc = "nonce" /\ worker'.block = Oldest(Queue)
           \/ GetNextNonce /\ worker'.pc = "send" /\ worker'.block = worker.block
           \/ Send /\ worker'.pc = "wait" /\ worker'.block = worker.block /\ worker'.tx = worker.tx
           \/ WaitReceipt /\ worker'.pc = "save" /\ worker'.block = worker.block
           \/ ~Anchoring'
<1>1. worker \in WorkerState
  BY DEF WellFormed, TypeOK
<1>2. \A pc : /\ [worker EXCEPT !.pc = pc].pc = pc
              /\ [worker EXCEPT !.pc = pc].block = worker.block
              /\ [worker EXCEPT !.pc = pc].tx = worker.tx
  BY <1>1 DEF WorkerState
<1>3. \A tx, pc : /\ [worker EXCEPT !.pc = pc, !.tx = tx].pc = pc
                  /\ [worker EXCEPT !.pc = pc, !.tx = tx].block = worker.block
  BY <1>1 DEF WorkerState
<1>4. \A b : /\ [worker EXCEPT !.pc = "nonce", !.block = b].pc = "nonce"
             /\ [worker EXCEPT !.pc = "nonce", !.block = b].block = b
  BY <1>1 DEF WorkerState
<1>5. Idle.pc = "idle" /\ [Idle EXCEPT !.pc = "merge"].pc = "merge"
  BY DEF Idle
<1>6. ASSUME NEW pc \in {"declare", "incident", "merge", "incidentClose", "pick"},
             worker' = [worker EXCEPT !.pc = pc]
      PROVE  ~Anchoring'
  <2>1. worker'.pc = pc
    BY <1>2, <1>6
  <2> QED
    BY <2>1 DEF Anchoring
<1>7. worker' = Idle \/ worker' = [Idle EXCEPT !.pc = "merge"] => ~Anchoring'
  <2>1. CASE worker' = Idle
    BY <1>5, <2>1 DEF Anchoring
  <2>2. CASE worker' = [Idle EXCEPT !.pc = "merge"]
    <3>1. worker'.pc = "merge"
      BY <1>5, <2>2
    <3> QED
      BY <3>1 DEF Anchoring
  <2> QED
    BY <2>1, <2>2
<1>8. CASE PingSucceeds
  <2>1. \/ worker' = [worker EXCEPT !.pc = "merge"]
        \/ \E i : worker' = [worker EXCEPT !.pc = "incident", !.incident = i]
    BY <1>8 DEF PingSucceeds, Goto
  <2>2. \A i : [worker EXCEPT !.pc = "incident", !.incident = i].pc = "incident"
    BY <1>1 DEF WorkerState
  <2>3. CASE \E i : worker' = [worker EXCEPT !.pc = "incident", !.incident = i]
    <3>1. worker'.pc = "incident"
      BY <2>2, <2>3
    <3> QED
      BY <3>1 DEF Anchoring
  <2> QED
    BY <1>6, <2>1, <2>3
<1>9. CASE IncidentLogged \/ IncidentReceipt \/ MergeAll
  <2>1. \/ worker' = Idle \/ worker' = [worker EXCEPT !.pc = "incident"]
        \/ worker' = [worker EXCEPT !.pc = "incidentClose"] \/ worker' = [worker EXCEPT !.pc = "pick"]
    <3>1. CASE IncidentLogged
      BY <3>1 DEF IncidentLogged, Goto
    <3>2. CASE IncidentReceipt
      BY <3>2 DEF IncidentReceipt, Goto
    <3>3. CASE MergeAll
      BY <3>3 DEF MergeAll, Goto
    <3> QED
      BY <1>9, <3>1, <3>2, <3>3
  <2> QED
    BY <1>6, <1>7, <2>1
<1>10. CASE IncidentSend
  <2>1. \E tx : worker' = [worker EXCEPT !.pc = "incidentWait", !.tx = tx]
    BY <1>10 DEF IncidentSend
  <2>2. worker'.pc = "incidentWait"
    BY <1>3, <2>1
  <2> QED
    BY <2>2 DEF Anchoring
<1>11. CASE IncidentClose \/ IncidentFails \/ SaveConfirmed \/ SendFails \/ Crash \/ WorkerDeclares
  BY <1>7, <1>11 DEF IncidentClose, IncidentFails, SaveConfirmed, SendFails, Crash, WorkerDeclares
<1>12. CASE Pick
  BY <1>4, <1>7, <1>12 DEF Pick
<1>13. CASE GetNextNonce
  <2>1. \E tx : worker' = [worker EXCEPT !.pc = "send", !.tx = tx]
    BY <1>13 DEF GetNextNonce
  <2> QED
    BY <1>3, <1>13, <2>1
<1>14. CASE Send \/ WaitReceipt
  BY <1>2, <1>14 DEF Send, WaitReceipt, Goto
<1>16. CASE PingFails
  BY <1>6, <1>16 DEF PingFails, Goto
<1>15. CASE UNCHANGED vars \/ Mine \/ CreateBlock \/ RouteLooks \/ RouteDeclares \/ NetworkChange
  BY <1>15 DEF vars, Mine, CreateBlock, RouteLooks, RouteDeclares, NetworkChange
<1> QED
  BY <1>8, <1>9, <1>10, <1>11, <1>12, <1>13, <1>14, <1>15, <1>16 DEF Next, Cycle, Resolve, Anchor

Unsent(b) == b \notin StoredRoots /\ \A t \in mempool : t.kind = "root" => t.of # b

\* While the RPC is stable, a cycle has it to the end.  The block in hand is
\* PROCESSING, it is unsent until its transaction is accepted, and from then on
\* that is the only one of it, which cannot revert.
UnsentInv ==
    /\ worker.pc \notin {"idle", "declare"} => rpcUp
    /\ \A b \in Queue : Unsent(b)
    /\ \A b \in StoredRoots : status[b] # "NONE"
    /\ Anchoring => status[worker.block] = "PROCESSING"
    /\ worker.pc \in {"nonce", "send"} => Unsent(worker.block)
    /\ worker.pc = "wait" =>
          /\ \A t \in mempool : t.kind = "root" /\ t.of = worker.block => t = worker.tx
          /\ worker.tx \in mempool => worker.block \notin StoredRoots
          /\ ~ ReceiptReverted

SendInv == WellFormed /\ InOrder /\ BlocksSent /\ AccountInv /\ (StableCycles => UnsentInv)

\* The worker is idle at the start, and no root is sent.
LEMMA UnsentInit == Init => UnsentInv
BY EmptySeq DEF Init, UnsentInv, Queue, Retryable, StoredRoots, Anchoring, Idle

\* A block enters the queue when it is created or not sent, and it is in no
\* transaction then.
LEMMA QueueStep ==
    ASSUME WellFormed, InOrder, BlocksSent, StableCycles, UnsentInv, [Next]_vars
    PROVE  \A b \in Queue' : Unsent(b)
<1> SUFFICES ASSUME NEW b \in Queue', b \notin Queue PROVE Unsent(b)
  BY DEF UnsentInv
<1>1. b \in Blocks /\ status'[b] \in Retryable /\ status[b] \notin Retryable
  BY DEF Queue
<1>2. status \in [Blocks -> Status] /\ (Anchoring => worker.block \in Blocks)
  BY DEF WellFormed, TypeOK, LocalsSet
<1>3. CASE CreateBlock
  <2>1. PICK c \in Blocks : Created = 1 .. (c - 1) /\ status' = [status EXCEPT ![c] = "PENDING"]
    BY <1>3 DEF CreateBlock
  <2>2. b = c
    BY <1>1, <1>2, <2>1
  <2>3. status[b] = "NONE"
    BY <2>1, <2>2, BoundsAssumption DEF Created, Blocks
  <2> QED
    BY <2>3 DEF UnsentInv, Unsent, BlocksSent
<1>4. CASE SendFails
  <2>1. b = worker.block
    BY <1>1, <1>2, <1>4 DEF SendFails, Anchoring
  <2>2. worker.pc \in {"nonce", "send"}
    BY <1>4 DEF SendFails, UnsentInv
  <2> QED
    BY <2>1, <2>2 DEF UnsentInv
<1>5. CASE SaveConfirmed
  BY <1>1, <1>2, <1>5 DEF SaveConfirmed, Retryable, Anchoring
<1>6. CASE PingFails \/ WorkerDeclares
  BY <1>1, <1>6, OldestInQueue DEF PingFails, WorkerDeclares, MarkBatchForRetry
<1>7. CASE Pick
  BY <1>1, <1>2, <1>7, OldestInQueue DEF Pick, Retryable
<1>8. CASE UNCHANGED status
  BY <1>1, <1>8
<1> QED
  BY <1>3, <1>4, <1>5, <1>6, <1>7, <1>8
  DEF Next, vars, incidentVars, chainVars, RouteLooks, RouteDeclares, NetworkChange, Crash, Mine, Cycle, Resolve, Anchor,
      PingSucceeds, MergeAll, IncidentSend, IncidentLogged, IncidentReceipt, IncidentFails,
      IncidentClose, GetNextNonce, Send, WaitReceipt

\* What is unsent stays so, unless it is the block in hand that is sent.
LEMMA UnsentStays ==
    ASSUME WellFormed, [Next]_vars, NEW b \in Blocks, Unsent(b), Send => b # worker.block
    PROVE  Unsent(b)'
<1>1. CASE Mine
  <2>1. PICK t \in mempool : /\ mempool' = mempool \ {t}
                             /\ StoredRoots' \subseteq StoredRoots \cup {t.of}
                             /\ t.kind # "root" => StoredRoots' = StoredRoots
    BY <1>1, MineEffect
  <2> QED
    BY <2>1 DEF Unsent
<1>2. CASE ~ Mine
  <2>1. StoredRoots' = StoredRoots
    BY <1>2, PendingStep DEF StoredRoots
  <2>2. Send => worker.tx.of = worker.block
    BY DEF Send, WellFormed, LocalsSet
  <2> QED
    BY <1>2, <2>1, <2>2, PendingStep DEF Unsent
<1> QED
  BY <1>1, <1>2

\* The cycle keeps the RPC, and a block keeps PROCESSING while it is in hand.
LEMMA HandStep ==
    ASSUME WellFormed, InOrder, StableCycles, UnsentInv, [Next]_vars
    PROVE  /\ worker'.pc \notin {"idle", "declare"} => rpcUp'
           /\ \A b \in Blocks : status[b] # "NONE" => status'[b] # "NONE"
           /\ Anchoring' => status'[worker'.block] = "PROCESSING"
<1>1. status \in [Blocks -> Status] /\ (Anchoring => worker.block \in Blocks)
  BY DEF WellFormed, TypeOK, LocalsSet
<1>2. worker'.pc \notin {"idle", "declare"} => rpcUp'
  <2>1. CASE NetworkChange
    BY <2>1 DEF NetworkChange
  <2>2. CASE ~ NetworkChange
    <3>1. rpcUp' = rpcUp
      BY <2>2
      DEF Next, vars, CreateBlock, RouteLooks, RouteDeclares, Crash, Mine, Cycle, Resolve, Anchor,
          PingFails, WorkerDeclares, PingSucceeds, MergeAll, IncidentSend, IncidentLogged,
          IncidentReceipt, IncidentFails, IncidentClose, Pick, GetNextNonce, Send, WaitReceipt,
          SaveConfirmed, SendFails
    <3>2. worker.pc \in {"idle", "declare"} =>
             worker' = worker \/ PingFails \/ WorkerDeclares \/ PingSucceeds \/ Crash
      BY <2>2
      DEF Next, vars, CreateBlock, RouteLooks, RouteDeclares, Mine, Cycle, Resolve, Anchor,
          MergeAll, IncidentSend, IncidentLogged, IncidentReceipt, IncidentFails,
          IncidentClose, Pick, GetNextNonce, Send, WaitReceipt, SaveConfirmed, SendFails
    <3>3. PingFails => worker' = worker \/ worker'.pc = "declare"
      BY DEF PingFails, Goto, WellFormed, TypeOK, WorkerState
    <3> QED
      BY <3>1, <3>2, <3>3 DEF UnsentInv, PingFails, WorkerDeclares, PingSucceeds, Crash, Idle
  <2> QED
    BY <2>1, <2>2
<1>3. \A b \in Blocks : status[b] # "NONE" => status'[b] # "NONE"
  BY <1>1, StageStep DEF StageOf
<1>4. CASE Anchoring /\ Anchoring' /\ worker'.block = worker.block
  <2>1. ~ SaveConfirmed /\ ~ SendFails /\ ~ PingFails /\ ~ WorkerDeclares /\ ~ Pick
    BY <1>4 DEF SaveConfirmed, SendFails, PingFails, WorkerDeclares, Pick, Anchoring, Idle
  <2>2. UNCHANGED status \/ CreateBlock
    BY <2>1
    DEF Next, vars, incidentVars, chainVars, RouteLooks, RouteDeclares, NetworkChange, Crash, Mine, Cycle, Resolve, Anchor,
        PingSucceeds, MergeAll, IncidentSend, IncidentLogged, IncidentReceipt, IncidentFails,
        IncidentClose, GetNextNonce, Send, WaitReceipt
  <2>3. CASE CreateBlock
    <3>1. PICK c \in Blocks : Created = 1 .. (c - 1) /\ status' = [status EXCEPT ![c] = "PENDING"]
      BY <2>3 DEF CreateBlock
    <3>2. c \notin Created
      BY <3>1, BoundsAssumption DEF Blocks
    <3>3. worker.block \in Created
      BY <1>1, <1>4 DEF Created, UnsentInv
    <3>4. status'[worker.block] = status[worker.block]
      BY <1>1, <1>4, <3>1, <3>2, <3>3
    <3> QED
      BY <1>2, <1>3, <1>4, <3>4 DEF UnsentInv
  <2> QED
    BY <1>2, <1>3, <1>4, <2>2, <2>3 DEF UnsentInv
<1>5. CASE Pick /\ Queue # {} /\ worker'.block = Oldest(Queue)
  <2>1. status'[Oldest(Queue)] = "PROCESSING"
    BY <1>1, <1>5, OldestInQueue DEF Pick
  <2> QED
    BY <1>2, <1>3, <1>5, <2>1
<1> QED
  BY <1>2, <1>3, <1>4, <1>5, BlockInHand

\* While a receipt is awaited, the block is not stored before its transaction
\* is mined, which succeeds then.
LEMMA WaitStep ==
    ASSUME WellFormed, AccountInv, StableCycles, UnsentInv, [Next]_vars, worker'.pc = "wait"
    PROVE  /\ \A t \in mempool' : t.kind = "root" /\ t.of = worker'.block => t = worker'.tx
           /\ worker'.tx \in mempool' => worker'.block \notin StoredRoots'
           /\ ~ ReceiptReverted'
<1>1. Anchoring'
  BY DEF Anchoring
<1>2. CASE Send /\ worker'.block = worker.block /\ worker'.tx = worker.tx
  <2>1. /\ mempool' = mempool \cup {worker.tx} /\ UNCHANGED << mined, rootHistory >>
        /\ worker.tx.nonce >= AccountNonce
    BY <1>2 DEF Send, SendSucceeds, NodeAccepts
  <2>2. StoredRoots' = StoredRoots /\ Unsent(worker.block)
    BY <1>2, <2>1 DEF StoredRoots, Send, UnsentInv
  <2>3. \A n \in DOMAIN mined : mined[n].tx.nonce < AccountNonce /\ mined[n].tx.nonce \in Nat
    <3>1. DOMAIN mined = 1 .. AccountNonce /\ AccountNonce \in Nat
      BY LenProperties DEF WellFormed, TypeOK, AccountNonce
    <3> QED
      BY <3>1 DEF AccountInv
  <2>4. worker.tx.nonce \in Nat /\ AccountNonce \in Nat
    BY LenProperties DEF WellFormed, TypeOK, WorkerState, Tx, AccountNonce
  <2>5. \A n \in DOMAIN mined : mined[n].tx # worker.tx
    BY <2>1, <2>3, <2>4
  <2>6. ~ ReceiptReverted'
    BY <1>2, <2>1, <2>5 DEF ReceiptReverted, Receipt
  <2> QED
    BY <1>2, <2>1, <2>2, <2>6 DEF Unsent
<1>3. CASE worker' = worker
  <2>1. worker.tx.kind = "root" /\ worker.tx.of = worker.block
    BY <1>3 DEF WellFormed, LocalsSet
  <2>2. CASE Mine
    <3>1. PICK t \in mempool, ok \in BOOLEAN :
              /\ t.nonce = AccountNonce /\ mempool' = mempool \ {t}
              /\ DOMAIN mined' = DOMAIN mined \cup {AccountNonce + 1}
              /\ mined'[AccountNonce + 1].tx = t /\ mined'[AccountNonce + 1].ok = ok
              /\ \A n \in DOMAIN mined : mined'[n] = mined[n]
              /\ t.kind = "root" => (ok <=> t.of \notin StoredRoots)
              /\ t.kind = "root" => StoredRoots' = StoredRoots \cup {t.of}
              /\ t.kind # "root" => StoredRoots' = StoredRoots
      BY <2>2, MineEffect
    <3>2. \A n \in DOMAIN mined : mined[n].tx = worker.tx => mined[n].ok
      BY <1>3 DEF UnsentInv, ReceiptReverted, Receipt
    <3>3. t = worker.tx => ok
      BY <1>3, <2>1, <3>1 DEF UnsentInv
    <3>4. \A n \in DOMAIN mined' : mined'[n].tx = worker.tx => mined'[n].ok
      BY <3>1, <3>2, <3>3
    <3>5. ~ ReceiptReverted'
      BY <1>3, <3>4 DEF ReceiptReverted, Receipt
    <3>6. worker.tx \in mempool' => worker.block \notin StoredRoots'
      BY <1>3, <2>1, <3>1 DEF UnsentInv
    <3> QED
      BY <1>3, <3>1, <3>5, <3>6 DEF UnsentInv
  <2>3. CASE ~ Mine
    <3>1. UNCHANGED << mined, rootHistory >>
      BY <2>3, PendingStep
    <3>2. \A t \in mempool' : t.kind = "root" => t \in mempool
      BY <1>3, <2>3, PendingStep DEF Send, Goto, WellFormed, TypeOK, WorkerState
    <3>3. StoredRoots' = StoredRoots
      BY <3>1 DEF StoredRoots
    <3>4. ~ ReceiptReverted'
      BY <1>3, <3>1 DEF UnsentInv, ReceiptReverted, Receipt
    <3> QED
      BY <1>3, <2>1, <3>2, <3>3, <3>4 DEF UnsentInv
  <2> QED
    BY <2>2, <2>3
<1> QED
  BY <1>1, <1>2, <1>3, SendingMoves

\* A root that is stored is that of a created block.
LEMMA StoredIsCreated ==
    ASSUME WellFormed, BlocksSent, UnsentInv, [Next]_vars,
           \A b \in Blocks : status[b] # "NONE" => status'[b] # "NONE"
    PROVE  \A b \in StoredRoots' : status'[b] # "NONE"
<1>1. StoredRoots \subseteq Blocks
  <2> DEFINE R == [currentRoot: Blocks, previousRoot: 0 .. MaxBlocks]
  <2>1. \A r \in R : r.currentRoot \in Blocks
    OBVIOUS
  <2>2. rootHistory \in Seq(R)
    BY DEF WellFormed, TypeOK
  <2> HIDE DEF R
  <2>3. \A n \in DOMAIN rootHistory : rootHistory[n] \in R
    BY <2>2
  <2> QED
    BY <2>1, <2>3 DEF StoredRoots
<1>2. \A b \in StoredRoots' : b \in StoredRoots \/ (b \in Blocks /\ status[b] # "NONE")
  <2>1. CASE Mine
    <3>1. PICK t \in mempool : /\ t.kind = "root" => StoredRoots' = StoredRoots \cup {t.of}
                               /\ t.kind # "root" => StoredRoots' = StoredRoots
      BY <2>1, MineEffect
    <3>2. t.kind = "root" => t.of \in Blocks /\ status[t.of] # "NONE"
      BY DEF BlocksSent, WellFormed, NamesItsObject
    <3> QED
      BY <3>1, <3>2
  <2>2. CASE ~ Mine
    BY <2>2, PendingStep DEF StoredRoots
  <2> QED
    BY <2>1, <2>2
<1> QED
  BY <1>1, <1>2 DEF UnsentInv

\* UnsentInv is preserved.
LEMMA UnsentStep ==
    ASSUME WellFormed, InOrder, BlocksSent, AccountInv, StableCycles, UnsentInv, [Next]_vars
    PROVE  UnsentInv'
<1>1. \A b \in Queue' : Unsent(b)'
  <2> SUFFICES ASSUME NEW b \in Queue' PROVE Unsent(b)'
    OBVIOUS
  <2>1. b \in Blocks /\ Unsent(b)
    BY QueueStep DEF Queue
  <2>2. Send => status[worker.block] = "PROCESSING" /\ UNCHANGED status
    BY DEF Send, UnsentInv, Anchoring
  <2>3. Send => b # worker.block
    BY <2>2 DEF Queue, Retryable
  <2> QED
    BY <2>1, <2>3, UnsentStays
<1>2. worker'.pc \in {"nonce", "send"} => Unsent(worker.block)'
  <2> SUFFICES ASSUME worker'.pc \in {"nonce", "send"} PROVE Unsent(worker.block)'
    OBVIOUS
  <2>1. Anchoring'
    BY DEF Anchoring
  <2>2. CASE Pick /\ Queue # {} /\ worker'.block = Oldest(Queue)
    <3>1. Oldest(Queue) \in Queue /\ Oldest(Queue) \in Blocks
      BY <2>2, OldestInQueue DEF Queue
    <3>2. Unsent(Oldest(Queue)) /\ UNCHANGED << mempool, rootHistory >>
      BY <2>2, <3>1 DEF UnsentInv, Pick, incidentVars, chainVars
    <3> QED
      BY <2>2, <3>2 DEF Unsent, StoredRoots
  <2>3. CASE worker'.block = worker.block /\ (worker' = worker \/ GetNextNonce)
    <3>1. worker.pc \in {"nonce", "send"} /\ ~ Send
      <4>1. CASE GetNextNonce
        BY <4>1 DEF GetNextNonce, Send
      <4>2. CASE worker' = worker
        <5>1. ASSUME Send PROVE FALSE
          <6>1. worker'.pc = "wait"
            BY <5>1 DEF Send, Goto, WellFormed, TypeOK, WorkerState
          <6> QED
            BY <6>1
        <5> QED
          BY <4>2, <5>1
      <4> QED
        BY <2>3, <4>1, <4>2
    <3>2. Unsent(worker.block) /\ worker.block \in Blocks
      BY <3>1 DEF UnsentInv, WellFormed, LocalsSet, Anchoring
    <3>3. PICK b \in Blocks : b = worker.block
      BY <3>2
    <3>4. Unsent(b)'
      BY <3>1, <3>2, <3>3, UnsentStays
    <3> QED
      BY <2>3, <3>3, <3>4 DEF Unsent
  <2> QED
    BY <2>1, <2>2, <2>3, SendingMoves
<1>3. \A b \in StoredRoots' : status'[b] # "NONE"
  BY HandStep, StoredIsCreated
<1>4. /\ worker'.pc \notin {"idle", "declare"} => rpcUp'
      /\ Anchoring' => status'[worker'.block] = "PROCESSING"
  BY HandStep
<1>5. worker'.pc = "wait" =>
        /\ \A t \in mempool' : t.kind = "root" /\ t.of = worker'.block => t = worker'.tx
        /\ worker'.tx \in mempool' => worker'.block \notin StoredRoots'
        /\ ~ ReceiptReverted'
  BY WaitStep
<1> QED
  BY <1>1, <1>2, <1>3, <1>4, <1>5 DEF UnsentInv

\* All of it together is inductive.
LEMMA SendInvInit == Init => SendInv
BY WellFormedInit, LinkedInit, BlocksSentInit, AccountInvInit, UnsentInit DEF SendInv, Linked

LEMMA SendInvStep == SendInv /\ [Next]_vars => SendInv'
BY WellFormedStep, InOrderStep, BlocksSentStep, AccountInvStep, UnsentStep DEF SendInv

\* QueueIsUnsent: with an RPC that answers through whole cycles no root is sent
\* twice, for any number of blocks, incidents and restarts.
THEOREM QueueAlwaysUnsent == Spec => []QueueIsUnsent
<1>1. SendInv => QueueIsUnsent
  BY DEF SendInv, UnsentInv, Unsent, QueueIsUnsent
<1> QED
  BY <1>1, SendInvInit, SendInvStep, PTL DEF Spec

-----------------------------------------------------------------------------
(* The cached nonce never runs ahead *)

\* All nonces before k are mined or pending.
Reached(k) == \A n \in Nat : n >= AccountNonce /\ n < k => \E t \in mempool : t.nonce = n

\* Pending nonces have no gap before them, and neither has the cached one, which
\* is at most one ahead of the transaction that is about to be sent.
NonceInv ==
    /\ \A t \in mempool : Reached(t.nonce)
    /\ worker.pc = "send" =>
          /\ Reached(worker.tx.nonce)
          /\ currentNonce # NoNonce /\ currentNonce <= worker.tx.nonce + 1
    /\ worker.pc # "send" /\ currentNonce # NoNonce => Reached(currentNonce)

\* Nothing is pending or cached at the start.
LEMMA NonceInvInit == Init => NonceInv
BY DEF Init, NonceInv, Idle, NoNonce

\* What is reached stays reached.
LEMMA ReachedStays ==
    ASSUME WellFormed, [Next]_vars, NEW k \in Nat, Reached(k)
    PROVE  Reached(k)'
<1>1. AccountNonce \in Nat /\ \A t \in mempool : t.nonce \in Nat
  BY LenProperties DEF WellFormed, TypeOK, Tx, AccountNonce
<1>2. CASE Mine
  <2>1. PICK t \in mempool : /\ t.nonce = AccountNonce /\ mempool' = mempool \ {t}
                             /\ AccountNonce' = AccountNonce + 1
    BY <1>2, MineEffect
  <2> QED
    BY <1>1, <2>1 DEF Reached
<1>3. CASE ~ Mine
  <2>1. mempool \subseteq mempool' /\ AccountNonce' = AccountNonce
    BY <1>3, PendingStep DEF AccountNonce
  <2> QED
    BY <2>1 DEF Reached
<1> QED
  BY <1>2, <1>3

\* A nonce that the node does not accept, or has just accepted, is used, so
\* that the next one is reached too.
LEMMA ReachedNext ==
    ASSUME WellFormed, NEW k \in Nat, Reached(k), ~ NodeAccepts(k)
    PROVE  Reached(k + 1)
<1>1. AccountNonce \in Nat
  BY LenProperties DEF WellFormed, TypeOK, AccountNonce
<1>2. k < AccountNonce \/ \E t \in mempool : t.nonce = k
  BY <1>1 DEF NodeAccepts
<1> QED
  BY <1>1, <1>2 DEF Reached

\* Pending nonces stay without a gap.
LEMMA PendingReached ==
    ASSUME WellFormed, NonceInv, [Next]_vars
    PROVE  \A t \in mempool' : Reached(t.nonce)'
<1> SUFFICES ASSUME NEW t \in mempool' PROVE Reached(t.nonce)'
  OBVIOUS
<1>1. \A u \in mempool : u.nonce \in Nat
  BY DEF WellFormed, TypeOK, Tx
<1>2. CASE t \in mempool
  <2>1. PICK k \in Nat : k = t.nonce
    BY <1>1, <1>2
  <2>2. Reached(k)
    BY <1>2, <2>1 DEF NonceInv
  <2>3. Reached(k)'
    BY <2>2, ReachedStays
  <2> QED
    BY <2>1, <2>3 DEF Reached
<1>3. CASE t \notin mempool /\ ~ Mine
  <2>1. t.nonce \in Nat /\ Reached(t.nonce)
    <3>1. CASE t.nonce = PendingNonce
      BY <3>1, PendingNonceFree DEF Reached
    <3>2. CASE Send /\ t = worker.tx
      BY <3>2 DEF Send, NonceInv, WellFormed, TypeOK, WorkerState, Tx
    <3> QED
      BY <1>3, <3>1, <3>2, PendingStep
  <2>2. PICK k \in Nat : k = t.nonce
    BY <2>1
  <2>3. Reached(k)'
    BY <2>1, <2>2, ReachedStays
  <2> QED
    BY <2>2, <2>3 DEF Reached
<1>4. CASE t \notin mempool /\ Mine
  BY <1>4, MineEffect
<1> QED
  BY <1>2, <1>3, <1>4

\* The cached nonce stays without a gap.
LEMMA NonceInvStep ==
    ASSUME SendInv, StableCycles, NonceInv, [Next]_vars
    PROVE  NonceInv'
<1>1. /\ WellFormed /\ WellFormed' /\ UnsentInv /\ worker \in WorkerState
      /\ currentNonce \in Nat \cup {NoNonce}
      /\ worker.tx.nonce \in Nat
  BY WellFormedStep DEF SendInv, WellFormed, TypeOK, WorkerState, Tx
<1>2. \A t \in mempool' : Reached(t.nonce)'
  BY <1>1, PendingReached
<1>3. CASE GetNextNonce
  <2> DEFINE nonce == IF currentNonce = NoNonce THEN PendingNonce ELSE currentNonce
             tx == [nonce |-> nonce, kind |-> "root", of |-> worker.block]
  <2>1. nonce \in Nat /\ Reached(nonce)
    BY <1>1, <1>3, PendingNonceFree DEF Reached, NonceInv, GetNextNonce
  <2>2. worker'.pc = "send" /\ worker'.tx = tx
    <3>1. worker' = [worker EXCEPT !.pc = "send", !.tx = tx]
      BY <1>3 DEF GetNextNonce
    <3> HIDE DEF tx
    <3> QED
      BY <1>1, <3>1 DEF WorkerState
  <2>3. tx.nonce = nonce
    OBVIOUS
  <2>4. currentNonce' = IF nonce < MaxNonce THEN nonce + 1 ELSE nonce
    BY <1>3 DEF GetNextNonce
  <2> HIDE DEF nonce, tx
  <2>5. currentNonce' # NoNonce /\ currentNonce' <= nonce + 1
    BY <2>1, <2>4, BoundsAssumption DEF NoNonce
  <2>6. PICK k \in Nat : k = nonce
    BY <2>1
  <2>7. Reached(k)'
    BY <1>1, <2>1, <2>6, ReachedStays
  <2> QED
    BY <1>2, <2>2, <2>3, <2>5, <2>6, <2>7 DEF NonceInv, Reached
<1>4. ASSUME worker.pc = "send", Send \/ SendFails
      PROVE  NonceInv'
  <2>1. worker'.pc # "send" /\ currentNonce' = currentNonce
    BY <1>1, <1>4 DEF Send, SendFails, Goto, Idle, WorkerState
  <2>2. currentNonce # NoNonce /\ currentNonce \in Nat /\ currentNonce <= worker.tx.nonce + 1
        /\ Reached(worker.tx.nonce)
    BY <1>1, <1>4 DEF NonceInv
  <2>3. PICK k \in Nat : k = worker.tx.nonce
    BY <1>1
  <2>4. Reached(k + 1)'
    <3>1. CASE Send
      <4>1. Reached(k)' /\ ~ NodeAccepts(k)'
        BY <1>1, <2>2, <2>3, <3>1, ReachedStays DEF Send, NodeAccepts
      <4>2. ASSUME WellFormed', Reached(k)', ~ NodeAccepts(k)' PROVE Reached(k + 1)'
        <5>1. AccountNonce' \in Nat
          BY <4>2, LenProperties DEF WellFormed, TypeOK, AccountNonce
        <5>2. k < AccountNonce' \/ \E t \in mempool' : t.nonce = k
          BY <4>2, <5>1 DEF NodeAccepts
        <5> QED
          BY <4>2, <5>1, <5>2 DEF Reached
      <4> QED
        BY <1>1, <4>1, <4>2
    <3>2. CASE SendFails
      <4>1. ~ SendSucceeds /\ rpcUp /\ LogRootSucceeds(worker.block)
        BY <1>1, <1>4, <3>2 DEF SendFails, UnsentInv, Unsent, LogRootSucceeds
      <4>2. ~ NodeAccepts(k)
        BY <2>3, <4>1 DEF SendSucceeds
      <4>3. Reached(k + 1)
        BY <1>1, <2>2, <2>3, <4>2, ReachedNext
      <4> QED
        BY <1>1, <4>3, ReachedStays
    <3> QED
      BY <1>4, <3>1, <3>2
  <2>5. Reached(currentNonce)'
    BY <2>1, <2>2, <2>3, <2>4 DEF Reached
  <2> QED
    BY <1>2, <2>1, <2>5 DEF NonceInv
<1>5. CASE Crash
  BY <1>2, <1>5 DEF Crash, Idle, NonceInv
<1>6. CASE worker.pc # "send" /\ ~ GetNextNonce /\ ~ Crash
  <2>1. worker'.pc # "send" /\ currentNonce' = currentNonce
    <3>1. currentNonce' = currentNonce
      BY <1>6
      DEF Next, vars, CreateBlock, RouteLooks, RouteDeclares, NetworkChange, Mine, Cycle, Resolve, Anchor,
          PingFails, WorkerDeclares, PingSucceeds, MergeAll, IncidentSend, IncidentLogged, IncidentReceipt,
          IncidentFails, IncidentClose, Pick, Send, WaitReceipt, SaveConfirmed, SendFails
    <3> QED
      BY <1>1, <1>6, <3>1, SendingMoves DEF Anchoring
  <2>2. CASE currentNonce # NoNonce
    <3>1. currentNonce \in Nat /\ Reached(currentNonce)
      BY <1>1, <1>6, <2>2 DEF NonceInv
    <3>2. PICK k \in Nat : k = currentNonce
      BY <3>1
    <3>3. Reached(k)'
      BY <1>1, <3>1, <3>2, ReachedStays
    <3> QED
      BY <1>2, <2>1, <3>2, <3>3 DEF NonceInv, Reached
  <2> QED
    BY <1>2, <2>1, <2>2 DEF NonceInv
<1>7. CASE worker.pc = "send" /\ ~ Send /\ ~ SendFails /\ ~ Crash
  <2>1. worker' = worker /\ currentNonce' = currentNonce
    BY <1>7
    DEF Next, vars, CreateBlock, RouteLooks, RouteDeclares, NetworkChange, Mine, Cycle, Resolve, Anchor,
        PingFails, WorkerDeclares, PingSucceeds, MergeAll, IncidentSend, IncidentLogged, IncidentReceipt,
        IncidentFails, IncidentClose, Pick, GetNextNonce, WaitReceipt, SaveConfirmed
  <2>2. PICK k \in Nat : k = worker.tx.nonce
    BY <1>1
  <2>3. Reached(k)'
    BY <1>1, <1>7, <2>2, ReachedStays DEF NonceInv
  <2> QED
    BY <1>2, <1>7, <2>1, <2>2, <2>3 DEF NonceInv, Reached
<1> QED
  BY <1>3, <1>4, <1>5, <1>6, <1>7 DEF GetNextNonce

\* NonceGapFree: with such an RPC every pending transaction can be mined, for
\* any number of transactions of incidents, failed sends and restarts.
THEOREM NonceNeverAhead == Spec => []NonceGapFree
<1> DEFINE Inv == SendInv /\ (StableCycles => NonceInv)
<1>1. Init => Inv
  BY SendInvInit, NonceInvInit
<1>2. Inv /\ [Next]_vars => Inv'
  BY SendInvStep, NonceInvStep
<1>3. Inv => NonceGapFree
  <2> SUFFICES ASSUME SendInv, NonceInv, NEW t \in mempool, NEW n \in AccountNonce .. t.nonce
               PROVE  \E u \in mempool : u.nonce = n
    BY DEF NonceGapFree
  <2>1. AccountNonce \in Nat /\ t.nonce \in Nat
    BY LenProperties DEF SendInv, WellFormed, TypeOK, Tx, AccountNonce
  <2>2. n \in Nat /\ n >= AccountNonce /\ (n = t.nonce \/ n < t.nonce)
    BY <2>1
  <2>3. Reached(t.nonce)
    BY DEF NonceInv
  <2> QED
    BY <2>2, <2>3 DEF Reached
<1> QED
  BY <1>1, <1>2, <1>3, PTL DEF Spec

=============================================================================
