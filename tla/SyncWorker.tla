------------------------------ MODULE SyncWorker ------------------------------
(***************************************************************************)
(* The anchoring pipeline: the 10-second cycle of workers/sync.worker.js,  *)
(* the client of the AccessLog contract with its cached nonce, the two     *)
(* transactions that close a network incident, and the contracts they      *)
(* reach through one account, whose transactions are mined in nonce order. *)
(*                                                                         *)
(* MAIN is a sequence of linked blocks here: block b has root b and        *)
(* previousRoot b - 1, and createdAt is the order of the numbers.  How     *)
(* blocks get onto MAIN is the subject of module LocalChain.  One action   *)
(* is one step of the worker between two awaits; RPC calls fail while the  *)
(* RPC is down, and the RPC may go down between any two of them.           *)
(***************************************************************************)
EXTENDS Integers, Sequences, FiniteSets

CONSTANTS
    MaxBlocks,         \* bound: blocks created on MAIN
    MaxIncidents,      \* bound: incidents declared
    MaxRequests,       \* bound: /create requests declaring an incident at once
    MaxCrashes,        \* bound: restarts of the server process
    MaxMempool,        \* bound: transactions of the account pending at once
    MaxNonce,          \* the cached nonce stays here once it gets here
    FAILURE_THRESHOLD, \* failed pings in a row that make an incident
    StableCycles       \* TRUE: the RPC does not change during a cycle

ASSUME BoundsAssumption ==
    /\ MaxBlocks \in Nat /\ MaxIncidents \in Nat /\ MaxRequests \in Nat
    /\ MaxCrashes \in Nat
    /\ MaxMempool \in Nat /\ MaxNonce \in Nat
    /\ FAILURE_THRESHOLD \in Nat \ {0}
    /\ StableCycles \in BOOLEAN

Blocks == 1 .. MaxBlocks
Incidents == 1 .. MaxIncidents

VARIABLES
    rpcUp,         \* whether the RPC endpoint answers
    status,        \* MerkleChain.status of each block, "NONE" before its creation
    openIncidents, \* the NetworkIncidents that are OPEN in the database
    declared,      \* incidents declared so far
    declaring,     \* /create requests that found none OPEN and have not inserted
    failures,      \* consecutiveRpcFailures
    worker,        \* the cycle in progress
    currentNonce,  \* nonce.service: the cached nonce, or NoNonce
    mempool,       \* accepted transactions of the account, not mined
    mined,         \* its mined transactions: the n-th has nonce n - 1
    rootHistory,   \* AccessLog.rootHistory
    incidentLog,   \* NetworkIncidentLog: state of each incident
    crashes        \* restarts so far

incidentVars == << openIncidents, declared, declaring >>
chainVars == << mempool, mined, rootHistory, incidentLog >>
vars == << rpcUp, status, openIncidents, declared, declaring, failures, worker,
           currentNonce, mempool, mined, rootHistory, incidentLog, crashes >>

-----------------------------------------------------------------------------
(* State *)

Status == {"NONE", "PENDING", "PROCESSING", "WAITING_RETRY", "CONFIRMED"}
Retryable == {"PENDING", "WAITING_RETRY"}

NoNonce == -1

\* A transaction names the block whose root it logs, or the incident.
Tx == [nonce: Nat, kind: {"root", "failure", "recovery"}, of: Nat]
NoTx == [nonce |-> 0, kind |-> "root", of |-> 0]

\* The locals `incident` of resolveNetworkIncident and `pending`: 0 for null.
Idle == [pc |-> "idle", incident |-> 0, block |-> 0, tx |-> NoTx]
WorkerState ==
    [ pc: {"idle", "declare", "incident", "incidentWait", "incidentClose", "merge",
           "pick", "nonce", "send", "wait", "save"},
      incident: 0 .. MaxIncidents, block: 0 .. MaxBlocks, tx: Tx ]

TypeOK ==
    /\ rpcUp \in BOOLEAN
    /\ status \in [Blocks -> Status]
    /\ openIncidents \subseteq Incidents
    /\ declared \in 0 .. MaxIncidents
    /\ declaring \in 0 .. MaxRequests
    /\ failures \in 0 .. FAILURE_THRESHOLD
    /\ worker \in WorkerState
    /\ currentNonce \in Nat \cup {NoNonce}
    /\ mempool \subseteq Tx
    /\ mined \in Seq([tx: Tx, ok: BOOLEAN])
    /\ rootHistory \in Seq([currentRoot: Blocks, previousRoot: 0 .. MaxBlocks])
    /\ incidentLog \in [Incidents -> {"NONE", "OPEN", "CLOSED"}]
    /\ crashes \in 0 .. MaxCrashes

Created == { b \in Blocks : status[b] # "NONE" }

\* Mutant of Queue: blocks that wait for a retry are not taken up again.
QueueOfPending == { b \in Blocks : status[b] = "PENDING" }

\* sort({createdAt: 1}) with status PENDING or WAITING_RETRY
Queue == { b \in Blocks : status[b] \in Retryable }
Oldest(S) == CHOOSE b \in S : \A a \in S : b <= a

Init ==
    /\ rpcUp = TRUE
    /\ status = [b \in Blocks |-> "NONE"]
    /\ openIncidents = {}
    /\ declared = 0
    /\ declaring = 0
    /\ failures = 0
    /\ worker = Idle
    /\ currentNonce = NoNonce
    /\ mempool = {}
    /\ mined = << >>
    /\ rootHistory = << >>
    /\ incidentLog = [i \in Incidents |-> "NONE"]
    /\ crashes = 0

-----------------------------------------------------------------------------
(* The account and the contracts *)

AccountNonce == Len(mined)

\* getTransactionCount(address, "pending"): the first nonce that is neither
\* mined nor taken by a transaction that can be mined after those.
PendingNonce ==
    LET taken == { t.nonce : t \in mempool }
        free  == { n \in AccountNonce .. (AccountNonce + Cardinality(mempool)) : n \notin taken }
    IN Oldest(free)

StoredRoots == { rootHistory[n].currentRoot : n \in DOMAIN rootHistory }

\* Mutant of LogRootSucceeds: no require.
LogRootAlwaysSucceeds(b) == TRUE

\* AccessLog.logRoot: its require, then rootHistory.push.
LogRootSucceeds(b) == b \notin StoredRoots
LogRoot(b) == rootHistory' = Append(rootHistory, [currentRoot |-> b, previousRoot |-> b - 1])

\* NetworkIncidentLog: the requires of logNetworkFailure and logNetworkRecovery.
LogIncidentSucceeds(kind, i) ==
    \/ kind = "failure"  /\ incidentLog[i] = "NONE"
    \/ kind = "recovery" /\ incidentLog[i] = "OPEN"
LogIncident(kind, i) ==
    incidentLog' = [incidentLog EXCEPT ![i] = IF kind = "failure" THEN "OPEN" ELSE "CLOSED"]

\* The node refuses a nonce that is used, and keeps one that leaves a gap.
NodeAccepts(nonce) ==
    nonce >= AccountNonce /\ \A t \in mempool : t.nonce # nonce

\* The next transaction of the account is mined, and succeeds or reverts.
Mine ==
    \E t \in mempool :
        LET ok == IF t.kind = "root" THEN LogRootSucceeds(t.of)
                  ELSE LogIncidentSucceeds(t.kind, t.of)
        IN
        /\ t.nonce = AccountNonce
        /\ mempool' = mempool \ {t}
        /\ mined' = Append(mined, [tx |-> t, ok |-> ok])
        /\ IF ok /\ t.kind = "root" THEN LogRoot(t.of) ELSE UNCHANGED rootHistory
        /\ IF ok /\ t.kind # "root" THEN LogIncident(t.kind, t.of) ELSE UNCHANGED incidentLog
        /\ UNCHANGED << rpcUp, status, incidentVars, failures, worker, currentNonce,
                        crashes >>

-----------------------------------------------------------------------------
(* The worker's cycle *)

Goto(pc) == worker' = [worker EXCEPT !.pc = pc]

\* createNetworkIncident after its look: the insert, whoever else has inserted.
Declare ==
    IF declared < MaxIncidents
    THEN /\ openIncidents' = openIncidents \cup {declared + 1}
         /\ declared' = declared + 1
    ELSE UNCHANGED << openIncidents, declared >>

\* markBatchForRetry: the oldest block of the queue waits for a retry.
MarkBatchForRetry ==
    status' = [b \in Blocks |->
        IF Queue # {} /\ b = Oldest(Queue) THEN "WAITING_RETRY" ELSE status[b]]

\* Step 1, the ping fails: a blip, an incident that is known already, or, at
\* the threshold with none OPEN, one to declare.  (activeIncident, the memory of
\* an earlier one that stops createNetworkIncident, is module BatchCreation's.)
PingFails ==
    /\ worker.pc = "idle" /\ ~rpcUp
    /\ failures' = IF failures < FAILURE_THRESHOLD THEN failures + 1 ELSE failures
    /\ \/ /\ failures + 1 < FAILURE_THRESHOLD \/ declared > 0
          /\ MarkBatchForRetry
          /\ UNCHANGED worker
       \/ /\ failures + 1 >= FAILURE_THRESHOLD /\ openIncidents = {}
          /\ Goto("declare")
          /\ UNCHANGED status
    /\ UNCHANGED << rpcUp, incidentVars, currentNonce, crashes, chainVars >>

WorkerDeclares ==
    /\ worker.pc = "declare"
    /\ Declare
    /\ MarkBatchForRetry
    /\ worker' = Idle
    /\ UNCHANGED << rpcUp, declaring, failures, currentNonce, crashes, chainVars >>

\* findOne takes the OPEN incident that was inserted first.
PingSucceeds ==
    /\ worker.pc = "idle" /\ rpcUp
    /\ failures' = 0
    /\ IF openIncidents = {} THEN Goto("merge")
       ELSE worker' = [worker EXCEPT !.pc = "incident", !.incident = Oldest(openIncidents)]
    /\ UNCHANGED << rpcUp, status, incidentVars, currentNonce, crashes, chainVars >>

\* Step 2, resolveNetworkIncident: getIncident, then the transaction that is
\* still missing, with the nonce the node gives it.
IncidentSend ==
    LET kind == IF incidentLog[worker.incident] = "NONE" THEN "failure" ELSE "recovery"
        tx   == [nonce |-> PendingNonce, kind |-> kind, of |-> worker.incident]
    IN
    /\ worker.pc = "incident" /\ rpcUp
    /\ incidentLog[worker.incident] # "CLOSED"
    /\ Cardinality(mempool) < MaxMempool
    /\ mempool' = mempool \cup {tx}
    /\ worker' = [worker EXCEPT !.pc = "incidentWait", !.tx = tx]
    /\ UNCHANGED << rpcUp, status, incidentVars, failures, currentNonce, mined,
                    rootHistory, incidentLog, crashes >>

\* Mutant of IncidentLogged: no retry protection, the contract refuses a second
\* recovery and the cycle is abandoned.
IncidentLoggedThrows ==
    /\ worker.pc = "incident" /\ rpcUp
    /\ incidentLog[worker.incident] = "CLOSED"
    /\ worker' = Idle
    /\ UNCHANGED << rpcUp, status, incidentVars, failures, currentNonce, crashes,
                    chainVars >>

\* Both are on the chain, now or since an earlier cycle.
IncidentLogged ==
    /\ worker.pc = "incident" /\ rpcUp
    /\ incidentLog[worker.incident] = "CLOSED"
    /\ Goto("incidentClose")
    /\ UNCHANGED << rpcUp, status, incidentVars, failures, currentNonce, crashes,
                    chainVars >>

\* Mutant of IncidentClose: updateMany instead of the document's save.
IncidentClosesEvery ==
    /\ worker.pc = "incidentClose"
    /\ openIncidents' = {}
    /\ failures' = 0
    /\ worker' = [Idle EXCEPT !.pc = "merge"]
    /\ UNCHANGED << rpcUp, status, declared, declaring, currentNonce, crashes, chainVars >>

IncidentClose ==
    /\ worker.pc = "incidentClose"
    /\ openIncidents' = openIncidents \ {worker.incident}
    /\ failures' = 0
    /\ worker' = [Idle EXCEPT !.pc = "merge"]
    /\ UNCHANGED << rpcUp, status, declared, declaring, currentNonce, crashes, chainVars >>

\* The transaction the worker waits for, once mined.
Receipt == { r \in { mined[n] : n \in DOMAIN mined } : r.tx = worker.tx }
ReceiptOk == \E r \in Receipt : r.ok
ReceiptReverted == \E r \in Receipt : ~r.ok

\* Mutant of IncidentReceipt: the incident is closed after its failure only.
IncidentReceiptCloses ==
    /\ worker.pc = "incidentWait" /\ rpcUp /\ ReceiptOk
    /\ Goto("incidentClose")
    /\ UNCHANGED << rpcUp, status, incidentVars, failures, currentNonce, crashes,
                    chainVars >>

IncidentReceipt ==
    /\ worker.pc = "incidentWait" /\ rpcUp /\ ReceiptOk
    /\ Goto("incident")
    /\ UNCHANGED << rpcUp, status, incidentVars, failures, currentNonce, crashes,
                    chainVars >>

\* Mutant of IncidentFails: the null that is returned is not looked at.
IncidentFailsUnnoticed ==
    /\ \/ worker.pc = "incident" /\ ~rpcUp
       \/ worker.pc = "incidentWait" /\ (~rpcUp \/ ReceiptReverted)
    /\ worker' = [Idle EXCEPT !.pc = "merge"]
    /\ UNCHANGED << rpcUp, status, incidentVars, failures, currentNonce, crashes,
                    chainVars >>

\* resolveNetworkIncident catches, returns null, and the cycle is abandoned.
IncidentFails ==
    /\ \/ worker.pc = "incident" /\ ~rpcUp
       \/ worker.pc = "incidentWait" /\ (~rpcUp \/ ReceiptReverted)
    /\ worker' = Idle
    /\ UNCHANGED << rpcUp, status, incidentVars, failures, currentNonce, crashes,
                    chainVars >>

\* Step 2b: the merge returns, and whether it reports a tampered epoch is only
\* logged; or it throws on a block that an interrupted merge has left on MAIN.
MergeAll ==
    /\ worker.pc = "merge"
    /\ \/ Goto("pick")
       \/ crashes > 0 /\ worker' = Idle
    /\ UNCHANGED << rpcUp, status, incidentVars, failures, currentNonce, crashes,
                    chainVars >>

\* Step 3: the oldest block of the queue is locked, if there is one.
Pick ==
    /\ worker.pc = "pick"
    /\ IF Queue = {} THEN worker' = Idle /\ UNCHANGED status
       ELSE /\ status' = [status EXCEPT ![Oldest(Queue)] = "PROCESSING"]
            /\ worker' = [worker EXCEPT !.pc = "nonce", !.block = Oldest(Queue)]
    /\ UNCHANGED << rpcUp, incidentVars, failures, currentNonce, crashes, chainVars >>

\* Mutant of GetNextNonce: `return currentNonce` without ++.
GetSameNonce ==
    LET nonce == IF currentNonce = NoNonce THEN PendingNonce ELSE currentNonce IN
    /\ worker.pc = "nonce"
    /\ currentNonce # NoNonce \/ rpcUp
    /\ currentNonce' = nonce
    /\ worker' = [worker EXCEPT !.pc = "send",
                                !.tx = [nonce |-> nonce, kind |-> "root", of |-> worker.block]]
    /\ UNCHANGED << rpcUp, status, incidentVars, failures, crashes, chainVars >>

\* Mutant of GetNextNonce: `return ++currentNonce`.
GetNonceAfterNext ==
    LET nonce == IF currentNonce = NoNonce THEN PendingNonce ELSE currentNonce IN
    /\ worker.pc = "nonce"
    /\ currentNonce # NoNonce \/ rpcUp
    /\ currentNonce' = IF nonce < MaxNonce THEN nonce + 1 ELSE nonce
    /\ worker' = [worker EXCEPT !.pc = "send",
                       !.tx = [nonce |-> currentNonce', kind |-> "root", of |-> worker.block]]
    /\ UNCHANGED << rpcUp, status, incidentVars, failures, crashes, chainVars >>

\* getNextNonce: the node is asked once, then the cached value counts up.
GetNextNonce ==
    LET nonce == IF currentNonce = NoNonce THEN PendingNonce ELSE currentNonce IN
    /\ worker.pc = "nonce"
    /\ currentNonce # NoNonce \/ rpcUp
    /\ currentNonce' = IF nonce < MaxNonce THEN nonce + 1 ELSE nonce
    /\ worker' = [worker EXCEPT !.pc = "send",
                                !.tx = [nonce |-> nonce, kind |-> "root", of |-> worker.block]]
    /\ UNCHANGED << rpcUp, status, incidentVars, failures, crashes, chainVars >>

\* contract.logRoot: the gas estimate finds the revert, the node the nonce.
SendSucceeds == rpcUp /\ LogRootSucceeds(worker.block) /\ NodeAccepts(worker.tx.nonce)

Send ==
    /\ worker.pc = "send" /\ SendSucceeds
    /\ Cardinality(mempool) < MaxMempool
    /\ mempool' = mempool \cup {worker.tx}
    /\ Goto("wait")
    /\ UNCHANGED << rpcUp, status, incidentVars, failures, currentNonce, mined,
                    rootHistory, incidentLog, crashes >>

\* Mutant of WaitReceipt: tx.wait() is not awaited.
WaitReceiptSkipped ==
    /\ worker.pc = "wait"
    /\ Goto("save")
    /\ UNCHANGED << rpcUp, status, incidentVars, failures, currentNonce, crashes,
                    chainVars >>

\* tx.wait() returns the receipt.
WaitReceipt ==
    /\ worker.pc = "wait" /\ rpcUp /\ ReceiptOk
    /\ Goto("save")
    /\ UNCHANGED << rpcUp, status, incidentVars, failures, currentNonce, crashes,
                    chainVars >>

SaveConfirmed ==
    /\ worker.pc = "save"
    /\ status' = [status EXCEPT ![worker.block] = "CONFIRMED"]
    /\ worker' = Idle
    /\ UNCHANGED << rpcUp, incidentVars, failures, currentNonce, crashes, chainVars >>

\* Mutant of SendFails: the block is not returned to the queue.
SendFailsKeepsBlock ==
    /\ \/ worker.pc = "nonce" /\ currentNonce = NoNonce /\ ~rpcUp
       \/ worker.pc = "send" /\ ~SendSucceeds
       \/ worker.pc = "wait" /\ (~rpcUp \/ ReceiptReverted)
    /\ worker' = Idle
    /\ UNCHANGED << rpcUp, status, incidentVars, failures, currentNonce, crashes,
                    chainVars >>

\* Mutant of SendFails: the status that nothing takes up again.
SendFailsForGood ==
    /\ \/ worker.pc = "nonce" /\ currentNonce = NoNonce /\ ~rpcUp
       \/ worker.pc = "send" /\ ~SendSucceeds
       \/ worker.pc = "wait" /\ (~rpcUp \/ ReceiptReverted)
    /\ status' = [status EXCEPT ![worker.block] = "FAILED"]
    /\ worker' = Idle
    /\ UNCHANGED << rpcUp, incidentVars, failures, currentNonce, crashes, chainVars >>

\* Mutant of SendFails: tx.wait(1, timeout) gives up on a slow receipt.
SendFailsOnTimeout ==
    /\ \/ worker.pc = "nonce" /\ currentNonce = NoNonce /\ ~rpcUp
       \/ worker.pc = "send" /\ ~SendSucceeds
       \/ worker.pc = "wait"
    /\ status' = [status EXCEPT ![worker.block] = "WAITING_RETRY"]
    /\ worker' = Idle
    /\ UNCHANGED << rpcUp, incidentVars, failures, currentNonce, crashes, chainVars >>

\* A step of sendMerkleRoot throws: the block goes back to the queue.
SendFails ==
    /\ \/ worker.pc = "nonce" /\ currentNonce = NoNonce /\ ~rpcUp
       \/ worker.pc = "send" /\ ~SendSucceeds
       \/ worker.pc = "wait" /\ (~rpcUp \/ ReceiptReverted)
    /\ status' = [status EXCEPT ![worker.block] = "WAITING_RETRY"]
    /\ worker' = Idle
    /\ UNCHANGED << rpcUp, incidentVars, failures, currentNonce, crashes, chainVars >>

-----------------------------------------------------------------------------
(* The rest of the program and its environment *)

\* A block reaches MAIN, from /create or from a merge.
CreateBlock ==
    \E b \in Blocks :
        /\ Created = 1 .. (b - 1)
        /\ status' = [status EXCEPT ![b] = "PENDING"]
        /\ UNCHANGED << rpcUp, incidentVars, failures, worker, currentNonce, crashes,
                        chainVars >>

\* /create finds the RPC down and no incident, also while the worker or another
\* request is between its own look and its insert.
RouteLooks ==
    /\ ~rpcUp /\ openIncidents = {} /\ declaring < MaxRequests
    /\ declaring' = declaring + 1
    /\ UNCHANGED << rpcUp, status, openIncidents, declared, failures, worker,
                    currentNonce, crashes, chainVars >>

RouteDeclares ==
    /\ declaring > 0
    /\ declaring' = declaring - 1
    /\ Declare
    /\ UNCHANGED << rpcUp, status, failures, worker, currentNonce, crashes, chainVars >>

NetworkChange ==
    /\ StableCycles => worker.pc = "idle"
    /\ rpcUp' = ~rpcUp
    /\ UNCHANGED << status, incidentVars, failures, worker, currentNonce, crashes,
                    chainVars >>

\* Memory is lost, the databases and the chain are not.
Crash ==
    /\ crashes < MaxCrashes
    /\ crashes' = crashes + 1
    /\ worker' = Idle
    /\ currentNonce' = NoNonce
    /\ failures' = 0
    /\ declaring' = 0
    /\ UNCHANGED << rpcUp, status, openIncidents, declared, chainVars >>

-----------------------------------------------------------------------------

Resolve ==
    IncidentSend \/ IncidentLogged \/ IncidentReceipt \/ IncidentFails \/ IncidentClose

Anchor ==
    Pick \/ GetNextNonce \/ Send \/ WaitReceipt \/ SaveConfirmed \/ SendFails

Cycle == PingFails \/ WorkerDeclares \/ PingSucceeds \/ Resolve \/ MergeAll \/ Anchor

Next ==
    \/ Cycle \/ Mine \/ CreateBlock
    \/ RouteLooks \/ RouteDeclares
    \/ NetworkChange \/ Crash

Spec == Init /\ [][Next]_vars

\* The timer never stops, an answered call completes, and the chain mines
\* what it can.  The network, the requests and the restarts owe nothing.
FairSpec == Spec /\ WF_vars(Cycle) /\ WF_vars(Mine)

-----------------------------------------------------------------------------
(* Properties *)

\* A block is CONFIRMED only when its root is stored by the contract, whatever
\* was retried, timed out or restarted before.
ConfirmedIsAnchored == \A b \in Blocks : status[b] = "CONFIRMED" => b \in StoredRoots

\* A root is anchored once, also when the receipt of a first transaction is
\* missed and the root is sent again while that transaction is still pending.
AnchoredOnce ==
    \A m, n \in DOMAIN rootHistory :
        rootHistory[m].currentRoot = rootHistory[n].currentRoot => m = n

\* The contract does not compare previousRoot with the root before: that the
\* history links up is the worker's doing, which sends the oldest block of the
\* queue, one at a time.  A restart breaks it: it leaves a block PROCESSING
\* that no cycle picks up again, and its successors are anchored without it.
HistoryIsLinked ==
    crashes = 0 => \A n \in DOMAIN rootHistory :
        rootHistory[n].previousRoot = IF n = 1 THEN 0 ELSE rootHistory[n - 1].currentRoot

\* An incident that is no longer OPEN in the database has its failure and its
\* recovery on the chain, whichever cycle, retry or restart put them there.
ClosedIncidentIsLogged ==
    \A i \in 1 .. declared : i \notin openIncidents => incidentLog[i] = "CLOSED"

\* A restart is the only way to leave a block PROCESSING behind: otherwise it
\* is the block of the cycle in progress.
ProcessingIsOwned ==
    crashes = 0 => \A b \in Blocks : status[b] = "PROCESSING" => worker.block = b

\* What the chain itself shows: while its log has a failure without recovery,
\* no root is on its way.  A resolution that fails half way, or is restarted,
\* is finished before the next root, whenever its transactions are mined.
NoRootDuringIncident ==
    (\E i \in Incidents : incidentLog[i] = "OPEN")
        => worker.pc \notin {"nonce", "send", "wait", "save"}

\* With an RPC that answers through whole cycles, no root is ever sent twice: a
\* block waits in the queue only while no transaction of it is stored or pending,
\* whatever was restarted.  (Without it: run sync_lost_receipt.)
QueueIsUnsent ==
    StableCycles => \A b \in Queue :
        b \notin StoredRoots /\ \A t \in mempool : t.kind = "root" => t.of # b

\* With such an RPC the cached nonce never runs ahead of the account, although it
\* counts up when a send fails and ignores the transactions of incidents: every
\* nonce before that of a pending transaction is pending or mined.
NonceGapFree ==
    StableCycles => \A t \in mempool :
        \A n \in AccountNonce .. t.nonce : \E u \in mempool : u.nonce = n

\* Once the RPC is back for good every block of MAIN is confirmed: the cached
\* nonce, left behind by the transactions of an incident, catches up.  Needs
\* an RPC that does not fail within a cycle, and no restart.
BlocksConfirmed ==
    <>[]rpcUp => \A b \in Blocks : status[b] = "PENDING" ~> status[b] = "CONFIRMED"

\* ... and every incident is resolved.
IncidentsResolved ==
    <>[]rpcUp => \A i \in Incidents : i \in openIncidents ~> i \notin openIncidents

\* What API_Reference.md says of step 4 of a cycle: sendMerkleRoot, on-chain
\* TX, block CONFIRMED.  A root that is on the chain has a CONFIRMED block.
AnchoredIsConfirmed ==
    <>[]rpcUp => \A b \in Blocks : b \in StoredRoots ~> status[b] = "CONFIRMED"

-----------------------------------------------------------------------------
(* The pipeline implements the abstract log of anchors *)

StageOf(b) ==
    CASE status[b] = "NONE" -> "new"
      [] status[b] = "CONFIRMED" -> "confirmed"
      [] OTHER -> "waiting"

OutageOf(i) ==
    IF i > declared THEN "none"
    ELSE IF i \notin openIncidents THEN "closed"
    ELSE CASE incidentLog[i] = "NONE" -> "declared"
           [] incidentLog[i] = "OPEN" -> "failed"
           [] incidentLog[i] = "CLOSED" -> "recovered"

Stage == [b \in Blocks |-> StageOf(b)]
RootLog == [n \in DOMAIN rootHistory |-> rootHistory[n].currentRoot]
Outage == [i \in Incidents |-> OutageOf(i)]

Anchors == INSTANCE AnchorLog WITH
    Outages <- Incidents, stage <- Stage, log <- RootLog, outage <- Outage

\* Every step of the worker, the requests and the chain is a step of the log of
\* anchors or leaves it unchanged: whatever fails, is retried or restarted, no
\* block is confirmed before its root is logged, none is unconfirmed or logged
\* twice, and the outages, of which two overlapping declarations may leave several
\* open, are logged and closed one after the other.
ImplementsAnchorLog == Anchors!Spec

=============================================================================
