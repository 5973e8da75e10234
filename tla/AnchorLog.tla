------------------------------ MODULE AnchorLog ------------------------------
(***************************************************************************)
(* What the anchoring pipeline promises, without workers, transactions,    *)
(* nonces, retries and restarts: blocks are created in order, the chain    *)
(* logs each of them at most once, and a block is confirmed after it is    *)
(* logged.  Outages are declared in order, several may stand side by side, *)
(* but they are logged one after the other: the failure, the recovery,     *)
(* closed, and only then the failure of the next.                          *)
(***************************************************************************)
EXTENDS Naturals, Sequences

CONSTANTS Blocks, Outages

VARIABLES
    stage,   \* of each block: "new", "waiting" or "confirmed"
    log,     \* the blocks whose roots the chain has, in order
    outage   \* of each outage: how far it is

vars == << stage, log, outage >>

OnLog == { log[n] : n \in DOMAIN log }

Init ==
    /\ stage = [b \in Blocks |-> "new"]
    /\ log = << >>
    /\ outage = [i \in Outages |-> "none"]

Create(b) ==
    /\ stage[b] = "new"
    /\ \A a \in Blocks : a < b => stage[a] # "new"
    /\ stage' = [stage EXCEPT ![b] = "waiting"]
    /\ UNCHANGED << log, outage >>

\* The chain logs a block that waits, also one that was given up on.
Log(b) ==
    /\ stage[b] = "waiting" /\ b \notin OnLog
    /\ log' = Append(log, b)
    /\ UNCHANGED << stage, outage >>

Confirm(b) ==
    /\ stage[b] = "waiting" /\ b \in OnLog
    /\ stage' = [stage EXCEPT ![b] = "confirmed"]
    /\ UNCHANGED << log, outage >>

Declare(i) ==
    /\ outage[i] = "none"
    /\ \A j \in Outages : j < i => outage[j] # "none"
    /\ outage' = [outage EXCEPT ![i] = "declared"]
    /\ UNCHANGED << stage, log >>

\* The failure is logged once every earlier outage is closed.
Fails(i) ==
    /\ outage[i] = "declared"
    /\ \A j \in Outages : j < i => outage[j] = "closed"
    /\ outage' = [outage EXCEPT ![i] = "failed"]
    /\ UNCHANGED << stage, log >>

\* Then the recovery is logged, then the outage is closed.
Proceeds(i, from, to) ==
    /\ outage[i] = from
    /\ outage' = [outage EXCEPT ![i] = to]
    /\ UNCHANGED << stage, log >>

Next ==
    \/ \E b \in Blocks : Create(b) \/ Log(b) \/ Confirm(b)
    \/ \E i \in Outages :
          \/ Declare(i)
          \/ Fails(i)
          \/ Proceeds(i, "failed", "recovered")
          \/ Proceeds(i, "recovered", "closed")

Spec == Init /\ [][Next]_vars

=============================================================================
