----------------------------- MODULE AuditLedger -----------------------------
(***************************************************************************)
(* What the two-tier chain promises about a batch of audit events, without *)
(* blocks, roots, signatures or the worker: a batch goes to the ledger     *)
(* (MAIN) at once, or is staged in the epoch of an outage; a staged batch  *)
(* reaches the ledger only when nothing of its epoch is quarantined and    *)
(* after every earlier batch of the epoch; a quarantined batch waits for a *)
(* decision; a rejected batch reaches the ledger only after it was         *)
(* quarantined again and restored; nothing that was accepted is lost and   *)
(* nothing leaves the ledger.  The one way out of these promises is that   *)
(* two parties act on a batch at once (Contest): of a contested batch only *)
(* this remains, that it reaches the ledger at most once and stays there.  *)
(***************************************************************************)
EXTENDS Naturals, Sequences

CONSTANTS Batches, Epochs

VARIABLES
    fate,   \* where each batch is
    ledger  \* the batches of the ledger in order

New == <<"new">>
Ledgered == <<"ledgered">>
Rejected == <<"rejected">>
Contested == <<"contested">>
Staged(e) == <<"staged", e>>
Quarantined(e) == <<"quarantined", e>>

Init ==
    /\ fate = [b \in Batches |-> New]
    /\ ledger = << >>

Append1(b) == ledger' = Append(ledger, b)
Becomes(b, f) == fate' = [fate EXCEPT ![b] = f]

\* A new batch goes straight to the ledger.
Record(b) == fate[b] = New /\ Becomes(b, Ledgered) /\ Append1(b)

\* A new batch is staged in epoch e.
Stage(b, e) == fate[b] = New /\ Becomes(b, Staged(e)) /\ UNCHANGED ledger

\* A batch of epoch e is found to be damaged: a staged one, or one that was
\* rejected since the same damage was last reported.
Quarantine(b, e) ==
    fate[b] \in {Staged(e), Rejected} /\ Becomes(b, Quarantined(e)) /\ UNCHANGED ledger

\* A quarantined batch is rebuilt, or given up.
Restore(b, e) == fate[b] = Quarantined(e) /\ Becomes(b, Staged(e)) /\ UNCHANGED ledger
Reject(b, e) == fate[b] = Quarantined(e) /\ Becomes(b, Rejected) /\ UNCHANGED ledger

\* The oldest batch of a clean epoch moves to the ledger.
Publish(b, e) ==
    /\ fate[b] = Staged(e)
    /\ \A a \in Batches : fate[a] # Quarantined(e) /\ (fate[a] = Staged(e) => b <= a)
    /\ Becomes(b, Ledgered) /\ Append1(b)

\* Somebody writes a batch that is not on the ledger by what is not so any more.
Contest(b) ==
    fate[b] \notin {Ledgered, Contested} /\ Becomes(b, Contested) /\ UNCHANGED ledger

\* A contested batch reaches the ledger.
PublishContested(b) == fate[b] = Contested /\ Becomes(b, Ledgered) /\ Append1(b)

\* Every step decides the fate of a batch.
Next ==
    /\ fate' # fate
    /\ \/ \E b \in Batches : Record(b) \/ Contest(b) \/ PublishContested(b)
       \/ \E b \in Batches, e \in Epochs :
             Stage(b, e) \/ Quarantine(b, e) \/ Restore(b, e) \/ Reject(b, e) \/ Publish(b, e)

Spec == Init /\ [][Next]_<< fate, ledger >>

=============================================================================
