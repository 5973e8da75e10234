---------------------------- MODULE MCLocalChain ----------------------------
(* Instances of LocalChain for TLC. *)
EXTENDS LocalChain, TLC

CONSTANTS i1, i2, r1, r2

Symmetry == Permutations(Incidents)

\* SQLite loses nothing: for runs whose properties do not depend on it.
RowsKept == \A b \in 1 .. (nextBatch - 1) : rows[b] = BatchSize

\* The outage is over when its incident is closed: what is left are the worker,
\* the admin and the requests, interleaved at their awaits.
OneOutage == RowsKept /\ (incident[i1].status = "CLOSED" => networkUp)

\* One request creates batches and recovers blocks, the other creates batches
\* and decides on blocks: every two handlers overlap, but not two recovers or
\* two decisions.
TwoHandlers ==
    /\ OneOutage
    /\ request[r1].status = "NONE"
    /\ request[r2].pc \in {"idle", "declare", "tail", "stage", "append", "decide"}

\* One epoch holds every batch: the shortest epoch in which a recover stops
\* its cascade at a TAMPERED block and leaves another block behind it.  SQLite
\* may lose the events of the first batch.
FullEpoch ==
    /\ main # << >> => incident[i1].status = "CLOSED"
    /\ incident[i1].status = "CLOSED" => nextBatch = MaxBatches + 1
    /\ \A b \in 2 .. (nextBatch - 1) : rows[b] = BatchSize

=============================================================================
