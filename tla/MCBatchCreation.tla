--------------------------- MODULE MCBatchCreation ---------------------------
(* Instances of BatchCreation for TLC. *)
EXTENDS BatchCreation, TLC

CONSTANTS r1, r2

Symmetry == Permutations(Requests)

\* Requests that overlap make most of the states: two events at two times are
\* enough for them, and restarts are left to the other schedules.
Smaller == schedule = "concurrent" => Len(events) <= 2 /\ clock <= 2 /\ crashes = 0

=============================================================================
