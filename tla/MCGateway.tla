------------------------------ MODULE MCGateway ------------------------------
(* Instances of Gateway for TLC. *)
EXTENDS Gateway, FiniteSets, TLC

CONSTANTS h1, h2, o1, m1, m2

Symmetry == Permutations(Handlers)

\* Identities and the buffer share nothing but the process: each is explored
\* while the other is untouched.  Requests that overlap are about two DIDs.
Smaller ==
    /\ accepted = 0 \/ created = {}
    /\ overlap => Cardinality(created) <= 2

=============================================================================
