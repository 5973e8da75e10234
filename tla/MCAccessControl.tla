--------------------------- MODULE MCAccessControl ---------------------------
(* Instances of AccessControl for TLC. *)
EXTENDS AccessControl, TLC

CONSTANTS h1, h2, o1, m1, f1, root, admin, weld, paint

\* Attempts with permits of the platform root, with its first and its second
\* key, and of a local admin; of a foreign operator; with a permit that is
\* forged, without actions, or someone else's.
MCAttempts ==
    LET Permit1 == [ issuer |-> root, key |-> 1, genuine |-> TRUE, holder |-> o1,
                     machine |-> m1, actions |-> {weld} ]
        Foreign1 == [Permit1 EXCEPT !.holder = f1, !.actions = {paint}]
        ByOperator(permit, action) ==
            [permit |-> permit, operator |-> o1, machine |-> m1, action |-> action]
    IN  { ByOperator(Permit1, weld),
          ByOperator([Permit1 EXCEPT !.key = 2], weld),
          ByOperator([Permit1 EXCEPT !.issuer = admin], weld),
          ByOperator([Permit1 EXCEPT !.genuine = FALSE], weld),
          ByOperator([Permit1 EXCEPT !.actions = Undefined], weld),
          ByOperator(Foreign1, paint),
          [ByOperator(Foreign1, paint) EXCEPT !.operator = f1] }

\* An event posted for an operator and an action no permit for the machine names.
MCPosts == { [operatorDid |-> f1, deviceDid |-> m1, action |-> weld] }

Symmetry == Permutations(Handlers)

\* Identities share nothing with trust and cache but the document they are in:
\* all DIDs while the others are untouched, one machine when they are not.
Identities ==
    /\ trusted = {} /\ (\A i \in Issuers : cached[i] = << >>) /\ attempts = 0
    /\ \A i \in Issuers : key[i] = 1
    /\ \A h \in Handlers : ~Caching(h)

Performing(h) == pc[h] \in {"chain", "machine", "verify", "offline", "issuer", "grant", "deny"}

Permissions ==
    /\ created \subseteq {m1}
    /\ \A h \in Handlers : pc[h] \notin {"find", "create", "push"}
    /\ key[admin] = 1

NonePosted == \A i \in DOMAIN sources : sources[i] # Posted

\* An attempt that has ended has shown what it can; events are posted around the
\* event it records, before it and after.
Attempting ==
    /\ \E h \in Handlers : Performing(h)
    /\ ~overlap /\ crashes = 0 /\ refreshed[admin] = 0
    /\ NonePosted \/ \E h \in Handlers : pc[h] = "grant"

Smaller ==
    \/ (Identities /\ NonePosted)
    \/ (Permissions /\ ((attempts = 0 /\ NonePosted) \/ Attempting))

=============================================================================
