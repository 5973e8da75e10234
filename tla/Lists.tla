-------------------------------- MODULE Lists --------------------------------
(* The arrays of an identity store, and what findIndex and splice do. *)
EXTENDS Naturals, Sequences

Elements(s) == { s[i] : i \in DOMAIN s }

\* findIndex(item => item.did === did)
IndexOf(s, did) == CHOOSE i \in DOMAIN s : s[i] = did /\ \A j \in DOMAIN s : s[j] = did => i <= j

\* splice(index, 1)
Without(s, index) ==
    [ i \in 1 .. Len(s) - 1 |-> IF i < index THEN s[i] ELSE s[i + 1] ]

=============================================================================
