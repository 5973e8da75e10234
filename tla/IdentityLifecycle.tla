--------------------------- MODULE IdentityLifecycle ---------------------------
(***************************************************************************)
(* What the identity routes promise of a DID: it is registered as PENDING, *)
(* an approval makes it ACTIVE, and it stays so.  AccessControl implements *)
(* this with one shared document that every request reads and writes back. *)
(***************************************************************************)
CONSTANTS Dids

VARIABLES status

Init == status = [d \in Dids |-> "none"]

Register(d) ==
    /\ status[d] = "none"
    /\ status' = [status EXCEPT ![d] = "PENDING"]

Approve(d) ==
    /\ status[d] = "PENDING"
    /\ status' = [status EXCEPT ![d] = "ACTIVE"]

Next == \E d \in Dids : Register(d) \/ Approve(d)

Spec == Init /\ [][Next]_status

=============================================================================
