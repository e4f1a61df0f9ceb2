--------------------------- MODULE MCLeaseQuorum ---------------------------
(* Instances of LeaseQuorum for TLC. *)
EXTENDS LeaseQuorum, TLC

AllPeers == [d \in Devices |-> Peers]
OneController == [d \in Devices |-> "key"]
OwnController == [d \in Devices |-> d]

\* Peers are alike, and so are reservations where all or none are settled.
Symmetry == Permutations(Peers) \cup Permutations(Rids)
==============================================================================
