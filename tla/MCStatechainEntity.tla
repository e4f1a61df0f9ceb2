-------------------------- MODULE MCStatechainEntity --------------------------
(* Instances of StatechainEntity for TLC. *)
EXTENDS StatechainEntity, TLC

Symmetry == Permutations(Parties) \cup Permutations(Reqs) \cup Permutations(Nonces)
==============================================================================
