---------------------------- MODULE MCOmniaChannel ----------------------------
(* Instances of OmniaChannel for TLC. *)
EXTENDS OmniaChannel, TLC

Symmetry == Permutations(Tasks)
==============================================================================
