------------------------------ MODULE MCPurchase ------------------------------
(* Instances of Purchase for TLC. *)
EXTENDS Purchase
==============================================================================
