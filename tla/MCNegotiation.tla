---------------------------- MODULE MCNegotiation ----------------------------
(* Instances of Negotiation for TLC. *)
EXTENDS Negotiation

One == {"h1"}
Two == {"h1", "h2"}

\* The buyer's loop beside one handler, and two handlers of the seller.
Few == [s \in Sides |-> IF s = "seller" THEN Two ELSE One]
==============================================================================
