-------------------------- MODULE MCGovernedAction --------------------------
(* Instances of GovernedAction for TLC. *)
EXTENDS GovernedAction, TLC

CONSTANTS c1, c2, c3, o1, k1

\* A request, its retry, and another request, all for one operation.
SomeOps == (c1 :> o1) @@ (c2 :> o1) @@ (c3 :> o1)
SomeKeys == (c1 :> k1) @@ (c2 :> k1) @@ (c3 :> NoKey)
==============================================================================
