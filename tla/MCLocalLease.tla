---------------------------- MODULE MCLocalLease ----------------------------
(* Instances of LocalLease for TLC. *)
EXTENDS LocalLease, TLC

\* Providers built on one adapter object, in one process.
OneAdapter == [p \in Providers |-> CHOOSE a \in Adapters : TRUE]

\* Providers built on an adapter object each, in processes of their own.
OwnAdapter == [p \in Providers |-> p]

Anywhere == {Slots}
LowerHalf == {Slots, {s \in Slots : 2 * s < Capacity}}

NoLegacy == {[r \in Rids |-> NoLease]}

\* At most one lease of a release without journal, in any status; an active one with or
\* without a tree id, which nothing reads of the others.
LegacyLease(status, tree) == [slot |-> 0, status |-> status, tree |-> tree]
SomeLegacy ==
  NoLegacy \cup
    {[r \in Rids |-> IF r = CHOOSE x \in Rids : TRUE THEN LegacyLease(st, t) ELSE NoLease] :
       <<st, t>> \in {<<"active", TRUE>>} \cup (LeaseStatuses \X {FALSE})}

NoMarks == {emptyTree}

\* Watermarks of release 1 and 2 that list a slot ahead of their next one as used.
SomeMarks == {emptyTree, migrateToV3(1, 0, {1}), migrateToV3(2, 0, {1})}

\* Where no constant singles out one of them.
ProvidersAlike == Permutations(Providers)
Symmetry == ProvidersAlike \cup Permutations(Rids) \cup Permutations(Txs)
==============================================================================
