---------------------------- MODULE SlotAllocator ----------------------------
(****************************************************************************)
(* What a lease provider promises its callers (WotsLeaseProvider in         *)
(* packages/wots-lease/src/types.ts), with everything that keeps the promise *)
(* left out: a reservation is a slot nobody else was given, and a           *)
(* reservation is committed with one transaction only.                      *)
(****************************************************************************)
CONSTANTS
  Slots,   \* one-time slots of the tree
  Rids,    \* reservation ids
  Txs      \* transaction ids

VARIABLES
  granted,   \* reservations returned to callers
  acked      \* commits acknowledged to callers

Init == granted = {} /\ acked = {}

\* reserveKeyUse and reserveSpecificKeyUse return.
Grant(r, s) ==
  /\ \A g \in granted : g.rid # r /\ g.slot # s
  /\ granted' = granted \cup {[rid |-> r, slot |-> s]}
  /\ UNCHANGED acked

\* commitKeyUse returns.
Commit(r, tx) ==
  /\ \A c \in acked : c.rid = r => c.tx = tx
  /\ acked' = acked \cup {[rid |-> r, tx |-> tx]}
  /\ UNCHANGED granted

Next == \E r \in Rids : (\E s \in Slots : Grant(r, s)) \/ (\E tx \in Txs : Commit(r, tx))

Spec == Init /\ [][Next]_<<granted, acked>>
==============================================================================
