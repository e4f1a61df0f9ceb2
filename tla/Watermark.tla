------------------------------ MODULE Watermark ------------------------------
(****************************************************************************)
(* WotsWatermarkStore (packages/wots-lease/src/watermark.ts) as operators   *)
(* on one tree's allocation state.                                          *)
(*                                                                          *)
(* A slot is the flat index of a (addressIndex, l1, l2) triple.  A watermark *)
(* is the record TreeWatermark without the reasons and timestamps, which no *)
(* decision of the code reads: a cursor below which everything is taken,    *)
(* and the slots taken one by one.                                          *)
(*                                                                          *)
(* Definitions named Bug... are faulty variants: replacing the definition   *)
(* after them by one must break a property, which shows it can be broken.   *)
(****************************************************************************)
EXTENDS Integers, FiniteSets

CONSTANT Capacity      \* CAPACITY_PER_TREE: 64^3 in the code

ASSUME CapacityAssumption == Capacity \in Nat \ {0}

Slots == 0 .. Capacity - 1
Watermarks == [cursor : Slots, unavailable : SUBSET Slots]

emptyTree == [cursor |-> 0, unavailable |-> {}]

\* The slots getNextIndices walks over without skipping: at or above the
\* cursor and not marked.
Allocatable(w) == {s \in Slots : s >= w.cursor /\ s \notin w.unavailable}

\* getNextIndices throws WatermarkExhaustedError when nothing is allocatable.
Exhausted(w) == Allocatable(w) = {}

getNextIndices(w) ==
  CHOOSE s \in Allocatable(w) : \A t \in Allocatable(w) : s <= t

isUnavailable(w, s) == s < w.cursor \/ s \in w.unavailable

BugPastTheEnd(w, s) ==
  [cursor |-> IF s + 1 > w.cursor THEN s + 1 ELSE w.cursor,
   unavailable |-> w.unavailable \cup {s}]

\* Marking slot s moves the cursor just past s when that is forward.  The last
\* slot has no successor (nextIndices returns null): the cursor stays and only
\* the unavailable map records it.
markUnavailable(w, s) ==
  [cursor |-> IF s + 1 \in Slots /\ s + 1 > w.cursor THEN s + 1 ELSE w.cursor,
   unavailable |-> w.unavailable \cup {s}]

BugTakesStored(a, b) == [cursor |-> b.cursor, unavailable |-> a.unavailable \cup b.unavailable]

\* Monotonic merge of the provider's state with the stored one.
mergeWatermarkState(a, b) ==
  [cursor |-> IF b.cursor > a.cursor THEN b.cursor ELSE a.cursor,
   unavailable |-> a.unavailable \cup b.unavailable]

\* migrateToV3: what a state of release 1 or 2 becomes, given its next slot and the slots
\* it lists as used.  Release 2 kept one cursor per address, so the highest slot it
\* names becomes the cursor.
migrateToV3(version, next, used) ==
  [cursor |-> IF version = 1 THEN next
              ELSE CHOOSE s \in used \cup {next} : \A t \in used \cup {next} : t <= s,
   unavailable |-> used]

\* save() with a cursor patch; the caller has checked that it moves forward.
saveCursor(w, c) == [w EXCEPT !.cursor = c]

\* seed() refuses a seed behind the cursor unless the caller allows regression.
seedAllowed(w, c, regress) == regress \/ c >= w.cursor

seed(w, c, u) == [cursor |-> c, unavailable |-> w.unavailable \cup u]
==============================================================================
