----------------------- MODULE GovernedActionProofs -----------------------
(****************************************************************************)
(* Proofs about GovernedAction for any number of calls, operations, host    *)
(* jobs, limits and crashes.                                                *)
(****************************************************************************)
EXTENDS GovernedAction, FiniteSetTheorems, TLAPS

------------------------------------------------------------------------------
(* Counting reservations. *)

Having(f, S) == {c \in Calls : f[c] \in S}

\* The calls whose status is of one kind are finitely many, at most all.
LEMMA HavingFinite ==
  ASSUME NEW f, NEW S
  PROVE  /\ IsFiniteSet(Having(f, S))
         /\ Cardinality(Having(f, S)) \in 0 .. Cardinality(Calls)
  <1>1. Having(f, S) \subseteq Calls /\ IsFiniteSet(Calls)
    BY GovernedAssumption DEF Having
  <1>2. /\ IsFiniteSet(Having(f, S))
        /\ Cardinality(Having(f, S)) <= Cardinality(Calls)
    BY <1>1, FS_Subset, Zenon
  <1>3. Cardinality(Having(f, S)) \in Nat /\ Cardinality(Calls) \in Nat
    BY <1>1, <1>2, FS_CardinalityType, Zenon
  <1> QED
    BY <1>2, <1>3

\* A call whose status enters the kind adds one to the count.
LEMMA CountEnters ==
  ASSUME NEW f, NEW g, NEW S, NEW c \in Calls,
         \A d \in Calls \ {c} : g[d] = f[d],
         f[c] \notin S, g[c] \in S
  PROVE  Cardinality(Having(g, S)) = Cardinality(Having(f, S)) + 1
  <1>1. Having(g, S) = Having(f, S) \cup {c} /\ c \notin Having(f, S)
    BY DEF Having
  <1> QED
    BY <1>1, HavingFinite, FS_AddElement, Zenon

\* A call whose status leaves the kind takes one away, and there was one.
LEMMA CountLeaves ==
  ASSUME NEW f, NEW g, NEW S, NEW c \in Calls,
         \A d \in Calls \ {c} : g[d] = f[d],
         f[c] \in S, g[c] \notin S
  PROVE  Cardinality(Having(g, S)) = Less(Cardinality(Having(f, S)))
  <1>1. Cardinality(Having(f, S)) = Cardinality(Having(g, S)) + 1
    BY CountEnters
  <1>2. Cardinality(Having(f, S)) \in Nat /\ Cardinality(Having(g, S)) \in Nat
    BY HavingFinite, GovernedAssumption
  <1> QED
    BY <1>1, <1>2 DEF Less

\* Otherwise the count stays.
LEMMA CountStays ==
  ASSUME NEW f, NEW g, NEW S, \A d \in Calls : g[d] \in S <=> f[d] \in S
  PROVE  Cardinality(Having(g, S)) = Cardinality(Having(f, S))
  <1>1. Having(g, S) = Having(f, S)
    BY DEF Having
  <1> QED
    BY <1>1

Holding == Reserved \cup {"unknown"}

\* The three counters, as counts of kinds of status.
LEMMA AccountsAsCounts ==
  TotalsAccounted <=>
    /\ totals.committed = Cardinality(Having(resv, {"committed"}))
    /\ totals.reserved = Cardinality(Having(resv, Holding))
    /\ totals.aborted = Cardinality(Having(resv, {"aborted"}))
  <1>1. \A x : x \in {"committed"} <=> x = "committed"
    OBVIOUS
  <1>2. \A x : x \in {"aborted"} <=> x = "aborted"
    OBVIOUS
  <1> QED
    BY <1>1, <1>2, Zenon DEF TotalsAccounted, Having, Holding

\* Reserving, charging, releasing and marking as unknown keep the account.
LEMMA AccountKept ==
  ASSUME IndInv, NEW c \in Calls, NEW x,
         resv' = [resv EXCEPT ![c] = x],
         \/ resv[c] = "none" /\ x = "reserved" /\ totals' = [totals EXCEPT !.reserved = @ + 1]
         \/ resv[c] \in Holding /\ x = "committed" /\ Charge
         \/ resv[c] \in Holding /\ x = "aborted" /\ Free
         \/ resv[c] \in Holding /\ x \in Holding /\ UNCHANGED totals
         \/ x = resv[c] /\ UNCHANGED totals
  PROVE  TotalsAccounted'
  <1> DEFINE N(f, S) == Cardinality(Having(f, S))
             C == {"committed"}
             A == {"aborted"}
  <1>0. /\ resv \in [Calls -> ResvStates]
        /\ resv'[c] = x /\ \A d \in Calls \ {c} : resv'[d] = resv[d]
        /\ totals \in [committed : 0 .. Cardinality(Calls), reserved : 0 .. Cardinality(Calls),
                       aborted : 0 .. Cardinality(Calls)]
    BY DEF IndInv, TypeOK
  <1>1. /\ totals.committed = N(resv, C) /\ totals.reserved = N(resv, Holding)
        /\ totals.aborted = N(resv, A)
    BY AccountsAsCounts DEF IndInv
  <1>2. N(resv, C) \in Nat /\ N(resv, Holding) \in Nat /\ N(resv, A) \in Nat
    BY HavingFinite
  <1>8. \A d \in Calls \ {c} : resv'[d] = resv[d]
    BY <1>0
  <1>9. /\ \A y : y \in C <=> y = "committed"
        /\ \A y : y \in A <=> y = "aborted"
        /\ "none" \notin Holding /\ "reserved" \in Holding
        /\ "committed" \notin Holding /\ "aborted" \notin Holding
        /\ resv'[c] = x /\ "committed" # "aborted" /\ "none" \notin C \cup A
    BY <1>0 DEF Holding, Reserved
  <1> HIDE DEF C, A
  <1> SUFFICES /\ totals'.committed = N(resv', C) /\ totals'.reserved = N(resv', Holding)
               /\ totals'.aborted = N(resv', A)
    BY <1>9, Zenon DEF TotalsAccounted, Having, Holding
  <1>3. CASE resv[c] = "none" /\ x = "reserved" /\ totals' = [totals EXCEPT !.reserved = @ + 1]
    <2>1. N(resv', Holding) = N(resv, Holding) + 1
      <3>1. resv[c] \notin Holding /\ resv'[c] \in Holding
        BY <1>9, <1>3
      <3> QED
        BY <1>8, <3>1, CountEnters, Zenon
    <2>2. N(resv', C) = N(resv, C) /\ N(resv', A) = N(resv, A)
      <3>1. /\ \A d \in Calls : resv'[d] \in C <=> resv[d] \in C
            /\ \A d \in Calls : resv'[d] \in A <=> resv[d] \in A
        <4>1. /\ resv'[c] = "committed" <=> resv[c] = "committed"
              /\ resv'[c] = "aborted" <=> resv[c] = "aborted"
          BY <1>9, <1>3 DEF Holding, Reserved
        <4> QED
          BY <1>8, <1>9, <4>1, Zenon
      <3> QED
        BY <3>1, CountStays, Zenon
    <2> HIDE DEF N
    <2> QED
      BY <1>0, <1>1, <1>3, <2>1, <2>2
  <1>4. CASE resv[c] \in Holding /\ x = "committed" /\ Charge
    <2>1. N(resv', Holding) = Less(N(resv, Holding))
      BY <1>8, <1>9, <1>4, CountLeaves, Zenon
    <2>2. N(resv', C) = N(resv, C) + 1
      BY <1>8, <1>9, <1>4, CountEnters, Zenon
    <2>3. N(resv', A) = N(resv, A)
      BY <1>8, <1>9, <1>4, CountStays, Zenon
    <2> HIDE DEF N
    <2> QED
      BY <1>0, <1>1, <1>4, <2>1, <2>2, <2>3 DEF Charge
  <1>5. CASE resv[c] \in Holding /\ x = "aborted" /\ Free
    <2>1. N(resv', Holding) = Less(N(resv, Holding))
      BY <1>8, <1>9, <1>5, CountLeaves, Zenon
    <2>2. N(resv', A) = N(resv, A) + 1
      BY <1>8, <1>9, <1>5, CountEnters, Zenon
    <2>3. N(resv', C) = N(resv, C)
      BY <1>8, <1>9, <1>5, CountStays, Zenon
    <2> HIDE DEF N
    <2> QED
      BY <1>0, <1>1, <1>5, <2>1, <2>2, <2>3 DEF Free
  <1>6. CASE /\ (resv[c] \in Holding /\ x \in Holding) \/ x = resv[c]
             /\ UNCHANGED totals
    <2>1. N(resv', Holding) = N(resv, Holding)
      <3>1. \A d \in Calls : resv'[d] \in Holding <=> resv[d] \in Holding
        BY <1>8, <1>9, <1>6
      <3> QED
        BY <3>1, CountStays, Zenon
    <2>2. N(resv', C) = N(resv, C) /\ N(resv', A) = N(resv, A)
      <3>1. /\ \A d \in Calls : resv'[d] \in C <=> resv[d] \in C
            /\ \A d \in Calls : resv'[d] \in A <=> resv[d] \in A
        <4>1. /\ resv'[c] = "committed" <=> resv[c] = "committed"
              /\ resv'[c] = "aborted" <=> resv[c] = "aborted"
          BY <1>9, <1>6 DEF Holding, Reserved
        <4> QED
          BY <1>8, <1>9, <4>1, Zenon
      <3> QED
        BY <3>1, CountStays, Zenon
    <2> HIDE DEF N
    <2> QED
      BY <1>0, <1>1, <1>6, <2>1, <2>2
  <1> QED
    BY <1>3, <1>4, <1>5, <1>6

\* Counters that account for the reservations have their type.
LEMMA AccountTyped ==
  ASSUME TotalsAccounted,
         \E a, b, d : totals = [committed |-> a, reserved |-> b, aborted |-> d]
  PROVE  totals \in [committed : 0 .. Cardinality(Calls), reserved : 0 .. Cardinality(Calls),
                     aborted : 0 .. Cardinality(Calls)]
  <1>1. /\ totals.committed \in 0 .. Cardinality(Calls)
        /\ totals.reserved \in 0 .. Cardinality(Calls)
        /\ totals.aborted \in 0 .. Cardinality(Calls)
    BY AccountsAsCounts, HavingFinite
  <1> QED
    BY <1>1

------------------------------------------------------------------------------
(* The steps.  Core is the invariant without the counters. *)

Shape ==
  /\ nonces \subseteq {KeyOf[c] : c \in Calls}
  /\ resv \in [Calls -> ResvStates]
  /\ oprec \in [Ops -> {"none", "in-flight", "pending"} \cup Terminal]
  /\ call \in [Calls -> CallStates] /\ job \in [Jobs -> JobStates]
  /\ async \subseteq Ops /\ sent \in [Ops -> SUBSET Calls]
  /\ device \in [Ops -> {"idle", "running", "done", "failed"}] /\ reported \subseteq Ops
  /\ crashes \in 0 .. MaxCrashes

Core == Shape /\ OneEngaged /\ FollowsDevice /\ ReleasedUnsent /\ ReservesOnce

\* A step of one call leaves the others where they are.
Moved(c) == call' \in [Calls -> CallStates] /\ \A d \in Calls \ {c} : call'[d] = call[d]

Pcs == {"start", "nonce", "reserve", "claim", "actuate", "wait", "record", "commit", "abort", "end"}

\* A call that goes on keeps its result.
LEMMA GotoMoves ==
  ASSUME Shape, NEW c \in Calls, NEW p \in Pcs, Goto(c, p)
  PROVE  Moved(c) /\ call'[c].pc = p /\ call'[c].result = call[c].result
  BY DEF Shape, Goto, Moved, Pcs, CallStates

\* A call ends.
LEMMA EndMoves ==
  ASSUME Shape, NEW c \in Calls, End(c)
  PROVE  Moved(c) /\ call'[c].pc = "end"
  BY DEF Shape, End, Over, At, Moved, CallStates

\* A call has a result to record.
LEMMA RecordMoves ==
  ASSUME Shape, NEW c \in Calls,
         NEW r \in {"pending", "confirmed", "failed", "charged"}, Record(c, r)
  PROVE  Moved(c) /\ call'[c].pc = "record" /\ call'[c].result = r
  BY DEF Shape, Record, Moved, CallStates

\* A settled call charges only a result that was dispatched and releases only a
\* synchronous one.
LEMMA SettleMoves ==
  ASSUME Shape, NEW c \in Calls, NEW r, SettleAs(c, r)
  PROVE  /\ Moved(c) /\ call'[c].pc \in {"commit", "abort", "end"}
         /\ call'[c].pc = "commit" => r \in {"confirmed", "charged"}
         /\ call'[c].pc = "abort" => OpOf[c] \notin async
  <1>1. Disposition(OpOf[c], r) \in {"commit", "abort", "end"}
    BY DEF Disposition
  <1>2. /\ Disposition(OpOf[c], r) = "commit" => r \in {"confirmed", "charged"}
        /\ Disposition(OpOf[c], r) = "abort" => OpOf[c] \notin async
    BY DEF Disposition
  <1>3. call' = [call EXCEPT ![c] = [pc |-> Disposition(OpOf[c], r), room |-> FALSE, result |-> "none"]]
    BY DEF SettleAs, At
  <1> QED
    BY <1>1, <1>2, <1>3 DEF Shape, Moved, CallStates

\* getRun keeps the invariant without the counters.
LEMMA Step_getRun ==
  ASSUME Core, NEW c \in Calls, getRun(c)
  PROVE  Core'
  <1> USE GovernedAssumption
  <1>0. Moved(c) /\ call'[c].pc = "nonce"
    <2>1. WithinLimits(totals) \in BOOLEAN
      BY DEF WithinLimits
    <2>2. call[c] \in CallStates
      BY DEF Core, Shape
    <2>3. call' = [call EXCEPT ![c] = [pc |-> "nonce", room |-> WithinLimits(totals), result |-> "none"]]
      BY DEF getRun
    <2> HIDE DEF WithinLimits
    <2> QED
      BY <2>1, <2>2, <2>3 DEF Core, Shape, Moved, CallStates
  <1>1. Shape'
    BY <1>0 DEF Core, Shape, getRun, store, Moved, Terminal
  <1>2. OneEngaged'
    BY <1>0 DEF Core, Shape, OneEngaged, FollowsDevice, Engaged, getRun, store, Moved, Terminal, Unclaimed
  <1>3. FollowsDevice'
    BY <1>0 DEF Core, Shape, FollowsDevice, Backed, getRun, store, Moved, Terminal
  <1>4. ReleasedUnsent'
    BY <1>0 DEF Core, Shape, ReleasedUnsent, getRun, store, Moved
  <1>5. ReservesOnce'
    BY <1>0 DEF Core, Shape, ReservesOnce, getRun, store, Moved
  <1> QED
    BY <1>1, <1>2, <1>3, <1>4, <1>5 DEF Core

\* claimOperation keeps the invariant without the counters.
LEMMA Step_claimOperation ==
  ASSUME Core, NEW c \in Calls, claimOperation(c)
  PROVE  Core'
  <1> USE GovernedAssumption
  <1>0. /\ Moved(c)
        /\ \/ Unclaimed(OpOf[c]) /\ call'[c].pc = "actuate"
              /\ oprec' = [oprec EXCEPT ![OpOf[c]] = "in-flight"]
           \/ /\ ~Unclaimed(OpOf[c]) /\ oprec' = oprec
              /\ call'[c].pc \in {"commit", "abort", "end"}
              /\ call'[c].pc = "commit" => oprec[OpOf[c]] \in Terminal
              /\ call'[c].pc = "abort" => OpOf[c] \notin async
    <2>1. CASE Unclaimed(OpOf[c]) /\ Goto(c, "actuate") /\ oprec' = [oprec EXCEPT ![OpOf[c]] = "in-flight"]
      BY <2>1, GotoMoves DEF Core, Pcs
    <2>2. CASE ~Unclaimed(OpOf[c]) /\ SettleAs(c, Existing(OpOf[c])) /\ UNCHANGED oprec
      <3>1. Existing(OpOf[c]) \in {"confirmed", "charged"} => oprec[OpOf[c]] \in Terminal
        BY DEF Existing
      <3> QED
        BY <2>2, <3>1, SettleMoves DEF Core
    <2> QED
      BY <2>1, <2>2 DEF claimOperation
  <1>1. Shape'
    BY <1>0 DEF Core, Shape, claimOperation, store, Moved, Terminal
  <1>2. OneEngaged'
    BY <1>0 DEF Core, Shape, OneEngaged, FollowsDevice, Engaged, claimOperation, store, Moved, Terminal, Unclaimed
  <1>3. FollowsDevice'
    BY <1>0 DEF Core, Shape, FollowsDevice, Backed, claimOperation, store, Moved, Terminal
  <1>4. ReleasedUnsent'
    BY <1>0 DEF Core, Shape, ReleasedUnsent, claimOperation, store, Moved
  <1>5. ReservesOnce'
    BY <1>0 DEF Core, Shape, ReservesOnce, claimOperation, store, Moved
  <1> QED
    BY <1>1, <1>2, <1>3, <1>4, <1>5 DEF Core

\* actuate keeps the invariant without the counters.
LEMMA Step_actuate ==
  ASSUME Core, NEW c \in Calls, actuate(c)
  PROVE  Core'
  <1> USE GovernedAssumption
  <1>0. /\ Moved(c) /\ call'[c].pc = "wait" /\ call'[c].result = call[c].result
        /\ sent'[OpOf[c]] = sent[OpOf[c]] \cup {c}
        /\ \A o \in Ops : sent[o] \subseteq sent'[o]
    BY GotoMoves DEF Core, Shape, Pcs, actuate
  <1>1. Shape'
    BY <1>0 DEF Core, Shape, actuate, store, Moved, Terminal
  <1>2. OneEngaged'
    BY <1>0 DEF Core, Shape, OneEngaged, FollowsDevice, Engaged, actuate, store, Moved, Terminal, Unclaimed
  <1>3. FollowsDevice'
    BY <1>0 DEF Core, Shape, FollowsDevice, Backed, actuate, store, Moved, Terminal
  <1>4. ReleasedUnsent'
    BY <1>0 DEF Core, Shape, ReleasedUnsent, actuate, store, Moved
  <1>5. ReservesOnce'
    BY <1>0 DEF Core, Shape, ReservesOnce, actuate, store, Moved
  <1> QED
    BY <1>1, <1>2, <1>3, <1>4, <1>5 DEF Core

\* actuated keeps the invariant without the counters.
LEMMA Step_actuated ==
  ASSUME Core, NEW c \in Calls, actuated(c)
  PROVE  Core'
  <1> USE GovernedAssumption
  <1>0. /\ Moved(c) /\ call'[c].pc = "record"
        /\ call'[c].result \in {"pending", "confirmed"} /\ call[c].pc = "wait"
    BY RecordMoves DEF Core, actuated
  <1>1. Shape'
    BY <1>0 DEF Core, Shape, actuated, store, Moved, Terminal
  <1>2. OneEngaged'
    BY <1>0 DEF Core, Shape, OneEngaged, FollowsDevice, Engaged, actuated, store, Moved, Terminal, Unclaimed
  <1>3. FollowsDevice'
    BY <1>0 DEF Core, Shape, FollowsDevice, Backed, actuated, store, Moved, Terminal
  <1>4. ReleasedUnsent'
    BY <1>0 DEF Core, Shape, ReleasedUnsent, actuated, store, Moved
  <1>5. ReservesOnce'
    BY <1>0 DEF Core, Shape, ReservesOnce, actuated, store, Moved
  <1> QED
    BY <1>1, <1>2, <1>3, <1>4, <1>5 DEF Core

\* notActuated keeps the invariant without the counters.
LEMMA Step_notActuated ==
  ASSUME Core, NEW c \in Calls, notActuated(c)
  PROVE  Core'
  <1> USE GovernedAssumption
  <1>0. /\ Moved(c) /\ call[c].pc = "wait"
        /\ \/ call'[c].pc = "actuate"
           \/ call'[c].pc = "record" /\ call'[c].result \in {"failed", "charged", "confirmed"}
    BY GotoMoves, RecordMoves DEF Core, notActuated, Pcs
  <1>1. Shape'
    BY <1>0 DEF Core, Shape, notActuated, store, Moved, Terminal
  <1>2. OneEngaged'
    BY <1>0 DEF Core, Shape, OneEngaged, FollowsDevice, Engaged, notActuated, store, Moved, Terminal, Unclaimed
  <1>3. FollowsDevice'
    BY <1>0 DEF Core, Shape, FollowsDevice, Backed, notActuated, store, Moved, Terminal
  <1>4. ReleasedUnsent'
    BY <1>0 DEF Core, Shape, ReleasedUnsent, notActuated, store, Moved
  <1>5. ReservesOnce'
    BY <1>0 DEF Core, Shape, ReservesOnce, notActuated, store, Moved
  <1> QED
    BY <1>1, <1>2, <1>3, <1>4, <1>5 DEF Core

\* Throw keeps the invariant without the counters.
LEMMA Step_Throw ==
  ASSUME Core, NEW c \in Calls, Throw(c)
  PROVE  Core'
  <1> USE GovernedAssumption
  <1>0. /\ Moved(c) /\ call'[c].pc \in {"abort", "end"}
        /\ call'[c].pc = "abort" => OpOf[c] \notin async
        /\ call[c].pc \in {"claim", "actuate", "wait", "record", "commit"}
    BY SettleMoves DEF Core, Throw
  <1>1. Shape'
    BY <1>0 DEF Core, Shape, Throw, store, Moved, Terminal
  <1>2. OneEngaged'
    BY <1>0 DEF Core, Shape, OneEngaged, FollowsDevice, Engaged, Throw, store, Moved, Terminal, Unclaimed
  <1>3. FollowsDevice'
    BY <1>0 DEF Core, Shape, FollowsDevice, Backed, Throw, store, Moved, Terminal
  <1>4. ReleasedUnsent'
    BY <1>0 DEF Core, Shape, ReleasedUnsent, Throw, store, Moved
  <1>5. ReservesOnce'
    BY <1>0 DEF Core, Shape, ReservesOnce, Throw, store, Moved
  <1> QED
    BY <1>1, <1>2, <1>3, <1>4, <1>5 DEF Core

\* transitionOperation keeps the invariant without the counters.
LEMMA Step_transitionOperation ==
  ASSUME Core, NEW c \in Calls, transitionOperation(c)
  PROVE  Core'
  <1> USE GovernedAssumption
  <1>0. /\ Moved(c) /\ call'[c].pc \in {"commit", "abort", "end"}
        /\ call'[c].pc = "abort" => OpOf[c] \notin async
        /\ call[c].pc = "record" /\ c \in sent[OpOf[c]]
        /\ \E s \in Terminal \cup {"pending"} : oprec' = [oprec EXCEPT ![OpOf[c]] = s]
    <2>1. call[c].result \in {"pending", "confirmed", "failed", "charged"}
      BY DEF Core, Shape, OneEngaged, transitionOperation, CallStates
    <2> QED
      BY <2>1, SettleMoves DEF Core, FollowsDevice, transitionOperation, Terminal
  <1>1. Shape'
    BY <1>0 DEF Core, Shape, transitionOperation, store, Moved, Terminal
  <1>2. OneEngaged'
    BY <1>0 DEF Core, Shape, OneEngaged, FollowsDevice, Engaged, transitionOperation, store, Moved, Terminal, Unclaimed
  <1>3. FollowsDevice'
    BY <1>0 DEF Core, Shape, FollowsDevice, Backed, transitionOperation, store, Moved, Terminal
  <1>4. ReleasedUnsent'
    BY <1>0 DEF Core, Shape, ReleasedUnsent, transitionOperation, store, Moved
  <1>5. ReservesOnce'
    BY <1>0 DEF Core, Shape, ReservesOnce, transitionOperation, store, Moved
  <1> QED
    BY <1>1, <1>2, <1>3, <1>4, <1>5 DEF Core

\* checkNonce keeps the invariant without the counters.
LEMMA Step_checkNonce ==
  ASSUME Core, NEW c \in Calls, checkNonce(c)
  PROVE  Core'
  <1> USE GovernedAssumption
  <1>0. /\ Moved(c) /\ call[c].pc = "nonce" /\ call'[c].pc \in {"reserve", "end"}
        /\ nonces' \subseteq {KeyOf[d] : d \in Calls}
    <2>1. CASE End(c)
      BY <2>1, EndMoves DEF Core, Shape, checkNonce
    <2>2. CASE call' = [call EXCEPT ![c] = At("reserve")]
      BY <2>2 DEF Core, Shape, checkNonce, At, Moved, CallStates
    <2> QED
      BY <2>1, <2>2 DEF checkNonce
  <1>1. Shape'
    BY <1>0 DEF Core, Shape, checkNonce, store, Moved, ResvStates, Reserved
  <1>2. OneEngaged'
    BY <1>0 DEF Core, Shape, OneEngaged, Engaged, checkNonce, store, Moved, Terminal, Unclaimed
  <1>3. FollowsDevice'
    BY <1>0 DEF Core, Shape, FollowsDevice, Backed, checkNonce, store, Moved, Terminal
  <1>4. ReleasedUnsent'
    BY <1>0 DEF Core, Shape, ReleasedUnsent, checkNonce, store, Moved
  <1>5. ReservesOnce'
    BY <1>0 DEF Core, Shape, ReservesOnce, checkNonce, store, Moved
  <1> QED
    BY <1>1, <1>2, <1>3, <1>4, <1>5 DEF Core

\* reserveStep keeps the invariant without the counters.
LEMMA Step_reserveStep ==
  ASSUME Core, NEW c \in Calls, reserveStep(c)
  PROVE  Core'
  <1> USE GovernedAssumption
  <1>0. /\ Moved(c) /\ call[c].pc = "reserve" /\ call'[c].pc = "claim"
        /\ resv' = [resv EXCEPT ![c] = "reserved"]
    BY GotoMoves DEF Core, reserveStep, Pcs
  <1>1. Shape'
    BY <1>0 DEF Core, Shape, reserveStep, store, Moved, ResvStates, Reserved
  <1>2. OneEngaged'
    BY <1>0 DEF Core, Shape, OneEngaged, Engaged, reserveStep, store, Moved, Terminal, Unclaimed
  <1>3. FollowsDevice'
    BY <1>0 DEF Core, Shape, FollowsDevice, Backed, reserveStep, store, Moved, Terminal
  <1>4. ReleasedUnsent'
    BY <1>0 DEF Core, Shape, ReleasedUnsent, reserveStep, store, Moved
  <1>5. ReservesOnce'
    BY <1>0 DEF Core, Shape, ReservesOnce, reserveStep, store, Moved
  <1> QED
    BY <1>1, <1>2, <1>3, <1>4, <1>5 DEF Core

\* commitStep keeps the invariant without the counters.
LEMMA Step_commitStep ==
  ASSUME Core, NEW c \in Calls, commitStep(c)
  PROVE  Core'
  <1> USE GovernedAssumption
  <1>0. /\ Moved(c) /\ call[c].pc = "commit" /\ call'[c].pc = "end"
        /\ \E x \in {"committed", "unknown", resv[c]} : resv' = [resv EXCEPT ![c] = x]
    BY EndMoves DEF Core, commitStep, Set
  <1>1. Shape'
    BY <1>0 DEF Core, Shape, commitStep, store, Moved, ResvStates, Reserved
  <1>2. OneEngaged'
    BY <1>0 DEF Core, Shape, OneEngaged, Engaged, commitStep, store, Moved, Terminal, Unclaimed
  <1>3. FollowsDevice'
    BY <1>0 DEF Core, Shape, FollowsDevice, Backed, commitStep, store, Moved, Terminal
  <1>4. ReleasedUnsent'
    BY <1>0 DEF Core, Shape, ReleasedUnsent, commitStep, store, Moved
  <1>5. ReservesOnce'
    BY <1>0 DEF Core, Shape, ReservesOnce, commitStep, store, Moved
  <1> QED
    BY <1>1, <1>2, <1>3, <1>4, <1>5 DEF Core

\* abortStep keeps the invariant without the counters.
LEMMA Step_abortStep ==
  ASSUME Core, NEW c \in Calls, abortStep(c)
  PROVE  Core'
  <1> USE GovernedAssumption
  <1>0. /\ Moved(c) /\ call[c].pc = "abort" /\ call'[c].pc = "end"
        /\ resv' = resv \/ resv' = [resv EXCEPT ![c] = "aborted"]
    BY EndMoves DEF Core, abortStep, Set
  <1>1. Shape'
    BY <1>0 DEF Core, Shape, abortStep, store, Moved, ResvStates, Reserved
  <1>2. OneEngaged'
    BY <1>0 DEF Core, Shape, OneEngaged, Engaged, abortStep, store, Moved, Terminal, Unclaimed
  <1>3. FollowsDevice'
    BY <1>0 DEF Core, Shape, FollowsDevice, Backed, abortStep, store, Moved, Terminal
  <1>4. ReleasedUnsent'
    BY <1>0 DEF Core, Shape, ReleasedUnsent, abortStep, store, Moved
  <1>5. ReservesOnce'
    BY <1>0 DEF Core, Shape, ReservesOnce, abortStep, store, Moved
  <1> QED
    BY <1>1, <1>2, <1>3, <1>4, <1>5 DEF Core

\* settleReservation keeps the invariant without the counters.
LEMMA Step_settleReservation ==
  ASSUME Core, NEW c \in Calls, settleReservation(c)
  PROVE  Core'
  <1> USE GovernedAssumption
  <1>0. \/ /\ Moved(c) /\ call[c].pc = "commit" /\ call'[c].pc = "end"
           /\ resv' = [resv EXCEPT ![c] = "committed"]
        \/ /\ call[c].pc = "end" /\ oprec[OpOf[c]] \in Terminal /\ call' = call
           /\ resv' = [resv EXCEPT ![c] = "committed"]
        \/ /\ call[c].pc = "end" /\ c \notin sent[OpOf[c]] /\ call' = call
           /\ resv' = [resv EXCEPT ![c] = "aborted"]
    BY EndMoves DEF Core, settleReservation, Set
  <1>1. Shape'
    BY <1>0 DEF Core, Shape, settleReservation, store, Moved, ResvStates, Reserved
  <1>2. OneEngaged'
    BY <1>0 DEF Core, Shape, OneEngaged, Engaged, settleReservation, store, Moved, Terminal, Unclaimed
  <1>3. FollowsDevice'
    BY <1>0 DEF Core, Shape, FollowsDevice, Backed, settleReservation, store, Moved, Terminal
  <1>4. ReleasedUnsent'
    BY <1>0 DEF Core, Shape, ReleasedUnsent, settleReservation, store, Moved
  <1>5. ReservesOnce'
    BY <1>0 DEF Core, Shape, ReservesOnce, settleReservation, store, Moved
  <1> QED
    BY <1>1, <1>2, <1>3, <1>4, <1>5 DEF Core

\* reconcileReservation keeps the invariant without the counters.
LEMMA Step_reconcileReservation ==
  ASSUME Core, NEW c \in Calls, reconcileReservation(c)
  PROVE  Core'
  <1> USE GovernedAssumption
  <1>0. /\ resv[c] \in {"unknown", "overdue"}
        /\ \/ oprec[OpOf[c]] \in Terminal /\ resv' = [resv EXCEPT ![c] = "committed"]
           \/ /\ call[c].pc = "end" /\ c \notin sent[OpOf[c]]
              /\ resv' = [resv EXCEPT ![c] = "aborted"]
    BY DEF reconcileReservation, Set, Unsettled
  <1>1. Shape'
    BY <1>0 DEF Core, Shape, reconcileReservation, store, Moved, ResvStates, Reserved
  <1>2. OneEngaged'
    BY <1>0 DEF Core, Shape, OneEngaged, Engaged, reconcileReservation, store, Moved, Terminal, Unclaimed
  <1>3. FollowsDevice'
    BY <1>0 DEF Core, Shape, FollowsDevice, Backed, reconcileReservation, store, Moved, Terminal
  <1>4. ReleasedUnsent'
    BY <1>0 DEF Core, Shape, ReleasedUnsent, reconcileReservation, store, Moved
  <1>5. ReservesOnce'
    BY <1>0 DEF Core, Shape, ReservesOnce, reconcileReservation, store, Moved
  <1> QED
    BY <1>1, <1>2, <1>3, <1>4, <1>5 DEF Core

\* recoverReservations keeps the invariant without the counters.
LEMMA Step_recoverReservations ==
  ASSUME Core, recoverReservations
  PROVE  Core'
  <1> USE GovernedAssumption
  <1>0. resv' = [c \in Calls |-> IF resv[c] = "overdue" THEN "unknown" ELSE resv[c]]
    BY DEF recoverReservations
  <1>1. Shape'
    BY <1>0 DEF Core, Shape, recoverReservations, store, Moved, ResvStates, Reserved
  <1>2. OneEngaged'
    BY <1>0 DEF Core, Shape, OneEngaged, Engaged, recoverReservations, store, Moved, Terminal, Unclaimed
  <1>3. FollowsDevice'
    BY <1>0 DEF Core, Shape, FollowsDevice, Backed, recoverReservations, store, Moved, Terminal
  <1>4. ReleasedUnsent'
    BY <1>0 DEF Core, Shape, ReleasedUnsent, recoverReservations, store, Moved
  <1>5. ReservesOnce'
    BY <1>0 DEF Core, Shape, ReservesOnce, recoverReservations, store, Moved
  <1> QED
    BY <1>1, <1>2, <1>3, <1>4, <1>5 DEF Core

\* Expire keeps the invariant without the counters.
LEMMA Step_Expire ==
  ASSUME Core, NEW c \in Calls, Expire(c)
  PROVE  Core'
  <1> USE GovernedAssumption
  <1>0. resv[c] = "reserved" /\ resv' = [resv EXCEPT ![c] = "overdue"]
    BY DEF Expire, Set
  <1>1. Shape'
    BY <1>0 DEF Core, Shape, Expire, store, Moved, ResvStates, Reserved
  <1>2. OneEngaged'
    BY <1>0 DEF Core, Shape, OneEngaged, Engaged, Expire, store, Moved, Terminal, Unclaimed
  <1>3. FollowsDevice'
    BY <1>0 DEF Core, Shape, FollowsDevice, Backed, Expire, store, Moved, Terminal
  <1>4. ReleasedUnsent'
    BY <1>0 DEF Core, Shape, ReleasedUnsent, Expire, store, Moved
  <1>5. ReservesOnce'
    BY <1>0 DEF Core, Shape, ReservesOnce, Expire, store, Moved
  <1> QED
    BY <1>1, <1>2, <1>3, <1>4, <1>5 DEF Core

\* load keeps the invariant without the counters.
LEMMA Step_load ==
  ASSUME Core, NEW j \in Jobs, NEW o \in Ops, NEW cancel \in BOOLEAN, load(j, o, cancel)
  PROVE  Core'
  <1> USE GovernedAssumption
  <1>0. job' = [job EXCEPT ![j] = [pc |-> "poll", op |-> o, cancel |-> cancel, new |-> "pending"]]
    BY DEF load
  <1>1. Shape'
    BY <1>0 DEF Core, Shape, load, store, Moved, ResvStates, Reserved, Terminal, JobStates
  <1>2. OneEngaged'
    BY <1>0 DEF Core, Shape, OneEngaged, Engaged, load, store, Moved, Terminal, Unclaimed
  <1>3. FollowsDevice'
    BY <1>0 DEF Core, Shape, FollowsDevice, Backed, load, store, Moved, Terminal
  <1>4. ReleasedUnsent'
    BY <1>0 DEF Core, Shape, ReleasedUnsent, load, store, Moved
  <1>5. ReservesOnce'
    BY <1>0 DEF Core, Shape, ReservesOnce, load, store, Moved
  <1> QED
    BY <1>1, <1>2, <1>3, <1>4, <1>5 DEF Core

\* poll keeps the invariant without the counters.
LEMMA Step_poll ==
  ASSUME Core, NEW j \in Jobs, poll(j)
  PROVE  Core'
  <1> USE GovernedAssumption
  <1>0. PICK s \in {"pending"} \cup Terminal :
          /\ job' = [job EXCEPT ![j] = [pc |-> "write", op |-> @.op, cancel |-> @.cancel, new |-> s]]
          /\ reported' = IF s \in Terminal THEN reported \cup {job[j].op} ELSE reported
          /\ job[j].op \in Ops
    BY DEF poll, Progress, Terminal, Core, Shape, JobStates
  <1>1. Shape'
    BY <1>0 DEF Core, Shape, poll, store, Moved, ResvStates, Reserved, Terminal, JobStates
  <1>2. OneEngaged'
    BY <1>0 DEF Core, Shape, OneEngaged, Engaged, poll, store, Moved, Terminal, Unclaimed
  <1>3. FollowsDevice'
    BY <1>0 DEF Core, Shape, FollowsDevice, Backed, poll, store, Moved, Terminal
  <1>4. ReleasedUnsent'
    BY <1>0 DEF Core, Shape, ReleasedUnsent, poll, store, Moved
  <1>5. ReservesOnce'
    BY <1>0 DEF Core, Shape, ReservesOnce, poll, store, Moved
  <1> QED
    BY <1>1, <1>2, <1>3, <1>4, <1>5 DEF Core

\* transition keeps the invariant without the counters.
LEMMA Step_transition ==
  ASSUME Core, NEW j \in Jobs, transition(j)
  PROVE  Core'
  <1> USE GovernedAssumption
  <1>0. /\ oprec' = [oprec EXCEPT ![job[j].op] = job[j].new]
        /\ job' = [job EXCEPT ![j] = NoJob]
        /\ NoJob \in JobStates /\ NoJob.new = "pending"
        /\ job[j].new \in Terminal \cup {"pending"} /\ job[j].op \in Ops
    BY DEF Core, Shape, transition, NoJob, JobStates, Terminal
  <1>1. Shape'
    BY <1>0 DEF Core, Shape, transition, store, Moved, ResvStates, Reserved, Terminal, JobStates
  <1>2. OneEngaged'
    BY <1>0 DEF Core, Shape, OneEngaged, Engaged, transition, store, Moved, Terminal, Unclaimed
  <1>3. FollowsDevice'
    BY <1>0 DEF Core, Shape, FollowsDevice, Backed, transition, store, Moved, Terminal
  <1>4. ReleasedUnsent'
    BY <1>0 DEF Core, Shape, ReleasedUnsent, transition, store, Moved
  <1>5. ReservesOnce'
    BY <1>0 DEF Core, Shape, ReservesOnce, transition, store, Moved
  <1> QED
    BY <1>1, <1>2, <1>3, <1>4, <1>5 DEF Core

\* Device keeps the invariant without the counters.
LEMMA Step_Device ==
  ASSUME Core, NEW o \in Ops, Device(o)
  PROVE  Core'
  <1> USE GovernedAssumption
  <1>0. /\ sent[o] # {}
        /\ \E s \in {"running", "done", "failed"} : device' = [device EXCEPT ![o] = s]
    BY DEF Device
  <1>1. Shape'
    BY <1>0 DEF Core, Shape, Device, store, Moved, ResvStates, Reserved
  <1>2. OneEngaged'
    BY <1>0 DEF Core, Shape, OneEngaged, Engaged, Device, store, Moved, Terminal, Unclaimed
  <1>3. FollowsDevice'
    BY <1>0 DEF Core, Shape, FollowsDevice, Backed, Device, store, Moved, Terminal
  <1>4. ReleasedUnsent'
    BY <1>0 DEF Core, Shape, ReleasedUnsent, Device, store, Moved
  <1>5. ReservesOnce'
    BY <1>0 DEF Core, Shape, ReservesOnce, Device, store, Moved
  <1> QED
    BY <1>1, <1>2, <1>3, <1>4, <1>5 DEF Core

\* Crash keeps the invariant without the counters.
LEMMA Step_Crash ==
  ASSUME Core, Crash
  PROVE  Core'
  <1> USE GovernedAssumption
  <1>0. /\ \A c \in Calls : call'[c] \in {call[c], Over} /\ Over.pc = "end" /\ Over \in CallStates
        /\ call' \in [Calls -> CallStates]
        /\ \A j \in Jobs : job'[j] = NoJob /\ NoJob \in JobStates /\ NoJob.new = "pending"
    BY DEF Core, Shape, Crash, NoJob, JobStates, Terminal, Over, Started, At, CallStates
  <1>1. Shape'
    BY <1>0 DEF Core, Shape, Crash, store, Moved, ResvStates, Reserved
  <1>2. OneEngaged'
    BY <1>0 DEF Core, Shape, OneEngaged, Engaged, Crash, store, Moved, Terminal, Unclaimed
  <1>3. FollowsDevice'
    BY <1>0 DEF Core, Shape, FollowsDevice, Backed, Crash, store, Moved, Terminal
  <1>4. ReleasedUnsent'
    BY <1>0 DEF Core, Shape, ReleasedUnsent, Crash, store, Moved
  <1>5. ReservesOnce'
    BY <1>0 DEF Core, Shape, ReservesOnce, Crash, store, Moved
  <1> QED
    BY <1>1, <1>2, <1>3, <1>4, <1>5 DEF Core

\* A step that leaves the reservations and the counters alone keeps the account.
LEMMA AccountUntouched ==
  ASSUME IndInv, UNCHANGED <<resv, totals>>
  PROVE  TotalsAccounted'
  BY Zenon DEF IndInv, TotalsAccounted

\* Every step keeps the account.
LEMMA AccountPreserved ==
  ASSUME IndInv, [Next]_vars
  PROVE  TotalsAccounted'
  <1>1. CASE UNCHANGED <<resv, totals>>
    BY <1>1, AccountUntouched
  <1>2. ASSUME NEW c \in Calls, reserveStep(c)
        PROVE  TotalsAccounted'
    <2>1. resv[c] = "none"
      BY <1>2 DEF IndInv, ReservesOnce, reserveStep
    <2> QED
      BY <1>2, <2>1, AccountKept DEF reserveStep
  <1>3. ASSUME NEW c \in Calls, commitStep(c)
        PROVE  TotalsAccounted'
    <2>1. CASE resv[c] = "reserved"
      <3>1. IsReserved(c) /\ resv[c] # "overdue" /\ resv[c] \in Holding
        BY <2>1 DEF IsReserved, Reserved, Holding
      <3>2. resv' = [resv EXCEPT ![c] = "committed"] /\ Charge
        BY <1>3, <3>1 DEF commitStep, Set
      <3> QED
        BY <3>1, <3>2, AccountKept
    <2>2. CASE resv[c] = "overdue"
      <3>1. resv' = [resv EXCEPT ![c] = "unknown"] /\ UNCHANGED totals
        BY <1>3, <2>2 DEF commitStep, Set
      <3>2. resv[c] \in Holding /\ "unknown" \in Holding
        BY <2>2 DEF Reserved, Holding
      <3> QED
        BY <3>1, <3>2, AccountKept
    <2>3. CASE resv[c] \notin Reserved
      <3>1. resv' = [resv EXCEPT ![c] = resv[c]] /\ UNCHANGED totals
        BY <1>3, <2>3 DEF commitStep, Set, IsReserved, Reserved
      <3> QED
        BY <3>1, AccountKept
    <2> QED
      BY <2>1, <2>2, <2>3 DEF Reserved
  <1>4. ASSUME NEW c \in Calls, abortStep(c)
        PROVE  TotalsAccounted'
    <2>1. CASE IsReserved(c)
      <3>1. resv' = [resv EXCEPT ![c] = "aborted"] /\ Free /\ resv[c] \in Holding
        BY <1>4, <2>1 DEF abortStep, Set, IsReserved, Holding
      <3> QED
        BY <3>1, AccountKept
    <2>2. CASE ~IsReserved(c)
      BY <1>4, <2>2, AccountUntouched DEF abortStep
    <2> QED
      BY <2>1, <2>2
  <1>5. ASSUME NEW c \in Calls, settleReservation(c)
        PROVE  TotalsAccounted'
    <2>1. \/ resv' = [resv EXCEPT ![c] = "committed"] /\ Charge
          \/ resv' = [resv EXCEPT ![c] = "aborted"] /\ Free
      BY <1>5 DEF settleReservation, Set
    <2>2. resv[c] \in Holding
      BY <1>5 DEF settleReservation, Unsettled, Holding, Reserved
    <2> QED
      BY <2>1, <2>2, AccountKept
  <1>6. ASSUME NEW c \in Calls, reconcileReservation(c)
        PROVE  TotalsAccounted'
    <2>1. \/ resv' = [resv EXCEPT ![c] = "committed"] /\ Charge
          \/ resv' = [resv EXCEPT ![c] = "aborted"] /\ Free
      BY <1>6 DEF reconcileReservation, Set
    <2>2. resv[c] \in Holding
      BY <1>6 DEF reconcileReservation, Unsettled, Holding, Reserved
    <2> QED
      BY <2>1, <2>2, AccountKept
  <1>7. ASSUME NEW c \in Calls, Expire(c)
        PROVE  TotalsAccounted'
    <2>1. resv' = [resv EXCEPT ![c] = "overdue"] /\ UNCHANGED totals
      BY <1>7 DEF Expire, Set
    <2>2. resv[c] \in Holding /\ "overdue" \in Holding
      BY <1>7 DEF Expire, Holding, Reserved
    <2> QED
      BY <2>1, <2>2, AccountKept
  <1>8. CASE recoverReservations
    <2>1. /\ \A c \in Calls : resv'[c] = "committed" <=> resv[c] = "committed"
          /\ \A c \in Calls : resv'[c] = "aborted" <=> resv[c] = "aborted"
          /\ \A c \in Calls : resv'[c] \in Reserved \cup {"unknown"} <=> resv[c] \in Reserved \cup {"unknown"}
          /\ totals' = totals
      BY <1>8 DEF recoverReservations, Reserved
    <2>2. /\ {c \in Calls : resv'[c] = "committed"} = {c \in Calls : resv[c] = "committed"}
          /\ {c \in Calls : resv'[c] = "aborted"} = {c \in Calls : resv[c] = "aborted"}
          /\ {c \in Calls : resv'[c] \in Reserved \cup {"unknown"}}
               = {c \in Calls : resv[c] \in Reserved \cup {"unknown"}}
      BY <2>1, Zenon
    <2> QED
      BY <2>1, <2>2, Zenon DEF IndInv, TotalsAccounted
  <1>9. ASSUME NEW c \in Calls,
               \/ getRun(c) \/ checkNonce(c) \/ claimOperation(c) \/ actuate(c) \/ actuated(c)
               \/ notActuated(c) \/ Throw(c) \/ transitionOperation(c)
        PROVE  UNCHANGED <<resv, totals>>
    BY <1>9, Zenon DEF getRun, checkNonce, claimOperation, actuate, actuated, notActuated, Throw,
       transitionOperation, store
  <1>10. ASSUME NEW j \in Jobs, NEW o \in Ops,
                \/ poll(j) \/ transition(j) \/ \E cancel \in BOOLEAN : load(j, o, cancel)
         PROVE  UNCHANGED <<resv, totals>>
    BY <1>10, Zenon DEF poll, transition, load, store
  <1>11. ASSUME NEW o \in Ops, Device(o) \/ Crash PROVE UNCHANGED <<resv, totals>>
    BY <1>11, Zenon DEF Device, Crash, store
  <1>12. CASE UNCHANGED vars
    BY <1>12, <1>1 DEF vars, store
  <1>13. PICK o \in Ops : TRUE
    BY GovernedAssumption
  <1>14. CASE Next
    BY <1>14, <1>1, <1>2, <1>3, <1>4, <1>5, <1>6, <1>7, <1>8, <1>9, <1>10, <1>11, <1>13, Zenon
       DEF Next, Execute, Host
  <1> QED
    BY <1>12, <1>14

\* Every step keeps the rest of the invariant.
LEMMA CorePreserved ==
  ASSUME Core, [Next]_vars
  PROVE  Core'
  <1>1. CASE UNCHANGED vars
    BY <1>1 DEF vars, store, Core, Shape, OneEngaged, Engaged, Unclaimed, FollowsDevice,
       Backed, ReleasedUnsent, ReservesOnce
  <1>2. CASE Next
    BY <1>2, Step_getRun, Step_checkNonce, Step_reserveStep, Step_claimOperation, Step_actuate,
       Step_actuated, Step_notActuated, Step_Throw, Step_transitionOperation, Step_commitStep,
       Step_abortStep, Step_settleReservation, Step_reconcileReservation,
       Step_recoverReservations, Step_Expire, Step_load, Step_poll, Step_transition,
       Step_Device, Step_Crash, Zenon DEF Next, Execute, Host
  <1> QED
    BY <1>1, <1>2

\* The counters are a record of three numbers in every state.
LEMMA TotalsRecord ==
  ASSUME IndInv, [Next]_vars
  PROVE  \E a, b, d : totals' = [committed |-> a, reserved |-> b, aborted |-> d]
  <1>1. \/ totals' = totals \/ Charge \/ Free
        \/ totals' = [totals EXCEPT !.reserved = @ + 1]
    <2>1. CASE UNCHANGED vars
      BY <2>1 DEF vars, store
    <2>2. CASE Next
      BY <2>2, Zenon DEF Next, Execute, Host, getRun, checkNonce, reserveStep, claimOperation, actuate,
         actuated, notActuated, Throw, transitionOperation, commitStep, abortStep,
         settleReservation, reconcileReservation, recoverReservations, Expire, load, poll,
         transition, Device, Crash, store
    <2> QED
      BY <2>1, <2>2
  <1>2. totals \in [committed : 0 .. Cardinality(Calls), reserved : 0 .. Cardinality(Calls),
                    aborted : 0 .. Cardinality(Calls)]
    BY DEF IndInv, TypeOK
  <1>3. totals = [committed |-> totals.committed, reserved |-> totals.reserved,
                  aborted |-> totals.aborted]
    BY <1>2
  <1>4. CASE Charge
    <2>1. totals' = [committed |-> totals.committed + 1, reserved |-> Less(totals.reserved),
                     aborted |-> totals.aborted]
      BY <1>3, <1>4 DEF Charge
    <2> QED
      BY <2>1
  <1>5. CASE Free
    <2>1. totals' = [committed |-> totals.committed, reserved |-> Less(totals.reserved),
                     aborted |-> totals.aborted + 1]
      BY <1>3, <1>5 DEF Free
    <2> QED
      BY <2>1
  <1>6. CASE totals' = [totals EXCEPT !.reserved = @ + 1]
    <2>1. totals' = [committed |-> totals.committed, reserved |-> totals.reserved + 1,
                     aborted |-> totals.aborted]
      BY <1>3, <1>6
    <2> QED
      BY <2>1
  <1>7. CASE totals' = totals
    BY <1>3, <1>7
  <1> QED
    BY <1>1, <1>4, <1>5, <1>6, <1>7

------------------------------------------------------------------------------
(* The theorems. *)

\* The initial states satisfy the invariant.
LEMMA InitEstablishes == Init => IndInv
  <1> SUFFICES ASSUME Init PROVE IndInv
    OBVIOUS
  <1> USE GovernedAssumption
  <1>1. Shape
    BY DEF Init, Shape, ResvStates, Terminal, CallStates, JobStates, Started, At, NoJob
  <1>2. OneEngaged /\ FollowsDevice /\ ReleasedUnsent /\ ReservesOnce
    BY DEF Init, OneEngaged, Engaged, FollowsDevice, ReleasedUnsent, ReservesOnce, Started, At,
       NoJob, Terminal
  <1>3. TotalsAccounted
    <2>1. /\ {c \in Calls : resv[c] = "committed"} = {}
          /\ {c \in Calls : resv[c] \in Reserved \cup {"unknown"}} = {}
          /\ {c \in Calls : resv[c] = "aborted"} = {}
      BY DEF Init, Reserved
    <2> QED
      BY <2>1, FS_EmptySet DEF Init, TotalsAccounted
  <1>4. totals \in [committed : 0 .. Cardinality(Calls), reserved : 0 .. Cardinality(Calls),
                    aborted : 0 .. Cardinality(Calls)]
    <2>1. \E a, b, d : totals = [committed |-> a, reserved |-> b, aborted |-> d]
      BY DEF Init
    <2> QED
      BY <1>3, <2>1, AccountTyped
  <1> QED
    BY <1>1, <1>2, <1>3, <1>4 DEF IndInv, TypeOK, Shape

\* Every step preserves it.
LEMMA NextPreserves == IndInv /\ [Next]_vars => IndInv'
  <1> SUFFICES ASSUME IndInv, [Next]_vars PROVE IndInv'
    OBVIOUS
  <1>1. Core
    BY DEF IndInv, TypeOK, Core, Shape
  <1>2. Core'
    BY <1>1, CorePreserved
  <1>3. TotalsAccounted'
    BY AccountPreserved
  <1>4. (\E a, b, d : totals = [committed |-> a, reserved |-> b, aborted |-> d])'
    BY TotalsRecord
  <1>5. (totals \in [committed : 0 .. Cardinality(Calls), reserved : 0 .. Cardinality(Calls),
                     aborted : 0 .. Cardinality(Calls)])'
    BY <1>3, <1>4, AccountTyped, PTL
  <1> QED
    BY <1>2, <1>3, <1>5 DEF IndInv, TypeOK, Core, Shape

\* The invariant holds throughout.
LEMMA Inductive == Spec => []IndInv
  BY InitEstablishes, NextPreserves, PTL DEF Spec

\* The stores, calls and counters keep their shape (TypeOK): in particular the
\* counters never leave 0 .. the number of calls.
THEOREM TypeCorrect == Spec => []TypeOK
  <1>1. IndInv => TypeOK
    BY DEF IndInv
  <1> QED
    BY <1>1, Inductive, PTL

\* The command of an operation is sent by one call at most (claimOperation),
\* for any number of duplicate calls, host jobs and crashes.
THEOREM AtMostOnce == Spec => []ActuatedByOne
  <1>1. IndInv => ActuatedByOne
    <2> SUFFICES ASSUME IndInv, NEW o \in Ops, NEW c \in sent[o], NEW d \in sent[o]
                 PROVE  c = d
      BY DEF ActuatedByOne
    <2>1. c \in Calls /\ d \in Calls
      BY DEF IndInv, TypeOK
    <2>2. OpOf[c] = o /\ OpOf[d] = o
      BY DEF IndInv, OneEngaged
    <2> QED
      BY <2>1, <2>2 DEF IndInv, OneEngaged, Engaged
  <1> QED
    BY <1>1, Inductive, PTL

\* The run's counters count its reservations (reserveStep, commitStep,
\* abortStep, settleReservation, reconcileReservation).
THEOREM Accounting == Spec => []TotalsAccounted
  <1>1. IndInv => TotalsAccounted
    BY DEF IndInv
  <1> QED
    BY <1>1, Inductive, PTL

\* Budget is charged only for what was sent or reported as ended, and not given back
\* to an asynchronous call that sent (settleResult and its error path, resolveExisting,
\* settleReservation), whatever controllers answer to reconcile.
THEOREM BudgetSafety == Spec => []BudgetFollowsDevice
  <1>1. IndInv => BudgetFollowsDevice
    BY DEF IndInv, FollowsDevice, Backed, ReleasedUnsent, BudgetFollowsDevice
  <1> QED
    BY <1>1, Inductive, PTL

\* A settled reservation is not settled again, by the call or by the host.
THEOREM Finality == Spec => SettledFinal
  <1>1. IndInv /\ [Next]_vars =>
          [\A c \in Calls : resv[c] \in {"committed", "aborted"} => resv'[c] = resv[c]]_vars
    <2> SUFFICES ASSUME IndInv, Next, NEW d \in Calls, resv[d] \in {"committed", "aborted"}
                 PROVE  resv'[d] = resv[d]
      OBVIOUS
    <2>0. resv \in [Calls -> ResvStates]
      BY DEF IndInv, TypeOK
    <2>1. ASSUME NEW c \in Calls, reserveStep(c) PROVE resv'[d] = resv[d]
      BY <2>0, <2>1 DEF IndInv, ReservesOnce, reserveStep
    <2>2. ASSUME NEW c \in Calls, commitStep(c) PROVE resv'[d] = resv[d]
      BY <2>0, <2>2 DEF commitStep, Set, IsReserved, Reserved
    <2>3. ASSUME NEW c \in Calls, abortStep(c) PROVE resv'[d] = resv[d]
      BY <2>0, <2>3 DEF abortStep, Set, IsReserved, Reserved
    <2>4. ASSUME NEW c \in Calls, settleReservation(c) PROVE resv'[d] = resv[d]
      BY <2>0, <2>4 DEF settleReservation, Set, Unsettled
    <2>5. ASSUME NEW c \in Calls, reconcileReservation(c) PROVE resv'[d] = resv[d]
      BY <2>0, <2>5 DEF reconcileReservation, Set, Unsettled
    <2>6. ASSUME NEW c \in Calls, Expire(c) PROVE resv'[d] = resv[d]
      BY <2>0, <2>6 DEF Expire, Set
    <2>7. CASE recoverReservations
      BY <2>0, <2>7 DEF recoverReservations
    <2>8. CASE UNCHANGED resv
      BY <2>8
    <2> QED
      BY <2>1, <2>2, <2>3, <2>4, <2>5, <2>6, <2>7, <2>8, Zenon DEF Next, Execute, Host, getRun,
         checkNonce, claimOperation, actuate, actuated, notActuated, Throw, transitionOperation,
         load, poll, transition, Device, Crash, store
  <1> QED
    BY <1>1, Inductive, PTL DEF Spec, SettledFinal
============================================================================
