------------------------- MODULE LeaseQuorumProofs -------------------------
(****************************************************************************)
(* Proofs about LeaseQuorum for any number of devices, peers, slots,        *)
(* reservations and restarts.                                               *)
(****************************************************************************)
EXTENDS LeaseQuorum, FiniteSetTheorems, WellFoundedInduction, TLAPS

------------------------------------------------------------------------------
(* Watermarks. *)

\* A watermark that is not exhausted hands out a slot that is available: the
\* least allocatable slot exists.
LEMMA NextIsAvailable ==
  ASSUME NEW w \in Watermarks, ~Exhausted(w)
  PROVE  getNextIndices(w) \in Slots /\ ~isUnavailable(w, getNextIndices(w))
  <1> DEFINE R == {p \in Nat \X Nat : p[1] < p[2]}
             A == Allocatable(w)
  <1>1. IsWellFoundedOn(R, Nat)
    BY NatLessThanWellFounded, Zenon DEF OpToRel
  <1>2. A \subseteq Nat /\ A # {}
    BY CapacityAssumption DEF Allocatable, Exhausted, Slots
  <1>3. PICK s \in A : \A t \in A : <<t, s>> \notin R
    <2> HIDE DEF A, R
    <2> QED
      BY <1>1, <1>2, WFMin, Zenon
  <1>4. \A t \in A : s <= t
    <2> HIDE DEF A
    <2> SUFFICES ASSUME NEW t \in A PROVE s <= t
      OBVIOUS
    <2>1. s \in Nat /\ t \in Nat
      BY <1>2
    <2>2. t < s => <<t, s>> \in R
      BY <2>1
    <2> HIDE DEF R
    <2>3. ~(t < s)
      BY <2>2, <1>3
    <2> QED
      BY <2>1, <2>3
  <1>5. getNextIndices(w) \in A
    BY <1>3, <1>4 DEF getNextIndices
  <1> QED
    BY <1>5, CapacityAssumption DEF Allocatable, isUnavailable, Slots, Watermarks

\* Marking a slot makes it unavailable and re-exposes none.
LEMMA MarkingCovers ==
  ASSUME NEW w \in Watermarks, NEW s \in Slots
  PROVE  /\ markUnavailable(w, s) \in Watermarks
         /\ isUnavailable(markUnavailable(w, s), s)
         /\ \A t \in Slots : isUnavailable(w, t) => isUnavailable(markUnavailable(w, s), t)
  BY CapacityAssumption DEF Watermarks, Slots, markUnavailable, isUnavailable

\* Neither does moving the cursor forward.
LEMMA AdvancingCovers ==
  ASSUME NEW w \in Watermarks, NEW c \in Slots, c > w.cursor
  PROVE  /\ saveCursor(w, c) \in Watermarks
         /\ \A t \in Slots : isUnavailable(w, t) => isUnavailable(saveCursor(w, c), t)
  BY CapacityAssumption DEF Watermarks, Slots, saveCursor, isUnavailable

------------------------------------------------------------------------------
(* The steps. *)

\* The initial state satisfies the invariant.
LEMMA Start == Init => IndInv
  <1> SUFFICES ASSUME Init PROVE IndInv
    OBVIOUS
  <1>1. emptyTree \in Watermarks /\ 0 \in Slots
    BY CapacityAssumption DEF Watermarks, emptyTree, Slots
  <1>2. NoReservation \in Reservations /\ NoReservation.status = "none"
    BY <1>1, QuorumAssumption DEF NoReservation, Reservations, Values
  <1>3. NoCall \in Calls /\ NoEntry \in Entries
    BY DEF NoCall, Calls, NoEntry, Entries
  <1>4. TypeOK
    BY <1>1, <1>2, <1>3, QuorumAssumption DEF Init, TypeOK, Controllers
  <1>5. Rooted /\ Pending /\ Taken /\ LocalOnce
    BY <1>2, <1>4 DEF Init, Rooted, Pending, Taken, LocalOnce, Made, NoCall, NoEntry
  <1>6. Backed /\ Announced
    BY DEF Init, Backed, Announced, NoCall
  <1>7. OutcomeAgrees /\ CommitsHeld
    BY DEF Init, OutcomeAgrees, CommitsHeld, NoEntry
  <1> QED
    BY <1>4, <1>5, <1>6, <1>7 DEF IndInv

\* Every step keeps the types.
LEMMA Typed == IndInv /\ [Next]_vars => TypeOK'
  <1> SUFFICES ASSUME IndInv, [Next]_vars PROVE TypeOK'
    OBVIOUS
  <1> USE QuorumAssumption, CapacityAssumption
  <1>t. TypeOK
    BY DEF IndInv
  <1>c. NoCall \in Calls
    BY DEF NoCall, Calls
  <1>r. \A op \in {"reserve", "commit", "burn"}, P \in SUBSET Peers :
          Round(op, P) \in Calls
    BY DEF Round, Calls
  <1>s. \A op \in {"reserve", "commit", "burn"}, r \in Rids, P \in SUBSET Peers :
          \A K : Send(op, r, P, K) \subseteq Requests
    BY DEF Send, Requests
  <1>w. \A c \in Calls, q \in Peers :
          Without(c, q) \in Calls /\ WithOk(c, q) \in Calls /\ WithConflict(c, q) \in Calls
    BY DEF Calls, Without, WithOk, WithConflict
  <1>x. \A x \in Reservations, st \in Statuses : WithStatus(x, st) \in Reservations
    BY DEF Reservations, WithStatus
  <1>1. ASSUME NEW r \in Rids, NEW q \in Peers, NEW op, NEW ok, Reply(r, q, op, ok)
        PROVE  call' \in [Rids -> Calls]
    BY <1>1, <1>t, <1>w DEF Reply, TypeOK
  <1>2. ASSUME NEW d \in Devices, NEW r \in Rids, NEW value \in Values,
               reserveKeyUse(d, r, value)
        PROVE  TypeOK'
    <2>1. getNextIndices(wm[d]) \in Slots
      BY <1>2, <1>t, NextIsAvailable DEF TypeOK, reserveKeyUse
    <2>2. wm' \in [Devices -> Watermarks]
      BY <1>2, <2>1, <1>t, MarkingCovers DEF TypeOK, reserveKeyUse
    <2>3. res' \in [Rids -> Reservations]
      BY <1>2, <2>1, <1>t DEF TypeOK, reserveKeyUse, Reservations, Statuses, Values
    <2>4. call' \in [Rids -> Calls] /\ req' \subseteq Requests /\ told' \subseteq Rids
      <3>1. Round("reserve", PeersOf[d]) \in Calls
        BY <1>r
      <3>2. Send("reserve", r, PeersOf[d], {}) \subseteq Requests
        BY <1>s
      <3>3. CASE value = "high"
        BY <1>2, <3>1, <3>2, <3>3, <1>t DEF TypeOK, reserveKeyUse
      <3>4. CASE value # "high"
        BY <1>2, <3>4, <1>t DEF TypeOK, reserveKeyUse
      <3> QED
        BY <3>3, <3>4
    <2> QED
      BY <1>2, <2>2, <2>3, <2>4, <1>t DEF TypeOK, reserveKeyUse
  <1>3. ASSUME NEW d \in Devices, NEW q \in Peers, syncLeaseJournal(d, q)
        PROVE  TypeOK'
    <2>1. wm' \in [Devices -> Watermarks]
      BY <1>3, <1>t, AdvancingCovers DEF TypeOK, syncLeaseJournal, Watermarks
    <2> QED
      BY <1>3, <2>1, <1>t DEF TypeOK, syncLeaseJournal
  <1>4. ASSUME NEW d \in Devices, DeviceRestart(d)
        PROVE  TypeOK'
    <2>1. call' \in [Rids -> Calls] /\ ids' \in [Rids -> SUBSET Peers]
      BY <1>4, <1>t, <1>c DEF TypeOK, DeviceRestart
    <2>2. res' \in [Rids -> Reservations]
      BY <1>4, <1>t, <1>x DEF TypeOK, DeviceRestart, Statuses
    <2> QED
      BY <1>4, <2>1, <2>2, <1>t DEF TypeOK, DeviceRestart
  <1>5. ASSUME NEW r \in Rids, Granted(r) \/ Refused(r) \/ Settled(r)
        PROVE  TypeOK'
    <2>1. call' \in [Rids -> Calls]
      BY <1>5, <1>t, <1>c DEF TypeOK, Granted, Refused, Settled
    <2>2. res' \in [Rids -> Reservations]
      BY <1>5, <1>t, <1>x DEF TypeOK, Granted, Refused, Settled, Statuses
    <2>3. ids' \in [Rids -> SUBSET Peers]
      BY <1>5, <1>t DEF TypeOK, Granted, Refused, Settled, Calls
    <2> QED
      BY <1>5, <2>1, <2>2, <2>3, <1>t DEF TypeOK, Granted, Refused, Settled
  <1>6. ASSUME NEW r \in Rids, commitKeyUse(r) \/ burnReservation(r)
        PROVE  TypeOK'
    <2>1. PeersFor(r) \in SUBSET Peers
      BY <1>t DEF TypeOK, PeersFor, Reservations
    <2>2. call' \in [Rids -> Calls] /\ req' \subseteq Requests
      BY <1>6, <2>1, <1>t, <1>r, <1>s DEF TypeOK, commitKeyUse, burnReservation, Settle
    <2>3. res' \in [Rids -> Reservations]
      BY <1>6, <1>t, <1>x DEF TypeOK, commitKeyUse, burnReservation, Settle, Statuses
    <2> QED
      BY <1>6, <2>2, <2>3, <1>t DEF TypeOK, commitKeyUse, burnReservation, Settle
  <1>7. ASSUME NEW r \in Rids, NEW q \in Peers, Timeout(r, q)
        PROVE  TypeOK'
    BY <1>7, <1>t, <1>w DEF TypeOK, Timeout
  <1>8. ASSUME NEW q \in Peers, NEW m \in req, handleReserve(q, m)
        PROVE  TypeOK'
    <2>1. m \in Requests /\ m.rid \in Rids /\ res[m.rid].slot \in Slots /\ res[m.rid].dev \in Devices
      BY <1>t DEF TypeOK, Requests, Reservations
    <2>2. call' \in [Rids -> Calls]
      BY <1>8, <2>1, <1>1 DEF handleReserve
    <2>3. pwm' \in [Peers -> Watermarks]
      <3>1. markUnavailable(pwm[q], res[m.rid].slot) \in Watermarks
        BY <2>1, <1>t, MarkingCovers DEF TypeOK
      <3> QED
        BY <1>8, <3>1, <1>t DEF TypeOK, handleReserve
    <2>4. book' \in [Peers -> [Slots -> Entries]]
      <3>1. [rid |-> m.rid, status |-> "reserved"] \in Entries
        BY <2>1 DEF Entries, Statuses
      <3>2. \/ UNCHANGED book
            \/ book' = [book EXCEPT ![q] = [@ EXCEPT ![res[m.rid].slot] =
                          [rid |-> m.rid, status |-> "reserved"]]]
        BY <1>8 DEF handleReserve
      <3>3. [book[q] EXCEPT ![res[m.rid].slot] =
               [rid |-> m.rid, status |-> "reserved"]] \in [Slots -> Entries]
        BY <2>1, <3>1, <1>t DEF TypeOK
      <3> QED
        BY <3>2, <3>3, <1>t DEF TypeOK
    <2>5. owner' \in [Peers -> Controllers]
      BY <1>8, <2>1, <1>t DEF TypeOK, handleReserve, Controllers
    <2> QED
      BY <1>8, <2>2, <2>3, <2>4, <2>5, <1>t DEF TypeOK, handleReserve
  <1>9. ASSUME NEW q \in Peers, NEW m \in req, handleSettle(q, m)
        PROVE  TypeOK'
    <2>1. m \in Requests /\ m.rid \in Rids /\ res[m.rid].slot \in Slots /\ Final(m.op) \in Statuses
      BY <1>t DEF TypeOK, Requests, Reservations, Final, Statuses
    <2>2. call' \in [Rids -> Calls]
      BY <1>9, <2>1, <1>1 DEF handleSettle
    <2>3. book' \in [Peers -> [Slots -> Entries]]
      <3>1. [rid |-> m.rid, status |-> Final(m.op)] \in Entries
        BY <2>1 DEF Entries
      <3> QED
        BY <1>9, <2>1, <3>1, <1>t DEF TypeOK, handleSettle
    <2> QED
      BY <1>9, <2>2, <2>3, <1>t DEF TypeOK, handleSettle
  <1>10. ASSUME NEW q \in Peers, PeerRestart(q)
         PROVE  TypeOK'
    <2>1. book' \in [Peers -> [Slots -> Entries]]
      <3>1. \A x \in Entries : WithStatus(x, "reserved-expired") \in Entries
        BY DEF Entries, WithStatus, Statuses
      <3> QED
        BY <1>10, <3>1, <1>t DEF TypeOK, PeerRestart
    <2> QED
      BY <1>10, <2>1, <1>t DEF TypeOK, PeerRestart, Controllers
  <1>11. CASE UNCHANGED vars
    BY <1>11, <1>t DEF TypeOK, vars
  <1> QED
    BY <1>2, <1>3, <1>4, <1>5, <1>6, <1>7, <1>8, <1>9, <1>10, <1>11
       DEF Next, Device, Reservation, Peer

------------------------------------------------------------------------------
(* What a step does to the books, the reservations and the requests. *)

\* What is made stays made, at the same slot of the same device; a reservation
\* that is not made yet can only be made, and is then pending.
LEMMA ReservationsStay ==
  ASSUME IndInv, [Next]_vars, TypeOK', NEW r \in Rids
  PROVE  /\ Made(r) => /\ Made(r)'
                       /\ res'[r].dev = res[r].dev /\ res'[r].slot = res[r].slot
                       /\ res'[r].value = res[r].value
         /\ res[r].status \in {"committed", "burned"} => res'[r].status = res[r].status
  <1> USE QuorumAssumption
  <1>t. TypeOK /\ Pending
    BY DEF IndInv
  <1>x. \A x \in Reservations : \A st :
          /\ WithStatus(x, st).dev = x.dev /\ WithStatus(x, st).slot = x.slot
          /\ WithStatus(x, st).value = x.value /\ WithStatus(x, st).status = st
    BY DEF Reservations, WithStatus
  <1>1. ASSUME NEW d \in Devices, NEW t \in Rids, NEW value \in Values,
               reserveKeyUse(d, t, value), Made(r)
        PROVE  UNCHANGED res[r]
    BY <1>1, <1>t DEF TypeOK, reserveKeyUse, Made
  <1>2. ASSUME NEW d \in Devices, DeviceRestart(d)
        PROVE  \/ UNCHANGED res[r]
               \/ res[r].status = "reserved" /\ res'[r] = WithStatus(res[r], "reserved-expired")
    BY <1>2, <1>t DEF TypeOK, DeviceRestart
  <1>3. ASSUME NEW t \in Rids, Refused(t)
        PROVE  \/ UNCHANGED res[r]
               \/ res[r].status = "reserved" /\ res'[r] = WithStatus(res[r], "burned")
    BY <1>3, <1>t DEF TypeOK, Refused, Pending, Answered
  <1>4. ASSUME NEW t \in Rids, commitKeyUse(t) \/ burnReservation(t)
        PROVE  \/ UNCHANGED res[r]
               \/ \E f \in {"committed", "burned"} :
                    res[r].status \in {"reserved", f} /\ res'[r] = WithStatus(res[r], f)
    BY <1>4, <1>t DEF TypeOK, commitKeyUse, burnReservation, Settle
  <1>5. \/ UNCHANGED res
        \/ \E d \in Devices, t \in Rids, value \in Values : reserveKeyUse(d, t, value)
        \/ \E d \in Devices : DeviceRestart(d)
        \/ \E t \in Rids : Refused(t) \/ commitKeyUse(t) \/ burnReservation(t)
    BY DEF Next, vars, Device, Reservation, Peer, syncLeaseJournal, Granted, Settled,
           Timeout, handleReserve, handleSettle, PeerRestart
  <1>6. ~Made(r) => res[r].status = "none"
    BY DEF Made
  <1>7. \/ ~Made(r)
        \/ UNCHANGED res[r]
        \/ \E f \in {"committed", "burned", "reserved-expired"} :
             res[r].status \in {"reserved", f} /\ res'[r] = WithStatus(res[r], f)
             /\ (f = "reserved-expired" => res[r].status = "reserved")
    BY <1>1, <1>2, <1>3, <1>4, <1>5
  <1> QED
    BY <1>6, <1>7, <1>x, <1>t DEF Made, TypeOK

\* An entry of a peer's book stays with its reservation; a committed or burned
\* one stays as it is.
LEMMA EntriesStay ==
  ASSUME IndInv, [Next]_vars, NEW q \in Peers, NEW s \in Slots, book[q][s].rid # NoRid
  PROVE  /\ book'[q][s].rid = book[q][s].rid
         /\ book[q][s].status = "committed" => book'[q][s] = book[q][s]
  <1> USE QuorumAssumption
  <1>t. TypeOK /\ Taken
    BY DEF IndInv
  <1>1. ASSUME NEW p \in Peers, NEW m \in req, handleReserve(p, m)
        PROVE  UNCHANGED book[q][s]
    <2>1. isUnavailable(pwm[q], s)
      BY <1>t DEF Taken
    <2>2. \/ UNCHANGED book
          \/ /\ ~isUnavailable(pwm[p], res[m.rid].slot)
             /\ book' = [book EXCEPT ![p] = [@ EXCEPT ![res[m.rid].slot] =
                          [rid |-> m.rid, status |-> "reserved"]]]
      BY <1>1 DEF handleReserve
    <2> QED
      BY <2>1, <2>2, <1>t DEF TypeOK
  <1>2. ASSUME NEW p \in Peers, NEW m \in req, handleSettle(p, m)
        PROVE  /\ book'[q][s].rid = book[q][s].rid
               /\ book[q][s].status = "committed" => book'[q][s] = book[q][s]
    <2> DEFINE c == res[m.rid].slot
    <2>1. \/ UNCHANGED book
          \/ /\ book[p][c].rid = m.rid /\ book[p][c].status \in {"reserved", Final(m.op)}
             /\ book' = [book EXCEPT ![p] = [@ EXCEPT ![c] =
                          [rid |-> m.rid, status |-> Final(m.op)]]]
      BY <1>2 DEF handleSettle
    <2>2. book[q][s] = [rid |-> book[q][s].rid, status |-> book[q][s].status]
      BY <1>t DEF TypeOK, Entries
    <2> QED
      BY <2>1, <2>2, <1>t DEF TypeOK
  <1>3. ASSUME NEW p \in Peers, PeerRestart(p)
        PROVE  /\ book'[q][s].rid = book[q][s].rid
               /\ book[q][s].status = "committed" => book'[q][s] = book[q][s]
    <2>1. \/ book'[q][s] = book[q][s]
          \/ book[q][s].status = "reserved"
             /\ book'[q][s] = WithStatus(book[q][s], "reserved-expired")
      BY <1>3, <1>t DEF TypeOK, PeerRestart
    <2>2. WithStatus(book[q][s], "reserved-expired").rid = book[q][s].rid
      BY <1>t DEF TypeOK, Entries, WithStatus
    <2> QED
      BY <2>1, <2>2
  <1>4. \/ UNCHANGED book
        \/ \E p \in Peers, m \in req : handleReserve(p, m) \/ handleSettle(p, m)
        \/ \E p \in Peers : PeerRestart(p)
    BY DEF Next, vars, Device, Reservation, Peer, syncLeaseJournal, Granted, Settled,
           Timeout, reserveKeyUse, DeviceRestart, Refused, commitKeyUse, burnReservation, Settle
  <1> QED
    BY <1>1, <1>2, <1>3, <1>4

\* No step makes a slot available again, on a device or on a peer.
LEMMA WatermarksStay ==
  ASSUME IndInv, [Next]_vars, NEW s \in Slots
  PROVE  /\ \A d \in Devices : isUnavailable(wm[d], s) => isUnavailable(wm'[d], s)
         /\ \A q \in Peers : isUnavailable(pwm[q], s) => isUnavailable(pwm'[q], s)
  <1>t. TypeOK
    BY DEF IndInv
  <1>1. ASSUME NEW d \in Devices, NEW r \in Rids, NEW value \in Values,
               reserveKeyUse(d, r, value), NEW e \in Devices, isUnavailable(wm[e], s)
        PROVE  isUnavailable(wm'[e], s)
    <2>1. getNextIndices(wm[d]) \in Slots
      BY <1>1, <1>t, NextIsAvailable DEF TypeOK, reserveKeyUse
    <2>2. isUnavailable(wm[d], s) =>
            isUnavailable(markUnavailable(wm[d], getNextIndices(wm[d])), s)
      BY <2>1, <1>t, MarkingCovers DEF TypeOK
    <2> QED
      BY <1>1, <2>2, <1>t DEF TypeOK, reserveKeyUse
  <1>2. ASSUME NEW d \in Devices, NEW q \in Peers, syncLeaseJournal(d, q),
               NEW e \in Devices, isUnavailable(wm[e], s)
        PROVE  isUnavailable(wm'[e], s)
    <2>1. pwm[q].cursor \in Slots /\ pwm[q].cursor > wm[d].cursor
      BY <1>2, <1>t DEF TypeOK, Watermarks, syncLeaseJournal
    <2>2. isUnavailable(wm[d], s) => isUnavailable(saveCursor(wm[d], pwm[q].cursor), s)
      BY <2>1, <1>t, AdvancingCovers DEF TypeOK
    <2> QED
      BY <1>2, <2>2, <1>t DEF TypeOK, syncLeaseJournal
  <1>3. ASSUME NEW q \in Peers, NEW m \in req, handleReserve(q, m),
               NEW p \in Peers, isUnavailable(pwm[p], s)
        PROVE  isUnavailable(pwm'[p], s)
    <2>1. m.rid \in Rids /\ res[m.rid].slot \in Slots
      BY <1>t DEF TypeOK, Requests, Reservations
    <2>2. isUnavailable(pwm[q], s) =>
            isUnavailable(markUnavailable(pwm[q], res[m.rid].slot), s)
      BY <2>1, <1>t, MarkingCovers DEF TypeOK
    <2>3. \/ UNCHANGED pwm
          \/ pwm' = [pwm EXCEPT ![q] = markUnavailable(@, res[m.rid].slot)]
      BY <1>3 DEF handleReserve
    <2> QED
      BY <1>3, <2>2, <2>3, <1>t DEF TypeOK
  <1>4. \/ UNCHANGED <<wm, pwm>>
        \/ UNCHANGED pwm /\ \E d \in Devices : \/ \E q \in Peers : syncLeaseJournal(d, q)
             \/ \E r \in Rids, value \in Values : reserveKeyUse(d, r, value)
        \/ UNCHANGED wm /\ \E q \in Peers, m \in req : handleReserve(q, m)
    <2>1. ASSUME NEW d \in Devices, Device(d)
          PROVE  \/ UNCHANGED <<wm, pwm>>
                 \/ /\ UNCHANGED pwm
                    /\ \/ \E q \in Peers : syncLeaseJournal(d, q)
                       \/ \E r \in Rids, value \in Values : reserveKeyUse(d, r, value)
      BY <2>1 DEF Device, syncLeaseJournal, reserveKeyUse, DeviceRestart
    <2>2. ASSUME NEW r \in Rids, Reservation(r)
          PROVE  UNCHANGED <<wm, pwm>>
      BY <2>2 DEF Reservation, Granted, Refused, Settled, Timeout, commitKeyUse,
                  burnReservation, Settle
    <2>3. ASSUME NEW q \in Peers, Peer(q)
          PROVE  \/ UNCHANGED <<wm, pwm>>
                 \/ UNCHANGED wm /\ \E m \in req : handleReserve(q, m)
      BY <2>3 DEF Peer, handleReserve, handleSettle, PeerRestart
    <2>4. CASE UNCHANGED vars
      BY <2>4 DEF vars
    <2> QED
      BY <2>1, <2>2, <2>3, <2>4 DEF Next
  <1> QED
    BY <1>1, <1>2, <1>3, <1>4

\* A request is sent by a step that makes its reservation or settles it locally.
LEMMA RequestsSent ==
  ASSUME IndInv, [Next]_vars, TypeOK', NEW m \in req', m \notin req
  PROVE  \/ m.op = "reserve" /\ Made(m.rid)'
         \/ m.op # "reserve" /\ Made(m.rid)' /\ res'[m.rid].status = Final(m.op)
  <1> USE QuorumAssumption
  <1>t. TypeOK
    BY DEF IndInv
  <1>1. ASSUME NEW d \in Devices, NEW r \in Rids, NEW value \in Values,
               reserveKeyUse(d, r, value)
        PROVE  m.op = "reserve" /\ Made(m.rid)'
    <2>1. m \in Send("reserve", r, PeersOf[d], {})
      BY <1>1 DEF reserveKeyUse
    <2>2. m.op = "reserve" /\ m.rid = r
      BY <2>1 DEF Send
    <2> QED
      BY <1>1, <2>2, <1>t DEF reserveKeyUse, Made, TypeOK
  <1>2. ASSUME NEW r \in Rids, commitKeyUse(r) \/ burnReservation(r)
        PROVE  m.op # "reserve" /\ Made(m.rid)' /\ res'[m.rid].status = Final(m.op)
    <2>1. PICK op \in {"commit", "burn"} :
            m \in Send(op, r, PeersFor(r), ids[r]) /\ Settle(r, op, Final(op))
      BY <1>2 DEF commitKeyUse, burnReservation, Settle, Final
    <2>2. m.op = op /\ m.rid = r
      BY <2>1 DEF Send
    <2>3. res'[r] = WithStatus(res[r], Final(op))
      BY <2>1, <1>t DEF Settle, TypeOK
    <2>4. res'[r].status = Final(op) /\ Final(op) # "none"
      BY <2>3, <1>t DEF WithStatus, TypeOK, Reservations, Final
    <2> QED
      BY <2>2, <2>4 DEF Made
  <1>3. \/ req' \subseteq req
        \/ \E d \in Devices, r \in Rids, value \in Values : reserveKeyUse(d, r, value)
        \/ \E r \in Rids : commitKeyUse(r) \/ burnReservation(r)
    BY DEF Next, vars, Device, Reservation, Peer, syncLeaseJournal, Granted, Settled,
           Timeout, DeviceRestart, Refused, handleReserve, handleSettle, PeerRestart
  <1> QED
    BY <1>1, <1>2, <1>3

\* How the round of a reservation changes: it begins, it ends, or one peer's
\* answer comes in, and then what the peer consents to is in its book.
LEMMA Rounds ==
  ASSUME IndInv, [Next]_vars, TypeOK', NEW r \in Rids
  PROVE  \/ call'[r] = call[r]
         \/ call'[r] = NoCall
         \/ /\ call'[r] = Round("reserve", PeersOf[res'[r].dev])
            /\ ~Made(r) /\ res'[r].status = "reserved" /\ told' = told
         \/ \E op \in {"commit", "burn"} : call'[r] = Round(op, PeersFor(r)) /\ r \in told
         \/ \E q \in call[r].waiting :
              \/ call'[r] = Without(call[r], q)
              \/ call'[r] = WithConflict(call[r], q)
              \/ /\ call'[r] = WithOk(call[r], q)
                 /\ call[r].op = "reserve" => book'[q][res[r].slot].rid = r
                 /\ call[r].op = "commit" =>
                      book'[q][res[r].slot] = [rid |-> r, status |-> "committed"]
  <1> USE QuorumAssumption
  <1>t. TypeOK
    BY DEF IndInv
  <1>1. ASSUME NEW d \in Devices, NEW t \in Rids, NEW value \in Values,
               reserveKeyUse(d, t, value)
        PROVE  \/ call'[r] = call[r]
               \/ /\ call'[r] = Round("reserve", PeersOf[res'[r].dev])
                  /\ ~Made(r) /\ res'[r].status = "reserved" /\ told' = told
    BY <1>1, <1>t DEF reserveKeyUse, TypeOK
  <1>2. ASSUME NEW t \in Rids, commitKeyUse(t) \/ burnReservation(t)
        PROVE  \/ call'[r] = call[r]
               \/ \E op \in {"commit", "burn"} : call'[r] = Round(op, PeersFor(r)) /\ r \in told
    BY <1>2, <1>t DEF commitKeyUse, burnReservation, Settle, TypeOK
  <1>3. ASSUME NEW q \in Peers, NEW t \in Rids, Timeout(t, q)
        PROVE  \/ call'[r] = call[r]
               \/ q \in call[r].waiting /\ call'[r] = Without(call[r], q)
    BY <1>3, <1>t DEF Timeout, TypeOK
  <1>4. ASSUME NEW q \in Peers, NEW m \in req, handleReserve(q, m)
        PROVE  \/ call'[r] = call[r]
               \/ /\ q \in call[r].waiting
                  /\ \/ call'[r] = WithConflict(call[r], q)
                     \/ /\ call'[r] = WithOk(call[r], q)
                        /\ call[r].op = "reserve" /\ book'[q][res[r].slot].rid = r
    <2> DEFINE ok == /\ Authorised(q, ControllerOf[res[m.rid].dev])
                     /\ ~isUnavailable(pwm[q], res[m.rid].slot)
    <2>1. m.rid \in Rids /\ res[m.rid].slot \in Slots
      BY <1>t DEF TypeOK, Requests, Reservations
    <2>2. Reply(m.rid, q, "reserve", ok)
      BY <1>4 DEF handleReserve
    <2>3. ok => book' = [book EXCEPT ![q] = [@ EXCEPT ![res[m.rid].slot] =
                           [rid |-> m.rid, status |-> "reserved"]]]
      BY <1>4 DEF handleReserve
    <2>4. ok => book'[q][res[m.rid].slot].rid = m.rid
      BY <2>1, <2>3, <1>t DEF TypeOK
    <2>5. \/ call'[r] = call[r]
          \/ /\ r = m.rid /\ q \in call[r].waiting /\ call[r].op = "reserve"
             /\ call'[r] = IF ok THEN WithOk(call[r], q) ELSE WithConflict(call[r], q)
      <3> HIDE DEF ok
      <3> QED
        BY <2>1, <2>2, <1>t DEF Reply, TypeOK
    <2> QED
      BY <2>4, <2>5
  <1>5. ASSUME NEW q \in Peers, NEW m \in req, handleSettle(q, m)
        PROVE  \/ call'[r] = call[r]
               \/ /\ q \in call[r].waiting
                  /\ \/ call'[r] = WithConflict(call[r], q)
                     \/ /\ call'[r] = WithOk(call[r], q) /\ call[r].op # "reserve"
                        /\ call[r].op = "commit" =>
                             book'[q][res[r].slot] = [rid |-> r, status |-> "committed"]
    <2> DEFINE ok == /\ m.id = "own" /\ book[q][res[m.rid].slot].rid = m.rid
                     /\ book[q][res[m.rid].slot].status \in {"reserved", Final(m.op)}
    <2>1. m.rid \in Rids /\ res[m.rid].slot \in Slots
      BY <1>t DEF TypeOK, Requests, Reservations
    <2>2. Reply(m.rid, q, m.op, ok) /\ m.op \in {"commit", "burn"}
      BY <1>5 DEF handleSettle
    <2>3. ok => book' = [book EXCEPT ![q] = [@ EXCEPT ![res[m.rid].slot] =
                           [rid |-> m.rid, status |-> Final(m.op)]]]
      BY <1>5 DEF handleSettle
    <2>4. ok => book'[q][res[m.rid].slot] = [rid |-> m.rid, status |-> Final(m.op)]
      BY <2>1, <2>3, <1>t DEF TypeOK
    <2>5. \/ call'[r] = call[r]
          \/ /\ r = m.rid /\ q \in call[r].waiting /\ call[r].op = m.op
             /\ call'[r] = IF ok THEN WithOk(call[r], q) ELSE WithConflict(call[r], q)
      <3> HIDE DEF ok
      <3> QED
        BY <2>1, <2>2, <1>t DEF Reply, TypeOK
    <2> QED
      BY <2>2, <2>4, <2>5 DEF Final
  <1>6. ASSUME NEW t \in Rids, Granted(t) \/ Refused(t) \/ Settled(t)
        PROVE  call'[r] = call[r] \/ call'[r] = NoCall
    BY <1>6, <1>t DEF Granted, Refused, Settled, TypeOK
  <1>7. ASSUME NEW d \in Devices, DeviceRestart(d)
        PROVE  call'[r] = call[r] \/ call'[r] = NoCall
    BY <1>7, <1>t DEF DeviceRestart, TypeOK
  <1>8. ASSUME \/ UNCHANGED vars
               \/ \E d \in Devices, q \in Peers : syncLeaseJournal(d, q)
               \/ \E q \in Peers : PeerRestart(q)
        PROVE  call'[r] = call[r]
    BY <1>8 DEF vars, syncLeaseJournal, PeerRestart
  <1> QED
    BY <1>1, <1>2, <1>3, <1>4, <1>5, <1>6, <1>7, <1>8 DEF Next, Device, Reservation, Peer

\* A reservation stays reserved while its attestation round runs.
LEMMA PendingStays ==
  ASSUME IndInv, [Next]_vars, NEW r \in Rids, call[r].op = "reserve", call'[r].op = "reserve"
  PROVE  res'[r].status = res[r].status
  <1>t. TypeOK /\ Pending /\ Rooted
    BY DEF IndInv
  <1>1. ASSUME NEW d \in Devices, NEW t \in Rids, NEW value \in Values,
               reserveKeyUse(d, t, value)
        PROVE  res'[r] = res[r]
    BY <1>1, <1>t DEF reserveKeyUse, TypeOK, Rooted, NoCall
  <1>2. ASSUME NEW d \in Devices, DeviceRestart(d)
        PROVE  res'[r] = res[r]
    <2>1. Made(r) /\ res[r].dev # d
      BY <1>2, <1>t DEF DeviceRestart, TypeOK, Rooted, NoCall
    <2> QED
      BY <1>2, <2>1, <1>t DEF DeviceRestart, TypeOK
  <1>3. ASSUME NEW t \in Rids, Refused(t)
        PROVE  res'[r] = res[r]
    BY <1>3, <1>t DEF Refused, TypeOK, NoCall
  <1>4. ASSUME NEW t \in Rids, commitKeyUse(t) \/ burnReservation(t)
        PROVE  res'[r] = res[r]
    BY <1>4, <1>t DEF commitKeyUse, burnReservation, Settle, TypeOK, Pending
  <1>5. \/ UNCHANGED res
        \/ \E d \in Devices, t \in Rids, value \in Values : reserveKeyUse(d, t, value)
        \/ \E d \in Devices : DeviceRestart(d)
        \/ \E t \in Rids : Refused(t) \/ commitKeyUse(t) \/ burnReservation(t)
    BY DEF Next, vars, Device, Reservation, Peer, syncLeaseJournal, Granted, Settled,
           Timeout, handleReserve, handleSettle, PeerRestart
  <1> QED
    BY <1>1, <1>2, <1>3, <1>4, <1>5

\* A reservation is handed out when enough peers consented, or by a device that
\* uses HybridLeaseProvider; it is made, and no round runs for it.
LEMMA HandedOut ==
  ASSUME IndInv, [Next]_vars, TypeOK', NEW r \in told', r \notin told
  PROVE  /\ Made(r)' /\ call'[r].op # "reserve"
         /\ \/ res'[r].dev \in Hybrid
            \/ Granted(r)
  <1> USE QuorumAssumption
  <1>t. TypeOK /\ Rooted /\ Pending
    BY DEF IndInv
  <1>0. r \in Rids
    BY DEF TypeOK
  <1>1. ASSUME NEW d \in Devices, NEW t \in Rids, NEW value \in Values,
               reserveKeyUse(d, t, value)
        PROVE  Made(r)' /\ call'[r].op # "reserve" /\ res'[r].dev \in Hybrid
    <2>1. t = r /\ d \in Hybrid /\ UNCHANGED call /\ ~Made(r)
      BY <1>1 DEF reserveKeyUse, Values
    <2>2. res'[r] = [dev |-> d, slot |-> getNextIndices(wm[d]), value |-> value,
                     status |-> "reserved"]
      BY <1>1, <2>1, <1>0, <1>t DEF reserveKeyUse, TypeOK
    <2>3. call[r] = NoCall
      BY <2>1, <1>0, <1>t DEF Rooted
    <2>4. res'[r].dev = d /\ res'[r].status = "reserved"
      BY <2>2
    <2> QED
      BY <2>1, <2>3, <2>4 DEF Made, NoCall
  <1>2. ASSUME NEW t \in Rids, Granted(t)
        PROVE  Made(r)' /\ call'[r].op # "reserve" /\ Granted(r)
    <2>1. t = r /\ UNCHANGED res /\ call'[r] = NoCall /\ call[r].op = "reserve"
      BY <1>2, <1>0, <1>t DEF Granted, TypeOK, Answered
    <2> QED
      BY <1>2, <2>1, <1>0, <1>t DEF Made, Rooted, NoCall
  <1>3. ASSUME NEW t \in Rids, Refused(t)
        PROVE  Made(r)' /\ call'[r].op # "reserve" /\ res'[r].dev \in Hybrid
    <2>1. /\ t = r /\ UNCHANGED res /\ call'[r] = NoCall /\ call[r].op = "reserve"
          /\ res[r].dev \in Hybrid
      BY <1>3, <1>0, <1>t DEF Refused, TypeOK, Answered
    <2> QED
      BY <2>1, <1>0, <1>t DEF Made, Rooted, NoCall
  <1>4. \/ told' = told
        \/ \E d \in Devices, t \in Rids, value \in Values : reserveKeyUse(d, t, value)
        \/ \E t \in Rids : Granted(t) \/ Refused(t)
    BY DEF Next, vars, Device, Reservation, Peer, syncLeaseJournal, Settled, Timeout,
           DeviceRestart, commitKeyUse, burnReservation, Settle, handleReserve,
           handleSettle, PeerRestart
  <1> QED
    BY <1>1, <1>2, <1>3, <1>4

\* commitKeyUse returns on a device of the quorum when its broadcast is over and,
\* if a quorum is required, enough peers acknowledged.
LEMMA Acknowledged ==
  ASSUME IndInv, [Next]_vars, NEW r \in acked', r \notin acked, r \in Rids,
         res'[r].dev \notin Hybrid, RequireQuorumOnCommit
  PROVE  /\ Settled(r) /\ call[r].op = "commit"
         /\ Cardinality(call[r].oks) >= MinAttestations
  <1>t. TypeOK
    BY DEF IndInv
  <1>1. ASSUME NEW t \in Rids, commitKeyUse(t)
        PROVE  FALSE
    <2>1. t = r /\ res[r].dev \in Hybrid
      BY <1>1 DEF commitKeyUse
    <2>2. res'[r] = WithStatus(res[r], "committed")
      BY <1>1, <2>1, <1>t DEF commitKeyUse, Settle, TypeOK
    <2>3. res'[r].dev = res[r].dev
      BY <2>2, <1>t DEF WithStatus, TypeOK, Reservations
    <2> QED
      BY <2>1, <2>3
  <1>2. ASSUME NEW t \in Rids, Settled(t)
        PROVE  /\ Settled(r) /\ call[r].op = "commit"
               /\ Cardinality(call[r].oks) >= MinAttestations
    BY <1>2 DEF Settled
  <1>3. \/ acked' = acked
        \/ \E t \in Rids : commitKeyUse(t) \/ Settled(t)
    BY DEF Next, vars, Device, Reservation, Peer, syncLeaseJournal, Granted, Refused,
           Timeout, reserveKeyUse, DeviceRestart, burnReservation, Settle, handleReserve,
           handleSettle, PeerRestart
  <1> QED
    BY <1>1, <1>2, <1>3

\* An entry of a peer's book is for a made reservation of that slot, and keeps
\* the slot unavailable; a settled entry follows the local outcome.
LEMMA EntriesFormed ==
  ASSUME IndInv, [Next]_vars, TypeOK', NEW q \in Peers, NEW s \in Slots
  PROVE  LET e == book'[q][s] IN
         /\ e.rid # NoRid => /\ e.rid \in Rids /\ Made(e.rid) /\ res[e.rid].slot = s
                             /\ isUnavailable(pwm'[q], s)
         /\ e.rid = NoRid => e.status = "none"
         /\ e.status \in {"committed", "burned"} => res[e.rid].status = e.status
  <1> USE QuorumAssumption
  <1>t. /\ TypeOK /\ Rooted /\ Taken /\ Announced /\ OutcomeAgrees
        /\ book[q][s] \in Entries /\ book'[q][s] \in Entries
    BY DEF IndInv, TypeOK
  <1>o. LET e == book[q][s] IN
        /\ e.rid # NoRid => /\ e.rid \in Rids /\ Made(e.rid) /\ res[e.rid].slot = s
                            /\ isUnavailable(pwm'[q], s)
        /\ e.rid = NoRid => e.status = "none"
        /\ e.status \in {"committed", "burned"} => res[e.rid].status = e.status
    <2>1. book[q][s].rid # NoRid => isUnavailable(pwm'[q], s)
      BY <1>t, WatermarksStay DEF Taken
    <2>2. book[q][s].rid \in Rids \cup {NoRid}
      BY <1>t DEF Entries
    <2> QED
      BY <2>1, <2>2, <1>t DEF Rooted, Taken, OutcomeAgrees
  <1>1. ASSUME NEW p \in Peers, NEW m \in req, handleReserve(p, m)
        PROVE  \/ book'[q][s] = book[q][s]
               \/ /\ book'[q][s] = [rid |-> m.rid, status |-> "reserved"]
                  /\ m.rid \in Rids /\ Made(m.rid) /\ res[m.rid].slot = s
                  /\ isUnavailable(pwm'[q], s)
    <2>1. m.rid \in Rids /\ res[m.rid].slot \in Slots /\ Made(m.rid)
      BY <1>t DEF TypeOK, Requests, Reservations, Rooted
    <2>2. \/ UNCHANGED book
          \/ /\ book' = [book EXCEPT ![p] = [@ EXCEPT ![res[m.rid].slot] =
                          [rid |-> m.rid, status |-> "reserved"]]]
             /\ pwm' = [pwm EXCEPT ![p] = markUnavailable(@, res[m.rid].slot)]
      BY <1>1 DEF handleReserve
    <2>3. isUnavailable(markUnavailable(pwm[p], res[m.rid].slot), res[m.rid].slot)
      BY <2>1, <1>t, MarkingCovers DEF TypeOK
    <2>4. CASE p = q /\ res[m.rid].slot = s
      BY <2>1, <2>2, <2>3, <2>4, <1>t DEF TypeOK
    <2>5. CASE ~(p = q /\ res[m.rid].slot = s)
      BY <2>1, <2>2, <2>5, <1>t DEF TypeOK
    <2> QED
      BY <2>4, <2>5
  <1>2. ASSUME NEW p \in Peers, NEW m \in req, handleSettle(p, m)
        PROVE  \/ book'[q][s] = book[q][s]
               \/ /\ book'[q][s] = [rid |-> m.rid, status |-> Final(m.op)]
                  /\ book[q][s].rid = m.rid /\ res[m.rid].status = Final(m.op)
    <2>1. m.rid \in Rids /\ res[m.rid].slot \in Slots
      BY <1>t DEF TypeOK, Requests, Reservations
    <2>2. \/ UNCHANGED book
          \/ /\ book[p][res[m.rid].slot].rid = m.rid
             /\ book' = [book EXCEPT ![p] = [@ EXCEPT ![res[m.rid].slot] =
                          [rid |-> m.rid, status |-> Final(m.op)]]]
      BY <1>2 DEF handleSettle
    <2>3. res[m.rid].status = Final(m.op)
      BY <1>2, <1>t DEF handleSettle, Announced
    <2>4. CASE p = q /\ res[m.rid].slot = s
      BY <2>1, <2>2, <2>3, <2>4, <1>t DEF TypeOK
    <2>5. CASE ~(p = q /\ res[m.rid].slot = s)
      BY <2>1, <2>2, <2>5, <1>t DEF TypeOK
    <2> QED
      BY <2>4, <2>5
  <1>3. ASSUME NEW p \in Peers, PeerRestart(p)
        PROVE  \/ book'[q][s] = book[q][s]
               \/ /\ book'[q][s] = WithStatus(book[q][s], "reserved-expired")
                  /\ book[q][s].status = "reserved"
    BY <1>3, <1>t DEF TypeOK, PeerRestart
  <1>4. \/ UNCHANGED book
        \/ \E p \in Peers, m \in req : handleReserve(p, m) \/ handleSettle(p, m)
        \/ \E p \in Peers : PeerRestart(p)
    BY DEF Next, vars, Device, Reservation, Peer, syncLeaseJournal, Granted, Settled,
           Timeout, reserveKeyUse, DeviceRestart, Refused, commitKeyUse, burnReservation, Settle
  <1>5. CASE book'[q][s] = book[q][s]
    BY <1>5, <1>o
  <1>6. CASE \E m \in req :
               /\ book'[q][s] = [rid |-> m.rid, status |-> "reserved"]
               /\ m.rid \in Rids /\ Made(m.rid) /\ res[m.rid].slot = s
               /\ isUnavailable(pwm'[q], s)
    BY <1>6
  <1>7. CASE \E m \in req :
               /\ book'[q][s] = [rid |-> m.rid, status |-> Final(m.op)]
               /\ book[q][s].rid = m.rid /\ res[m.rid].status = Final(m.op)
    <2>1. \A m \in req : m.rid # NoRid
      BY <1>t DEF TypeOK, Requests
    <2> QED
      BY <1>7, <2>1, <1>o
  <1>8. CASE /\ book'[q][s] = WithStatus(book[q][s], "reserved-expired")
             /\ book[q][s].status = "reserved"
    <2>1. /\ book'[q][s].rid = book[q][s].rid
          /\ book'[q][s].status = "reserved-expired"
      BY <1>8, <1>t DEF WithStatus, Entries
    <2> QED
      BY <2>1, <1>8, <1>o
  <1> QED
    BY <1>1, <1>2, <1>3, <1>4, <1>5, <1>6, <1>7, <1>8

------------------------------------------------------------------------------
(* The invariant. *)

\* Rounds, requests, entries and handed-out reservations belong to made ones.
LEMMA KeepsRooted == IndInv /\ [Next]_vars /\ TypeOK' => Rooted' /\ Pending'
  <1> SUFFICES ASSUME IndInv, [Next]_vars, TypeOK' PROVE Rooted' /\ Pending'
    OBVIOUS
  <1> USE QuorumAssumption
  <1>t. TypeOK /\ Rooted /\ Pending
    BY DEF IndInv
  <1>1. ASSUME NEW r \in Rids, ~Made(r)'
        PROVE  call'[r] = NoCall /\ r \notin told' /\ r \notin acked'
    <2>1. ~Made(r) /\ call[r] = NoCall /\ r \notin told /\ r \notin acked
      BY <1>1, <1>t, ReservationsStay DEF Rooted
    <2>2. call[r].waiting = {}
      BY <2>1 DEF NoCall
    <2>3. res'[r].status # "reserved"
      BY <1>1 DEF Made
    <2>4. call'[r] = NoCall
      BY <2>1, <2>2, <2>3, Rounds
    <2>5. r \notin told'
      BY <1>1, <2>1, HandedOut
    <2>6. r \notin acked'
      <3>1. call[r].op = "none"
        BY <2>1 DEF NoCall
      <3>2. \A t \in Rids : Settled(t) => t # r
        BY <3>1 DEF Settled, Answered
      <3>3. \A t \in Rids : commitKeyUse(t) => t # r
        BY <2>1 DEF commitKeyUse, Settle
      <3>4. \/ acked' = acked
            \/ \E t \in Rids : (commitKeyUse(t) \/ Settled(t)) /\ acked' \subseteq acked \cup {t}
        BY DEF Next, vars, Device, Reservation, Peer, syncLeaseJournal, Granted, Refused,
               Timeout, reserveKeyUse, DeviceRestart, burnReservation, Settle, handleReserve,
               handleSettle, PeerRestart, commitKeyUse, Settled
      <3> QED
        BY <2>1, <3>2, <3>3, <3>4
    <2> QED
      BY <2>4, <2>5, <2>6
  <1>2. ASSUME NEW m \in req' PROVE Made(m.rid)'
    <2>1. m.rid \in Rids
      BY DEF TypeOK, Requests
    <2>2. CASE m \in req
      BY <2>1, <2>2, <1>t, ReservationsStay DEF Rooted
    <2>3. CASE m \notin req
      BY <2>3, RequestsSent
    <2> QED
      BY <2>2, <2>3
  <1>3. ASSUME NEW q \in Peers, NEW s \in Slots, book'[q][s].rid # NoRid
        PROVE  res'[book'[q][s].rid].status # "none" /\ res'[book'[q][s].rid].slot = s
    <2>1. PICK e \in Rids : e = book'[q][s].rid /\ Made(e) /\ res[e].slot = s
      BY <1>3, EntriesFormed
    <2>2. Made(e)' /\ res'[e].slot = s
      BY <2>1, ReservationsStay
    <2> QED
      BY <2>1, <2>2 DEF Made
  <1>4. ASSUME NEW r \in Rids
        PROVE  call'[r].oks \subseteq PeersFor(r)' /\ call'[r].waiting \subseteq PeersFor(r)'
    <2>c. /\ call[r] \in Calls
          /\ call[r].oks \subseteq PeersFor(r) /\ call[r].waiting \subseteq PeersFor(r)
      BY <1>t DEF TypeOK, Rooted
    <2>1. CASE Made(r)
      <3>1. PeersFor(r)' = PeersFor(r)
        BY <2>1, ReservationsStay DEF PeersFor
      <3>2. \/ call'[r] = call[r]
            \/ call'[r] = NoCall
            \/ \E op \in {"commit", "burn"} : call'[r] = Round(op, PeersFor(r))
            \/ \E q \in call[r].waiting : \/ call'[r] = Without(call[r], q)
                                          \/ call'[r] = WithConflict(call[r], q)
                                          \/ call'[r] = WithOk(call[r], q)
        BY <2>1, Rounds
      <3>3. CASE call'[r] = call[r] \/ call'[r] = NoCall
        BY <3>1, <3>3, <2>c DEF NoCall
      <3>4. CASE \E op \in {"commit", "burn"} : call'[r] = Round(op, PeersFor(r))
        BY <3>1, <3>4 DEF Round
      <3>5. ASSUME NEW q \in call[r].waiting,
                   \/ call'[r] = Without(call[r], q)
                   \/ call'[r] = WithConflict(call[r], q)
                   \/ call'[r] = WithOk(call[r], q)
            PROVE  call'[r].oks \subseteq PeersFor(r) /\ call'[r].waiting \subseteq PeersFor(r)
        <4>1. /\ Without(call[r], q).oks = call[r].oks
              /\ Without(call[r], q).waiting = call[r].waiting \ {q}
              /\ WithConflict(call[r], q).oks = call[r].oks
              /\ WithConflict(call[r], q).waiting = call[r].waiting \ {q}
              /\ WithOk(call[r], q).oks = call[r].oks \cup {q}
              /\ WithOk(call[r], q).waiting = call[r].waiting \ {q}
          BY <2>c DEF Without, WithConflict, WithOk, Calls
        <4> QED
          BY <3>5, <4>1, <2>c
      <3> QED
        BY <3>1, <3>2, <3>3, <3>4, <3>5
    <2>2. CASE ~Made(r)
      <3>1. call[r] = NoCall /\ r \notin told
        BY <2>2, <1>t DEF Rooted
      <3>2. call[r].waiting = {}
        BY <3>1 DEF NoCall
      <3>3. call'[r] = NoCall \/ call'[r] = Round("reserve", PeersOf[res'[r].dev])
        BY <3>1, <3>2, Rounds
      <3> QED
        BY <3>3 DEF NoCall, Round, PeersFor
    <2> QED
      BY <2>1, <2>2
  <1>5. ASSUME NEW r \in Rids, call'[r].op = "reserve"
        PROVE  r \notin told' /\ res'[r].status = "reserved"
    <2>1. \/ /\ ~Made(r) /\ res'[r].status = "reserved" /\ told' = told
          \/ call[r].op = "reserve"
      <3>1. \A q \in call[r].waiting : /\ Without(call[r], q).op = call[r].op
                                      /\ WithConflict(call[r], q).op = call[r].op
                                      /\ WithOk(call[r], q).op = call[r].op
        BY <1>t DEF Without, WithConflict, WithOk, Calls, TypeOK
      <3>2. call'[r] # NoCall
        BY <1>5 DEF NoCall
      <3>3. \A op \in {"commit", "burn"} : call'[r] # Round(op, PeersFor(r))
        BY <1>5 DEF Round
      <3>4. \/ call'[r] = call[r]
            \/ ~Made(r) /\ res'[r].status = "reserved" /\ told' = told
            \/ \E q \in call[r].waiting : \/ call'[r] = Without(call[r], q)
                                          \/ call'[r] = WithConflict(call[r], q)
                                          \/ call'[r] = WithOk(call[r], q)
        BY <3>2, <3>3, Rounds
      <3> QED
        BY <1>5, <3>1, <3>4
    <2>2. r \notin told
      BY <2>1, <1>t DEF Pending, Rooted
    <2>3. r \notin told'
      BY <1>5, <2>2, HandedOut
    <2> QED
      BY <1>5, <2>1, <2>3, <1>t, PendingStays DEF Pending
  <1>6. Rooted'
    BY <1>1, <1>2, <1>3, <1>4 DEF Rooted, Made
  <1> QED
    BY <1>5, <1>6 DEF Pending

\* What is recorded stays unavailable, and a device makes no slot twice.
LEMMA KeepsTaken == IndInv /\ [Next]_vars /\ TypeOK' => Taken' /\ LocalOnce'
  <1> SUFFICES ASSUME IndInv, [Next]_vars, TypeOK' PROVE Taken' /\ LocalOnce'
    OBVIOUS
  <1> USE QuorumAssumption
  <1>t. TypeOK /\ Taken /\ LocalOnce
    BY DEF IndInv
  <1>y. \A r \in Rids : res[r].dev \in Devices /\ res[r].slot \in Slots
    BY <1>t DEF TypeOK, Reservations
  <1>1. \A q \in Peers, s \in Slots :
          /\ book'[q][s].rid # NoRid => isUnavailable(pwm'[q], s)
          /\ book'[q][s].rid = NoRid => book'[q][s].status = "none"
    BY EntriesFormed
  <1>2. ASSUME NEW r \in Rids, Made(r)
        PROVE  /\ Made(r)' /\ res'[r].dev = res[r].dev /\ res'[r].slot = res[r].slot
               /\ isUnavailable(wm'[res'[r].dev], res'[r].slot)
    <2>1. Made(r)' /\ res'[r].dev = res[r].dev /\ res'[r].slot = res[r].slot
      BY <1>2, ReservationsStay
    <2>2. isUnavailable(wm'[res[r].dev], res[r].slot)
      BY <1>2, <1>t, <1>y, WatermarksStay DEF Taken
    <2> QED
      BY <2>1, <2>2
  <1>3. ASSUME NEW d \in Devices, NEW t \in Rids, NEW value \in Values,
               reserveKeyUse(d, t, value)
        PROVE  /\ ~isUnavailable(wm[d], res'[t].slot) /\ res'[t].dev = d
               /\ isUnavailable(wm'[d], res'[t].slot)
               /\ \A r \in Rids \ {t} : res'[r] = res[r]
    <2> DEFINE s == getNextIndices(wm[d])
    <2>1. s \in Slots /\ ~isUnavailable(wm[d], s)
      BY <1>3, <1>t, NextIsAvailable DEF TypeOK, reserveKeyUse
    <2>2. isUnavailable(markUnavailable(wm[d], s), s)
      BY <2>1, <1>t, MarkingCovers DEF TypeOK
    <2>3. /\ res'[t].slot = s /\ res'[t].dev = d
          /\ \A r \in Rids \ {t} : res'[r] = res[r]
      BY <1>3, <1>t DEF TypeOK, reserveKeyUse
    <2>4. wm'[d] = markUnavailable(wm[d], s)
      BY <1>3, <1>t DEF TypeOK, reserveKeyUse
    <2> QED
      BY <2>1, <2>2, <2>3, <2>4
  <1>4. \/ \A r \in Rids : Made(r)' => Made(r)
        \/ \E d \in Devices, t \in Rids, value \in Values : reserveKeyUse(d, t, value)
    <2>1. ASSUME NEW d \in Devices, DeviceRestart(d), NEW r \in Rids, Made(r)'
          PROVE  Made(r)
      BY <2>1, <1>t DEF DeviceRestart, Made, TypeOK
    <2>2. ASSUME NEW t \in Rids, Refused(t) \/ commitKeyUse(t) \/ burnReservation(t),
                 NEW r \in Rids, Made(r)'
          PROVE  Made(r)
      <3>1. t = r => Made(r)
        BY <2>2, <1>t DEF Refused, Answered, commitKeyUse, burnReservation, Settle, Made,
                          IndInv, Pending
      <3>2. t # r => res'[r] = res[r]
        BY <2>2, <1>t DEF Refused, commitKeyUse, burnReservation, Settle, TypeOK
      <3> QED
        BY <3>1, <3>2, <2>2 DEF Made
    <2>3. UNCHANGED res => \A r \in Rids : Made(r)' => Made(r)
      BY DEF Made
    <2>4. \/ UNCHANGED res
          \/ \E d \in Devices, t \in Rids, value \in Values : reserveKeyUse(d, t, value)
          \/ \E d \in Devices : DeviceRestart(d)
          \/ \E t \in Rids : Refused(t) \/ commitKeyUse(t) \/ burnReservation(t)
      BY DEF Next, vars, Device, Reservation, Peer, syncLeaseJournal, Granted, Settled,
             Timeout, handleReserve, handleSettle, PeerRestart
    <2> QED
      BY <2>1, <2>2, <2>3, <2>4
  <1>5. CASE \A r \in Rids : Made(r)' => Made(r)
    <2>1. Taken'
      BY <1>1, <1>2, <1>5 DEF Taken
    <2>2. LocalOnce'
      BY <1>2, <1>5, <1>t DEF LocalOnce
    <2> QED
      BY <2>1, <2>2
  <1>6. ASSUME NEW d \in Devices, NEW t \in Rids, NEW value \in Values,
               reserveKeyUse(d, t, value)
        PROVE  Taken' /\ LocalOnce'
    <2>1. \A r \in Rids \ {t} : Made(r)' => Made(r)
      BY <1>3, <1>6 DEF Made
    <2>2. Taken'
      BY <1>1, <1>2, <1>3, <1>6, <2>1 DEF Taken
    <2>3. ASSUME NEW r \in Rids \ {t}, Made(r)', res'[r].dev = d
          PROVE  res'[r].slot # res'[t].slot
      <3>1. isUnavailable(wm[d], res'[r].slot)
        BY <2>1, <2>3, <1>2, <1>t DEF Taken
      <3> QED
        BY <3>1, <1>3, <1>6
    <2>4. LocalOnce'
      BY <1>2, <1>3, <1>6, <2>1, <2>3, <1>t DEF LocalOnce
    <2> QED
      BY <2>2, <2>4
  <1> QED
    BY <1>4, <1>5, <1>6

\* Attestations stay in the books of the peers that gave them.
LEMMA KeepsBacked == IndInv /\ [Next]_vars /\ TypeOK' => Backed'
  <1> SUFFICES ASSUME IndInv, [Next]_vars, TypeOK' PROVE Backed'
    OBVIOUS
  <1> USE QuorumAssumption
  <1>t. TypeOK /\ Rooted /\ Backed
    BY DEF IndInv
  <1>1. ASSUME NEW r \in Rids, Made(r), NEW q \in Peers, Holds(q, r)
        PROVE  Holds(q, r)'
    <2>1. res[r].slot \in Slots /\ r # NoRid /\ res'[r].slot = res[r].slot
      BY <1>1, <1>t, ReservationsStay DEF TypeOK, Reservations
    <2>2. book'[q][res[r].slot].rid = r
      BY <1>1, <2>1, EntriesStay DEF Holds
    <2> QED
      BY <2>1, <2>2 DEF Holds
  <1>2. ASSUME NEW r \in Rids, call'[r].op = "reserve", NEW q \in call'[r].oks
        PROVE  Holds(q, r)'
    <2>c. call[r] \in Calls /\ q \in Peers
      BY <1>t DEF TypeOK, Calls
    <2>1. CASE Made(r)
      <3>1. res'[r].slot = res[r].slot
        BY <2>1, ReservationsStay
      <3>2. CASE call'[r] = call[r]
        BY <1>1, <1>2, <2>1, <2>c, <3>2, <1>t DEF Backed
      <3>3. CASE call'[r] = NoCall
        BY <1>2, <3>3 DEF NoCall
      <3>4. CASE \E op \in {"commit", "burn"} : call'[r] = Round(op, PeersFor(r))
        BY <1>2, <3>4 DEF Round
      <3>5. ASSUME NEW p \in call[r].waiting,
                   \/ call'[r] = Without(call[r], p)
                   \/ call'[r] = WithConflict(call[r], p)
                   \/ /\ call'[r] = WithOk(call[r], p)
                      /\ call[r].op = "reserve" => book'[p][res[r].slot].rid = r
            PROVE  Holds(q, r)'
        <4>1. /\ Without(call[r], p).oks = call[r].oks /\ Without(call[r], p).op = call[r].op
              /\ WithConflict(call[r], p).oks = call[r].oks
              /\ WithConflict(call[r], p).op = call[r].op
              /\ WithOk(call[r], p).oks = call[r].oks \cup {p}
              /\ WithOk(call[r], p).op = call[r].op
          BY <2>c DEF Without, WithConflict, WithOk, Calls
        <4>2. call[r].op = "reserve"
          BY <1>2, <3>5, <4>1
        <4>3. CASE q \in call[r].oks
          BY <4>2, <4>3, <1>1, <2>1, <2>c, <1>t DEF Backed
        <4>4. CASE q \notin call[r].oks
          <5>1. q = p /\ book'[q][res[r].slot].rid = r
            BY <1>2, <3>5, <4>1, <4>2, <4>4
          <5> QED
            BY <5>1, <3>1 DEF Holds
        <4> QED
          BY <4>3, <4>4
      <3> QED
        BY <2>1, <3>2, <3>3, <3>4, <3>5, Rounds
    <2>2. CASE ~Made(r)
      <3>1. call[r] = NoCall /\ r \notin told
        BY <2>2, <1>t DEF Rooted
      <3>2. call[r].waiting = {}
        BY <3>1 DEF NoCall
      <3>3. call'[r] = NoCall \/ call'[r] = Round("reserve", PeersOf[res'[r].dev])
        BY <3>1, <3>2, Rounds
      <3> QED
        BY <1>2, <3>3 DEF NoCall, Round
    <2> QED
      BY <2>1, <2>2
  <1>3. ASSUME NEW r \in told', HighValue(r)', res'[r].dev \notin Hybrid
        PROVE  \E Q \in SUBSET PeersFor(r)' : /\ Cardinality(Q) >= MinAttestations
                                              /\ \A q \in Q : Holds(q, r)'
    <2>0. r \in Rids
      BY DEF TypeOK
    <2>1. CASE r \in told
      <3>1. Made(r)
        BY <2>0, <2>1, <1>t DEF Rooted
      <3>2. res'[r].dev = res[r].dev /\ res'[r].value = res[r].value
        BY <2>0, <3>1, ReservationsStay
      <3>3. PICK Q \in SUBSET PeersFor(r) : /\ Cardinality(Q) >= MinAttestations
                                            /\ \A q \in Q : Holds(q, r)
        BY <2>1, <3>2, <1>3, <1>t DEF Backed, HighValue
      <3>4. PeersFor(r)' = PeersFor(r) /\ PeersFor(r) \subseteq Peers
        BY <2>0, <3>2, <1>t DEF PeersFor, TypeOK, Reservations
      <3>5. \A q \in Q : Holds(q, r)'
        BY <2>0, <3>1, <3>3, <3>4, <1>1
      <3> QED
        BY <3>3, <3>4, <3>5
    <2>2. CASE r \notin told
      <3>1. Granted(r)
        BY <2>2, <1>3, HandedOut
      <3>2. /\ call[r].op = "reserve" /\ Cardinality(call[r].oks) >= MinAttestations
            /\ UNCHANGED <<res, book>>
        BY <3>1 DEF Granted, Answered, Attested
      <3>3. call[r].oks \subseteq PeersFor(r)' /\ \A q \in call[r].oks : Holds(q, r)'
        BY <2>0, <3>2, <1>t DEF Rooted, Backed, Holds, PeersFor
      <3> QED
        BY <3>2, <3>3
    <2> QED
      BY <2>1, <2>2
  <1> QED
    BY <1>2, <1>3 DEF Backed

\* Peers hear of an outcome after the local provider has recorded it.
LEMMA KeepsAnnounced ==
  IndInv /\ [Next]_vars /\ TypeOK' => Announced' /\ OutcomeAgrees' /\ CommitsHeld'
  <1> SUFFICES ASSUME IndInv, [Next]_vars, TypeOK'
               PROVE  Announced' /\ OutcomeAgrees' /\ CommitsHeld'
    OBVIOUS
  <1> USE QuorumAssumption
  <1>t. TypeOK /\ Rooted /\ Announced /\ OutcomeAgrees /\ CommitsHeld
    BY DEF IndInv
  <1>1. ASSUME NEW m \in req', m.op # "reserve"
        PROVE  res'[m.rid].status = Final(m.op)
    <2>1. CASE m \in req
      <3>1. m.rid \in Rids /\ Final(m.op) \in {"committed", "burned"}
        BY DEF TypeOK, Requests, Final
      <3>2. res[m.rid].status = Final(m.op)
        BY <1>1, <2>1, <1>t DEF Announced
      <3> QED
        BY <3>1, <3>2, ReservationsStay
    <2>2. CASE m \notin req
      BY <1>1, <2>2, RequestsSent
    <2> QED
      BY <2>1, <2>2
  <1>2. ASSUME NEW r \in Rids, Made(r), NEW q \in Peers,
               book[q][res[r].slot] = [rid |-> r, status |-> "committed"]
        PROVE  book'[q][res'[r].slot] = [rid |-> r, status |-> "committed"]
    <2>1. res[r].slot \in Slots /\ r # NoRid /\ res'[r].slot = res[r].slot
      BY <1>2, <1>t, ReservationsStay DEF TypeOK, Reservations
    <2>2. book[q][res[r].slot].rid # NoRid /\ book[q][res[r].slot].status = "committed"
      BY <1>2, <2>1
    <2> QED
      BY <1>2, <2>1, <2>2, EntriesStay
  <1>3. ASSUME NEW r \in Rids, call'[r].op = "commit", NEW q \in call'[r].oks
        PROVE  book'[q][res'[r].slot] = [rid |-> r, status |-> "committed"]
    <2>c. call[r] \in Calls /\ q \in Peers
      BY <1>t DEF TypeOK, Calls
    <2>1. CASE Made(r)
      <3>1. res'[r].slot = res[r].slot
        BY <2>1, ReservationsStay
      <3>2. CASE call'[r] = call[r]
        BY <1>2, <1>3, <2>1, <2>c, <3>2, <1>t DEF Announced
      <3>3. CASE call'[r] = NoCall
        BY <1>3, <3>3 DEF NoCall
      <3>4. CASE \E op \in {"commit", "burn"} : call'[r] = Round(op, PeersFor(r))
        BY <1>3, <3>4 DEF Round
      <3>5. ASSUME NEW p \in call[r].waiting,
                   \/ call'[r] = Without(call[r], p)
                   \/ call'[r] = WithConflict(call[r], p)
                   \/ /\ call'[r] = WithOk(call[r], p)
                      /\ call[r].op = "commit" =>
                           book'[p][res[r].slot] = [rid |-> r, status |-> "committed"]
            PROVE  book'[q][res'[r].slot] = [rid |-> r, status |-> "committed"]
        <4>1. /\ Without(call[r], p).oks = call[r].oks /\ Without(call[r], p).op = call[r].op
              /\ WithConflict(call[r], p).oks = call[r].oks
              /\ WithConflict(call[r], p).op = call[r].op
              /\ WithOk(call[r], p).oks = call[r].oks \cup {p}
              /\ WithOk(call[r], p).op = call[r].op
          BY <2>c DEF Without, WithConflict, WithOk, Calls
        <4>2. call[r].op = "commit"
          BY <1>3, <3>5, <4>1
        <4>3. CASE q \in call[r].oks
          BY <4>2, <4>3, <1>2, <2>1, <2>c, <1>t DEF Announced
        <4>4. CASE q \notin call[r].oks
          <5>1. q = p /\ book'[q][res[r].slot] = [rid |-> r, status |-> "committed"]
            BY <1>3, <3>5, <4>1, <4>2, <4>4
          <5> QED
            BY <5>1, <3>1
        <4> QED
          BY <4>3, <4>4
      <3> QED
        BY <2>1, <3>2, <3>3, <3>4, <3>5, Rounds
    <2>2. CASE ~Made(r)
      <3>1. call[r] = NoCall /\ r \notin told
        BY <2>2, <1>t DEF Rooted
      <3>2. call[r].waiting = {}
        BY <3>1 DEF NoCall
      <3>3. call'[r] = NoCall \/ call'[r] = Round("reserve", PeersOf[res'[r].dev])
        BY <3>1, <3>2, Rounds
      <3> QED
        BY <1>3, <3>3 DEF NoCall, Round
    <2> QED
      BY <2>1, <2>2
  <1>4. ASSUME NEW q \in Peers, NEW s \in Slots,
               book'[q][s].status \in {"committed", "burned"}
        PROVE  res'[book'[q][s].rid].status = book'[q][s].status
    <2>1. book'[q][s].rid # NoRid
      BY <1>4, EntriesFormed
    <2>2. PICK e \in Rids : e = book'[q][s].rid /\ res[e].status = book'[q][s].status
      BY <1>4, <2>1, EntriesFormed
    <2>3. res'[e].status = res[e].status
      BY <1>4, <2>2, ReservationsStay
    <2> QED
      BY <2>2, <2>3
  <1>5. ASSUME RequireQuorumOnCommit, NEW r \in acked', res'[r].dev \notin Hybrid
        PROVE  Cardinality({q \in Peers : book'[q][res'[r].slot] =
                              [rid |-> r, status |-> "committed"]}) >= MinAttestations
    <2> DEFINE C == {q \in Peers : book'[q][res'[r].slot] =
                                    [rid |-> r, status |-> "committed"]}
    <2>0. r \in Rids
      BY DEF TypeOK
    <2>f. \A P \in SUBSET C : /\ IsFiniteSet(P) /\ Cardinality(P) \in Nat
                              /\ Cardinality(C) \in Nat /\ Cardinality(P) <= Cardinality(C)
      <3>1. C \subseteq Peers
        OBVIOUS
      <3>2. IsFiniteSet(C)
        BY <3>1, FS_Subset
      <3> HIDE DEF C
      <3> QED
        BY <3>2, FS_Subset, FS_CardinalityType
    <2>m. r \in acked => Made(r)
      BY <2>0, <1>t DEF Rooted
    <2>1. CASE r \in acked
      <3> DEFINE B == {q \in Peers : book[q][res[r].slot] =
                                      [rid |-> r, status |-> "committed"]}
      <3>1. res'[r].dev = res[r].dev
        BY <2>0, <2>1, <2>m, ReservationsStay
      <3>2. Cardinality(B) >= MinAttestations
        BY <1>5, <2>1, <3>1, <1>t DEF CommitsHeld
      <3>3. B \subseteq C
        BY <2>0, <2>1, <2>m, <1>2
      <3> HIDE DEF B, C
      <3>4. /\ Cardinality(B) \in Nat /\ Cardinality(C) \in Nat
            /\ Cardinality(B) <= Cardinality(C)
        BY <3>3, <2>f
      <3>5. Cardinality(C) >= MinAttestations
        BY <3>2, <3>4
      <3> QED
        BY <3>5 DEF C
    <2>2. CASE r \notin acked
      <3>1. Settled(r) /\ call[r].op = "commit" /\ Cardinality(call[r].oks) >= MinAttestations
        BY <1>5, <2>0, <2>2, Acknowledged
      <3>2. UNCHANGED <<res, book>>
        BY <3>1 DEF Settled
      <3>3. call[r].oks \subseteq C
        BY <2>0, <3>1, <3>2, <1>t DEF Announced, TypeOK, Calls
      <3> HIDE DEF C
      <3>4. /\ Cardinality(call[r].oks) \in Nat /\ Cardinality(C) \in Nat
            /\ Cardinality(call[r].oks) <= Cardinality(C)
        BY <3>3, <2>f
      <3>5. Cardinality(C) >= MinAttestations
        BY <3>1, <3>4
      <3> QED
        BY <3>5 DEF C
    <2> QED
      BY <2>1, <2>2
  <1>6. Announced'
    BY <1>1, <1>3 DEF Announced
  <1>7. OutcomeAgrees'
    BY <1>4 DEF OutcomeAgrees
  <1>8. CommitsHeld'
    BY <1>5 DEF CommitsHeld
  <1> QED
    BY <1>6, <1>7, <1>8

\* The invariant holds in every reachable state.
LEMMA Invariance == Spec => []IndInv
  <1>1. IndInv /\ [Next]_vars => IndInv'
    BY Typed, KeepsRooted, KeepsTaken, KeepsBacked, KeepsAnnounced DEF IndInv
  <1> QED
    BY Start, <1>1, PTL DEF Spec

------------------------------------------------------------------------------
(* The theorems. *)

\* Two sets of attesting peers that are large enough have a peer in common.
LEMMA CommonPeer ==
  ASSUME Intersecting, NEW d \in Devices, NEW e \in Devices, d # e,
         NEW P \in SUBSET PeersOf[d], NEW Q \in SUBSET PeersOf[e],
         Cardinality(P) >= MinAttestations, Cardinality(Q) >= MinAttestations
  PROVE  P \cap Q # {}
  <1> SUFFICES ASSUME P \cap Q = {} PROVE FALSE
    OBVIOUS
  <1> USE QuorumAssumption
  <1> DEFINE U == PeersOf[d] \cup PeersOf[e]
  <1>1. IsFiniteSet(U) /\ Cardinality(U) \in Nat
    BY FS_Subset, FS_CardinalityType
  <1>2. P \subseteq U /\ Q \subseteq U /\ P \cup Q \subseteq U
    OBVIOUS
  <1>3. 2 * MinAttestations > Cardinality(U)
    BY DEF Intersecting
  <1> HIDE DEF U
  <1>4. IsFiniteSet(P) /\ IsFiniteSet(Q)
    BY <1>1, <1>2, FS_Subset
  <1>5. /\ Cardinality(P) \in Nat /\ Cardinality(Q) \in Nat
        /\ Cardinality(P \cup Q) = Cardinality(P) + Cardinality(Q) - Cardinality(P \cap Q)
    BY <1>4, FS_Union, FS_CardinalityType
  <1>6. Cardinality(P \cap Q) = 0
    BY FS_EmptySet
  <1>7. Cardinality(P \cup Q) <= Cardinality(U)
    BY <1>1, <1>2, FS_Subset
  <1> QED
    BY <1>1, <1>3, <1>5, <1>6, <1>7

\* The program stays within its types, whatever the answers of the peers.
THEOREM TypeCorrect == Spec => []TypeOK
  <1>1. IndInv => TypeOK
    BY DEF IndInv
  <1> QED
    BY Invariance, <1>1, PTL

\* When the attestations two devices need always share a peer, and no device
\* bypasses a failed attestation (HybridLeaseProvider), no two reservations of
\* the quorum name the same slot.
THEOREM QuorumSafety ==
  ASSUME Intersecting, Hybrid = {}
  PROVE  Spec => []NoDoubleGrant
  <1>1. IndInv => NoDoubleGrant
    <2> SUFFICES ASSUME IndInv, NEW r \in told, NEW s \in told,
                        HighValue(r), HighValue(s), res[r].slot = res[s].slot
                 PROVE  r = s
      BY DEF NoDoubleGrant
    <2>1. /\ r \in Rids /\ s \in Rids /\ Made(r) /\ Made(s)
          /\ res[r].dev \in Devices /\ res[s].dev \in Devices
      BY DEF IndInv, TypeOK, Rooted, Reservations
    <2>2. CASE res[r].dev = res[s].dev
      BY <2>1, <2>2 DEF IndInv, LocalOnce
    <2>3. CASE res[r].dev # res[s].dev
      <3>1. PICK P \in SUBSET PeersFor(r) : /\ Cardinality(P) >= MinAttestations
                                            /\ \A q \in P : Holds(q, r)
        BY DEF IndInv, Backed
      <3>2. PICK Q \in SUBSET PeersFor(s) : /\ Cardinality(Q) >= MinAttestations
                                            /\ \A q \in Q : Holds(q, s)
        BY DEF IndInv, Backed
      <3>3. PICK q \in P : q \in Q
        BY <2>1, <2>3, <3>1, <3>2, CommonPeer DEF PeersFor
      <3> QED
        BY <3>1, <3>2, <3>3 DEF Holds
    <2> QED
      BY <2>2, <2>3
  <1> QED
    BY Invariance, <1>1, PTL

\* What a peer holds as committed or burned is so on the device.
THEOREM OutcomeAgreement == Spec => []OutcomeAgrees
  <1>1. IndInv => OutcomeAgrees
    BY DEF IndInv
  <1> QED
    BY Invariance, <1>1, PTL

\* A commit that returned under requireQuorumOnCommit is held by enough peers.
THEOREM CommitQuorum == Spec => []CommitsHeld
  <1>1. IndInv => CommitsHeld
    BY DEF IndInv
  <1> QED
    BY Invariance, <1>1, PTL
==============================================================================
