---------------------------- MODULE LeaseQuorum ----------------------------
(****************************************************************************)
(* Devices that share one seed coordinate their WOTS slots through peers:   *)
(* P2PQuorumLeaseProvider (packages/wots-lease/src/quorum.ts) and, on top   *)
(* of it, HybridLeaseProvider (hybrid.ts) on the devices, LeaseCoordinator  *)
(* (packages/lookup-node/src/lease.ts) on the peers.                        *)
(*                                                                          *)
(* The LocalLeaseProvider inside each device and each peer appears here by  *)
(* what module LocalLease shows of it: an operation on it happens at once,  *)
(* is durable, and never returns the same slot twice.                       *)
(*                                                                          *)
(* A device sends a request to all its peers and waits for each of them.    *)
(* A request may be handled late or never; the device stops waiting for a   *)
(* peer at any time (the timeout, or a lost answer).  Handling and answer   *)
(* are one step: an answer that arrives after the timeout is ignored, and   *)
(* the peer's own state does not depend on when the device gave up.         *)
(****************************************************************************)
EXTENDS Watermark

CONSTANTS
  Devices,               \* devices holding the same seed
  Peers,                 \* lookup nodes that run a LeaseCoordinator
  PeersOf,               \* config.peers of each device
  ControllerOf,          \* the key each device authenticates to peers with
  NoController,          \* a session without a public key; a tree without owner
  Hybrid,                \* the devices that use HybridLeaseProvider
  MinAttestations,       \* config.minAttestations
  RequireQuorumOnCommit, \* config.requireQuorumOnCommit
  Rids, NoRid,           \* reservations (bound on those made)
  Settlers,              \* the reservations callers commit or burn in an instance
  MaxRestarts            \* bound on restarts of devices and peers

ASSUME QuorumAssumption ==
  /\ Devices # {} /\ IsFiniteSet(Peers)
  /\ PeersOf \in [Devices -> SUBSET Peers]
  /\ MinAttestations \in Nat
  /\ RequireQuorumOnCommit \in BOOLEAN
  /\ Hybrid \subseteq Devices
  /\ NoRid \notin Rids /\ Settlers \subseteq Rids
  /\ MaxRestarts \in Nat

Controllers == {ControllerOf[d] : d \in Devices} \cup {NoController}

VARIABLES
  wm,        \* each device's local watermark
  res,       \* each reservation in the local provider of its device
  call,      \* the request round a device runs for a reservation
  ids,       \* peers whose reservation id the device remembers for it
  req,       \* requests on their way
  pwm,       \* each peer's watermark
  book,      \* each peer's reservations, by slot
  owner,     \* the controller each peer lets use the tree
  told,      \* reservations handed to a caller
  acked,     \* commits that returned
  restarts

vars == <<wm, res, call, ids, req, pwm, book, owner, told, acked, restarts>>

Statuses == {"reserved", "committed", "burned", "reserved-expired"}
Values == {"low", "high"}
Reservations == [dev : Devices, slot : Slots, value : Values,
                 status : Statuses \cup {"none"}]
Calls == [op : {"none", "reserve", "commit", "burn"}, waiting : SUBSET Peers,
          oks : SUBSET Peers, conflicts : SUBSET Peers]
Requests == [op : {"reserve", "commit", "burn"}, rid : Rids, peer : Peers,
             id : {"own", "local"}]
Entries == [rid : Rids \cup {NoRid}, status : Statuses \cup {"none"}]

NoCall == [op |-> "none", waiting |-> {}, oks |-> {}, conflicts |-> {}]
NoReservation == [dev |-> CHOOSE d \in Devices : TRUE, slot |-> 0, value |-> "low",
                  status |-> "none"]
NoEntry == [rid |-> NoRid, status |-> "none"]

WithStatus(x, st) == [x EXCEPT !.status = st]
Made(r) == res[r].status # "none"
PeersFor(r) == PeersOf[res[r].dev]

------------------------------------------------------------------------------
(* A request round. *)

Round(op, peers) == [op |-> op, waiting |-> peers, oks |-> {}, conflicts |-> {}]
\* A request names a reservation by the peer's own id where that is known.
Send(op, r, peers, known) ==
  {[op |-> op, rid |-> r, peer |-> q, id |-> IF q \in known THEN "own" ELSE "local"] :
     q \in peers}

\* A round without peer q's answer, with its consent, with its refusal.
Without(c, q) == [c EXCEPT !.waiting = @ \ {q}]
WithOk(c, q) == [Without(c, q) EXCEPT !.oks = @ \cup {q}]
WithConflict(c, q) == [Without(c, q) EXCEPT !.conflicts = @ \cup {q}]

BugCountsErrors(r, q, op, ok) ==
  call' = IF call[r].op = op /\ q \in call[r].waiting
          THEN [call EXCEPT ![r] = WithOk(@, q)] ELSE call

\* A peer's answer counts while the device waits for it.
Reply(r, q, op, ok) ==
  call' = IF call[r].op = op /\ q \in call[r].waiting
          THEN [call EXCEPT ![r] = IF ok THEN WithOk(@, q) ELSE WithConflict(@, q)]
          ELSE call

\* peer.request rejects: unreachable, or no answer within requestTimeoutMs.
Timeout(r, q) ==
  /\ q \in call[r].waiting
  /\ call' = [call EXCEPT ![r] = Without(@, q)]
  /\ UNCHANGED <<wm, res, ids, req, pwm, book, owner, told, acked, restarts>>

------------------------------------------------------------------------------
(* A device reserves: locally first, then by attestation of the same slot. *)

\* HybridLeaseProvider asks nobody for a use below its threshold.
reserveKeyUse(d, r, value) ==
  LET s == getNextIndices(wm[d]) IN
  /\ ~Made(r) /\ ~Exhausted(wm[d])
  /\ d \notin Hybrid => value = "high"
  /\ wm' = [wm EXCEPT ![d] = markUnavailable(@, s)]
  /\ res' = [res EXCEPT ![r] = [dev |-> d, slot |-> s, value |-> value,
                                status |-> "reserved"]]
  /\ IF value = "high"
     THEN /\ call' = [call EXCEPT ![r] = Round("reserve", PeersOf[d])]
          /\ req' = req \cup Send("reserve", r, PeersOf[d], {})
          /\ UNCHANGED told
     ELSE UNCHANGED <<call, req>> /\ told' = told \cup {r}
  /\ UNCHANGED <<ids, pwm, book, owner, acked, restarts>>

\* attestKeyUse returns: no conflict, and enough attestations.
Attested(r) == call[r].conflicts = {} /\ Cardinality(call[r].oks) >= MinAttestations

Answered(r, op) == call[r].op = op /\ call[r].waiting = {}

\* The caller gets the reservation.  Only P2PQuorumLeaseProvider remembers the
\* ids under which the peers hold it.
Granted(r) ==
  /\ Answered(r, "reserve") /\ Attested(r)
  /\ told' = told \cup {r}
  /\ ids' = IF res[r].dev \in Hybrid THEN ids ELSE [ids EXCEPT ![r] = call[r].oks]
  /\ call' = [call EXCEPT ![r] = NoCall]
  /\ UNCHANGED <<wm, res, req, pwm, book, owner, acked, restarts>>

\* attestKeyUse throws.  P2PQuorumLeaseProvider burns the local reservation and
\* rethrows; HybridLeaseProvider catches and returns the local reservation.
Refused(r) ==
  /\ Answered(r, "reserve") /\ ~Attested(r)
  /\ IF res[r].dev \in Hybrid
     THEN told' = told \cup {r} /\ UNCHANGED res
     ELSE res' = [res EXCEPT ![r] = WithStatus(@, "burned")] /\ UNCHANGED told
  /\ call' = [call EXCEPT ![r] = NoCall]
  /\ UNCHANGED <<wm, ids, req, pwm, book, owner, acked, restarts>>

------------------------------------------------------------------------------
(* Commit and burn: locally first, then broadcast. *)

\* Mutant: the local outcome is not looked at.
BugSettlesAgain(r, op, final) ==
  /\ r \in told /\ call[r].op = "none"
  /\ res' = [res EXCEPT ![r] = WithStatus(@, final)]
  /\ call' = [call EXCEPT ![r] = Round(op, PeersFor(r))]
  /\ req' = req \cup Send(op, r, PeersFor(r), ids[r])
  /\ UNCHANGED <<wm, ids, pwm, book, owner, told, restarts>>

\* A local reservation takes one final status; repeating it is accepted.
Settle(r, op, final) ==
  /\ r \in told /\ call[r].op = "none"
  /\ res[r].status \in {"reserved", final}
  /\ res' = [res EXCEPT ![r] = WithStatus(@, final)]
  /\ IF res[r].dev \in Hybrid
     THEN UNCHANGED <<call, req>>
     ELSE /\ call' = [call EXCEPT ![r] = Round(op, PeersFor(r))]
          /\ req' = req \cup Send(op, r, PeersFor(r), ids[r])
  /\ UNCHANGED <<wm, ids, pwm, book, owner, told, restarts>>

commitKeyUse(r) ==
  /\ Settle(r, "commit", "committed")
  /\ acked' = IF res[r].dev \in Hybrid THEN acked \cup {r} ELSE acked

burnReservation(r) == Settle(r, "burn", "burned") /\ UNCHANGED acked

\* The broadcast is over: commitKeyUse throws when requireQuorumOnCommit is set
\* and too few peers acknowledged; burnReservation returns.
Settled(r) ==
  /\ Answered(r, "commit") \/ Answered(r, "burn")
  /\ acked' = IF /\ call[r].op = "commit"
                 /\ ~RequireQuorumOnCommit \/ Cardinality(call[r].oks) >= MinAttestations
              THEN acked \cup {r} ELSE acked
  /\ call' = [call EXCEPT ![r] = NoCall]
  /\ UNCHANGED <<wm, res, ids, req, pwm, book, owner, told, restarts>>

------------------------------------------------------------------------------
(* A peer: LeaseCoordinator over its own LocalLeaseProvider. *)

\* _authoriseTree: the first controller to reserve becomes the owner.
Authorised(q, c) == c = NoController \/ owner[q] \in {NoController, c}

BugAttestsTaken(q, m) ==
  LET s == res[m.rid].slot IN
  /\ m.peer = q /\ m.op = "reserve" /\ req' = req \ {m}
  /\ pwm' = [pwm EXCEPT ![q] = markUnavailable(@, s)]
  /\ book' = [book EXCEPT ![q] =
                [@ EXCEPT ![s] = [rid |-> m.rid, status |-> "reserved"]]]
  /\ Reply(m.rid, q, "reserve", TRUE)
  /\ UNCHANGED <<wm, res, ids, owner, told, acked, restarts>>

handleReserve(q, m) ==
  LET c == ControllerOf[res[m.rid].dev]
      s == res[m.rid].slot
      ok == Authorised(q, c) /\ ~isUnavailable(pwm[q], s)
  IN /\ m.peer = q /\ m.op = "reserve" /\ req' = req \ {m}
     /\ owner' = IF c # NoController /\ Authorised(q, c)
                 THEN [owner EXCEPT ![q] = c] ELSE owner
     /\ IF ok
        THEN /\ pwm' = [pwm EXCEPT ![q] = markUnavailable(@, s)]
             /\ book' = [book EXCEPT ![q] =
                           [@ EXCEPT ![s] = [rid |-> m.rid, status |-> "reserved"]]]
        ELSE UNCHANGED <<pwm, book>>
     /\ Reply(m.rid, q, "reserve", ok)
     /\ UNCHANGED <<wm, res, ids, told, acked, restarts>>

Final(op) == IF op = "commit" THEN "committed" ELSE "burned"

\* handleCommit and handleBurn: the peer finds the reservation only under the id
\* it issued, and settles it as its local provider would.
handleSettle(q, m) ==
  LET s == res[m.rid].slot
      ok == /\ m.id = "own" /\ book[q][s].rid = m.rid
            /\ book[q][s].status \in {"reserved", Final(m.op)}
  IN /\ m.peer = q /\ m.op \in {"commit", "burn"} /\ req' = req \ {m}
     /\ book' = IF ok
                THEN [book EXCEPT ![q] =
                        [@ EXCEPT ![s] = [rid |-> m.rid, status |-> Final(m.op)]]]
                ELSE book
     /\ Reply(m.rid, q, m.op, ok)
     /\ UNCHANGED <<wm, res, ids, pwm, owner, told, acked, restarts>>

------------------------------------------------------------------------------
(* Watermarks and restarts. *)

\* syncLeaseJournal: a peer ahead of the device moves the device's cursor.
syncLeaseJournal(d, q) ==
  /\ q \in PeersOf[d] /\ pwm[q].cursor > wm[d].cursor
  /\ wm' = [wm EXCEPT ![d] = saveCursor(@, pwm[q].cursor)]
  /\ UNCHANGED <<res, call, ids, req, pwm, book, owner, told, acked, restarts>>

\* A device restarts: its rounds and the peers' ids are gone; the local provider
\* recovers its reservations and expires those past their TTL.
DeviceRestart(d) ==
  LET mine == {r \in Rids : Made(r) /\ res[r].dev = d} IN
  /\ restarts < MaxRestarts /\ restarts' = restarts + 1
  /\ call' = [r \in Rids |-> IF r \in mine THEN NoCall ELSE call[r]]
  /\ ids' = [r \in Rids |-> IF r \in mine THEN {} ELSE ids[r]]
  /\ \E late \in SUBSET {r \in mine : res[r].status = "reserved"} :
       res' = [r \in Rids |-> IF r \in late
                              THEN WithStatus(res[r], "reserved-expired")
                              ELSE res[r]]
  /\ UNCHANGED <<wm, req, pwm, book, owner, told, acked>>

\* A peer with configured storage restarts: it has forgotten who owns the tree.
PeerRestart(q) ==
  /\ restarts < MaxRestarts /\ restarts' = restarts + 1
  /\ owner' = [owner EXCEPT ![q] = NoController]
  /\ \E late \in SUBSET {s \in Slots : book[q][s].status = "reserved"} :
       book' = [book EXCEPT ![q] =
                  [s \in Slots |-> IF s \in late
                                   THEN WithStatus(book[q][s], "reserved-expired")
                                   ELSE book[q][s]]]
  /\ UNCHANGED <<wm, res, call, ids, req, pwm, told, acked>>

------------------------------------------------------------------------------
Init ==
  /\ wm = [d \in Devices |-> emptyTree]
  /\ res = [r \in Rids |-> NoReservation]
  /\ call = [r \in Rids |-> NoCall]
  /\ ids = [r \in Rids |-> {}]
  /\ req = {}
  /\ pwm = [q \in Peers |-> emptyTree]
  /\ book = [q \in Peers |-> [s \in Slots |-> NoEntry]]
  /\ owner = [q \in Peers |-> NoController]
  /\ told = {} /\ acked = {} /\ restarts = 0

Device(d) ==
  \/ \E r \in Rids, value \in Values : reserveKeyUse(d, r, value)
  \/ \E q \in Peers : syncLeaseJournal(d, q)
  \/ DeviceRestart(d)

Reservation(r) ==
  \/ Granted(r) \/ Refused(r) \/ Settled(r)
  \/ r \in Settlers /\ (commitKeyUse(r) \/ burnReservation(r))
  \/ \E q \in Peers : Timeout(r, q)

Peer(q) ==
  \/ \E m \in req : handleReserve(q, m) \/ handleSettle(q, m)
  \/ PeerRestart(q)

Next ==
  \/ \E d \in Devices : Device(d)
  \/ \E r \in Rids : Reservation(r)
  \/ \E q \in Peers : Peer(q)

Spec == Init /\ [][Next]_vars

------------------------------------------------------------------------------
(* Correctness. *)

\* Every variable has its type.
TypeOK ==
  /\ wm \in [Devices -> Watermarks]
  /\ res \in [Rids -> Reservations]
  /\ call \in [Rids -> Calls]
  /\ ids \in [Rids -> SUBSET Peers]
  /\ req \subseteq Requests
  /\ pwm \in [Peers -> Watermarks]
  /\ book \in [Peers -> [Slots -> Entries]]
  /\ owner \in [Peers -> Controllers]
  /\ told \subseteq Rids /\ acked \subseteq Rids
  /\ restarts \in 0 .. MaxRestarts

\* Any two devices' attestations come from a common peer.
Intersecting ==
  \A d, e \in Devices :
    d # e => 2 * MinAttestations > Cardinality(PeersOf[d] \cup PeersOf[e])

HighValue(r) == res[r].value = "high"

\* Two devices of one seed are never both handed the same slot for a use that
\* goes through the quorum, whatever the peers' answers, delays, timeouts and
\* restarts (reserveKeyUse, attestKeyUse, handleReserve).
NoDoubleGrant ==
  \A r, s \in told :
    HighValue(r) /\ HighValue(s) /\ res[r].slot = res[s].slot => r = s

\* A peer's final word on a reservation is the device's: what a peer holds as
\* committed or burned is so in the local journal (local first, then broadcast).
OutcomeAgrees ==
  \A q \in Peers, s \in Slots :
    book[q][s].status \in {"committed", "burned"} =>
      res[book[q][s].rid].status = book[q][s].status

\* A commit that returned under requireQuorumOnCommit is held as committed by
\* enough peers, and stays so through their restarts (commitKeyUse).
CommitsHeld ==
  RequireQuorumOnCommit =>
    \A r \in acked : res[r].dev \notin Hybrid =>
      Cardinality({q \in Peers : book[q][res[r].slot] = [rid |-> r, status |-> "committed"]})
        >= MinAttestations

------------------------------------------------------------------------------
(* The inductive invariant behind the safety properties. *)

Holds(q, r) == book[q][res[r].slot].rid = r

\* What exists only for a reservation that was made.
Rooted ==
  /\ \A r \in Rids : ~Made(r) => call[r] = NoCall /\ r \notin told /\ r \notin acked
  /\ \A m \in req : Made(m.rid)
  /\ \A q \in Peers, s \in Slots : book[q][s].rid # NoRid =>
       Made(book[q][s].rid) /\ res[book[q][s].rid].slot = s
  /\ \A r \in Rids : /\ call[r].oks \subseteq PeersFor(r)
                      /\ call[r].waiting \subseteq PeersFor(r)

\* A reservation under attestation is not with a caller yet.
Pending == \A r \in Rids : call[r].op = "reserve" =>
             r \notin told /\ res[r].status = "reserved"

\* What is recorded is unavailable, on a device and on a peer.
Taken ==
  /\ \A r \in Rids : Made(r) => isUnavailable(wm[res[r].dev], res[r].slot)
  /\ \A q \in Peers, s \in Slots :
       book[q][s].rid # NoRid => isUnavailable(pwm[q], s)
  /\ \A q \in Peers, s \in Slots : book[q][s].rid = NoRid => book[q][s].status = "none"

LocalOnce == \A r, t \in Rids :
  Made(r) /\ Made(t) /\ res[r].dev = res[t].dev /\ res[r].slot = res[t].slot => r = t

\* An attestation is an entry in the attesting peer's book.
Backed ==
  /\ \A r \in Rids : call[r].op = "reserve" => \A q \in call[r].oks : Holds(q, r)
  /\ \A r \in told : HighValue(r) /\ res[r].dev \notin Hybrid =>
       \E Q \in SUBSET PeersFor(r) : /\ Cardinality(Q) >= MinAttestations
                                     /\ \A q \in Q : Holds(q, r)

\* A request to settle follows the local outcome, and so does an acknowledgement.
Announced ==
  /\ \A m \in req : m.op # "reserve" => res[m.rid].status = Final(m.op)
  /\ \A r \in Rids : call[r].op = "commit" =>
       \A q \in call[r].oks :
         book[q][res[r].slot] = [rid |-> r, status |-> "committed"]

\* The conjunction that every step preserves.
IndInv ==
  /\ TypeOK /\ Rooted /\ Pending /\ Taken /\ LocalOnce /\ Backed /\ Announced
  /\ OutcomeAgrees /\ CommitsHeld
==============================================================================
