----------------------- MODULE StatechainEntityProofs -----------------------
(****************************************************************************)
(* Proofs about StatechainEntity for any number of parties, requests,       *)
(* challenges, leaves and restarts.                                         *)
(****************************************************************************)
EXTENDS StatechainEntity, TLAPS

------------------------------------------------------------------------------
(* Moves of one request. *)

Pcs == {"idle", "insert", "nonce", "revoked", "tx", "sign", "store", "chain", "status", "release"}

\* A step of one request leaves the others where they are.
Moved(r) == req' \in [Reqs -> Requests] /\ \A q \in Reqs \ {r} : req'[q] = req[q]

\* The request goes on with what it holds.
Kept(r) ==
  /\ req'[r].op = req[r].op /\ req'[r].by = req[r].by /\ req'[r].to = req[r].to
  /\ req'[r].nonce = req[r].nonce /\ req'[r].owner = req[r].owner
  /\ req'[r].leaf = req[r].leaf /\ req'[r].snap = req[r].snap

\* No request is a request that holds nothing.
LEMMA IdleTyped == Idle \in Requests /\ Idle.pc = "idle" /\ NoUses \in Uses
  BY EntityAssumption DEF Idle, Requests, Uses, NoUses, Kinds, Ops

\* A handler that awaits its next call keeps what it holds.
LEMMA GotoMoves ==
  ASSUME TypeOK, NEW r \in Reqs, NEW p \in Pcs, Goto(r, p)
  PROVE  Moved(r) /\ req'[r].pc = p /\ Kept(r)
  BY DEF TypeOK, Goto, Moved, Kept, Pcs, Requests

\* A handler that answers is gone.
LEMMA AnswerMoves ==
  ASSUME TypeOK, NEW r \in Reqs, Answer(r)
  PROVE  Moved(r) /\ req'[r] = Idle /\ req'[r].pc = "idle"
  BY IdleTyped DEF TypeOK, Answer, Moved

\* A request arrives.
LEMMA BeginMoves ==
  ASSUME TypeOK, NEW r \in Reqs, NEW op \in Ops, NEW p \in Parties,
         NEW n \in Nonces \cup {NoNonce}, NEW q \in Parties \cup {NoParty}, NEW pc \in Pcs,
         Begin(r, op, p, n, q, pc)
  PROVE  /\ Moved(r) /\ req'[r].pc = pc /\ req'[r].op = op /\ req'[r].by = p
         /\ req'[r].to = q /\ req'[r].nonce = n /\ req[r].pc = "idle"
  <1>1. [pc |-> pc, op |-> op, by |-> p, to |-> q, nonce |-> n, owner |-> record.owner,
         leaf |-> 0, snap |-> NoUses] \in Requests
    BY IdleTyped, EntityAssumption DEF TypeOK, Requests, Pcs
  <1> QED
    BY <1>1, IdleTyped DEF TypeOK, Begin, Moved

------------------------------------------------------------------------------
(* The steps. *)

\* The leaves and counts of a state are numbers.
LEMMA Numbers ==
  ASSUME TypeOK
  PROVE  /\ \A k \in Kinds : lease[k] \in Nat /\ uses[k] \in Nat /\ stored[k] \in Nat
         /\ \A r \in Reqs : /\ req[r].leaf \in Nat /\ req[r].snap \in Uses
                             /\ \A k \in Kinds : req[r].snap[k] \in Nat
         /\ "root" \in Kinds /\ "child" \in Kinds
         /\ \A r \in Reqs : Tree(r) \in Kinds
  BY EntityAssumption DEF TypeOK, Requests, Uses, Kinds, Tree

\* Begin keeps the invariants.
LEMMA Step_Begin ==
  ASSUME ChainInv, NEW r \in Reqs, NEW op \in Ops, NEW p \in Parties,
         NEW n \in Nonces \cup {NoNonce}, NEW q \in Parties \cup {NoParty}, NEW pc \in Pcs,
         Begin(r, op, p, n, q, pc),
         \/ pc = "insert"
         \/ n \in Nonces /\ pc = "tx"
         \/ n \in Nonces /\ pc = "nonce" /\ op \in {"blind-sign", "claim", "confirm", "reclaim-tx"}
  PROVE  ChainInv' /\ (LeafInv => LeafInv')
  <1> USE EntityAssumption DEF ChainInv
  <1>0. /\ Moved(r) /\ req'[r].pc = pc /\ req'[r].op = op /\ req'[r].by = p
        /\ req'[r].nonce = n /\ req[r].pc = "idle" /\ pc \in {"insert", "tx", "nonce"}
    BY BeginMoves
  <1>1. TypeOK'
    BY <1>0 DEF TypeOK, Begin, database, identity, Moved
  <1>2. Placed'
    BY <1>0 DEF TypeOK, Placed, Begin, Moved, Kept
  <1>3. ChallengesSpent'
    BY <1>0 DEF TypeOK, Placed, ChallengesSpent, Paid, Begin, database, identity, Moved, Kept
  <1>4. NonceOnce'
    BY <1>0 DEF TypeOK, NonceOnce, ChallengesSpent, Paid, Placed, Begin, database, identity, Moved
  <1>5. Numbered' /\ TransferChain'
    BY <1>0 DEF TypeOK, Numbered, TransferChain, Begin, database, identity
  <1>6. ASSUME LeafInv
        PROVE  LeafInv'
    <2> USE <1>6 DEF LeafInv
    <2>6. LeasesKnown'
      BY <1>0 DEF TypeOK, Placed, LeasesKnown, Signing, Tree, Begin, database, identity, Moved, Kept
    <2>7. ProofsKnown' /\ ClaimsKnown'
      BY <1>0 DEF TypeOK, Placed, ProofsKnown, ClaimsKnown, Signing, Tree, Begin, database, identity, Moved, Kept
    <2>8. LeavesApart'
      BY <1>0 DEF TypeOK, Placed, LeavesApart, Signing, Tree, Begin, database, identity, Moved, Kept
    <2>9. LeafOneTime'
      BY <1>0 DEF LeafOneTime, ProofRepeats, Begin, database, identity
    <2> QED
      BY <2>6, <2>7, <2>8, <2>9
  <1> QED
    BY <1>1, <1>2, <1>3, <1>4, <1>5, <1>6

\* challenge keeps the invariants.
LEMMA Step_challenge ==
  ASSUME ChainInv, NEW n \in Nonces, challenge(n)
  PROVE  ChainInv' /\ (LeafInv => LeafInv')
  <1> USE EntityAssumption DEF ChainInv
  <1>0. nonce' = [nonce EXCEPT ![n] = "live"] /\ nonce[n] = "unissued"
    BY DEF challenge
  <1>1. TypeOK'
    BY <1>0 DEF TypeOK, challenge, database, identity, Moved
  <1>2. Placed'
    BY <1>0 DEF TypeOK, Placed, challenge, Moved, Kept
  <1>3. ChallengesSpent'
    BY <1>0 DEF TypeOK, Placed, ChallengesSpent, Paid, challenge, database, identity, Moved, Kept
  <1>4. NonceOnce'
    BY <1>0 DEF TypeOK, NonceOnce, ChallengesSpent, Paid, Placed, challenge, database, identity, Moved
  <1>5. Numbered' /\ TransferChain'
    BY <1>0 DEF TypeOK, Numbered, TransferChain, challenge, database, identity
  <1>6. ASSUME LeafInv
        PROVE  LeafInv'
    <2> USE <1>6 DEF LeafInv
    <2>6. LeasesKnown'
      BY <1>0 DEF TypeOK, Placed, LeasesKnown, Signing, Tree, challenge, database, identity, Moved, Kept
    <2>7. ProofsKnown' /\ ClaimsKnown'
      BY <1>0 DEF TypeOK, Placed, ProofsKnown, ClaimsKnown, Signing, Tree, challenge, database, identity, Moved, Kept
    <2>8. LeavesApart'
      BY <1>0 DEF TypeOK, Placed, LeavesApart, Signing, Tree, challenge, database, identity, Moved, Kept
    <2>9. LeafOneTime'
      BY <1>0 DEF LeafOneTime, ProofRepeats, challenge, database, identity
    <2> QED
      BY <2>6, <2>7, <2>8, <2>9
  <1> QED
    BY <1>1, <1>2, <1>3, <1>4, <1>5, <1>6

\* Expire keeps the invariants.
LEMMA Step_Expire ==
  ASSUME ChainInv, NEW n \in Nonces, Expire(n)
  PROVE  ChainInv' /\ (LeafInv => LeafInv')
  <1> USE EntityAssumption DEF ChainInv
  <1>0. nonce' = [nonce EXCEPT ![n] = "gone"] /\ nonce[n] = "live"
    BY DEF Expire
  <1>1. TypeOK'
    BY <1>0 DEF TypeOK, Expire, database, identity, Moved
  <1>2. Placed'
    BY <1>0 DEF TypeOK, Placed, Expire, Moved, Kept
  <1>3. ChallengesSpent'
    BY <1>0 DEF TypeOK, Placed, ChallengesSpent, Paid, Expire, database, identity, Moved, Kept
  <1>4. NonceOnce'
    BY <1>0 DEF TypeOK, NonceOnce, ChallengesSpent, Paid, Placed, Expire, database, identity, Moved
  <1>5. Numbered' /\ TransferChain'
    BY <1>0 DEF TypeOK, Numbered, TransferChain, Expire, database, identity
  <1>6. ASSUME LeafInv
        PROVE  LeafInv'
    <2> USE <1>6 DEF LeafInv
    <2>6. LeasesKnown'
      BY <1>0 DEF TypeOK, Placed, LeasesKnown, Signing, Tree, Expire, database, identity, Moved, Kept
    <2>7. ProofsKnown' /\ ClaimsKnown'
      BY <1>0 DEF TypeOK, Placed, ProofsKnown, ClaimsKnown, Signing, Tree, Expire, database, identity, Moved, Kept
    <2>8. LeavesApart'
      BY <1>0 DEF TypeOK, Placed, LeavesApart, Signing, Tree, Expire, database, identity, Moved, Kept
    <2>9. LeafOneTime'
      BY <1>0 DEF LeafOneTime, ProofRepeats, Expire, database, identity
    <2> QED
      BY <2>6, <2>7, <2>8, <2>9
  <1> QED
    BY <1>1, <1>2, <1>3, <1>4, <1>5, <1>6

\* Insert keeps the invariants.
LEMMA Step_Insert ==
  ASSUME ChainInv, NEW r \in Reqs, Insert(r)
  PROVE  ChainInv' /\ (LeafInv => LeafInv')
  <1> USE EntityAssumption DEF ChainInv
  <1>0. Moved(r) /\ req'[r].pc = "idle" /\ req[r].pc = "insert" /\ req[r].by \in Parties
    BY AnswerMoves DEF Insert, Placed
  <1>1. TypeOK'
    BY <1>0 DEF TypeOK, Insert, database, identity, Moved
  <1>2. Placed'
    BY <1>0 DEF TypeOK, Placed, Insert, Moved, Kept
  <1>3. ChallengesSpent'
    BY <1>0 DEF TypeOK, Placed, ChallengesSpent, Paid, Insert, database, identity, Moved, Kept
  <1>4. NonceOnce'
    BY <1>0 DEF TypeOK, NonceOnce, ChallengesSpent, Paid, Placed, Insert, database, identity, Moved
  <1>5. Numbered' /\ TransferChain'
    BY <1>0 DEF TypeOK, Numbered, TransferChain, Insert, database, identity
  <1>6. ASSUME LeafInv
        PROVE  LeafInv'
    <2> USE <1>6 DEF LeafInv
    <2>6. LeasesKnown'
      BY <1>0 DEF TypeOK, Placed, LeasesKnown, Signing, Tree, Insert, database, identity, Moved, Kept
    <2>7. ProofsKnown' /\ ClaimsKnown'
      BY <1>0 DEF TypeOK, Placed, ProofsKnown, ClaimsKnown, Signing, Tree, Insert, database, identity, Moved, Kept
    <2>8. LeavesApart'
      BY <1>0 DEF TypeOK, Placed, LeavesApart, Signing, Tree, Insert, database, identity, Moved, Kept
    <2>9. LeafOneTime'
      BY <1>0 DEF LeafOneTime, ProofRepeats, Insert, database, identity
    <2> QED
      BY <2>6, <2>7, <2>8, <2>9
  <1> QED
    BY <1>1, <1>2, <1>3, <1>4, <1>5, <1>6

\* ConsumeNonce keeps the invariants.
LEMMA Step_ConsumeNonce ==
  ASSUME ChainInv, NEW r \in Reqs, ConsumeNonce(r)
  PROVE  ChainInv' /\ (LeafInv => LeafInv')
  <1> USE EntityAssumption DEF ChainInv
  <1>0. /\ Moved(r) /\ req[r].pc = "nonce" /\ req[r].nonce \in Nonces
        /\ nonce' = [nonce EXCEPT ![req[r].nonce] = "gone"]
        /\ \/ req'[r].pc = "idle"
           \/ /\ nonce[req[r].nonce] = "live" /\ Kept(r)
              /\ \/ req'[r].pc = "revoked" /\ req[r].op = "blind-sign"
                 \/ req'[r].pc = "sign" /\ req[r].op = "claim"
                 \/ req'[r].pc = "chain" /\ req[r].op = "confirm"
    <2>0. req[r].pc = "nonce" /\ req[r].nonce \in Nonces
      BY DEF ConsumeNonce, Placed
    <2>1. CASE Answer(r)
      BY <2>0, <2>1, AnswerMoves DEF ConsumeNonce
    <2>2. CASE nonce[req[r].nonce] = "live" /\ req[r].op # "reclaim-tx" /\ Goto(r, AfterNonce(req[r].op))
      <3>1. req[r].op \in {"blind-sign", "claim", "confirm"}
        BY <2>0, <2>2 DEF Placed
      <3>2. \/ AfterNonce(req[r].op) = "revoked" /\ req[r].op = "blind-sign"
            \/ AfterNonce(req[r].op) = "sign" /\ req[r].op = "claim"
            \/ AfterNonce(req[r].op) = "chain" /\ req[r].op = "confirm"
        BY <3>1 DEF AfterNonce
      <3>3. AfterNonce(req[r].op) \in Pcs
        BY <3>2 DEF Pcs
      <3> QED
        BY <2>0, <2>2, <3>2, <3>3, GotoMoves DEF ConsumeNonce
    <2> QED
      BY <2>1, <2>2 DEF ConsumeNonce
  <1>1. TypeOK'
    BY <1>0 DEF TypeOK, ConsumeNonce, database, identity, Moved
  <1>2. Placed'
    BY <1>0 DEF TypeOK, Placed, ConsumeNonce, Moved, Kept
  <1>3. ChallengesSpent'
    BY <1>0 DEF TypeOK, Placed, ChallengesSpent, Paid, ConsumeNonce, database, identity, Moved, Kept
  <1>4. NonceOnce'
    BY <1>0 DEF TypeOK, NonceOnce, ChallengesSpent, Paid, Placed, ConsumeNonce, database, identity, Moved
  <1>5. Numbered' /\ TransferChain'
    BY <1>0 DEF TypeOK, Numbered, TransferChain, ConsumeNonce, database, identity
  <1>6. ASSUME LeafInv
        PROVE  LeafInv'
    <2> USE <1>6 DEF LeafInv
    <2>6. LeasesKnown'
      BY <1>0 DEF TypeOK, Placed, LeasesKnown, Signing, Tree, ConsumeNonce, database, identity, Moved, Kept
    <2>7. ProofsKnown' /\ ClaimsKnown'
      BY <1>0 DEF TypeOK, Placed, ProofsKnown, ClaimsKnown, Signing, Tree, ConsumeNonce, database, identity, Moved, Kept
    <2>8. LeavesApart'
      BY <1>0 DEF TypeOK, Placed, LeavesApart, Signing, Tree, ConsumeNonce, database, identity, Moved, Kept
    <2>9. LeafOneTime'
      BY <1>0 DEF LeafOneTime, ProofRepeats, ConsumeNonce, database, identity
    <2> QED
      BY <2>6, <2>7, <2>8, <2>9
  <1> QED
    BY <1>1, <1>2, <1>3, <1>4, <1>5, <1>6

\* CheckRevoked keeps the invariants.
LEMMA Step_CheckRevoked ==
  ASSUME ChainInv, NEW r \in Reqs, CheckRevoked(r)
  PROVE  ChainInv' /\ (LeafInv => LeafInv')
  <1> USE EntityAssumption DEF ChainInv
  <1>0. /\ Moved(r) /\ req[r].pc = "revoked"
        /\ req'[r].pc = "idle" \/ (req'[r].pc = "sign" /\ Kept(r))
    BY AnswerMoves, GotoMoves DEF CheckRevoked, Pcs
  <1>1. TypeOK'
    BY <1>0 DEF TypeOK, CheckRevoked, database, identity, Moved
  <1>2. Placed'
    BY <1>0 DEF TypeOK, Placed, CheckRevoked, Moved, Kept
  <1>3. ChallengesSpent'
    BY <1>0 DEF TypeOK, Placed, ChallengesSpent, Paid, CheckRevoked, database, identity, Moved, Kept
  <1>4. NonceOnce'
    BY <1>0 DEF TypeOK, NonceOnce, ChallengesSpent, Paid, Placed, CheckRevoked, database, identity, Moved
  <1>5. Numbered' /\ TransferChain'
    BY <1>0 DEF TypeOK, Numbered, TransferChain, CheckRevoked, database, identity
  <1>6. ASSUME LeafInv
        PROVE  LeafInv'
    <2> USE <1>6 DEF LeafInv
    <2>6. LeasesKnown'
      BY <1>0 DEF TypeOK, Placed, LeasesKnown, Signing, Tree, CheckRevoked, database, identity, Moved, Kept
    <2>7. ProofsKnown' /\ ClaimsKnown'
      BY <1>0 DEF TypeOK, Placed, ProofsKnown, ClaimsKnown, Signing, Tree, CheckRevoked, database, identity, Moved, Kept
    <2>8. LeavesApart'
      BY <1>0 DEF TypeOK, Placed, LeavesApart, Signing, Tree, CheckRevoked, database, identity, Moved, Kept
    <2>9. LeafOneTime'
      BY <1>0 DEF LeafOneTime, ProofRepeats, CheckRevoked, database, identity
    <2> QED
      BY <2>6, <2>7, <2>8, <2>9
  <1> QED
    BY <1>1, <1>2, <1>3, <1>4, <1>5, <1>6

\* RevokeTx keeps the invariants.
LEMMA Step_RevokeTx ==
  ASSUME ChainInv, NEW r \in Reqs, RevokeTx(r)
  PROVE  ChainInv' /\ (LeafInv => LeafInv')
  <1> USE EntityAssumption DEF ChainInv
  <1>0. /\ Moved(r) /\ req'[r].pc = "idle" /\ req[r].pc = "tx"
        /\ req[r].nonce \in Nonces /\ req[r].by \in Parties
        /\ nonce' = [nonce EXCEPT ![req[r].nonce] = "gone"]
        /\ \/ /\ nonce[req[r].nonce] = "live" /\ record.status = "active" /\ record.owner = req[r].by
              /\ record' = [status |-> "active", owner |-> req[r].to, version |-> record.version + 1]
              /\ \E z \in Parties : revoked' = revoked \cup {z}
              /\ transfers' = transfers \cup {[version |-> record.version, from |-> req[r].by,
                                               to |-> req[r].to, nonce |-> req[r].nonce]}
           \/ UNCHANGED <<record, revoked, transfers>>
    BY AnswerMoves DEF RevokeTx, Placed, Transferable
  <1>a. UNCHANGED <<phase, uses, lease, stored, rewound, restarts, released>> /\ req[r].to \in Parties \cup {NoParty}
    BY DEF RevokeTx, identity, TypeOK, Requests
  <1>1. TypeOK'
    BY <1>0, <1>a DEF TypeOK, Moved
  <1>2. Placed'
    BY <1>0 DEF TypeOK, Placed, RevokeTx, Moved, Kept
  <1>3. ChallengesSpent'
    BY <1>0 DEF TypeOK, Placed, ChallengesSpent, Paid, RevokeTx, database, identity, Moved, Kept
  <1>4. NonceOnce'
    BY <1>0 DEF TypeOK, NonceOnce, ChallengesSpent, Paid, Placed, RevokeTx, database, identity, Moved
  <1>5. Numbered' /\ TransferChain'
    <2>1. CASE UNCHANGED <<record, revoked, transfers>>
      BY <2>1 DEF Numbered, TransferChain
    <2>2. CASE ~UNCHANGED <<record, revoked, transfers>>
      <3>1. record.version \in Nat /\ record.status = "active" /\ record.owner = req[r].by
        BY <1>0, <2>2 DEF TypeOK
      <3>2. record' = [status |-> "active", owner |-> req[r].to, version |-> record.version + 1]
        BY <1>0, <2>2
      <3>3. transfers' = transfers \cup {[version |-> record.version, from |-> req[r].by,
                                         to |-> req[r].to, nonce |-> req[r].nonce]}
        BY <1>0, <2>2
      <3> QED
        BY <3>1, <3>2, <3>3 DEF Numbered, TransferChain
    <2> QED
      BY <2>1, <2>2
  <1>6. ASSUME LeafInv
        PROVE  LeafInv'
    <2> USE <1>6 DEF LeafInv
    <2>6. LeasesKnown'
      BY <1>0 DEF TypeOK, Placed, LeasesKnown, Signing, Tree, RevokeTx, database, identity, Moved, Kept
    <2>7. ProofsKnown' /\ ClaimsKnown'
      BY <1>0 DEF TypeOK, Placed, ProofsKnown, ClaimsKnown, Signing, Tree, RevokeTx, database, identity, Moved, Kept
    <2>8. LeavesApart'
      BY <1>0 DEF TypeOK, Placed, LeavesApart, Signing, Tree, RevokeTx, database, identity, Moved, Kept
    <2>9. LeafOneTime'
      BY <1>0 DEF LeafOneTime, ProofRepeats, RevokeTx, database, identity
    <2> QED
      BY <2>6, <2>7, <2>8, <2>9
  <1> QED
    BY <1>1, <1>2, <1>3, <1>4, <1>5, <1>6

\* SetStatus keeps the invariants.
LEMMA Step_SetStatus ==
  ASSUME ChainInv, NEW r \in Reqs, SetStatus(r)
  PROVE  ChainInv' /\ (LeafInv => LeafInv')
  <1> USE EntityAssumption DEF ChainInv
  <1>0. /\ Moved(r) /\ req[r].pc = "status"
        /\ \/ req[r].op = "claim" /\ req'[r].pc = "release" /\ Kept(r)
           \/ req[r].op # "claim" /\ req'[r].pc = "idle"
        /\ \E st \in {"claiming", "claimed"} : record' = [record EXCEPT !.status = st]
    BY AnswerMoves, GotoMoves DEF SetStatus, Pcs
  <1>1. TypeOK'
    BY <1>0 DEF TypeOK, SetStatus, database, identity, Moved
  <1>2. Placed'
    BY <1>0 DEF TypeOK, Placed, SetStatus, Moved, Kept
  <1>3. ChallengesSpent'
    BY <1>0 DEF TypeOK, Placed, ChallengesSpent, Paid, SetStatus, database, identity, Moved, Kept
  <1>4. NonceOnce'
    BY <1>0 DEF TypeOK, NonceOnce, ChallengesSpent, Paid, Placed, SetStatus, database, identity, Moved
  <1>5. Numbered' /\ TransferChain'
    BY <1>0 DEF TypeOK, Numbered, TransferChain, SetStatus, database, identity
  <1>6. ASSUME LeafInv
        PROVE  LeafInv'
    <2> USE <1>6 DEF LeafInv
    <2>6. LeasesKnown'
      BY <1>0 DEF TypeOK, Placed, LeasesKnown, Signing, Tree, SetStatus, database, identity, Moved, Kept
    <2>7. ProofsKnown' /\ ClaimsKnown'
      BY <1>0 DEF TypeOK, Placed, ProofsKnown, ClaimsKnown, Signing, Tree, SetStatus, database, identity, Moved, Kept
    <2>8. LeavesApart'
      BY <1>0 DEF TypeOK, Placed, LeavesApart, Signing, Tree, SetStatus, database, identity, Moved, Kept
    <2>9. LeafOneTime'
      BY <1>0 DEF LeafOneTime, ProofRepeats, SetStatus, database, identity
    <2> QED
      BY <2>6, <2>7, <2>8, <2>9
  <1> QED
    BY <1>1, <1>2, <1>3, <1>4, <1>5, <1>6

\* ConfirmedOnChain keeps the invariants.
LEMMA Step_ConfirmedOnChain ==
  ASSUME ChainInv, NEW r \in Reqs, ConfirmedOnChain(r)
  PROVE  ChainInv' /\ (LeafInv => LeafInv')
  <1> USE EntityAssumption DEF ChainInv
  <1>0. Moved(r) /\ req[r].pc = "chain" /\ req'[r].pc = "status" /\ Kept(r)
    BY GotoMoves DEF ConfirmedOnChain, Pcs
  <1>1. TypeOK'
    BY <1>0 DEF TypeOK, ConfirmedOnChain, database, identity, Moved
  <1>2. Placed'
    BY <1>0 DEF TypeOK, Placed, ConfirmedOnChain, Moved, Kept
  <1>3. ChallengesSpent'
    BY <1>0 DEF TypeOK, Placed, ChallengesSpent, Paid, ConfirmedOnChain, database, identity, Moved, Kept
  <1>4. NonceOnce'
    BY <1>0 DEF TypeOK, NonceOnce, ChallengesSpent, Paid, Placed, ConfirmedOnChain, database, identity, Moved
  <1>5. Numbered' /\ TransferChain'
    BY <1>0 DEF TypeOK, Numbered, TransferChain, ConfirmedOnChain, database, identity
  <1>6. ASSUME LeafInv
        PROVE  LeafInv'
    <2> USE <1>6 DEF LeafInv
    <2>6. LeasesKnown'
      BY <1>0 DEF TypeOK, Placed, LeasesKnown, Signing, Tree, ConfirmedOnChain, database, identity, Moved, Kept
    <2>7. ProofsKnown' /\ ClaimsKnown'
      BY <1>0 DEF TypeOK, Placed, ProofsKnown, ClaimsKnown, Signing, Tree, ConfirmedOnChain, database, identity, Moved, Kept
    <2>8. LeavesApart'
      BY <1>0 DEF TypeOK, Placed, LeavesApart, Signing, Tree, ConfirmedOnChain, database, identity, Moved, Kept
    <2>9. LeafOneTime'
      BY <1>0 DEF LeafOneTime, ProofRepeats, ConfirmedOnChain, database, identity
    <2> QED
      BY <2>6, <2>7, <2>8, <2>9
  <1> QED
    BY <1>1, <1>2, <1>3, <1>4, <1>5, <1>6

\* Abort keeps the invariants.
LEMMA Step_Abort ==
  ASSUME ChainInv, NEW r \in Reqs, Abort(r)
  PROVE  ChainInv' /\ (LeafInv => LeafInv')
  <1> USE EntityAssumption DEF ChainInv
  <1>0. Moved(r) /\ req'[r].pc = "idle"
    BY AnswerMoves DEF Abort
  <1>1. TypeOK'
    BY <1>0 DEF TypeOK, Abort, database, identity, Moved
  <1>2. Placed'
    BY <1>0 DEF TypeOK, Placed, Abort, Moved, Kept
  <1>3. ChallengesSpent'
    BY <1>0 DEF TypeOK, Placed, ChallengesSpent, Paid, Abort, database, identity, Moved, Kept
  <1>4. NonceOnce'
    BY <1>0 DEF TypeOK, NonceOnce, ChallengesSpent, Paid, Placed, Abort, database, identity, Moved
  <1>5. Numbered' /\ TransferChain'
    BY <1>0 DEF TypeOK, Numbered, TransferChain, Abort, database, identity
  <1>6. ASSUME LeafInv
        PROVE  LeafInv'
    <2> USE <1>6 DEF LeafInv
    <2>6. LeasesKnown'
      BY <1>0 DEF TypeOK, Placed, LeasesKnown, Signing, Tree, Abort, database, identity, Moved, Kept
    <2>7. ProofsKnown' /\ ClaimsKnown'
      BY <1>0 DEF TypeOK, Placed, ProofsKnown, ClaimsKnown, Signing, Tree, Abort, database, identity, Moved, Kept
    <2>8. LeavesApart'
      BY <1>0 DEF TypeOK, Placed, LeavesApart, Signing, Tree, Abort, database, identity, Moved, Kept
    <2>9. LeafOneTime'
      BY <1>0 DEF LeafOneTime, ProofRepeats, Abort, database, identity
    <2> QED
      BY <2>6, <2>7, <2>8, <2>9
  <1> QED
    BY <1>1, <1>2, <1>3, <1>4, <1>5, <1>6

\* SignLeased keeps the invariants.
LEMMA Step_SignLeased ==
  ASSUME ChainInv, NEW r \in Reqs, SignLeased(r)
  PROVE  ChainInv' /\ (LeafInv => LeafInv')
  <1> USE EntityAssumption DEF ChainInv
  <1> DEFINE k == Tree(r)
             leaf == lease[k]
  <1>a. /\ req[r].pc = "sign" /\ phase = "up" /\ k \in Kinds /\ leaf \in 0 .. MaxLeaf - 1
        /\ lease' = [lease EXCEPT ![k] = leaf + 1] /\ lease' \in Uses
        /\ req[r] \in Requests
    BY DEF SignLeased, LeafLeft, TypeOK, Uses, Tree, Kinds
  <1>b. ASSUME leaf >= uses[k]
        PROVE  /\ Moved(r) /\ uses' = [uses EXCEPT ![k] = leaf + 1] /\ uses' \in Uses
               /\ req'[r].pc = "store" /\ req'[r].op = req[r].op /\ req'[r].by = req[r].by
               /\ req'[r].nonce = req[r].nonce /\ req'[r].leaf = leaf /\ req'[r].snap = uses'
    <2>1. uses' = [uses EXCEPT ![k] = leaf + 1] /\ req' = [req EXCEPT ![r] = Signed(@, leaf, uses')]
      BY <1>b DEF SignLeased, UsesAllowed
    <2>2. uses' \in Uses
      BY <1>a, <2>1 DEF TypeOK, Uses
    <2>3. Signed(req[r], leaf, uses') \in Requests
      BY <1>a, <2>2 DEF Signed, Requests
    <2>4. req'[r] = Signed(req[r], leaf, uses') /\ Moved(r)
      BY <2>1, <2>3 DEF TypeOK, Moved
    <2>5. /\ req'[r].pc = "store" /\ req'[r].op = req[r].op /\ req'[r].by = req[r].by
          /\ req'[r].nonce = req[r].nonce /\ req'[r].leaf = leaf /\ req'[r].snap = uses'
      <3> HIDE DEF leaf
      <3> QED
        BY <2>4 DEF Signed
    <2> QED
      BY <2>1, <2>2, <2>4, <2>5
  <1>c. ASSUME ~(leaf >= uses[k])
        PROVE  Moved(r) /\ req'[r].pc = "idle" /\ uses' = uses
    BY <1>c, AnswerMoves DEF SignLeased, UsesAllowed
  <1>0. /\ req[r].pc = "sign" /\ phase = "up" /\ k \in Kinds /\ leaf \in 0 .. MaxLeaf - 1
        /\ lease' = [lease EXCEPT ![k] = leaf + 1] /\ lease' \in Uses
        /\ Moved(r)
        /\ \/ req'[r].pc = "idle" /\ uses' = uses
           \/ /\ leaf >= uses[k] /\ uses' = [uses EXCEPT ![k] = leaf + 1] /\ uses' \in Uses
              /\ req'[r].pc = "store" /\ req'[r].op = req[r].op /\ req'[r].by = req[r].by
              /\ req'[r].nonce = req[r].nonce /\ req'[r].leaf = leaf /\ req'[r].snap = uses'
    BY <1>a, <1>b, <1>c
  <1>d. UNCHANGED <<phase, stored, released, rewound, restarts>> /\ phase' = "up"
    BY <1>a DEF SignLeased
  <1>e. \A q \in Reqs \ {r} : Signing(q)' = Signing(q) /\ Tree(q)' = Tree(q) /\ req'[q] = req[q]
    BY <1>0 DEF Signing, Tree, Moved
  <1>f. \/ ~Signing(r)' /\ req'[r].pc # "store"
        \/ req'[r].pc = "store" /\ Tree(r)' = k /\ req'[r].leaf = leaf /\ leaf >= uses[k]
    BY <1>0 DEF Signing, Tree
  <1>g. lease'[k] = leaf + 1 /\ (\A j \in Kinds : lease[j] <= lease'[j] /\ lease'[j] \in Nat)
    BY <1>0, Numbers DEF TypeOK, Uses
  <1>h. \A j \in Kinds : uses[j] <= uses'[j] /\ uses'[j] \in Nat
    BY <1>0, Numbers DEF TypeOK, Uses
  <1> HIDE DEF k, leaf
  <1>1. TypeOK'
    BY <1>0 DEF TypeOK, SignLeased, database, identity, Moved
  <1>2. Placed'
    BY <1>0 DEF TypeOK, Placed, SignLeased, Moved, Kept
  <1>3. ChallengesSpent'
    BY <1>0 DEF TypeOK, Placed, ChallengesSpent, Paid, SignLeased, database, identity, Moved, Kept
  <1>4. NonceOnce'
    BY <1>0 DEF TypeOK, NonceOnce, ChallengesSpent, Paid, Placed, SignLeased, database, identity, Moved
  <1>5. Numbered' /\ TransferChain'
    BY <1>0 DEF TypeOK, Numbered, TransferChain, SignLeased, database, identity
  <1>6. ASSUME LeafInv
        PROVE  LeafInv'
    <2> USE <1>6 DEF LeafInv
    <2>6. LeasesKnown'
      <3>1. leaf \in Nat
        BY <1>0
      <3>2. ASSUME NEW q \in Reqs, Signing(q)'
            PROVE  req'[q].leaf < lease'[Tree(q)'] /\ phase' = "up"
        BY <3>1, <3>2, <1>d, <1>e, <1>f, <1>g, Numbers DEF LeasesKnown
      <3>3. ASSUME NEW s \in released', s.nonce # NoNonce
            PROVE  s.leaf < lease'[s.kind]
        BY <3>3, <1>d, <1>g, Numbers DEF LeasesKnown, LeavesApart
      <3> QED
        BY <3>2, <3>3 DEF LeasesKnown
    <2>u. /\ uses["root"] <= uses'["root"] /\ uses["root"] \in Nat /\ uses'["root"] \in Nat
          /\ \A q \in Reqs : req'[q].pc = "store" =>
               req'[q].snap = uses' \/ (q # r /\ req'[q] = req[q])
      BY <1>0, <1>e, <1>h, Numbers
    <2>v. ASSUME NEW s \in released, s.leaf < uses["root"] PROVE s.leaf < uses'["root"]
      <3>1. s.leaf \in Nat
        BY DEF LeavesApart
      <3> QED
        BY <2>u, <2>v, <3>1
    <2>7. ProofsKnown'
      <3>1. ASSUME NEW s \in released, s.nonce = NoNonce
            PROVE  /\ s.kind = "root" /\ s.leaf < stored["root"] /\ s.leaf < uses'["root"]
                   /\ \A q \in Reqs : req'[q].pc = "store" => s.leaf < req'[q].snap["root"]
        <4>1. s.kind = "root" /\ s.leaf < stored["root"] /\ s.leaf < uses["root"]
          BY <1>0, <3>1 DEF ProofsKnown
        <4>2. s.leaf < uses'["root"]
          BY <2>v, <4>1
        <4> QED
          BY <2>u, <3>1, <4>1, <4>2 DEF ProofsKnown
      <3> QED
        BY <3>1, <1>d DEF ProofsKnown
    <2>c. ClaimsKnown'
      <3>1. ASSUME NEW s \in released, s.nonce # NoNonce, s.kind = "root", s.boot \notin rewound
            PROVE  /\ s.leaf < stored["root"]
                   /\ s.boot < restarts => s.leaf < uses'["root"]
                   /\ \A q \in Reqs : s.boot < restarts /\ req'[q].pc = "store" =>
                        s.leaf < req'[q].snap["root"]
        <4>1. s.leaf < stored["root"] /\ (s.boot < restarts => s.leaf < uses["root"])
          BY <1>0, <3>1 DEF ClaimsKnown
        <4>2. s.boot < restarts => s.leaf < uses'["root"]
          BY <2>v, <4>1
        <4> QED
          BY <2>u, <3>1, <4>1, <4>2 DEF ClaimsKnown
      <3>2. ASSUME NEW q \in Reqs, req'[q].pc = "store", Tree(q)' = "root"
            PROVE  req'[q].leaf < req'[q].snap["root"]
        <4>1. CASE q = r
          <5>1. uses'[k] = leaf + 1 /\ req'[r].leaf = leaf /\ req'[r].snap = uses' /\ k = "root" /\ leaf \in Nat
            BY <1>0, <1>f, <3>2, <4>1, IdleTyped DEF TypeOK, Uses
          <5> QED
            BY <4>1, <5>1
        <4>2. CASE q # r
          BY <1>e, <3>2, <4>2 DEF ClaimsKnown
        <4> QED
          BY <4>1, <4>2
      <3>3. ASSUME NEW q \in Reqs, Signing(q)', Tree(q)' = "root", req'[q].pc # "store"
            PROVE  restarts \in rewound \/ req'[q].leaf < stored["root"]
        BY <1>e, <1>f, <3>3 DEF ClaimsKnown
      <3> QED
        BY <3>1, <3>2, <3>3, <1>d DEF ClaimsKnown
    <2>8. LeavesApart'
      <3>1. leaf \in Nat /\ k \in Kinds /\ leaf = lease[k]
        BY <1>0 DEF leaf
      <3>2. ASSUME NEW q \in Reqs \ {r}, Signing(q), Tree(q) = k
            PROVE  req[q].leaf < leaf
        BY <3>1, <3>2 DEF LeasesKnown
      <3>3. ASSUME NEW s \in released, s.kind = k, leaf >= uses[k]
            PROVE  s.leaf < leaf
        <4>1. CASE s.nonce # NoNonce
          BY <3>1, <3>3, <4>1 DEF LeasesKnown
        <4>2. CASE s.nonce = NoNonce
          <5>1. k = "root" /\ s.leaf < uses["root"] /\ s.leaf \in Nat
            BY <3>3, <4>2, <1>0 DEF ProofsKnown, LeavesApart
          <5> QED
            BY <5>1, <3>1, <3>3, Numbers
        <4> QED
          BY <4>1, <4>2
      <3>4. ASSUME NEW p \in Reqs, NEW q \in Reqs, Signing(p)', Signing(q)', Tree(p)' = Tree(q)',
                   req'[p].leaf = req'[q].leaf
            PROVE  p = q
        <4>1. CASE p # r /\ q # r
          BY <4>1, <3>4, <1>e DEF LeavesApart
        <4>2. CASE p = r /\ q # r
          <5>1. req[q].leaf < leaf
            BY <4>2, <3>4, <3>2, <1>e, <1>f
          <5> QED
            BY <5>1, <4>2, <3>1, <3>4, <1>e, <1>f, Numbers
        <4>3. CASE p # r /\ q = r
          <5>1. req[p].leaf < leaf
            BY <4>3, <3>4, <3>2, <1>e, <1>f
          <5> QED
            BY <5>1, <4>3, <3>1, <3>4, <1>e, <1>f, Numbers
        <4> QED
          BY <4>1, <4>2, <4>3
      <3>5. ASSUME NEW q \in Reqs, NEW s \in released', Signing(q)', Tree(q)' = s.kind
            PROVE  req'[q].leaf # s.leaf
        <4>1. CASE q # r
          BY <4>1, <3>5, <1>d, <1>e DEF LeavesApart
        <4>2. CASE q = r
          <5>1. s.leaf < leaf /\ s.leaf \in Nat
            BY <4>2, <3>3, <3>5, <1>d, <1>f DEF LeavesApart
          <5> QED
            BY <5>1, <4>2, <3>1, <3>5, <1>f
        <4> QED
          BY <4>1, <4>2
      <3> QED
        BY <3>4, <3>5, <1>d DEF LeavesApart
    <2>9. LeafOneTime'
      BY <1>d DEF LeafOneTime, ProofRepeats
    <2> QED
      BY <2>6, <2>7, <2>c, <2>8, <2>9
  <1> QED
    BY <1>1, <1>2, <1>3, <1>4, <1>5, <1>6

\* LeaseFails keeps the invariants.
LEMMA Step_LeaseFails ==
  ASSUME ChainInv, NEW r \in Reqs, LeaseFails(r)
  PROVE  ChainInv' /\ (LeafInv => LeafInv')
  <1> USE EntityAssumption DEF ChainInv
  <1> DEFINE k == Tree(r)
             leaf == lease[k]
  <1>a. /\ req[r].pc = "sign" /\ phase = "up" /\ k \in Kinds /\ leaf \in 0 .. MaxLeaf - 1
        /\ lease' = [lease EXCEPT ![k] = leaf + 1] /\ lease' \in Uses
        /\ req[r] \in Requests
    BY DEF LeaseFails, LeafLeft, TypeOK, Uses, Tree, Kinds
  <1>g. \A j \in Kinds : lease[j] <= lease'[j] /\ lease'[j] \in Nat
    BY <1>a, Numbers DEF TypeOK, Uses
  <1>0. /\ Moved(r) /\ req'[r].pc = "idle" /\ k \in Kinds /\ leaf \in 0 .. MaxLeaf - 1
        /\ lease' = [lease EXCEPT ![k] = leaf + 1] /\ lease' \in Uses
    BY <1>a, AnswerMoves DEF LeaseFails
  <1>e. /\ \A q \in Reqs \ {r} : Signing(q)' = Signing(q) /\ Tree(q)' = Tree(q) /\ req'[q] = req[q]
        /\ ~Signing(r)' /\ UNCHANGED released
    BY <1>0 DEF Signing, Tree, Moved, LeaseFails
  <1>1. TypeOK'
    BY <1>0 DEF TypeOK, LeaseFails, database, identity, Moved
  <1>2. Placed'
    BY <1>0 DEF TypeOK, Placed, LeaseFails, Moved, Kept
  <1>3. ChallengesSpent'
    BY <1>0 DEF TypeOK, Placed, ChallengesSpent, Paid, LeaseFails, database, identity, Moved, Kept
  <1>4. NonceOnce'
    BY <1>0 DEF TypeOK, NonceOnce, ChallengesSpent, Paid, Placed, LeaseFails, database, identity, Moved
  <1>5. Numbered' /\ TransferChain'
    BY <1>0 DEF TypeOK, Numbered, TransferChain, LeaseFails, database, identity
  <1>6. ASSUME LeafInv
        PROVE  LeafInv'
    <2> USE <1>6 DEF LeafInv
    <2>6. LeasesKnown'
      <3>1. phase' = phase
        BY DEF LeaseFails
      <3> QED
        BY <1>e, <1>g, <3>1, Numbers DEF LeasesKnown, LeavesApart
    <2>7. ProofsKnown' /\ ClaimsKnown'
      BY <1>0 DEF TypeOK, Placed, ProofsKnown, ClaimsKnown, Signing, Tree, LeaseFails, database, identity, Moved, Kept
    <2>8. LeavesApart'
      BY <1>0 DEF TypeOK, Placed, LeavesApart, Signing, Tree, LeaseFails, database, identity, Moved, Kept
    <2>9. LeafOneTime'
      BY <1>e DEF LeafOneTime, ProofRepeats, LeaseFails
    <2> QED
      BY <2>6, <2>7, <2>8, <2>9
  <1> QED
    BY <1>1, <1>2, <1>3, <1>4, <1>5, <1>6

\* StoreUses keeps the invariants.
LEMMA Step_StoreUses ==
  ASSUME ChainInv, NEW r \in Reqs, StoreUses(r)
  PROVE  ChainInv' /\ (LeafInv => LeafInv')
  <1> USE EntityAssumption DEF ChainInv
  <1>0. /\ Moved(r) /\ Kept(r) /\ req[r].pc = "store" /\ stored' = req[r].snap
        /\ req[r].snap \in Uses
        /\ \/ req[r].op = "claim" /\ req'[r].pc = "status"
           \/ req[r].op # "claim" /\ req'[r].pc = "release"
        /\ rewound' = IF req[r].snap["root"] < stored["root"] THEN rewound \cup {restarts} ELSE rewound
    BY GotoMoves DEF StoreUses, Pcs, TypeOK, Requests
  <1>d. UNCHANGED <<phase, uses, lease, released, restarts>>
    BY DEF StoreUses
  <1>e. /\ \A q \in Reqs \ {r} : Signing(q)' = Signing(q) /\ Tree(q)' = Tree(q) /\ req'[q] = req[q]
        /\ Signing(r) /\ Tree(r)' = Tree(r) /\ req'[r].leaf = req[r].leaf /\ req'[r].pc # "store"
    BY <1>0 DEF Signing, Tree, Moved, Kept
  <1>f. /\ stored'["root"] = req[r].snap["root"] /\ stored'["root"] \in Nat /\ stored["root"] \in Nat
        /\ restarts \in Nat
    BY <1>0, Numbers DEF TypeOK
  <1>1. TypeOK'
    BY <1>0 DEF TypeOK, StoreUses, database, identity, Moved
  <1>2. Placed'
    BY <1>0 DEF TypeOK, Placed, StoreUses, Moved, Kept
  <1>3. ChallengesSpent'
    BY <1>0 DEF TypeOK, Placed, ChallengesSpent, Paid, StoreUses, database, identity, Moved, Kept
  <1>4. NonceOnce'
    BY <1>0 DEF TypeOK, NonceOnce, ChallengesSpent, Paid, Placed, StoreUses, database, identity, Moved
  <1>5. Numbered' /\ TransferChain'
    BY <1>0 DEF TypeOK, Numbered, TransferChain, StoreUses, database, identity
  <1>6. ASSUME LeafInv
        PROVE  LeafInv'
    <2> USE <1>6 DEF LeafInv
    <2>6. LeasesKnown'
      BY <1>0 DEF TypeOK, Placed, LeasesKnown, Signing, Tree, StoreUses, database, identity, Moved, Kept
    <2>7. ProofsKnown'
      <3>1. phase = "up" /\ phase' = "up"
        BY <1>d, <1>e DEF LeasesKnown
      <3>2. ASSUME NEW s \in released, s.nonce = NoNonce
            PROVE  /\ s.kind = "root" /\ s.leaf < stored'["root"] /\ s.leaf < uses["root"]
                   /\ \A q \in Reqs : req'[q].pc = "store" => s.leaf < req'[q].snap["root"]
        BY <1>0, <1>e, <1>f, <3>1, <3>2 DEF ProofsKnown
      <3> QED
        BY <1>d, <3>1, <3>2 DEF ProofsKnown
    <2>c. ClaimsKnown'
      <3>1. ASSUME NEW q \in Reqs, Signing(q)', Tree(q)' = "root", req'[q].pc # "store"
            PROVE  restarts \in rewound' \/ req'[q].leaf < stored'["root"]
        <4>1. CASE q = r
          BY <1>0, <1>e, <1>f, <3>1, <4>1 DEF ClaimsKnown
        <4>2. CASE q # r
          <5>1. req'[q] = req[q] /\ (restarts \in rewound \/ req[q].leaf < stored["root"]) /\ req[q].leaf \in Nat
            BY <1>e, <3>1, <4>2, Numbers DEF ClaimsKnown
          <5> QED
            BY <1>0, <1>f, <5>1
        <4> QED
          BY <4>1, <4>2
      <3>2. ASSUME NEW s \in released, s.nonce # NoNonce, s.kind = "root", s.boot \notin rewound'
            PROVE  s.leaf < stored'["root"]
        <4>1. /\ s.boot \notin rewound /\ s.leaf < stored["root"] /\ s.leaf \in Nat
              /\ s.boot \in 0 .. restarts
              /\ s.boot < restarts => s.leaf < req[r].snap["root"]
          BY <1>0, <3>2 DEF ClaimsKnown, LeavesApart
        <4>2. CASE req[r].snap["root"] < stored["root"]
          <5>1. s.boot # restarts
            BY <1>0, <3>2, <4>2
          <5> QED
            BY <1>f, <4>1, <5>1
        <4>3. CASE ~(req[r].snap["root"] < stored["root"])
          BY <1>f, <4>1, <4>3
        <4> QED
          BY <4>2, <4>3
      <3>3. rewound \subseteq rewound'
        BY <1>0
      <3>4. \A q \in Reqs : req'[q].pc = "store" => q # r /\ req'[q] = req[q] /\ Tree(q)' = Tree(q)
        BY <1>e
      <3>5. ASSUME NEW s \in released, s.nonce # NoNonce, s.kind = "root", s.boot \notin rewound'
            PROVE  /\ s.boot < restarts /\ phase # "down" => s.leaf < uses["root"]
                   /\ \A q \in Reqs : s.boot < restarts /\ req'[q].pc = "store" =>
                        s.leaf < req'[q].snap["root"]
        BY <3>3, <3>4, <3>5 DEF ClaimsKnown
      <3>6. \A q \in Reqs : req'[q].pc = "store" /\ Tree(q)' = "root" => req'[q].leaf < req'[q].snap["root"]
        BY <3>4 DEF ClaimsKnown
      <3> QED
        BY <1>d, <3>1, <3>2, <3>5, <3>6 DEF ClaimsKnown
    <2>8. LeavesApart'
      BY <1>0 DEF TypeOK, Placed, LeavesApart, Signing, Tree, StoreUses, database, identity, Moved, Kept
    <2>9. LeafOneTime'
      <3>1. rewound \subseteq rewound'
        BY <1>0
      <3> QED
        BY <1>d, <3>1 DEF LeafOneTime, ProofRepeats
    <2> QED
      BY <2>6, <2>7, <2>c, <2>8, <2>9
  <1> QED
    BY <1>1, <1>2, <1>3, <1>4, <1>5, <1>6

\* Release keeps the invariants.
LEMMA Step_Release ==
  ASSUME ChainInv, NEW r \in Reqs, Release(r)
  PROVE  ChainInv' /\ (LeafInv => LeafInv')
  <1> USE EntityAssumption DEF ChainInv
  <1>0. /\ Moved(r) /\ req'[r].pc = "idle" /\ req[r].pc = "release" /\ req[r] \in Requests
        /\ released' = released \cup {Signature(r)}
        /\ Signature(r).kind = Tree(r) /\ Signature(r).leaf = req[r].leaf
        /\ Signature(r).nonce = req[r].nonce /\ Tree(r) \in Kinds /\ req[r].leaf \in Nat
        /\ req[r].nonce \in Nonces /\ Tree(r) = IF req[r].op = "claim" THEN "root" ELSE "child"
    BY AnswerMoves DEF Release, Signature, TypeOK, Requests, Tree, Kinds, Placed
  <1>1. TypeOK'
    BY <1>0 DEF TypeOK, Release, database, identity, Moved
  <1>2. Placed'
    BY <1>0 DEF TypeOK, Placed, Release, Moved, Kept
  <1>3. ChallengesSpent'
    BY <1>0 DEF TypeOK, Placed, ChallengesSpent, Paid, Release, database, identity, Moved, Kept
  <1>4. NonceOnce'
    BY <1>0 DEF TypeOK, NonceOnce, ChallengesSpent, Paid, Placed, Release, database, identity, Moved
  <1>5. Numbered' /\ TransferChain'
    BY <1>0 DEF TypeOK, Numbered, TransferChain, Release, database, identity
  <1>6. ASSUME LeafInv
        PROVE  LeafInv'
    <2> USE <1>6 DEF LeafInv
    <2> DEFINE new == Signature(r)
    <2>a. /\ released' = released \cup {new} /\ new.kind = Tree(r) /\ new.leaf = req[r].leaf
          /\ new.nonce # NoNonce /\ new.boot = restarts /\ new.leaf \in Nat /\ new.kind \in Kinds
          /\ UNCHANGED <<phase, uses, lease, stored, rewound, restarts>> /\ restarts \in Nat
      BY <1>0 DEF Signature, Release, identity, TypeOK
    <2>b. Signing(r) /\ phase = "up" /\ new.leaf < lease[new.kind]
      BY <1>0, <2>a DEF Signing, LeasesKnown
    <2>c. \A q \in Reqs : /\ Signing(q)' => q # r /\ Signing(q)
                          /\ q # r => req'[q] = req[q] /\ Tree(q)' = Tree(q)
      BY <1>0 DEF Signing, Tree, Moved, Kept
    <2>d. \A q \in Reqs : req'[q].pc = "store" => Signing(q)'
      BY DEF Signing
    <2> HIDE DEF new
    <2>6. LeasesKnown'
      BY <2>a, <2>b, <2>c DEF LeasesKnown
    <2>7. ProofsKnown'
      <3>1. \A s \in released' : s.nonce = NoNonce => s \in released
        BY <2>a
      <3> QED
        BY <2>a, <2>b, <2>c, <2>d, <3>1 DEF ProofsKnown
    <2>e. ClaimsKnown'
      <3>1. \A q \in Reqs : req'[q].pc = "store" /\ Tree(q)' = "root" => req'[q].leaf < req'[q].snap["root"]
        BY <2>c, <2>d DEF ClaimsKnown
      <3>2. \A q \in Reqs : Signing(q)' /\ Tree(q)' = "root" /\ req'[q].pc # "store" =>
              restarts' \in rewound' \/ req'[q].leaf < stored'["root"]
        BY <2>a, <2>c DEF ClaimsKnown
      <3>3. ASSUME NEW s \in released', s.nonce # NoNonce, s.kind = "root", s.boot \notin rewound'
            PROVE  /\ s.leaf < stored'["root"]
                   /\ s.boot < restarts' /\ phase' # "down" => s.leaf < uses'["root"]
                   /\ \A q \in Reqs : s.boot < restarts' /\ req'[q].pc = "store" => s.leaf < req'[q].snap["root"]
        <4>1. CASE s \in released
          BY <2>a, <2>c, <2>d, <3>3, <4>1 DEF ClaimsKnown
        <4>2. CASE s = new
          <5>1. s.leaf < stored["root"]
            BY <1>0, <2>a, <2>b, <3>3, <4>2 DEF ClaimsKnown
          <5>2. ~(s.boot < restarts)
            BY <2>a, <4>2
          <5> QED
            BY <2>a, <5>1, <5>2
        <4> QED
          BY <2>a, <4>1, <4>2
      <3> QED
        BY <3>1, <3>2, <3>3 DEF ClaimsKnown
    <2>8. LeavesApart'
      <3>1. \A s \in released' : s.kind \in Kinds /\ s.leaf \in Nat /\ s.boot \in 0 .. restarts'
        BY <2>a DEF LeavesApart
      <3>2. \A s \in released' : s.nonce # NoNonce /\ phase' # "up" => s.boot < restarts'
        BY <2>a, <2>b DEF LeavesApart
      <3>3. \A q, z \in Reqs : Signing(q)' /\ Signing(z)' /\ Tree(q)' = Tree(z)' /\ req'[q].leaf = req'[z].leaf
              => q = z
        BY <2>c DEF LeavesApart
      <3>4. ASSUME NEW q \in Reqs, NEW s \in released', Signing(q)', Tree(q)' = s.kind
            PROVE  req'[q].leaf # s.leaf
        <4>1. q # r /\ Signing(q) /\ req'[q] = req[q] /\ Tree(q)' = Tree(q)
          BY <2>c, <3>4
        <4>2. CASE s \in released
          BY <3>4, <4>1, <4>2 DEF LeavesApart
        <4>3. CASE s = new
          BY <2>a, <2>b, <3>4, <4>1, <4>3 DEF LeavesApart
        <4> QED
          BY <2>a, <4>2, <4>3
      <3> QED
        BY <3>1, <3>2, <3>3, <3>4 DEF LeavesApart
    <2>9. LeafOneTime'
      <3>1. \A s \in released : s.kind = new.kind => s.leaf # new.leaf
        BY <2>a, <2>b DEF LeavesApart
      <3>2. \A s, t \in released : ProofRepeats(s, t) => ProofRepeats(s, t)'
        BY <2>a DEF ProofRepeats
      <3> QED
        BY <2>a, <3>1, <3>2 DEF LeafOneTime
    <2> QED
      BY <2>6, <2>7, <2>e, <2>8, <2>9
  <1> QED
    BY <1>1, <1>2, <1>3, <1>4, <1>5, <1>6

\* Create keeps the invariants.
LEMMA Step_Create ==
  ASSUME ChainInv, Create
  PROVE  ChainInv' /\ (LeafInv => LeafInv')
  <1> USE EntityAssumption DEF ChainInv
  <1>0. /\ uses' \in Uses /\ uses'["root"] = stored["root"] + 1
        /\ phase = "down" /\ phase' = "proving"
    BY DEF Create, Restore, TypeOK, Uses, Kinds
  <1>1. TypeOK'
    BY <1>0 DEF TypeOK, Create, database, identity, Moved
  <1>2. Placed'
    BY <1>0 DEF TypeOK, Placed, Create, Moved, Kept
  <1>3. ChallengesSpent'
    BY <1>0 DEF TypeOK, Placed, ChallengesSpent, Paid, Create, database, identity, Moved, Kept
  <1>4. NonceOnce'
    BY <1>0 DEF TypeOK, NonceOnce, ChallengesSpent, Paid, Placed, Create, database, identity, Moved
  <1>5. Numbered' /\ TransferChain'
    BY <1>0 DEF TypeOK, Numbered, TransferChain, Create, database, identity
  <1>6. ASSUME LeafInv
        PROVE  LeafInv'
    <2> USE <1>6 DEF LeafInv
    <2>6. LeasesKnown'
      BY <1>0 DEF TypeOK, Placed, LeasesKnown, Signing, Tree, Create, database, identity, Moved, Kept
    <2>a. \A r \in Reqs : ~Signing(r) /\ ~Signing(r)' /\ req'[r].pc # "store"
      BY <1>0 DEF LeasesKnown, Create, Signing
    <2>b. /\ UNCHANGED <<released, stored, rewound, restarts>> /\ stored["root"] \in Nat
          /\ \A s \in released : s.leaf \in Nat
      BY Numbers DEF Create, LeavesApart
    <2>c. \A s \in released : s.leaf < stored["root"] => s.leaf < uses'["root"]
      BY <1>0, <2>b
    <2>7. ProofsKnown' /\ ClaimsKnown'
      BY <1>0, <2>a, <2>b, <2>c DEF ProofsKnown, ClaimsKnown
    <2>8. LeavesApart'
      BY <1>0 DEF TypeOK, Placed, LeavesApart, Signing, Tree, Create, database, identity, Moved, Kept
    <2>9. LeafOneTime'
      BY <1>0 DEF LeafOneTime, ProofRepeats, Create, database, identity
    <2> QED
      BY <2>6, <2>7, <2>8, <2>9
  <1> QED
    BY <1>1, <1>2, <1>3, <1>4, <1>5, <1>6

\* Publish keeps the invariants.
LEMMA Step_Publish ==
  ASSUME ChainInv, Publish
  PROVE  ChainInv' /\ (LeafInv => LeafInv')
  <1> USE EntityAssumption DEF ChainInv
  <1>0. /\ phase = "proving" /\ phase' = "up" /\ stored' = uses /\ UNCHANGED <<req, uses>>
        /\ released' = released \cup {Proof(uses["root"] - 1)}
        /\ Proof(uses["root"] - 1).nonce = NoNonce
    BY DEF Publish, Proof
  <1>1. TypeOK'
    BY <1>0 DEF TypeOK, Publish, database, identity, Moved
  <1>2. Placed'
    BY <1>0 DEF TypeOK, Placed, Publish, Moved, Kept
  <1>3. ChallengesSpent'
    BY <1>0 DEF TypeOK, Placed, ChallengesSpent, Paid, Publish, database, identity, Moved, Kept
  <1>4. NonceOnce'
    BY <1>0 DEF TypeOK, NonceOnce, ChallengesSpent, Paid, Placed, Publish, database, identity, Moved
  <1>5. Numbered' /\ TransferChain'
    BY <1>0 DEF TypeOK, Numbered, TransferChain, Publish, database, identity
  <1>6. ASSUME LeafInv
        PROVE  LeafInv'
    <2> USE <1>6 DEF LeafInv
    <2>a. uses["root"] = stored["root"] + 1 /\ stored["root"] \in Nat /\ \A r \in Reqs : ~Signing(r)
      BY <1>0, Numbers DEF ProofsKnown, LeasesKnown
    <2>b. \A r \in Reqs : ~Signing(r)' /\ req'[r].pc # "store"
      BY <1>0, <2>a DEF Signing
    <2>c. \A s \in released : s.leaf \in Nat /\ s.kind \in Kinds /\ s.boot \in 0 .. restarts
      BY DEF LeavesApart
    <2>d. PICK new : new = Proof(uses["root"] - 1)
      OBVIOUS
    <2>e. /\ released' = released \cup {new} /\ new.kind = "root" /\ new.leaf = stored["root"]
          /\ new.nonce = NoNonce /\ new.boot = restarts
          /\ UNCHANGED <<lease, restarts, rewound>> /\ restarts \in Nat
      BY <1>0, <2>a, <2>d DEF Proof, Publish, TypeOK
    <2>6. LeasesKnown'
      BY <1>0, <2>b, <2>e DEF LeasesKnown
    <2>f. \A s \in released : s.leaf < stored["root"] => s.leaf < stored["root"] + 1
      BY <2>a, <2>c
    <2>7. ProofsKnown'
      <3>1. ASSUME NEW s \in released', s.nonce = NoNonce
            PROVE  s.kind = "root" /\ s.leaf < stored["root"] + 1
        <4>1. CASE s \in released
          BY <2>f, <3>1, <4>1 DEF ProofsKnown
        <4>2. CASE s = new
          BY <2>a, <2>e, <4>2
        <4> QED
          BY <2>e, <4>1, <4>2
      <3> QED
        BY <1>0, <2>a, <2>b, <3>1 DEF ProofsKnown
    <2>g. ClaimsKnown'
      <3>1. ASSUME NEW s \in released', s.nonce # NoNonce, s.kind = "root", s.boot \notin rewound'
            PROVE  s.leaf < stored["root"] + 1
        <4>1. s \in released
          BY <2>e, <3>1
        <4> QED
          BY <2>e, <2>f, <3>1, <4>1 DEF ClaimsKnown
      <3> QED
        BY <1>0, <2>a, <2>b, <3>1 DEF ClaimsKnown
    <2>8. LeavesApart'
      <3>1. ASSUME NEW s \in released'
            PROVE  /\ s.kind \in Kinds /\ s.leaf \in Nat /\ s.boot \in 0 .. restarts'
        BY <2>a, <2>c, <2>e, Numbers
      <3> QED
        BY <1>0, <2>b, <3>1 DEF LeavesApart
    <2>9. LeafOneTime'
      <3>1. ASSUME NEW s \in released, s.kind = "root", s.leaf = stored["root"]
            PROVE  ProofRepeats(new, s)'
        <4>1. ~(s.leaf < stored["root"])
          BY <2>a, <3>1
        <4>2. s.nonce # NoNonce
          BY <4>1 DEF ProofsKnown
        <4>3. s.boot \in rewound
          BY <3>1, <4>1, <4>2 DEF ClaimsKnown
        <4>4. s.boot < restarts
          BY <1>0, <4>2 DEF LeavesApart
        <4> QED
          BY <2>e, <4>2, <4>3, <4>4 DEF ProofRepeats
      <3>2. \A s, t \in released : ProofRepeats(s, t) => ProofRepeats(s, t)'
        BY <2>e DEF ProofRepeats
      <3> QED
        BY <2>e, <3>1, <3>2 DEF LeafOneTime
    <2> QED
      BY <2>6, <2>7, <2>g, <2>8, <2>9
  <1> QED
    BY <1>1, <1>2, <1>3, <1>4, <1>5, <1>6

\* Crash keeps the invariants.
LEMMA Step_Crash ==
  ASSUME ChainInv, Crash
  PROVE  ChainInv' /\ (LeafInv => LeafInv')
  <1> USE EntityAssumption DEF ChainInv
  <1>0. /\ phase' = "down" /\ req' \in [Reqs -> Requests] /\ uses' \in Uses
        /\ \A r \in Reqs : req'[r].pc = "idle"
    BY IdleTyped DEF Crash
  <1>1. TypeOK'
    BY <1>0 DEF TypeOK, Crash, database, identity, Moved
  <1>2. Placed'
    BY <1>0 DEF TypeOK, Placed, Crash, Moved, Kept
  <1>3. ChallengesSpent'
    BY <1>0 DEF TypeOK, Placed, ChallengesSpent, Paid, Crash, database, identity, Moved, Kept
  <1>4. NonceOnce'
    BY <1>0 DEF TypeOK, NonceOnce, ChallengesSpent, Paid, Placed, Crash, database, identity, Moved
  <1>5. Numbered' /\ TransferChain'
    BY <1>0 DEF TypeOK, Numbered, TransferChain, Crash, database, identity
  <1>6. ASSUME LeafInv
        PROVE  LeafInv'
    <2> USE <1>6 DEF LeafInv
    <2>6. LeasesKnown'
      BY <1>0 DEF TypeOK, Placed, LeasesKnown, Signing, Tree, Crash, database, identity, Moved, Kept
    <2>7. ProofsKnown' /\ ClaimsKnown'
      BY <1>0 DEF TypeOK, Placed, ProofsKnown, ClaimsKnown, Signing, Tree, Crash, database, identity, Moved, Kept
    <2>8. LeavesApart'
      BY <1>0 DEF TypeOK, Placed, LeavesApart, Signing, Tree, Crash, database, identity, Moved, Kept
    <2>9. LeafOneTime'
      BY <1>0 DEF LeafOneTime, ProofRepeats, Crash, database, identity
    <2> QED
      BY <2>6, <2>7, <2>8, <2>9
  <1> QED
    BY <1>1, <1>2, <1>3, <1>4, <1>5, <1>6

------------------------------------------------------------------------------
(* The theorems. *)

\* The initial states satisfy the invariants.
LEMMA InitEstablishes == Init => ChainInv /\ LeafInv
  <1> SUFFICES ASSUME Init PROVE ChainInv /\ LeafInv
    OBVIOUS
  <1> USE EntityAssumption
  <1>1. TypeOK
    BY IdleTyped DEF Init, TypeOK
  <1>2. ChainInv
    BY <1>1, IdleTyped DEF Init, ChainInv, Placed, ChallengesSpent, Paid, NonceOnce, Numbered, TransferChain
  <1>3. LeafInv
    BY IdleTyped DEF Init, LeafInv, LeasesKnown, ProofsKnown, ClaimsKnown, LeavesApart, LeafOneTime, Signing
  <1> QED
    BY <1>2, <1>3

\* An arriving request keeps the invariants.
LEMMA Step_Arrive ==
  ASSUME ChainInv, NEW r \in Reqs, Arrive(r)
  PROVE  ChainInv' /\ (LeafInv => LeafInv')
  <1>1. PICK p \in Parties :
          \/ Begin(r, "register", p, NoNonce, NoParty, "insert")
          \/ \E n \in Nonces :
               \/ Begin(r, "blind-sign", p, n, NoParty, "nonce")
               \/ Begin(r, "claim", p, n, NoParty, "nonce")
               \/ Begin(r, "confirm", p, n, NoParty, "nonce")
               \/ Begin(r, "reclaim-tx", p, n, NoParty, "nonce")
               \/ \E q \in Parties \ {p} : Begin(r, "revoke-key", p, n, q, "tx")
    BY Zenon DEF Arrive, register, blindSign, claim, confirmClaim, reclaimTx, revokeKey
  <1>2. /\ {"register", "blind-sign", "claim", "confirm", "reclaim-tx", "revoke-key"} \subseteq Ops
        /\ {"insert", "nonce", "tx"} \subseteq Pcs
    BY DEF Ops, Pcs
  <1> DEFINE Goal == ChainInv' /\ (LeafInv => LeafInv')
  <1> HIDE DEF Goal
  <1>3. CASE Begin(r, "register", p, NoNonce, NoParty, "insert")
    BY <1>2, <1>3, Step_Begin DEF Goal
  <1>4. ASSUME NEW n \in Nonces, NEW op \in {"blind-sign", "claim", "confirm", "reclaim-tx"},
               Begin(r, op, p, n, NoParty, "nonce")
        PROVE  Goal
    BY <1>2, <1>4, Step_Begin DEF Goal
  <1>5. ASSUME NEW n \in Nonces, NEW q \in Parties, Begin(r, "revoke-key", p, n, q, "tx")
        PROVE  Goal
    BY <1>2, <1>5, Step_Begin DEF Goal
  <1> QED
    BY <1>1, <1>3, <1>4, <1>5 DEF Goal

\* Every step preserves the one, and with it the other.
LEMMA NextPreserves == ChainInv /\ [Next]_vars => ChainInv' /\ (LeafInv => LeafInv')
  <1> SUFFICES ASSUME ChainInv, [Next]_vars
               PROVE  ChainInv' /\ (LeafInv => LeafInv')
    OBVIOUS
  <1>1. CASE UNCHANGED vars
    BY <1>1 DEF vars, database, identity, ChainInv, LeafInv, TypeOK, Placed, ChallengesSpent,
       Paid, NonceOnce, Numbered, TransferChain, LeasesKnown, ProofsKnown, ClaimsKnown, LeavesApart,
       LeafOneTime, ProofRepeats, Signing, Tree
  <1>2. CASE Next
    BY <1>2, Step_Arrive, Step_Insert, Step_ConsumeNonce, Step_CheckRevoked, Step_RevokeTx,
       Step_SetStatus, Step_ConfirmedOnChain, Step_SignLeased, Step_LeaseFails, Step_StoreUses,
       Step_Release, Step_Abort, Step_challenge, Step_Expire, Step_Create, Step_Publish,
       Step_Crash, Zenon DEF Next, Handle
  <1> QED
    BY <1>1, <1>2

\* The first invariant holds throughout.
LEMMA ChainInductive == Spec => []ChainInv
  <1>1. Init => ChainInv
    BY InitEstablishes
  <1>2. ChainInv /\ [Next]_vars => ChainInv'
    BY NextPreserves
  <1> QED
    BY <1>1, <1>2, PTL DEF Spec

\* Rows, requests and counters keep their shape (TypeOK): in particular no leaf
\* past the end of a tree is ever reserved or counted.
THEOREM TypeCorrect == Spec => []TypeOK
  <1>1. ChainInv => TypeOK
    BY DEF ChainInv
  <1> QED
    BY <1>1, ChainInductive, PTL

\* A challenge pays for one signature or one transfer (consumeNonce,
\* revokeOwnerTransactional), for any number of concurrent requests.
THEOREM OneEffect == Spec => []NonceOnce
  <1>1. ChainInv => NonceOnce
    BY DEF ChainInv
  <1> QED
    BY <1>1, ChainInductive, PTL

\* Ownership passes along one line (revokeOwnerTransactional).
THEOREM OneLine == Spec => []TransferChain
  <1>1. ChainInv => TransferChain
    BY DEF ChainInv
  <1> QED
    BY <1>1, ChainInductive, PTL

\* No leaf signs two messages that leave the server, except that the ownership proof of a
\* start may repeat a claim's leaf of a run that stored its counts out of order
\* (SeIdentity.signLeased and create), for any number of requests, leaves and restarts.
THEOREM LeafSafety == Spec => []LeafOneTime
  <1>1. Init => ChainInv /\ LeafInv
    BY InitEstablishes
  <1>2. ChainInv /\ LeafInv /\ [Next]_vars => ChainInv' /\ LeafInv'
    BY NextPreserves
  <1>3. LeafInv => LeafOneTime
    BY DEF LeafInv
  <1> QED
    BY <1>1, <1>2, <1>3, PTL DEF Spec

\* Once a claim was admitted no step moves the owner (revokeOwnerTransactional): the
\* two writes of the row that may follow are the status of a claim and its confirmation.
THEOREM ClaimFreezes == Spec => FrozenByClaim
  <1>1. TypeOK /\ [Next]_vars
          => [record.status \in {"claiming", "claimed"} => record'.owner = record.owner]_vars
    <2> SUFFICES ASSUME TypeOK, Next, record.status \in {"claiming", "claimed"}
                 PROVE  record'.owner = record.owner
      OBVIOUS
    <2>1. ASSUME NEW r \in Reqs, Insert(r) \/ RevokeTx(r) PROVE record' = record
      BY <2>1 DEF Insert, RevokeTx, Transferable
    <2>2. ASSUME NEW r \in Reqs, SetStatus(r) PROVE record'.owner = record.owner
      BY <2>2 DEF SetStatus, TypeOK
    <2>3. ASSUME NEW r \in Reqs, Arrive(r) PROVE record' = record
      BY <2>3 DEF Arrive, register, blindSign, claim, confirmClaim, reclaimTx, revokeKey,
         Begin, database
    <2>4. ASSUME NEW r \in Reqs, \/ ConsumeNonce(r) \/ CheckRevoked(r) \/ ConfirmedOnChain(r)
                                 \/ SignLeased(r) \/ LeaseFails(r) \/ StoreUses(r)
                                 \/ Release(r) \/ Abort(r)
          PROVE  record' = record
      BY <2>4 DEF ConsumeNonce, CheckRevoked, ConfirmedOnChain, SignLeased, Signed, LeaseFails,
         StoreUses, Release, Abort, database
    <2>5. ASSUME NEW n \in Nonces, challenge(n) \/ Expire(n) PROVE record' = record
      BY <2>5 DEF challenge, Expire
    <2>6. ASSUME Create \/ Publish \/ Crash PROVE record' = record
      BY <2>6 DEF Create, Publish, Crash, database
    <2> QED
      BY <2>1, <2>2, <2>3, <2>4, <2>5, <2>6, Zenon DEF Next, Handle
  <1> QED
    BY <1>1, TypeCorrect, PTL DEF Spec, FrozenByClaim
============================================================================
