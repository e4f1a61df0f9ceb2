--------------------------- MODULE StatechainEntity ---------------------------
(****************************************************************************)
(* The statechain entity (packages/se-server): the HTTP handlers of one     *)
(* chain over its PostgreSQL rows (router.ts, db.ts), and the identity that *)
(* co-signs with one-time leaves (seIdentity.ts).                           *)
(*                                                                          *)
(* A handler is a request that moves from one awaited call to the next, so  *)
(* that the handlers of several requests interleave there.  What a handler  *)
(* read from the record stays in its request.  The identity holds, for the  *)
(* leaves of the child tree (blind signatures) and of the root tree (claim  *)
(* signatures and the ownership proof made at every start), two counters:   *)
(* the lease provider's next leaf, and the wallet's use count, which is in  *)
(* memory and is stored as a whole after every signature.                   *)
(*                                                                          *)
(* A party stands for its id and its key.  Signatures, scripts and the      *)
(* encrypted reclaim transaction are left out: a request is authorised when *)
(* its sender is the owner the handler read.  The party a transfer revokes  *)
(* is whatever its request names.                                           *)
(****************************************************************************)
EXTENDS Integers, FiniteSets

CONSTANTS
  Parties,      \* owners, past and future
  Reqs,         \* requests in progress at one time
  Nonces,       \* challenges issued (bound)
  MaxRestarts,  \* bound on restarts of the server
  MaxLeaf,      \* one-time leaves of a tree: 64^3 in the code
  NoParty, NoNonce

ASSUME EntityAssumption ==
  /\ NoParty \notin Parties
  /\ NoNonce \notin Nonces
  /\ MaxRestarts \in Nat
  /\ MaxLeaf \in Nat \ {0}

Kinds == {"child", "root"}
Ops == {"register", "blind-sign", "revoke-key", "claim", "confirm", "reclaim-tx"}

VARIABLES
  \* the database
  record,     \* the row of statechain_records
  revoked,    \* statechain_revocations
  nonce,      \* statechain_nonces
  \* the process
  phase,      \* of SeIdentity.create
  req,        \* the running handlers
  uses,       \* the wallet's use counts
  \* the storage adapter
  lease,      \* next leaf of LocalLeaseProvider per tree
  stored,     \* totem_se_identity_watermark
  rewound,    \* the runs in which a lower count of root leaves was stored over a higher
  \* bound, and what left the server
  restarts,
  released,   \* signatures answered to a caller or published
  transfers   \* ownership transitions

database == <<record, revoked, nonce>>
identity == <<phase, uses, lease, stored, rewound>>
vars == <<database, identity, req, restarts, released, transfers>>

Uses == [Kinds -> 0 .. MaxLeaf]
Requests ==
  [pc : {"idle", "insert", "nonce", "revoked", "tx", "sign", "store", "chain",
         "status", "release"},
   op : Ops, by : Parties \cup {NoParty}, to : Parties \cup {NoParty},
   nonce : Nonces \cup {NoNonce}, owner : Parties \cup {NoParty},
   leaf : 0 .. MaxLeaf - 1, snap : Uses]

NoUses == [k \in Kinds |-> 0]
Idle == [pc |-> "idle", op |-> "register", by |-> NoParty, to |-> NoParty,
         nonce |-> NoNonce, owner |-> NoParty, leaf |-> 0, snap |-> NoUses]

\* The tree a request signs with.
Tree(r) == IF req[r].op = "claim" THEN "root" ELSE "child"

Proof(n) == [kind |-> "root", leaf |-> n, by |-> NoParty, nonce |-> NoNonce,
             boot |-> restarts]
Signature(r) ==
  [kind |-> Tree(r), leaf |-> req[r].leaf,
   by |-> req[r].by, nonce |-> req[r].nonce, boot |-> restarts]

------------------------------------------------------------------------------
(* Handlers up to their first read of the record. *)

\* A request arrives: the handler reads the record and keeps what it saw.
Begin(r, op, p, n, q, pc) ==
  /\ phase # "down" /\ req[r] = Idle
  /\ req' = [req EXCEPT ![r] =
       [pc |-> pc, op |-> op, by |-> p, to |-> q, nonce |-> n, owner |-> record.owner,
        leaf |-> 0, snap |-> NoUses]]
  /\ UNCHANGED <<database, identity, restarts, released, transfers>>

\* POST /:chainId/register: nothing to do when the owner registered before.
register(r, p) ==
  /\ record.status = "none"
  /\ Begin(r, "register", p, NoNonce, NoParty, "insert")

blindSign(r, p, n) ==
  /\ record.status = "active" /\ nonce[n] = "live"
  /\ Begin(r, "blind-sign", p, n, NoParty, "nonce")

\* The claimed previous owner must be the owner read.
revokeKey(r, p, n, q) ==
  /\ record.status = "active" /\ nonce[n] = "live"
  /\ p = record.owner
  /\ Begin(r, "revoke-key", p, n, q, "tx")

claim(r, p, n) ==
  /\ record.status = "active" /\ nonce[n] = "live"
  /\ Begin(r, "claim", p, n, NoParty, "nonce")

confirmClaim(r, p, n) ==
  /\ record.status = "claiming" /\ nonce[n] = "live"
  /\ Begin(r, "confirm", p, n, NoParty, "nonce")

reclaimTx(r, p, n) ==
  /\ record.status # "none" /\ nonce[n] = "live"
  /\ Begin(r, "reclaim-tx", p, n, NoParty, "nonce")

\* GET /:chainId/challenge, refused for an unknown, claimed or claiming chain.
challenge(n) ==
  /\ phase # "down" /\ record.status = "active"
  /\ nonce[n] = "unissued"
  /\ nonce' = [nonce EXCEPT ![n] = "live"]
  /\ UNCHANGED <<record, revoked, identity, req, restarts, released, transfers>>

\* The five minutes of a challenge pass.
Expire(n) ==
  /\ nonce[n] = "live"
  /\ nonce' = [nonce EXCEPT ![n] = "gone"]
  /\ UNCHANGED <<record, revoked, identity, req, restarts, released, transfers>>

------------------------------------------------------------------------------
(* Handlers after an await. *)

Goto(r, pc) == req' = [req EXCEPT ![r].pc = pc]
Answer(r) == req' = [req EXCEPT ![r] = Idle]

\* insertStatechainRecord: the primary key lets one insert through.
Insert(r) ==
  /\ req[r].pc = "insert" /\ Answer(r)
  /\ record' = IF record.status = "none"
               THEN [record EXCEPT !.status = "active", !.owner = req[r].by]
               ELSE record
  /\ UNCHANGED <<revoked, nonce, identity, restarts, released, transfers>>

\* What follows consumeNonce and verifyOwnerRequest.
AfterNonce(op) ==
  CASE op = "blind-sign" -> "revoked"
    [] op = "claim" -> "sign"
    [] op = "confirm" -> "chain"

\* Mutant: the nonce is only looked up.
BugNonceKept(r) ==
  LET ok == nonce[req[r].nonce] = "live" /\ req[r].by = req[r].owner
  IN /\ req[r].pc = "nonce"
     /\ IF ok /\ req[r].op # "reclaim-tx" THEN Goto(r, AfterNonce(req[r].op))
                                          ELSE Answer(r)
     /\ UNCHANGED <<database, identity, restarts, released, transfers>>

\* consumeNonce deletes the row whatever comes after it; then the signature is
\* checked against the owner that was read before.
ConsumeNonce(r) ==
  LET ok == nonce[req[r].nonce] = "live" /\ req[r].by = req[r].owner
  IN /\ req[r].pc = "nonce"
     /\ nonce' = [nonce EXCEPT ![req[r].nonce] = "gone"]
     /\ IF ok /\ req[r].op # "reclaim-tx" THEN Goto(r, AfterNonce(req[r].op))
                                          ELSE Answer(r)
     /\ UNCHANGED <<record, revoked, identity, restarts, released, transfers>>

\* isRevoked, asked for the owner that was read before.
CheckRevoked(r) ==
  /\ req[r].pc = "revoked"
  /\ IF req[r].owner \in revoked THEN Answer(r) ELSE Goto(r, "sign")
  /\ UNCHANGED <<database, identity, restarts, released, transfers>>

\* Mutant: the transaction trusts the handler's read.
BugStaleOwner(q) == TRUE
\* Mutant: the transaction checks the owner alone.
BugAnyStatus(q) == record.owner = q.by

\* revokeOwnerTransactional: what the transaction checks again under its lock.
Transferable(q) == record.status = "active" /\ record.owner = q.by

\* One transaction.  A refused transition still commits the nonce's deletion, and
\* nothing compares the revoked party the request names with the owner.
RevokeTx(r) ==
  LET q == req[r]
      ok == nonce[q.nonce] = "live" /\ Transferable(q)
  IN /\ q.pc = "tx" /\ Answer(r)
     /\ nonce' = [nonce EXCEPT ![q.nonce] = "gone"]
     /\ IF ok
        THEN /\ record' = [status |-> "active", owner |-> q.to, version |-> record.version + 1]
             /\ \E z \in Parties : revoked' = revoked \cup {z}
             /\ transfers' = transfers \cup
                  {[version |-> record.version, from |-> q.by, to |-> q.to,
                    nonce |-> q.nonce]}
        ELSE UNCHANGED <<record, revoked, transfers>>
     /\ UNCHANGED <<identity, restarts, released>>

\* updateStatechainStatus writes whatever the status is by now.
SetStatus(r) ==
  /\ req[r].pc = "status"
  /\ record' = [record EXCEPT !.status = IF req[r].op = "claim" THEN "claiming"
                                                                ELSE "claimed"]
  /\ IF req[r].op = "claim" THEN Goto(r, "release") ELSE Answer(r)
  /\ UNCHANGED <<revoked, nonce, identity, restarts, released, transfers>>

\* config.confirmClaim found the claim on the chain.
ConfirmedOnChain(r) ==
  /\ req[r].pc = "chain" /\ Goto(r, "status")
  /\ UNCHANGED <<database, identity, restarts, released, transfers>>

\* A call of the handler rejects, or the claim is not on the chain yet.
Abort(r) ==
  /\ req[r].pc # "idle" /\ Answer(r)
  /\ UNCHANGED <<database, identity, restarts, released, transfers>>

------------------------------------------------------------------------------
(* SeIdentity. *)

\* Mutant: one leaf too many.
BugOnePastTheEnd(k) == lease[k] <= MaxLeaf

\* signLeased and the provider refuse when the leaves of the tree are used up.
LeafLeft(k) == lease[k] < MaxLeaf

\* Mutant: the wallet's count may go back.
BugUsesLowered(k, leaf) == TRUE

\* setRootUses and setChildUses refuse to go back.
UsesAllowed(k, leaf) == leaf >= uses[k]

\* A request whose leaf signed waits for the counts to be stored.
Signed(q, leaf, snap) ==
  [pc |-> "store", op |-> q.op, by |-> q.by, to |-> q.to, nonce |-> q.nonce,
   owner |-> q.owner, leaf |-> leaf, snap |-> snap]

\* signLeased: the provider's next leaf is reserved and signed with at once; a
\* leaf the wallet refuses is burned, and so is the caller's nonce.
SignLeased(r) ==
  LET k == Tree(r)
      leaf == lease[k]
  IN /\ req[r].pc = "sign" /\ phase = "up"
     /\ LeafLeft(k)
     /\ lease' = [lease EXCEPT ![k] = leaf + 1]
     /\ IF UsesAllowed(k, leaf)
        THEN /\ uses' = [uses EXCEPT ![k] = leaf + 1]
             /\ req' = [req EXCEPT ![r] = Signed(@, leaf, uses')]
        ELSE UNCHANGED uses /\ Answer(r)
     /\ UNCHANGED <<database, phase, stored, rewound, restarts, released, transfers>>

\* The reservation is recorded and then fails: a leaf nobody signs with.
LeaseFails(r) ==
  /\ req[r].pc = "sign" /\ phase = "up"
  /\ LeafLeft(Tree(r))
  /\ lease' = [lease EXCEPT ![Tree(r)] = @ + 1]
  /\ Answer(r)
  /\ UNCHANGED <<database, phase, uses, stored, rewound, restarts, released, transfers>>

\* storage.set of the counts as they were when the leaf signed.  The server's FileStore
\* does not queue its writes: of two under way either may land last.
StoreUses(r) ==
  /\ req[r].pc = "store"
  /\ stored' = req[r].snap
  /\ rewound' = IF req[r].snap["root"] < stored["root"] THEN rewound \cup {restarts}
                                                       ELSE rewound
  /\ Goto(r, IF req[r].op = "claim" THEN "status" ELSE "release")
  /\ UNCHANGED <<database, phase, uses, lease, restarts, released, transfers>>

\* commitKeyUse, the sign log and the answer.
Release(r) ==
  /\ req[r].pc = "release"
  /\ released' = released \cup {Signature(r)}
  /\ Answer(r)
  /\ UNCHANGED <<database, identity, restarts, transfers>>

\* SeIdentity.create: restore the stored counts and prove ownership of the child
\* key, which takes a leaf of the root tree that the provider does not know of.
Restore == uses' = [stored EXCEPT !["root"] = @ + 1]

Create ==
  /\ phase = "down" /\ stored["root"] < MaxLeaf
  /\ Restore
  /\ phase' = "proving"
  /\ UNCHANGED <<database, lease, stored, rewound, req, restarts, released, transfers>>

\* The counts are stored before the proof is published.
Publish ==
  /\ phase = "proving"
  /\ phase' = "up" /\ stored' = uses
  /\ released' = released \cup {Proof(uses["root"] - 1)}
  /\ UNCHANGED <<database, uses, lease, rewound, req, restarts, transfers>>

\* The server dies: its handlers and its counts are gone.
Crash ==
  /\ phase # "down" /\ restarts < MaxRestarts
  /\ phase' = "down" /\ restarts' = restarts + 1
  /\ req' = [r \in Reqs |-> Idle]
  /\ uses' = NoUses
  /\ UNCHANGED <<database, lease, stored, rewound, released, transfers>>

------------------------------------------------------------------------------
Init ==
  /\ record = [status |-> "none", owner |-> NoParty, version |-> 0]
  /\ revoked = {} /\ nonce = [n \in Nonces |-> "unissued"]
  /\ phase = "down" /\ req = [r \in Reqs |-> Idle]
  /\ uses = NoUses /\ lease = NoUses /\ stored = NoUses /\ rewound = {}
  /\ restarts = 0 /\ released = {} /\ transfers = {}

Arrive(r) ==
  \E p \in Parties :
    \/ register(r, p)
    \/ \E n \in Nonces :
         \/ blindSign(r, p, n) \/ claim(r, p, n) \/ confirmClaim(r, p, n)
         \/ reclaimTx(r, p, n)
         \/ \E q \in Parties \ {p} : revokeKey(r, p, n, q)

Handle(r) ==
  \/ Insert(r) \/ ConsumeNonce(r) \/ CheckRevoked(r) \/ RevokeTx(r) \/ SetStatus(r)
  \/ ConfirmedOnChain(r) \/ SignLeased(r) \/ LeaseFails(r) \/ StoreUses(r)
  \/ Release(r) \/ Abort(r)

Next ==
  \/ \E r \in Reqs : Arrive(r) \/ Handle(r)
  \/ \E n \in Nonces : challenge(n) \/ Expire(n)
  \/ Create \/ Publish \/ Crash

Spec == Init /\ [][Next]_vars

------------------------------------------------------------------------------
(* Correctness. *)

\* Every variable has its type.
TypeOK ==
  /\ record \in [status : {"none", "active", "claiming", "claimed"},
                 owner : Parties \cup {NoParty}, version : Nat]
  /\ revoked \subseteq Parties
  /\ nonce \in [Nonces -> {"unissued", "live", "gone"}]
  /\ phase \in {"down", "proving", "up"}
  /\ req \in [Reqs -> Requests]
  /\ uses \in Uses /\ lease \in Uses /\ stored \in Uses
  /\ restarts \in 0 .. MaxRestarts /\ rewound \subseteq 0 .. restarts

\* The ownership proof of a start signs the leaf of a claim that an earlier run answered,
\* because that run stored its counts of root leaves out of order before it died.
ProofRepeats(s, t) ==
  /\ s.nonce = NoNonce /\ t.nonce # NoNonce
  /\ t.boot < s.boot /\ t.boot \in rewound

\* No one-time leaf of the entity signs two messages that leave the server, over
\* concurrent requests, refused leaves and restarts, with the one exception of an
\* ownership proof made after counts were stored out of order: leaves of the lease
\* provider are never shared, and neither are leaves of proofs (SeIdentity.signLeased
\* and create; two signatures under one leaf reveal its key).
LeafOneTime ==
  \A s, t \in released :
    s.kind = t.kind /\ s.leaf = t.leaf => s = t \/ ProofRepeats(s, t) \/ ProofRepeats(t, s)

\* Ownership changes hands along one line: every transition was signed by the
\* owner the previous one installed, however requests of several owners that
\* read the same record interleave (revokeOwnerTransactional, AUD-027).
TransferChain ==
  /\ \A s, t \in transfers : s.version = t.version => s = t
  /\ \A s, t \in transfers : t.version = s.version + 1 => t.from = s.to
  /\ \A t \in transfers : t.version + 1 = record.version => t.to = record.owner

\* One challenge pays for one effect: a signature or a transfer, never two of
\* them (consumeNonce, revokeOwnerTransactional).
NonceOnce ==
  /\ \A s, t \in {x \in released : x.nonce # NoNonce} : s.nonce = t.nonce => s = t
  /\ \A s, t \in transfers : s.nonce = t.nonce => s = t
  /\ \A s \in released, t \in transfers : s.nonce # t.nonce

\* Once a claim was admitted the chain has no new owner, also not from a
\* request that read the record before (revokeOwnerTransactional).
FrozenByClaim ==
  [][record.status \in {"claiming", "claimed"} => record'.owner = record.owner]_vars

------------------------------------------------------------------------------
(* The inductive invariant behind the safety properties. *)

\* A request is where its operation can be, and names its party and challenge.
Placed ==
  \A r \in Reqs :
    LET q == req[r] IN
    /\ q.pc \in {"nonce", "revoked", "tx", "sign", "store", "chain", "status", "release"} =>
         q.nonce \in Nonces /\ q.by \in Parties
    /\ q.pc = "insert" => q.by \in Parties
    /\ q.pc = "nonce" => q.op \in {"blind-sign", "claim", "confirm", "reclaim-tx"}
    /\ q.pc = "revoked" => q.op = "blind-sign"
    /\ q.pc = "chain" => q.op = "confirm"
    /\ q.pc \in {"sign", "store", "release"} => q.op \in {"blind-sign", "claim"}
    /\ q.pc = "status" => q.op \in {"claim", "confirm"}

\* A request that consumed its challenge.
Paid(r) == req[r].pc \in {"revoked", "sign", "store", "chain", "status", "release"}

\* A challenge is consumed for one request or one effect.
ChallengesSpent ==
  /\ \A r \in Reqs : Paid(r) => nonce[req[r].nonce] = "gone"
  /\ \A s \in released : s.nonce # NoNonce => s.nonce \in Nonces /\ nonce[s.nonce] = "gone"
  /\ \A t \in transfers : t.nonce \in Nonces /\ nonce[t.nonce] = "gone"
  /\ \A r, q \in Reqs : Paid(r) /\ Paid(q) /\ req[r].nonce = req[q].nonce => r = q
  /\ \A r \in Reqs : Paid(r) =>
       /\ \A s \in released : s.nonce # req[r].nonce
       /\ \A t \in transfers : t.nonce # req[r].nonce

\* Transitions are numbered below the record's version.
Numbered ==
  /\ \A t \in transfers : t.version \in Nat /\ t.version < record.version
  /\ record.status = "none" => transfers = {}

\* A request with a signature that has not left the server yet.
Signing(r) == req[r].pc \in {"store", "release"} \/ (req[r].pc = "status" /\ req[r].op = "claim")

\* The lease provider knows every leaf that signed for a request.
LeasesKnown ==
  /\ \A r \in Reqs : Signing(r) => req[r].leaf < lease[Tree(r)] /\ phase = "up"
  /\ \A s \in released : s.nonce # NoNonce => s.leaf < lease[s.kind]

\* The counts know every leaf that a proof signed, on storage, in memory and in the
\* writes under way.
ProofsKnown ==
  /\ phase = "proving" => uses["root"] = stored["root"] + 1
  /\ \A s \in released : s.nonce = NoNonce =>
       /\ s.kind = "root" /\ s.leaf < stored["root"]
       /\ phase # "down" => s.leaf < uses["root"]
       /\ \A r \in Reqs : req[r].pc = "store" => s.leaf < req[r].snap["root"]

\* Those on storage know every leaf a claim signed in a run that stored its counts in
\* order; of the runs before this one, so do those in memory and the writes under way.
ClaimsKnown ==
  /\ \A r \in Reqs : req[r].pc = "store" /\ Tree(r) = "root" =>
       req[r].leaf < req[r].snap["root"]
  /\ \A r \in Reqs : Signing(r) /\ Tree(r) = "root" /\ req[r].pc # "store" =>
       restarts \in rewound \/ req[r].leaf < stored["root"]
  /\ \A s \in released : s.nonce # NoNonce /\ s.kind = "root" /\ s.boot \notin rewound =>
       /\ s.leaf < stored["root"]
       /\ s.boot < restarts /\ phase # "down" => s.leaf < uses["root"]
       /\ \A r \in Reqs : s.boot < restarts /\ req[r].pc = "store" =>
            s.leaf < req[r].snap["root"]

\* A leaf signs for one request, and not for one whose signature left already.
LeavesApart ==
  /\ \A s \in released : s.kind \in Kinds /\ s.leaf \in Nat /\ s.boot \in 0 .. restarts
  /\ \A s \in released : s.nonce # NoNonce /\ phase # "up" => s.boot < restarts
  /\ \A r, q \in Reqs : Signing(r) /\ Signing(q) /\ Tree(r) = Tree(q) /\ req[r].leaf = req[q].leaf
       => r = q
  /\ \A r \in Reqs, s \in released : Signing(r) /\ Tree(r) = s.kind => req[r].leaf # s.leaf

\* What every step preserves, of the chain and of the leaves.
ChainInv == TypeOK /\ Placed /\ ChallengesSpent /\ NonceOnce /\ Numbered /\ TransferChain
LeafInv == LeasesKnown /\ ProofsKnown /\ ClaimsKnown /\ LeavesApart /\ LeafOneTime
==============================================================================
