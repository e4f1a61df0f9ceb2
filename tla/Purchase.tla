------------------------------ MODULE Purchase ------------------------------
(****************************************************************************)
(* The purchase of one resource: EdgeBuyer.buy and close                    *)
(* (packages/edge/src/purchasing/buyer.ts) over a durable PurchaseStore,    *)
(* the payment adapter with its claims (packages/edge-adapters), and the    *)
(* governed action purchase:buy that runs the same purchase under a budget  *)
(* reservation (governed-commerce.ts, agent-runtime.ts).                    *)
(*                                                                          *)
(* Several calls buy for one intent: calls made at one time, and retries    *)
(* after a failure or a crash.  They interleave at every awaited call.      *)
(* Each write is a compare-and-set of the record the call holds: either     *)
(* nobody wrote since it was read, or the write fails, so that of a call's  *)
(* copy only this is kept (fresh).                                          *)
(*                                                                          *)
(* An agreement stands for its idempotency keys.  A call that accepts the   *)
(* standing terms uses the agreement named after the intent, one that       *)
(* negotiates gets an agreement of its own, its negotiationId being random. *)
(* A resource is named by the call that started it.  The negotiation itself *)
(* is the module Negotiation.                                               *)
(****************************************************************************)
EXTENDS Integers, FiniteSets

CONSTANTS
  Calls,        \* calls of buy() or executeAction; a retry is a call of its own
  Governed,     \* the calls that come as purchase:buy
  Direct,       \* the agreement on standing terms
  Free,         \* agreements without a price
  MaxCrashes,   \* bound on crashes
  NoAgreement, NoResource

Agreements == Calls \cup {Direct}

ASSUME PurchaseAssumption ==
  /\ Governed \subseteq Calls /\ Direct \notin Calls
  /\ Free \subseteq Agreements /\ NoAgreement \notin Agreements
  /\ NoResource \notin Calls
  /\ MaxCrashes \in Nat

VARIABLES
  \* durable
  rec,       \* the purchase record
  claim,     \* the payment adapter's claim of each agreement's payment key
  budget,    \* the reservation of each governed call
  \* in memory
  call,
  \* outside
  paid,      \* for each agreement, the calls whose payment moved money
  res,       \* resources at the provider, with the agreement they were started for
  crashes

durable == <<rec, claim, budget>>
outside == <<paid, res, crashes>>
vars == <<durable, call, outside>>

Statuses == {"NONE", "REQUESTED", "DISCOVERING", "NEGOTIATING", "AUTHORIZING", "AUTHORIZED",
             "PAYING", "PAID", "STARTING_RESOURCE", "ACTIVE", "SETTLING", "COMPLETED"}
Keys == {"payment", "resource-start", "settlement", "receipt"} \X Agreements
Records == [status : Statuses, agr : Agreements \cup {NoAgreement},
            keys : SUBSET Keys, ref : Calls \cup {NoResource}]

\* Status NONE: there is no record yet.
NoRecord == [status |-> "NONE", agr |-> NoAgreement, keys |-> {}, ref |-> NoResource]

\* agr: the prepared agreement; fresh: nobody wrote the record since the call read
\* or wrote it; handle: its resource.
Pcs == {"new", "create", "lookup", "negotiating", "agree", "authorize", "barrier", "authorizing",
        "approve", "paying", "pay", "port", "ok", "failed", "mark",
        "recover", "starting", "start", "active", "commit", "abort", "session", "close", "settling",
        "receipt", "recovered", "end"}
CallStates == [pc : Pcs, agr : Agreements \cup {NoAgreement}, fresh : BOOLEAN,
               handle : Calls \cup {NoResource}]
Unmade == [pc |-> "new", agr |-> NoAgreement, fresh |-> FALSE, handle |-> NoResource]
Over == [Unmade EXCEPT !.pc = "end"]

Init ==
  /\ rec = NoRecord /\ claim = [a \in Agreements |-> "none"]
  /\ budget = [c \in Calls |-> "none"]
  /\ call = [c \in Calls |-> Unmade]
  /\ paid = [a \in Agreements |-> {}]
  /\ res = [c \in Calls |-> [state |-> "none", agr |-> NoAgreement]]
  /\ crashes = 0

Goto(c, pc) == call' = [call EXCEPT ![c] = IF pc = "end" THEN Over ELSE [@ EXCEPT !.pc = pc]]
Read(c, pc) == call' = [call EXCEPT ![c].fresh = TRUE, ![c].pc = pc]

------------------------------------------------------------------------------
(* Errors and writes of the record. *)

\* classifyFailure of purchase:buy.
Definite == {"AUTHORITY_DENIED", "AGREEMENT_EXPIRED", "SPEND_EXCEEDED",
             "PURCHASE_DEADLINE_EXPIRED", "PAYMENT_FAILED", "STALE_REVISION"}

\* An error of execute aborts the reservation if it is classified as not
\* executed; otherwise the reservation is held.  Before that an error ends the call.
Throw(c, code) ==
  Goto(c, IF budget[c] = "held" /\ code \in Definite THEN "abort" ELSE "end")

\* The stored record moves on: every other call holds an old one.
Write(c, r, new) ==
  /\ rec' = r
  /\ call' = [d \in Calls |-> IF d = c THEN new ELSE [call[d] EXCEPT !.fresh = FALSE]]

\* Mutant: the record is written whatever its revision.
BugUnconditional(c) == TRUE

\* compareAndSet finds the revision the call holds.
Unmoved(c) == call[c].fresh

\* Mutant: a write that lost ends the purchase.
BugFailsRecord(c, r, new) ==
  IF Unmoved(c) THEN Write(c, r, new) ELSE Write(c, [rec EXCEPT !.status = "FAILED"], Over)

\* casPurchase.
Cas(c, r, new) ==
  IF Unmoved(c) THEN Write(c, r, new) ELSE UNCHANGED rec /\ Throw(c, "STALE_REVISION")

\* A step of the call that only writes a status.
Mark(c, from, status, pc) ==
  /\ call[c].pc = from
  /\ Cas(c, [rec EXCEPT !.status = status], [call[c] EXCEPT !.pc = pc])
  /\ UNCHANGED <<claim, budget, outside>>

------------------------------------------------------------------------------
(* prepareBuy; without a step when the deadline has passed. *)

prepareBuy(c) ==
  /\ call[c].pc = "new"
  /\ Read(c, IF rec.status = "NONE" THEN "create" ELSE "lookup")
  /\ UNCHANGED <<durable, outside>>

\* create throws when another call was first.
Create(c) ==
  /\ call[c].pc = "create"
  /\ IF rec.status = "NONE"
     THEN Write(c, [rec EXCEPT !.status = "REQUESTED"], [call[c] EXCEPT !.pc = "lookup"])
     ELSE UNCHANGED rec /\ Goto(c, "end")
  /\ UNCHANGED <<claim, budget, outside>>

Prepared(c) == IF c \in Governed THEN "authorize" ELSE "barrier"

\* The lookup answered.  Standing terms are taken as they are, without them the
\* call negotiates.
Discover(c) ==
  /\ call[c].pc = "lookup"
  /\ \E new \in {[call[c] EXCEPT !.agr = Direct, !.pc = Prepared(c)],
                 [call[c] EXCEPT !.pc = "negotiating"]} :
       Cas(c, [rec EXCEPT !.status = "DISCOVERING"], new)
  /\ UNCHANGED <<claim, budget, outside>>

negotiateWith(c) == Mark(c, "negotiating", "NEGOTIATING", "agree")

Agree(c) ==
  /\ call[c].pc = "agree"
  /\ call' = [call EXCEPT ![c].agr = c, ![c].pc = Prepared(c)]
  /\ UNCHANGED <<durable, outside>>

\* The lookup, the negotiation or the policy refuses, or there is no provider or no
\* adapter for the resource: an error without a code.
Refuse(c) ==
  /\ call[c].pc \in {"lookup", "negotiating", "agree", "authorize", "starting"}
  /\ Goto(c, "end")
  /\ UNCHANGED <<durable, outside>>

\* authorizeAndReserve.
Reserve(c) ==
  /\ call[c].pc = "authorize"
  /\ budget' = [budget EXCEPT ![c] = "held"]
  /\ Goto(c, "barrier")
  /\ UNCHANGED <<rec, claim, outside>>

------------------------------------------------------------------------------
(* executeAgreement. *)

Issued(k, a) == <<k, a>> \in rec.keys

\* A resource that the record says was started is not started again.
ToResource(new) ==
  IF Issued("resource-start", new.agr) /\ rec.ref # NoResource
  THEN [new EXCEPT !.pc = "recover", !.handle = rec.ref]
  ELSE [new EXCEPT !.pc = "starting"]

\* Mutant: a payment that was begun is not made again.
BugPayingIsPaid(a) == a \in Free \/ Issued("payment", a) \/ rec.status \in {"PAYING", "PAID"}

\* Nothing to pay, or the record has the payment key.
PaymentDone(a) == a \in Free \/ Issued("payment", a)

ToPayment(new) == IF PaymentDone(new.agr) THEN ToResource(new) ELSE [new EXCEPT !.pc = "paying"]

revalidateBeforeCommit == {"AGREEMENT_EXPIRED", "PURCHASE_DEADLINE_EXPIRED", "SPEND_EXCEEDED"}

\* The barrier reads the record again and checks expiry and price; a governed
\* call has its authority already.
Barrier(c) ==
  /\ call[c].pc = "barrier"
  /\ \/ LET new == [call[c] EXCEPT !.fresh = TRUE, !.pc = "authorizing"]
        IN call' = [call EXCEPT ![c] = IF c \in Governed THEN ToPayment(new) ELSE new]
     \/ \E code \in revalidateBeforeCommit : Throw(c, code)
  /\ UNCHANGED <<durable, outside>>

Authorizing(c) ==
  /\ call[c].pc = "authorizing"
  /\ Cas(c, [rec EXCEPT !.status = "AUTHORIZING", !.agr = call[c].agr],
         [call[c] EXCEPT !.pc = "approve"])
  /\ UNCHANGED <<claim, budget, outside>>

\* The authority answers, and the answer is written.
approve(c) ==
  /\ call[c].pc = "approve"
  /\ \/ Cas(c, [rec EXCEPT !.status = "AUTHORIZED"], ToPayment(call[c]))
     \/ UNCHANGED rec /\ Throw(c, "AUTHORITY_DENIED")
  /\ UNCHANGED <<claim, budget, outside>>

Paying(c) == Mark(c, "paying", "PAYING", "pay")

\* withPaymentLock: from the claim to the record of its outcome one call at a time.
Locked == {"port", "ok", "failed"}
LockFree == \A c \in Calls : call[c].pc \notin Locked

\* Mutant: a claim whose outcome is not known is taken over.
BugReclaims(a) == claim[a] \in {"none", "pending"}

Claimable(a) == claim[a] = "none"

\* pay of the adapter: the claim is recorded before the payment.  A recorded
\* outcome is replayed, a pending one is an error.
pay(c) ==
  LET a == call[c].agr
  IN /\ call[c].pc = "pay" /\ LockFree
     /\ IF Claimable(a)
        THEN claim' = [claim EXCEPT ![a] = "pending"] /\ Goto(c, "port")
        ELSE /\ UNCHANGED claim
             /\ IF claim[a] = "ok" THEN Goto(c, "mark") ELSE Throw(c, "PAYMENT_FAILED")
     /\ UNCHANGED <<rec, budget, outside>>

\* The payment port pays, refuses, or throws, in which case money may have moved.
Port(c) ==
  LET a == call[c].agr
  IN /\ call[c].pc = "port"
     /\ \/ paid' = [paid EXCEPT ![a] = @ \cup {c}] /\ Goto(c, "ok")
        \/ UNCHANGED paid /\ Goto(c, "failed")
        \/ paid' = [paid EXCEPT ![a] = @ \cup {c}] /\ Goto(c, "failed")
     /\ UNCHANGED <<durable, res, crashes>>

\* The outcome is recorded and returned.
Outcome(c) ==
  /\ call[c].pc \in {"ok", "failed"}
  /\ claim' = [claim EXCEPT ![call[c].agr] = call[c].pc]
  /\ IF call[c].pc = "ok" THEN Goto(c, "mark") ELSE Throw(c, "PAYMENT_FAILED")
  /\ UNCHANGED <<rec, budget, outside>>

Paid(c) ==
  /\ call[c].pc = "mark"
  /\ Cas(c, [rec EXCEPT !.status = "PAID", !.keys = @ \cup {<<"payment", call[c].agr>>}],
         ToResource(call[c]))
  /\ UNCHANGED <<claim, budget, outside>>

\* Where a call goes that has its session.
Return(c) == IF budget[c] = "held" THEN "commit" ELSE "session"

\* What recover() may say of a resource; an adapter without it is trusted to have
\* the resource still.
Answers(r) ==
  {"UNKNOWN", "ACTIVE"} \cup (IF res[r].state = "running" THEN {} ELSE {"COMPLETED", "MISSING"})

recover(c) ==
  /\ call[c].pc = "recover"
  /\ \E answer \in Answers(call[c].handle) :
       CASE answer = "ACTIVE" -> Goto(c, Return(c))
         [] answer = "COMPLETED" ->
              call' = [call EXCEPT ![c].handle = NoResource, ![c].pc = Return(c)]
         [] answer = "MISSING" ->
              call' = [call EXCEPT ![c].handle = NoResource, ![c].pc = "starting"]
         [] answer = "UNKNOWN" -> Throw(c, "RESOURCE_STATE_UNKNOWN")
  /\ UNCHANGED <<durable, outside>>

Starting(c) == Mark(c, "starting", "STARTING_RESOURCE", "start")

\* adapter.start runs the resource or throws.
start(c) ==
  /\ call[c].pc = "start"
  /\ \/ /\ res' = [res EXCEPT ![c] = [state |-> "running", agr |-> call[c].agr]]
        /\ Goto(c, "active")
     \/ UNCHANGED res /\ Throw(c, "START_FAILED")
  /\ UNCHANGED <<durable, paid, crashes>>

Active(c) ==
  /\ call[c].pc = "active"
  /\ Cas(c, [rec EXCEPT !.status = "ACTIVE", !.ref = c,
                        !.keys = @ \cup {<<"resource-start", call[c].agr>>}],
         [call[c] EXCEPT !.handle = c, !.pc = Return(c)])
  /\ UNCHANGED <<claim, budget, outside>>

\* The governed runtime settles the reservation.
Settle(c) ==
  /\ call[c].pc \in {"commit", "abort"}
  /\ budget' = [budget EXCEPT ![c] = IF call[c].pc = "commit" THEN "committed" ELSE "released"]
  /\ Goto(c, IF call[c].pc = "commit" THEN "session" ELSE "end")
  /\ UNCHANGED <<rec, claim, outside>>

------------------------------------------------------------------------------
(* Sessions. *)

Ended(r) == res' = [res EXCEPT ![r].state = IF @ = "running" THEN "over" ELSE @]

\* close(): the record is read; a settled purchase is not closed again.
close(c) ==
  /\ call[c].pc = "session"
  /\ IF call[c].handle = NoResource
     THEN Goto(c, "end")
     ELSE Read(c, CASE ~Issued("settlement", call[c].agr) -> "close"
                    [] Issued("settlement", call[c].agr) /\ ~Issued("receipt", call[c].agr) -> "receipt"
                    [] OTHER -> "session")
  /\ UNCHANGED <<durable, outside>>

\* The adapter need not have close(), and close() may throw.
closeAdapter(c) ==
  /\ call[c].pc = "close"
  /\ Ended(call[c].handle) \/ UNCHANGED res
  /\ \E pc \in {"settling", "session"} : Goto(c, pc)
  /\ UNCHANGED <<durable, paid, crashes>>

\* A write of close() that lost throws to its caller, who may close again.
Conclude(c, from, status, key, new) ==
  /\ call[c].pc = from
  /\ IF Unmoved(c)
     THEN Write(c, [rec EXCEPT !.status = status, !.keys = @ \cup {<<key, call[c].agr>>}], new)
     ELSE UNCHANGED rec /\ Goto(c, "session")
  /\ UNCHANGED <<claim, budget, outside>>

Settling(c) ==
  Conclude(c, "settling", "SETTLING", "settlement",
           IF Issued("receipt", call[c].agr) THEN Over ELSE [call[c] EXCEPT !.pc = "receipt"])
Receipt(c) == Conclude(c, "receipt", "COMPLETED", "receipt", Over)

\* recoverPurchases at a restart, for a purchase that was starting or active: a
\* session on the resource the record names, whose close writes no record.
recoverResource(c) ==
  /\ call[c].pc = "new" /\ rec.status \in {"ACTIVE", "STARTING_RESOURCE"}
  /\ rec.agr # NoAgreement /\ rec.ref # NoResource
  /\ \/ call' = [call EXCEPT ![c].handle = rec.ref, ![c].agr = rec.agr, ![c].pc = "recovered"]
     \/ Goto(c, "end")
  /\ UNCHANGED <<durable, outside>>

closeRecovered(c) ==
  /\ call[c].pc = "recovered"
  /\ Ended(call[c].handle) \/ UNCHANGED res
  /\ Goto(c, "end")
  /\ UNCHANGED <<durable, paid, crashes>>

------------------------------------------------------------------------------
(* Environment. *)

\* A resource runs to its end.
Finish(r) ==
  /\ res[r].state = "running" /\ Ended(r)
  /\ UNCHANGED <<durable, call, paid, crashes>>

\* The process dies, with every call that was made.
Crash ==
  /\ crashes < MaxCrashes /\ crashes' = crashes + 1
  /\ call' = [c \in Calls |-> IF call[c].pc = "new" THEN call[c] ELSE Over]
  /\ UNCHANGED <<durable, paid, res>>

Step(c) ==
  \/ prepareBuy(c) \/ Create(c) \/ Discover(c) \/ negotiateWith(c) \/ Agree(c) \/ Refuse(c)
  \/ Reserve(c) \/ Barrier(c) \/ Authorizing(c) \/ approve(c)
  \/ Paying(c) \/ pay(c) \/ Port(c) \/ Outcome(c) \/ Paid(c)
  \/ recover(c) \/ Starting(c) \/ start(c) \/ Active(c) \/ Settle(c)
  \/ close(c) \/ closeAdapter(c) \/ Settling(c) \/ Receipt(c)
  \/ recoverResource(c) \/ closeRecovered(c)

Next ==
  \/ \E c \in Calls : Step(c) \/ Finish(c)
  \/ Crash

Spec == Init /\ [][Next]_vars

------------------------------------------------------------------------------
(* Correctness. *)

\* Every variable has its type.
TypeOK ==
  /\ rec \in Records
  /\ claim \in [Agreements -> {"none", "pending", "ok", "failed"}]
  /\ budget \in [Calls -> {"none", "held", "committed", "released"}]
  /\ call \in [Calls -> CallStates]
  /\ paid \in [Agreements -> SUBSET Calls]
  /\ res \in [Calls -> [state : {"none", "running", "over"},
                        agr : Agreements \cup {NoAgreement}]]
  /\ crashes \in 0 .. MaxCrashes

\* Money moves once for an agreement, whatever calls run at one time, fail, are
\* retried or die between the payment and the record of it (the claims of
\* createPurchasePaymentAdapter and the payment key of executeAgreement).
PaidOnce ==
  \A a \in Agreements : Cardinality(paid[a]) <= 1

\* No resource is started for an agreement that was not paid: the key that lets a
\* later call skip the payment is on the record only once money moved
\* (executeAgreement).
StartedPaid ==
  \A c \in Calls : res[c].state # "none" => res[c].agr \in Free \/ paid[res[c].agr] # {}

Holding == {"commit", "session", "recovered"}

\* While every resource ever started for the intent is of one agreement, two callers of
\* buy() never hold two running ones: a call that overtakes another makes its last
\* write fail (casPurchase), and one that comes later is given the resource the record
\* names (recover).  The record names one resource only: with calls on standing terms
\* and negotiated calls mixed two may run, and nothing is said of that case.
OneLiveSession ==
  \A c, d \in Calls :
    LET h == call[c].handle
        g == call[d].handle
    IN /\ call[c].pc \in Holding /\ call[d].pc \in Holding
       /\ h # NoResource /\ g # NoResource
       /\ res[h].state = "running" /\ res[g].state = "running"
       /\ \A e \in Calls : res[e].agr \in {NoAgreement, res[h].agr}
       => h = g

\* "pre-payment failures provably did not spend; anything after dispatch
\* (payment/resource) is ambiguous and held" (classifyFailure of purchase:buy): a
\* call that moved money does not get its budget back.
SpentNotReleased ==
  \A c \in Governed, a \in Agreements : c \in paid[a] => budget[c] # "released"

------------------------------------------------------------------------------
(* The inductive invariant behind PaidOnce and StartedPaid. *)

\* A call without an agreement yet, or any more.
Early == {"new", "create", "lookup", "negotiating", "agree", "abort", "end"}
AgreementKnown == \A c \in Calls : call[c].pc \in Early \/ call[c].agr \in Agreements

OneHolder == \A c, d \in Calls : call[c].pc \in Locked /\ call[d].pc \in Locked => c = d

\* Nobody pays before there is a claim, and the call that is about to pay is the first.
ClaimFirst == \A a \in Agreements : claim[a] = "none" => paid[a] = {}
PortUnpaid ==
  \A c \in Calls : call[c].pc = "port" => paid[call[c].agr] = {} /\ claim[call[c].agr] # "none"

SinglePayer == \A a \in Agreements : \A c, d \in paid[a] : c = d

\* Key, claim and call say that money moved only when it did.
KeyPaid == \A a \in Agreements : <<"payment", a>> \in rec.keys => paid[a] # {}
ClaimPaid == \A a \in Agreements : claim[a] = "ok" => paid[a] # {}

PaidFor(a) == a \in Free \/ paid[a] # {}
Serving == {"recover", "starting", "start", "active"}
CallPaid ==
  \A c \in Calls :
    /\ call[c].pc \in {"ok", "mark"} => paid[call[c].agr] # {}
    /\ call[c].pc \in Serving => PaidFor(call[c].agr)

Started == \A c \in Calls : res[c].state # "none" => res[c].agr \in Agreements

Inv ==
  /\ TypeOK /\ AgreementKnown /\ OneHolder /\ ClaimFirst /\ PortUnpaid /\ SinglePayer
  /\ KeyPaid /\ ClaimPaid /\ CallPaid /\ Started /\ StartedPaid

------------------------------------------------------------------------------
(* The inductive invariant behind OneLiveSession, of the record r and the     *)
(* resources v.                                                               *)

\* Places a call passes before it starts a resource; it does not come back to them.
BeforeStart == Pcs \ {"active", "commit", "abort", "session", "close", "settling", "receipt",
                      "recovered", "end"}
Restarting == {"starting", "start", "active"}

\* Every resource that was ever started is of the agreement a.
OnlyFor(v, a) == \A c \in Calls : v[c].agr \in {NoAgreement, a}

\* The record names a resource that was started, beside the key of its start.
RefKeyed(r, v) ==
  r.ref # NoResource =>
    v[r.ref].state # "none" /\ <<"resource-start", v[r.ref].agr>> \in r.keys

\* A call whose copy of the record is current starts a resource only when the one the
\* record names does not run, and a running resource in hand is the one it names.
SessionSound(c, q, r, v) ==
  /\ v[c].state = "none" => v[c].agr = NoAgreement
  /\ q.pc \in BeforeStart => v[c].state = "none"
  /\ q.pc = "active" => v[c].state # "none" /\ v[c].agr = q.agr
  /\ q.handle # NoResource => v[q.handle].state # "none"
  /\ q.pc = "recover" /\ q.fresh => q.handle = r.ref
  /\ q.pc \in Restarting /\ q.fresh /\ r.ref # NoResource /\ v[r.ref].agr = q.agr =>
       v[r.ref].state # "running"
  /\ q.handle # NoResource /\ v[q.handle].state = "running" /\ OnlyFor(v, v[q.handle].agr) =>
       r.ref = q.handle

SessionInv == RefKeyed(rec, res) /\ \A c \in Calls : SessionSound(c, call[c], rec, res)
==============================================================================
