--------------------------- MODULE PurchaseProofs ---------------------------
(****************************************************************************)
(* Proofs about Purchase, for every set of calls, of governed calls and of  *)
(* agreements without a price, and any number of crashes.                   *)
(*                                                                          *)
(* Most steps of a call move the record and the call alone.  They keep the  *)
(* invariant when the call's new state fits what was paid so far (Fits) and *)
(* the record gets no payment key that was not paid: Quiet_Inv.  The steps  *)
(* on the claim, the payment and the resources are taken one by one.        *)
(****************************************************************************)
EXTENDS Purchase, FiniteSetTheorems, TLAPS

Kept(c) ==
  \A d \in Calls \ {c} : call'[d].pc = call[d].pc /\ call'[d].agr = call[d].agr

\* A state of a call that holds what the invariant asks of it.
Fits(q) ==
  /\ q \in CallStates /\ q.pc \notin Locked
  /\ q.pc \in Early \/ q.agr \in Agreements
  /\ q.pc = "mark" => paid[q.agr] # {}
  /\ q.pc \in Serving => PaidFor(q.agr)

\* A record without an unpaid payment key.
Backed(r) ==
  r \in Records /\ \A a \in Agreements : <<"payment", a>> \in r.keys => paid[a] # {}

Moves(c) == call' \in [Calls -> CallStates] /\ Kept(c)

Quiet(c) == Backed(rec') /\ Moves(c) /\ Fits(call'[c])

------------------------------------------------------------------------------
(* What the helpers do. *)

\* A call that is over asks for nothing.
LEMMA OverFits ==
  Fits(Over) /\ Over.pc = "end"
  BY DEF Fits, Over, Unmade, CallStates, Pcs, Locked, Early, Serving

\* The stored record has no unpaid payment key.
LEMMA RecBacked ==
  ASSUME Inv
  PROVE  Backed(rec)
  BY DEF Inv, TypeOK, KeyPaid, Backed

\* Goto moves one call and touches no other.
LEMMA GotoMoves ==
  ASSUME Inv, NEW c \in Calls, NEW pc \in Pcs, Goto(c, pc)
  PROVE  /\ Moves(c)
         /\ pc # "end" => call'[c] = [call[c] EXCEPT !.pc = pc]
         /\ pc = "end" => call'[c] = Over
         /\ \A d \in Calls \ {c} : call'[d] = call[d]
  <1>1. call \in [Calls -> CallStates] /\ call[c] \in CallStates
    BY DEF Inv, TypeOK
  <1>2. Over \in CallStates /\ [call[c] EXCEPT !.pc = pc] \in CallStates
    BY <1>1, OverFits DEF Fits, CallStates
  <1>3. /\ pc # "end" => call' = [call EXCEPT ![c] = [call[c] EXCEPT !.pc = pc]]
        /\ pc = "end" => call' = [call EXCEPT ![c] = Over]
    BY <1>1 DEF Goto
  <1> QED
    BY <1>1, <1>2, <1>3 DEF Moves, Kept

\* A Goto to a place that fits.
LEMMA GotoQuiet ==
  ASSUME Inv, NEW c \in Calls, NEW pc \in Pcs, Goto(c, pc), UNCHANGED rec,
         pc = "end" \/ Fits([call[c] EXCEPT !.pc = pc])
  PROVE  Quiet(c)
  BY GotoMoves, OverFits, RecBacked DEF Quiet

\* An error leaves the call over or at the abort of its reservation.
LEMMA ThrowMoves ==
  ASSUME Inv, NEW c \in Calls, NEW code, Throw(c, code)
  PROVE  Moves(c) /\ Fits(call'[c])
  <1>1. CASE Goto(c, "end")
    BY <1>1, GotoMoves, OverFits DEF Pcs
  <1>2. CASE Goto(c, "abort")
    <2>1. Moves(c) /\ call'[c] = [call[c] EXCEPT !.pc = "abort"]
      BY <1>2, GotoMoves DEF Pcs
    <2>2. call[c] \in CallStates
      BY DEF Inv, TypeOK
    <2> QED
      BY <1>2, <2>1, <2>2 DEF Fits, CallStates, Pcs, Locked, Early, Serving
  <1> QED
    BY <1>1, <1>2 DEF Throw

\* A write makes the other copies old and moves nothing else.
LEMMA WriteMoves ==
  ASSUME Inv, NEW c \in Calls, NEW r, NEW new \in CallStates, Write(c, r, new)
  PROVE  Moves(c) /\ call'[c] = new /\ rec' = r
  <1>1. call \in [Calls -> CallStates]
    BY DEF Inv, TypeOK
  <1>2. call' = [d \in Calls |-> IF d = c THEN new ELSE [call[d] EXCEPT !.fresh = FALSE]]
    BY DEF Write
  <1>3. ASSUME NEW d \in Calls
        PROVE  /\ [call[d] EXCEPT !.fresh = FALSE] \in CallStates
               /\ [call[d] EXCEPT !.fresh = FALSE].pc = call[d].pc
               /\ [call[d] EXCEPT !.fresh = FALSE].agr = call[d].agr
    <2>1. call[d] \in CallStates
      BY <1>1
    <2> QED
      BY <2>1 DEF CallStates
  <1>4. call' \in [Calls -> CallStates]
    BY <1>2, <1>3
  <1>5. Kept(c)
    BY <1>2, <1>3 DEF Kept
  <1> QED
    BY <1>2, <1>4, <1>5 DEF Moves, Write

\* A compare-and-set, won or lost, of a record without unpaid keys.
LEMMA CasQuiet ==
  ASSUME Inv, NEW c \in Calls, NEW r, NEW new, Cas(c, r, new), Backed(r), Fits(new)
  PROVE  Quiet(c)
  <1>1. CASE Write(c, r, new)
    BY <1>1, WriteMoves DEF Quiet, Fits
  <1>2. CASE UNCHANGED rec /\ Throw(c, "STALE_REVISION")
    BY <1>2, ThrowMoves, RecBacked DEF Quiet
  <1> QED
    BY <1>1, <1>2 DEF Cas

\* A step that only writes a status.
LEMMA MarkQuiet ==
  ASSUME Inv, NEW c \in Calls, NEW from, NEW status \in Statuses, NEW pc \in Pcs,
         Mark(c, from, status, pc), Fits([call[c] EXCEPT !.pc = pc])
  PROVE  Quiet(c)
  <1>1. Backed([rec EXCEPT !.status = status])
    BY RecBacked DEF Backed, Records
  <1> QED
    BY <1>1, CasQuiet DEF Mark

------------------------------------------------------------------------------
(* Steps of a call that leave claims, money and resources alone. *)

Budgets == [Calls -> {"none", "held", "committed", "released"}]

Resources == [Calls -> [state : {"none", "running", "over"}, agr : Agreements \cup {NoAgreement}]]

\* A quiet step keeps the invariant, whatever it does to resources that were paid for.
LEMMA Calm_Inv ==
  ASSUME Inv, NEW c \in Calls, Quiet(c), budget' \in Budgets, UNCHANGED <<claim, paid, crashes>>,
         res' \in Resources, Started', StartedPaid'
  PROVE  Inv'
  <1> USE DEF Quiet, Moves, Kept
  <1>1. TypeOK'
    BY DEF Inv, TypeOK, Budgets, Resources, Backed
  <1>2. AgreementKnown'
    BY DEF Inv, AgreementKnown, Fits
  <1>3. OneHolder'
    BY DEF Inv, OneHolder, Fits
  <1>4. ClaimFirst' /\ SinglePayer' /\ ClaimPaid'
    BY DEF Inv, ClaimFirst, SinglePayer, ClaimPaid
  <1>5. PortUnpaid'
    BY DEF Inv, PortUnpaid, Fits, Locked
  <1>6. KeyPaid'
    BY DEF Backed, KeyPaid
  <1>7. CallPaid'
    BY DEF Inv, CallPaid, PaidFor, Fits, Locked
  <1> QED
    BY <1>1, <1>2, <1>3, <1>4, <1>5, <1>6, <1>7 DEF Inv

\* A quiet step that leaves the resources alone keeps the invariant.
LEMMA Quiet_Inv ==
  ASSUME Inv, NEW c \in Calls, Quiet(c), budget' \in Budgets,
         UNCHANGED <<claim, paid, res, crashes>>
  PROVE  Inv'
  <1>1. res' \in Resources
    BY DEF Inv, TypeOK, Resources
  <1>2. Started' /\ StartedPaid'
    BY DEF Inv, Started, StartedPaid
  <1> QED
    BY <1>1, <1>2, Calm_Inv

\* The call in a place that asks for no more than its agreement.
LEMMA Steps ==
  ASSUME Inv, NEW c \in Calls, NEW pc \in Pcs \ (Locked \cup Serving \cup {"mark"}),
         pc \in Early \/ call[c].agr \in Agreements
  PROVE  Fits([call[c] EXCEPT !.pc = pc])
  <1>1. call[c] \in CallStates
    BY DEF Inv, TypeOK
  <1> QED
    BY <1>1 DEF Fits, CallStates

\* The call goes on where its agreement is paid for.
LEMMA Serves ==
  ASSUME Inv, NEW c \in Calls, NEW pc \in Serving, call[c].agr \in Agreements, PaidFor(call[c].agr)
  PROVE  Fits([call[c] EXCEPT !.pc = pc])
  <1>1. call[c] \in CallStates
    BY DEF Inv, TypeOK
  <1> QED
    BY <1>1 DEF Fits, CallStates, Pcs, Serving, Locked

\* ToResource and ToPayment send a call to the resource only when it is paid.
LEMMA ToResourceFits ==
  ASSUME Inv, NEW new \in CallStates, new.agr \in Agreements, PaidFor(new.agr)
  PROVE  Fits(ToResource(new))
  <1>1. rec.ref \in Calls \cup {NoResource}
    BY DEF Inv, TypeOK, Records
  <1>2. CASE ToResource(new) = [new EXCEPT !.pc = "recover", !.handle = rec.ref]
    BY <1>1, <1>2 DEF Fits, CallStates, Pcs, Serving, Locked
  <1>3. CASE ToResource(new) = [new EXCEPT !.pc = "starting"]
    BY <1>3 DEF Fits, CallStates, Pcs, Serving, Locked
  <1> QED
    BY <1>2, <1>3 DEF ToResource

\* A call that skips the payment finds its agreement free or its key on the record.
LEMMA ToPaymentFits ==
  ASSUME Inv, NEW new \in CallStates, new.agr \in Agreements
  PROVE  Fits(ToPayment(new))
  <1>1. CASE PaymentDone(new.agr)
    <2>1. PaidFor(new.agr)
      BY <1>1 DEF Inv, KeyPaid, PaymentDone, Issued, PaidFor
    <2> QED
      BY <1>1, <2>1, ToResourceFits DEF ToPayment
  <1>2. CASE ~PaymentDone(new.agr)
    BY <1>2 DEF ToPayment, Fits, CallStates, Pcs, Serving, Locked
  <1> QED
    BY <1>1, <1>2

\* Reading the record changes nothing but fresh and pc.
LEMMA ReadQuiet ==
  ASSUME Inv, NEW c \in Calls, NEW pc \in Pcs, Read(c, pc), UNCHANGED rec,
         Fits([call[c] EXCEPT !.pc = pc])
  PROVE  Quiet(c)
  <1>1. call \in [Calls -> CallStates] /\ call[c] \in CallStates
    BY DEF Inv, TypeOK
  <1> DEFINE new == [call[c] EXCEPT !.fresh = TRUE, !.pc = pc]
  <1>2. call' = [call EXCEPT ![c] = new]
    BY <1>1 DEF Read, CallStates
  <1>3. new \in CallStates /\ new.pc = pc /\ new.agr = call[c].agr
    BY <1>1 DEF CallStates
  <1>4. [call[c] EXCEPT !.pc = pc].pc = pc /\ [call[c] EXCEPT !.pc = pc].agr = call[c].agr
    BY <1>1 DEF CallStates
  <1>5. Fits(new)
    BY <1>3, <1>4 DEF Fits
  <1> HIDE DEF new
  <1>6. Moves(c) /\ call'[c] = new
    BY <1>1, <1>2, <1>3 DEF Moves, Kept
  <1> QED
    BY <1>5, <1>6, RecBacked DEF Quiet

------------------------------------------------------------------------------
(* The steps of a call. *)

\* The status of a record can be changed.
LEMMA StatusBacked ==
  ASSUME Inv, NEW status \in Statuses
  PROVE  Backed([rec EXCEPT !.status = status])
  BY RecBacked DEF Backed, Records

\* Reservations that are left alone keep their type.
LEMMA Settled ==
  ASSUME Inv, UNCHANGED budget
  PROVE  budget' \in Budgets
  BY DEF Inv, TypeOK, Budgets

\* A call past its preparation has its agreement.
LEMMA Agreed ==
  ASSUME Inv, NEW c \in Calls, call[c].pc \notin Early
  PROVE  call[c].agr \in Agreements
  BY DEF Inv, AgreementKnown

\* prepareBuy keeps the invariant.
LEMMA Step_prepareBuy ==
  ASSUME Inv, NEW c \in Calls, prepareBuy(c)
  PROVE  Inv'
  <1>1. PICK pc \in {"create", "lookup"} : Read(c, pc)
    BY DEF prepareBuy
  <1>2. Fits([call[c] EXCEPT !.pc = pc]) /\ pc \in Pcs
    BY Steps DEF Pcs, Locked, Serving, Early
  <1>3. Quiet(c)
    BY <1>1, <1>2, ReadQuiet DEF prepareBuy, durable
  <1> QED
    BY <1>3, Quiet_Inv, Settled DEF prepareBuy, durable, outside

\* Create keeps the invariant.
LEMMA Step_Create ==
  ASSUME Inv, NEW c \in Calls, Create(c)
  PROVE  Inv'
  <1>0. SUFFICES Quiet(c)
    BY Quiet_Inv, Settled DEF Create, outside
  <1>1. Fits([call[c] EXCEPT !.pc = "lookup"]) /\ Backed([rec EXCEPT !.status = "REQUESTED"])
    BY Steps, StatusBacked DEF Pcs, Locked, Serving, Early, Statuses
  <1>2. CASE Write(c, [rec EXCEPT !.status = "REQUESTED"], [call[c] EXCEPT !.pc = "lookup"])
    BY <1>1, <1>2, WriteMoves DEF Quiet, Fits
  <1>3. CASE UNCHANGED rec /\ Goto(c, "end")
    BY <1>3, GotoQuiet DEF Pcs
  <1> QED
    BY <1>2, <1>3 DEF Create

\* Discover keeps the invariant.
LEMMA Step_Discover ==
  ASSUME Inv, NEW c \in Calls, Discover(c)
  PROVE  Inv'
  <1> DEFINE direct == [call[c] EXCEPT !.agr = Direct, !.pc = Prepared(c)]
             later == [call[c] EXCEPT !.pc = "negotiating"]
  <1>1. Backed([rec EXCEPT !.status = "DISCOVERING"])
    BY StatusBacked DEF Statuses
  <1>2. Fits(later)
    BY Steps DEF Pcs, Locked, Serving, Early
  <1>3. Fits(direct)
    <2>1. /\ call[c] \in CallStates /\ Direct \in Agreements
          /\ Prepared(c) \in {"authorize", "barrier"}
      BY DEF Inv, TypeOK, Agreements, Prepared
    <2> QED
      BY <2>1 DEF Fits, CallStates, Pcs, Locked, Serving
  <1>4. PICK new \in {direct, later} : Cas(c, [rec EXCEPT !.status = "DISCOVERING"], new)
    BY DEF Discover
  <1>5. Fits(new)
    BY <1>2, <1>3
  <1>6. Quiet(c)
    BY <1>1, <1>4, <1>5, CasQuiet
  <1> QED
    BY <1>6, Quiet_Inv, Settled DEF Discover, outside

\* negotiateWith keeps the invariant.
LEMMA Step_negotiateWith ==
  ASSUME Inv, NEW c \in Calls, negotiateWith(c)
  PROVE  Inv'
  <1>1. Fits([call[c] EXCEPT !.pc = "agree"])
    BY Steps DEF Pcs, Locked, Serving, Early
  <1>2. Quiet(c)
    BY <1>1, MarkQuiet DEF negotiateWith, Statuses, Pcs
  <1> QED
    BY <1>2, Quiet_Inv, Settled DEF negotiateWith, Mark, outside

\* Agree keeps the invariant.
LEMMA Step_Agree ==
  ASSUME Inv, NEW c \in Calls, Agree(c)
  PROVE  Inv'
  <1> DEFINE new == [call[c] EXCEPT !.agr = c, !.pc = Prepared(c)]
  <1>1. call \in [Calls -> CallStates] /\ call[c] \in CallStates
    BY DEF Inv, TypeOK
  <1>2. c \in Agreements /\ Prepared(c) \in {"authorize", "barrier"}
    BY DEF Agreements, Prepared
  <1>3. call' = [call EXCEPT ![c] = new]
    BY <1>1 DEF Agree, CallStates
  <1>4. Fits(new)
    BY <1>1, <1>2 DEF Fits, CallStates, Pcs, Locked, Serving
  <1> HIDE DEF new
  <1>5. Moves(c) /\ call'[c] = new
    BY <1>1, <1>3, <1>4 DEF Moves, Kept, Fits
  <1>6. Quiet(c)
    BY <1>4, <1>5, RecBacked DEF Quiet, Agree, durable
  <1> QED
    BY <1>6, Quiet_Inv, Settled DEF Agree, durable, outside

\* Refuse keeps the invariant.
LEMMA Step_Refuse ==
  ASSUME Inv, NEW c \in Calls, Refuse(c)
  PROVE  Inv'
  <1>1. Quiet(c)
    BY GotoQuiet DEF Refuse, durable, Pcs
  <1> QED
    BY <1>1, Quiet_Inv, Settled DEF Refuse, durable, outside

\* Reserve keeps the invariant.
LEMMA Step_Reserve ==
  ASSUME Inv, NEW c \in Calls, Reserve(c)
  PROVE  Inv'
  <1>1. call[c].agr \in Agreements
    BY Agreed DEF Reserve, Early
  <1>2. Fits([call[c] EXCEPT !.pc = "barrier"])
    BY <1>1, Steps DEF Pcs, Locked, Serving, Early
  <1>3. Quiet(c)
    BY <1>2, GotoQuiet DEF Reserve, Pcs
  <1>4. budget' \in Budgets
    BY DEF Reserve, Inv, TypeOK, Budgets
  <1> QED
    BY <1>3, <1>4, Quiet_Inv DEF Reserve, outside

\* Barrier keeps the invariant.
LEMMA Step_Barrier ==
  ASSUME Inv, NEW c \in Calls, Barrier(c)
  PROVE  Inv'
  <1>0. SUFFICES Quiet(c)
    BY Quiet_Inv, Settled DEF Barrier, durable, outside
  <1> DEFINE new == [call[c] EXCEPT !.fresh = TRUE, !.pc = "authorizing"]
             next == IF c \in Governed THEN ToPayment(new) ELSE new
  <1>1. call \in [Calls -> CallStates] /\ call[c] \in CallStates /\ call[c].agr \in Agreements
    BY Agreed DEF Inv, TypeOK, Barrier, Early
  <1>2. new \in CallStates /\ new.pc = "authorizing" /\ new.agr = call[c].agr
    BY <1>1 DEF CallStates, Pcs
  <1>3. Fits(new)
    BY <1>1, <1>2 DEF Fits, Locked, Serving
  <1>4. Fits(next)
    BY <1>1, <1>2, <1>3, ToPaymentFits
  <1>5. CASE call' = [call EXCEPT ![c] = next]
    <2> HIDE DEF next
    <2>1. Moves(c) /\ call'[c] = next
      BY <1>1, <1>4, <1>5 DEF Moves, Kept, Fits
    <2> QED
      BY <1>4, <2>1, RecBacked DEF Quiet, Barrier, durable
  <1>6. CASE \E code \in revalidateBeforeCommit : Throw(c, code)
    BY <1>6, ThrowMoves, RecBacked DEF Quiet, Barrier, durable
  <1> QED
    BY <1>5, <1>6 DEF Barrier

\* Authorizing keeps the invariant.
LEMMA Step_Authorizing ==
  ASSUME Inv, NEW c \in Calls, Authorizing(c)
  PROVE  Inv'
  <1>1. call[c].agr \in Agreements
    BY Agreed DEF Authorizing, Early
  <1>2. Fits([call[c] EXCEPT !.pc = "approve"])
    BY <1>1, Steps DEF Pcs, Locked, Serving, Early
  <1>3. Backed([rec EXCEPT !.status = "AUTHORIZING", !.agr = call[c].agr])
    BY <1>1, RecBacked DEF Backed, Records, Statuses
  <1>4. Quiet(c)
    BY <1>2, <1>3, CasQuiet DEF Authorizing
  <1> QED
    BY <1>4, Quiet_Inv, Settled DEF Authorizing, outside

\* approve keeps the invariant.
LEMMA Step_approve ==
  ASSUME Inv, NEW c \in Calls, approve(c)
  PROVE  Inv'
  <1>0. SUFFICES Quiet(c)
    BY Quiet_Inv, Settled DEF approve, outside
  <1>1. call[c].agr \in Agreements /\ call[c] \in CallStates
    BY Agreed DEF approve, Early, Inv, TypeOK
  <1>2. Fits(ToPayment(call[c])) /\ Backed([rec EXCEPT !.status = "AUTHORIZED"])
    BY <1>1, ToPaymentFits, StatusBacked DEF Statuses
  <1>3. CASE Cas(c, [rec EXCEPT !.status = "AUTHORIZED"], ToPayment(call[c]))
    BY <1>2, <1>3, CasQuiet
  <1>4. CASE UNCHANGED rec /\ Throw(c, "AUTHORITY_DENIED")
    BY <1>4, ThrowMoves, RecBacked DEF Quiet
  <1> QED
    BY <1>3, <1>4 DEF approve

\* Paying keeps the invariant.
LEMMA Step_Paying ==
  ASSUME Inv, NEW c \in Calls, Paying(c)
  PROVE  Inv'
  <1>0. call[c].agr \in Agreements
    BY Agreed DEF Paying, Mark, Early
  <1>1. Fits([call[c] EXCEPT !.pc = "pay"])
    BY <1>0, Steps DEF Pcs, Locked, Serving, Early
  <1>2. Quiet(c)
    BY <1>1, MarkQuiet DEF Paying, Statuses, Pcs
  <1> QED
    BY <1>2, Quiet_Inv, Settled DEF Paying, Mark, outside

\* Paid keeps the invariant.
LEMMA Step_Paid ==
  ASSUME Inv, NEW c \in Calls, Paid(c)
  PROVE  Inv'
  <1>1. call[c].agr \in Agreements /\ call[c] \in CallStates
    BY Agreed DEF Paid, Early, Inv, TypeOK
  <1>2. paid[call[c].agr] # {}
    BY DEF Paid, Inv, CallPaid
  <1> DEFINE r == [rec EXCEPT !.status = "PAID", !.keys = @ \cup {<<"payment", call[c].agr>>}]
  <1>3. Backed(r)
    <2>1. rec \in Records /\ <<"payment", call[c].agr>> \in Keys
      BY <1>1 DEF Inv, TypeOK, Keys
    <2>2. r \in Records /\ r.keys = rec.keys \cup {<<"payment", call[c].agr>>}
      BY <2>1 DEF Records, Statuses
    <2>3. ASSUME NEW a \in Agreements, <<"payment", a>> \in r.keys
          PROVE  paid[a] # {}
      <3>1. <<"payment", a>> \in rec.keys \/ a = call[c].agr
        BY <2>2, <2>3
      <3> QED
        BY <1>2, <3>1, RecBacked, <2>3 DEF Backed
    <2> QED
      BY <2>2, <2>3 DEF Backed
  <1>4. Fits(ToResource(call[c]))
    BY <1>1, <1>2, ToResourceFits DEF PaidFor
  <1>5. Cas(c, r, ToResource(call[c]))
    BY DEF Paid
  <1> HIDE DEF r
  <1>6. Quiet(c)
    BY <1>3, <1>4, <1>5, CasQuiet
  <1> QED
    BY <1>6, Quiet_Inv, Settled DEF Paid, outside

\* recover keeps the invariant.
LEMMA Step_recover ==
  ASSUME Inv, NEW c \in Calls, recover(c)
  PROVE  Inv'
  <1>0. SUFFICES Quiet(c)
    BY Quiet_Inv, Settled DEF recover, durable, outside
  <1>1. /\ call \in [Calls -> CallStates] /\ call[c] \in CallStates
        /\ call[c].agr \in Agreements /\ PaidFor(call[c].agr)
    BY Agreed DEF recover, Early, Inv, TypeOK, CallPaid, Serving
  <1>2. Return(c) \in {"commit", "session"}
    BY DEF Return
  <1> DEFINE over == [call[c] EXCEPT !.handle = NoResource, !.pc = Return(c)]
             again == [call[c] EXCEPT !.handle = NoResource, !.pc = "starting"]
  <1>3. Fits(over) /\ Fits(again)
    BY <1>1, <1>2 DEF Fits, CallStates, Pcs, Locked, Serving
  <1>4. Fits([call[c] EXCEPT !.pc = Return(c)]) /\ Return(c) \in Pcs
    BY <1>1, <1>2, Steps DEF Pcs, Locked, Serving, Early
  <1>5. \/ Goto(c, Return(c)) \/ Throw(c, "RESOURCE_STATE_UNKNOWN")
        \/ call' = [call EXCEPT ![c] = over] \/ call' = [call EXCEPT ![c] = again]
    <2>1. PICK answer \in {"UNKNOWN", "ACTIVE", "COMPLETED", "MISSING"} :
            CASE answer = "ACTIVE" -> Goto(c, Return(c))
              [] answer = "COMPLETED" ->
                   call' = [call EXCEPT ![c].handle = NoResource, ![c].pc = Return(c)]
              [] answer = "MISSING" ->
                   call' = [call EXCEPT ![c].handle = NoResource, ![c].pc = "starting"]
              [] answer = "UNKNOWN" -> Throw(c, "RESOURCE_STATE_UNKNOWN")
      BY DEF recover, Answers
    <2>2. CASE answer = "ACTIVE"
      BY <2>1, <2>2
    <2>3. CASE answer = "COMPLETED"
      <3>1. call' = [call EXCEPT ![c].handle = NoResource, ![c].pc = Return(c)]
        BY <2>1, <2>3
      <3> QED
        BY <3>1, <1>1 DEF CallStates
    <2>4. CASE answer = "MISSING"
      <3>1. call' = [call EXCEPT ![c].handle = NoResource, ![c].pc = "starting"]
        BY <2>1, <2>4
      <3> QED
        BY <3>1, <1>1 DEF CallStates
    <2>5. CASE answer = "UNKNOWN"
      BY <2>1, <2>5
    <2> QED
      BY <2>2, <2>3, <2>4, <2>5
  <1>6. UNCHANGED rec
    BY DEF recover, durable
  <1>7. CASE Goto(c, Return(c))
    BY <1>4, <1>6, <1>7, GotoQuiet
  <1>8. CASE Throw(c, "RESOURCE_STATE_UNKNOWN")
    BY <1>6, <1>8, ThrowMoves, RecBacked DEF Quiet
  <1>9. ASSUME NEW new, Fits(new), call' = [call EXCEPT ![c] = new]
        PROVE  Quiet(c)
    BY <1>1, <1>6, <1>9, RecBacked DEF Quiet, Moves, Kept, Fits
  <1> QED
    BY <1>3, <1>5, <1>7, <1>8, <1>9

\* Starting keeps the invariant.
LEMMA Step_Starting ==
  ASSUME Inv, NEW c \in Calls, Starting(c)
  PROVE  Inv'
  <1>1. call[c].agr \in Agreements /\ PaidFor(call[c].agr)
    BY Agreed DEF Starting, Mark, Early, Inv, CallPaid, Serving
  <1>2. Fits([call[c] EXCEPT !.pc = "start"])
    BY <1>1, Serves DEF Serving
  <1>3. Quiet(c)
    BY <1>2, MarkQuiet DEF Starting, Statuses, Pcs
  <1> QED
    BY <1>3, Quiet_Inv, Settled DEF Starting, Mark, outside

\* A key other than the payment's can be added to a record.
LEMMA KeyBacked ==
  ASSUME Inv, NEW r, Backed(r), NEW key \in {"resource-start", "settlement", "receipt"},
         NEW a \in Agreements, NEW status \in Statuses
  PROVE  Backed([r EXCEPT !.status = status, !.keys = @ \cup {<<key, a>>}])
  <1> DEFINE s == [r EXCEPT !.status = status, !.keys = @ \cup {<<key, a>>}]
  <1>1. r \in Records /\ <<key, a>> \in Keys
    BY DEF Backed, Keys
  <1>2. s \in Records /\ s.keys = r.keys \cup {<<key, a>>}
    BY <1>1 DEF Records
  <1>3. \A b \in Agreements : <<"payment", b>> \in s.keys => <<"payment", b>> \in r.keys
    BY <1>2
  <1> QED
    BY <1>2, <1>3 DEF Backed

\* Active keeps the invariant.
LEMMA Step_Active ==
  ASSUME Inv, NEW c \in Calls, Active(c)
  PROVE  Inv'
  <1>1. call[c].agr \in Agreements /\ call[c] \in CallStates
    BY Agreed DEF Active, Early, Inv, TypeOK
  <1> DEFINE r == [rec EXCEPT !.status = "ACTIVE", !.ref = c,
                              !.keys = @ \cup {<<"resource-start", call[c].agr>>}]
             s == [rec EXCEPT !.ref = c]
             new == [call[c] EXCEPT !.handle = c, !.pc = Return(c)]
  <1>2. Backed(r)
    <2>1. rec \in Records
      BY DEF Inv, TypeOK
    <2>2. Backed(s)
      BY <2>1, RecBacked DEF Backed, Records
    <2>3. r = [s EXCEPT !.status = "ACTIVE", !.keys = @ \cup {<<"resource-start", call[c].agr>>}]
      BY <2>1 DEF Records
    <2> QED
      BY <1>1, <2>2, <2>3, KeyBacked DEF Statuses
  <1>3. Fits(new)
    BY <1>1 DEF Return, Fits, CallStates, Pcs, Locked, Serving
  <1>4. Cas(c, r, new)
    BY DEF Active
  <1> HIDE DEF r, new
  <1>5. Quiet(c)
    BY <1>2, <1>3, <1>4, CasQuiet
  <1> QED
    BY <1>5, Quiet_Inv, Settled DEF Active, outside

\* Settle keeps the invariant.
LEMMA Step_Settle ==
  ASSUME Inv, NEW c \in Calls, Settle(c)
  PROVE  Inv'
  <1>1. budget' \in Budgets
    BY DEF Settle, Inv, TypeOK, Budgets
  <1>2. SUFFICES Quiet(c)
    BY <1>1, Quiet_Inv DEF Settle, outside
  <1>3. CASE call[c].pc = "commit"
    <2>1. call[c].agr \in Agreements
      BY <1>3, Agreed DEF Early
    <2>2. Fits([call[c] EXCEPT !.pc = "session"])
      BY <2>1, Steps DEF Pcs, Locked, Serving, Early
    <2> QED
      BY <1>3, <2>2, GotoQuiet DEF Settle, Pcs
  <1>4. CASE call[c].pc = "abort"
    BY <1>4, GotoQuiet DEF Settle, Pcs
  <1> QED
    BY <1>3, <1>4 DEF Settle

\* close keeps the invariant.
LEMMA Step_close ==
  ASSUME Inv, NEW c \in Calls, close(c)
  PROVE  Inv'
  <1>0. SUFFICES Quiet(c)
    BY Quiet_Inv, Settled DEF close, durable, outside
  <1>1. call[c].agr \in Agreements
    BY Agreed DEF close, Early
  <1>2. CASE Goto(c, "end")
    BY <1>2, GotoQuiet DEF close, durable, Pcs
  <1>3. ASSUME NEW pc \in {"close", "receipt", "session"}, Read(c, pc)
        PROVE  Quiet(c)
    <2>1. Fits([call[c] EXCEPT !.pc = pc]) /\ pc \in Pcs
      BY <1>1, Steps DEF Pcs, Locked, Serving, Early
    <2> QED
      BY <1>3, <2>1, ReadQuiet DEF close, durable
  <1> QED
    BY <1>2, <1>3 DEF close

\* A write of close(), won or lost.
LEMMA ConcludeQuiet ==
  ASSUME Inv, NEW c \in Calls, NEW from \in Pcs \ Early, NEW status \in Statuses,
         NEW key \in {"settlement", "receipt"}, NEW new, Fits(new),
         Conclude(c, from, status, key, new)
  PROVE  Quiet(c)
  <1>1. call[c].agr \in Agreements
    BY Agreed DEF Conclude
  <1>2. Fits([call[c] EXCEPT !.pc = "session"])
    BY <1>1, Steps DEF Pcs, Locked, Serving, Early
  <1> DEFINE r == [rec EXCEPT !.status = status, !.keys = @ \cup {<<key, call[c].agr>>}]
  <1>3. Backed(r)
    BY <1>1, RecBacked, KeyBacked
  <1>4. Write(c, r, new) \/ (UNCHANGED rec /\ Goto(c, "session"))
    BY DEF Conclude
  <1> HIDE DEF r
  <1>5. CASE Write(c, r, new)
    BY <1>3, <1>5, WriteMoves DEF Quiet, Fits
  <1>6. CASE UNCHANGED rec /\ Goto(c, "session")
    BY <1>2, <1>6, GotoQuiet DEF Pcs
  <1> QED
    BY <1>4, <1>5, <1>6

\* Settling keeps the invariant.
LEMMA Step_Settling ==
  ASSUME Inv, NEW c \in Calls, Settling(c)
  PROVE  Inv'
  <1>1. call[c].agr \in Agreements
    BY Agreed DEF Settling, Conclude, Early
  <1>2. Fits(Over) /\ Fits([call[c] EXCEPT !.pc = "receipt"])
    BY <1>1, OverFits, Steps DEF Pcs, Locked, Serving, Early
  <1>3. Quiet(c)
    BY <1>2, ConcludeQuiet DEF Settling, Pcs, Early, Statuses
  <1> QED
    BY <1>3, Quiet_Inv, Settled DEF Settling, Conclude, outside

\* Receipt keeps the invariant.
LEMMA Step_Receipt ==
  ASSUME Inv, NEW c \in Calls, Receipt(c)
  PROVE  Inv'
  <1>1. Quiet(c)
    BY OverFits, ConcludeQuiet DEF Receipt, Pcs, Early, Statuses
  <1> QED
    BY <1>1, Quiet_Inv, Settled DEF Receipt, Conclude, outside

\* recoverResource keeps the invariant.
LEMMA Step_recoverResource ==
  ASSUME Inv, NEW c \in Calls, recoverResource(c)
  PROVE  Inv'
  <1>0. SUFFICES Quiet(c)
    BY Quiet_Inv, Settled DEF recoverResource, durable, outside
  <1>1. /\ call \in [Calls -> CallStates] /\ call[c] \in CallStates
        /\ rec.agr \in Agreements /\ rec.ref \in Calls
    BY DEF recoverResource, Inv, TypeOK, Records
  <1> DEFINE new == [call[c] EXCEPT !.handle = rec.ref, !.agr = rec.agr, !.pc = "recovered"]
  <1>2. Fits(new)
    BY <1>1 DEF Fits, CallStates, Pcs, Locked, Serving
  <1>3. CASE call' = [call EXCEPT ![c].handle = rec.ref, ![c].agr = rec.agr, ![c].pc = "recovered"]
    <2>1. call' = [call EXCEPT ![c] = new]
      BY <1>1, <1>3 DEF CallStates
    <2> HIDE DEF new
    <2>2. Moves(c) /\ call'[c] = new
      BY <1>1, <1>2, <2>1 DEF Moves, Kept, Fits
    <2> QED
      BY <1>2, <2>2, RecBacked DEF Quiet, recoverResource, durable
  <1>4. CASE Goto(c, "end")
    BY <1>4, GotoQuiet DEF recoverResource, durable, Pcs
  <1> QED
    BY <1>3, <1>4 DEF recoverResource

------------------------------------------------------------------------------
(* The steps on claims, money and resources. *)

\* The claim comes before the payment; a recorded outcome is replayed and a pending one is an error.
LEMMA Step_pay ==
  ASSUME Inv, NEW c \in Calls, pay(c)
  PROVE  Inv'
  <1> DEFINE a == call[c].agr
  <1>1. a \in Agreements /\ call[c] \in CallStates /\ rec' = rec /\ UNCHANGED budget
    BY Agreed DEF pay, Early, Inv, TypeOK
  <1>2. CASE Claimable(a)
    <2>1. claim' = [claim EXCEPT ![a] = "pending"] /\ Goto(c, "port")
      BY <1>2 DEF pay
    <2>2. /\ Moves(c) /\ call'[c] = [call[c] EXCEPT !.pc = "port"]
          /\ \A d \in Calls \ {c} : call'[d] = call[d] /\ call[d].pc \notin Locked
      BY <2>1, GotoMoves DEF Pcs, pay, LockFree
    <2>3. call'[c].pc = "port" /\ call'[c].agr = a
      BY <1>1, <2>2 DEF CallStates
    <2>4. UNCHANGED <<rec, budget, paid, res, crashes>>
      BY DEF pay, outside
    <2>5. claim \in [Agreements -> {"none", "pending", "ok", "failed"}] /\ paid[a] = {}
      BY <1>1, <1>2 DEF Inv, TypeOK, Claimable, ClaimFirst
    <2> HIDE DEF a
    <2>6. TypeOK'
      BY <1>1, <2>1, <2>2, <2>4, <2>5 DEF Inv, TypeOK, Moves
    <2>7. AgreementKnown' /\ OneHolder'
      BY <1>1, <2>2, <2>3 DEF Inv, AgreementKnown, OneHolder
    <2>8. ClaimFirst' /\ ClaimPaid' /\ SinglePayer' /\ KeyPaid' /\ Started' /\ StartedPaid'
      BY <1>1, <2>1, <2>4, <2>5
         DEF Inv, ClaimFirst, ClaimPaid, SinglePayer, KeyPaid, Started, StartedPaid
    <2>9. PortUnpaid'
      BY <1>1, <2>1, <2>2, <2>3, <2>4, <2>5 DEF PortUnpaid, Locked
    <2>10. CallPaid'
      BY <2>2, <2>3, <2>4 DEF Inv, CallPaid, PaidFor, Serving
    <2> QED
      BY <2>6, <2>7, <2>8, <2>9, <2>10 DEF Inv
  <1>3. CASE ~Claimable(a)
    <2>1. UNCHANGED claim /\ (Goto(c, "mark") \/ Throw(c, "PAYMENT_FAILED"))
      BY <1>3 DEF pay
    <2>2. CASE claim[a] = "ok" /\ Goto(c, "mark")
      <3>1. paid[a] # {}
        BY <1>1, <2>2 DEF Inv, ClaimPaid
      <3>2. Fits([call[c] EXCEPT !.pc = "mark"])
        BY <1>1, <3>1 DEF Fits, CallStates, Pcs, Locked, Serving
      <3>3. Quiet(c)
        BY <1>1, <2>2, <3>2, GotoQuiet DEF Pcs
      <3> QED
        BY <1>1, <2>1, <3>3, Quiet_Inv, Settled DEF pay, outside
    <2>3. CASE Throw(c, "PAYMENT_FAILED")
      <3>1. Quiet(c)
        BY <1>1, <2>3, ThrowMoves, RecBacked DEF Quiet
      <3> QED
        BY <1>1, <2>1, <3>1, Quiet_Inv, Settled DEF pay, outside
    <2> QED
      BY <1>3, <2>2, <2>3 DEF pay
  <1> QED
    BY <1>2, <1>3

\* The call that pays holds the lock and is the first of its agreement.
LEMMA Step_Port ==
  ASSUME Inv, NEW c \in Calls, Port(c)
  PROVE  Inv'
  <1> DEFINE a == call[c].agr
  <1>1. /\ a \in Agreements /\ call[c] \in CallStates /\ call[c].pc = "port"
        /\ paid[a] = {} /\ claim[a] # "none" /\ paid \in [Agreements -> SUBSET Calls]
    BY Agreed DEF Port, Early, Inv, TypeOK, PortUnpaid
  <1>2. UNCHANGED <<rec, claim, budget, res, crashes>>
    BY DEF Port, durable
  <1>3. \/ Goto(c, "ok") /\ paid' = [paid EXCEPT ![a] = @ \cup {c}]
        \/ Goto(c, "failed") /\ paid' = [paid EXCEPT ![a] = @ \cup {c}]
        \/ Goto(c, "failed") /\ paid' = paid
    BY DEF Port
  <1>4. PICK pc \in {"ok", "failed"} :
          /\ Goto(c, pc)
          /\ paid' = [paid EXCEPT ![a] = @ \cup {c}] \/ (paid' = paid /\ pc = "failed")
    <2>1. CASE Goto(c, "ok") /\ paid' = [paid EXCEPT ![a] = @ \cup {c}]
      BY <2>1
    <2>2. CASE Goto(c, "failed") /\ paid' = [paid EXCEPT ![a] = @ \cup {c}]
      BY <2>2
    <2>3. CASE Goto(c, "failed") /\ paid' = paid
      BY <2>3
    <2> QED
      BY <1>3, <2>1, <2>2, <2>3
  <1>5. /\ Moves(c) /\ call'[c] = [call[c] EXCEPT !.pc = pc]
        /\ \A d \in Calls \ {c} : call'[d] = call[d]
    <2>1. pc \in Pcs /\ pc # "end" /\ Goto(c, pc)
      BY <1>4 DEF Pcs
    <2> QED
      BY <2>1, GotoMoves
  <1>6. call'[c].pc = pc /\ call'[c].agr = a
    BY <1>1, <1>5 DEF CallStates
  <1>7. \A d \in Calls \ {c} : call[d].pc \notin Locked
    BY <1>1 DEF Inv, OneHolder, Locked
  <1> HIDE DEF a
  <1>8. /\ paid' \in [Agreements -> SUBSET Calls]
        /\ \A b \in Agreements \ {a} : paid'[b] = paid[b]
        /\ paid'[a] = {c} \/ (paid'[a] = {} /\ pc = "failed")
    BY <1>1, <1>4
  <1>9. \A b \in Agreements : paid[b] # {} => paid'[b] # {}
    BY <1>1, <1>8
  <1>10. TypeOK'
    BY <1>2, <1>5, <1>8 DEF Inv, TypeOK, Moves
  <1>11. AgreementKnown' /\ OneHolder'
    <2>1. AgreementKnown'
      BY <1>1, <1>5, <1>6 DEF Inv, AgreementKnown
    <2>2. \A d \in Calls \ {c} : call'[d].pc \notin Locked
      BY <1>5, <1>7
    <2>3. OneHolder'
      BY <2>2 DEF OneHolder
    <2> QED
      BY <2>1, <2>3
  <1>12. ClaimFirst'
    BY <1>1, <1>2, <1>8 DEF Inv, ClaimFirst
  <1>13. PortUnpaid'
    BY <1>5, <1>6, <1>7 DEF PortUnpaid, Locked
  <1>14. SinglePayer'
    BY <1>8 DEF Inv, SinglePayer
  <1>15. KeyPaid' /\ ClaimPaid'
    BY <1>2, <1>9 DEF Inv, KeyPaid, ClaimPaid
  <1>16. CallPaid'
    <2>1. ASSUME NEW d \in Calls, d # c
          PROVE  /\ call'[d].pc \in {"ok", "mark"} => paid'[call'[d].agr] # {}
                 /\ call'[d].pc \in Serving => (PaidFor(call[d].agr))'
      <3>1. call[d].pc \in {"ok", "mark"} \cup Serving => call[d].agr \in Agreements
        BY Agreed DEF Early, Serving
      <3> QED
        BY <1>5, <1>9, <2>1, <3>1 DEF Inv, CallPaid, PaidFor
    <2>2. /\ call'[c].pc \in {"ok", "mark"} => paid'[call'[c].agr] # {}
          /\ call'[c].pc \notin Serving
      BY <1>6, <1>8 DEF Serving
    <2> QED
      BY <1>5, <2>1, <2>2 DEF CallPaid, PaidFor
  <1>17. Started' /\ StartedPaid'
    <2>1. ASSUME NEW d \in Calls, res[d].state # "none"
          PROVE  res[d].agr \in Free \/ paid'[res[d].agr] # {}
      <3>1. res[d].agr \in Agreements
        BY <2>1 DEF Inv, Started
      <3>2. res[d].agr \in Free \/ paid[res[d].agr] # {}
        BY <2>1 DEF Inv, StartedPaid
      <3> QED
        BY <1>9, <3>1, <3>2
    <2> QED
      BY <1>2, <2>1 DEF Inv, Started, StartedPaid
  <1> QED
    BY <1>10, <1>11, <1>12, <1>14, <1>15, <1>16, <1>17, <1>13 DEF Inv

\* An outcome is recorded as paid only when it was.
LEMMA Step_Outcome ==
  ASSUME Inv, NEW c \in Calls, Outcome(c)
  PROVE  Inv'
  <1> DEFINE a == call[c].agr
  <1>1. /\ a \in Agreements /\ call[c] \in CallStates
        /\ claim \in [Agreements -> {"none", "pending", "ok", "failed"}]
    BY Agreed DEF Outcome, Early, Inv, TypeOK
  <1>2. UNCHANGED <<rec, budget, paid, res, crashes>>
    BY DEF Outcome, outside
  <1>3. call[c].pc = "ok" => paid[a] # {}
    BY DEF Inv, CallPaid
  <1>4. Moves(c) /\ Fits(call'[c])
    <2>1. CASE call[c].pc = "ok"
      <3>1. Goto(c, "mark")
        BY <2>1 DEF Outcome
      <3>2. Moves(c) /\ call'[c] = [call[c] EXCEPT !.pc = "mark"]
        BY <3>1, GotoMoves DEF Pcs
      <3>3. Fits([call[c] EXCEPT !.pc = "mark"])
        BY <1>1, <1>3, <2>1 DEF Fits, CallStates, Pcs, Locked, Serving
      <3> QED
        BY <3>2, <3>3
    <2>2. CASE call[c].pc = "failed"
      <3>1. Throw(c, "PAYMENT_FAILED")
        BY <2>2 DEF Outcome
      <3> QED
        BY <3>1, ThrowMoves
    <2> QED
      BY <2>1, <2>2 DEF Outcome
  <1>5. /\ claim' \in [Agreements -> {"none", "pending", "ok", "failed"}]
        /\ claim'[a] = "ok" => paid[a] # {}
        /\ claim'[a] # "none"
        /\ \A b \in Agreements \ {a} : claim'[b] = claim[b]
    <2>1. PICK pc \in {"ok", "failed"} : pc = call[c].pc /\ claim' = [claim EXCEPT ![a] = pc]
      BY DEF Outcome
    <2> QED
      BY <1>1, <1>3, <2>1
  <1> HIDE DEF a
  <1>6. TypeOK'
    BY <1>2, <1>4, <1>5 DEF Inv, TypeOK, Moves
  <1>7. AgreementKnown' /\ OneHolder'
    BY <1>4 DEF Inv, AgreementKnown, OneHolder, Moves, Kept, Fits
  <1>8. ClaimFirst' /\ ClaimPaid'
    BY <1>2, <1>5 DEF Inv, ClaimFirst, ClaimPaid
  <1>9. PortUnpaid'
    <2>1. ASSUME NEW d \in Calls, call'[d].pc = "port"
          PROVE  paid[call'[d].agr] = {} /\ claim'[call'[d].agr] # "none"
      <3>1. d # c /\ call[d].pc = "port" /\ call'[d].agr = call[d].agr
        BY <1>4, <2>1 DEF Moves, Kept, Fits, Locked
      <3>2. paid[call[d].agr] = {} /\ claim[call[d].agr] # "none" /\ call[d].agr \in Agreements
        BY <3>1, Agreed DEF Inv, PortUnpaid, Early
      <3> QED
        BY <1>5, <3>1, <3>2
    <2> QED
      BY <1>2, <2>1 DEF PortUnpaid
  <1>10. SinglePayer' /\ KeyPaid' /\ Started' /\ StartedPaid'
    BY <1>2 DEF Inv, SinglePayer, KeyPaid, Started, StartedPaid
  <1>11. CallPaid'
    BY <1>2, <1>4 DEF Inv, CallPaid, PaidFor, Moves, Kept, Fits, Locked
  <1> QED
    BY <1>6, <1>7, <1>8, <1>9, <1>10, <1>11 DEF Inv

\* A resource is started for an agreement that is paid.
LEMMA Step_start ==
  ASSUME Inv, NEW c \in Calls, start(c)
  PROVE  Inv'
  <1>1. /\ call[c].agr \in Agreements /\ PaidFor(call[c].agr)
        /\ res \in Resources /\ UNCHANGED <<rec, claim, budget, paid, crashes>>
    BY Agreed DEF start, durable, Early, Inv, TypeOK, CallPaid, Serving, Resources
  <1>2. CASE /\ res' = [res EXCEPT ![c] = [state |-> "running", agr |-> call[c].agr]]
             /\ Goto(c, "active")
    <2>1. Fits([call[c] EXCEPT !.pc = "active"])
      BY <1>1, Serves DEF Serving
    <2>2. Quiet(c)
      BY <1>1, <1>2, <2>1, GotoQuiet DEF Pcs
    <2>3. /\ res' \in Resources /\ res'[c].agr = call[c].agr
          /\ \A d \in Calls \ {c} : res'[d] = res[d]
      BY <1>1, <1>2 DEF Resources
    <2>4. Started' /\ StartedPaid'
      BY <1>1, <2>3 DEF Inv, Started, StartedPaid, PaidFor
    <2> QED
      BY <1>1, <2>2, <2>3, <2>4, Calm_Inv, Settled
  <1>3. CASE UNCHANGED res /\ Throw(c, "START_FAILED")
    <2>1. Quiet(c)
      BY <1>1, <1>3, ThrowMoves, RecBacked DEF Quiet
    <2> QED
      BY <1>1, <1>3, <2>1, Quiet_Inv, Settled
  <1> QED
    BY <1>2, <1>3 DEF start

\* A resource that ends keeps its agreement, and one that never ran does not end.
LEMMA EndedKeeps ==
  ASSUME Inv, NEW r, Ended(r) \/ UNCHANGED res, UNCHANGED paid
  PROVE  res' \in Resources /\ Started' /\ StartedPaid'
  <1>1. res \in Resources
    BY DEF Inv, TypeOK, Resources
  <1>2. ASSUME NEW c \in Calls
        PROVE  /\ res'[c] \in [state : {"none", "running", "over"},
                              agr : Agreements \cup {NoAgreement}]
               /\ res'[c].agr = res[c].agr
               /\ res'[c].state # "none" => res[c].state # "none"
    BY <1>1 DEF Ended, Resources
  <1>3. res' \in Resources
    <2>1. res' = [c \in Calls |-> res'[c]]
      BY <1>1 DEF Ended, Resources
    <2> QED
      BY <1>2, <2>1 DEF Resources
  <1> QED
    BY <1>2, <1>3 DEF Inv, Started, StartedPaid

\* closeAdapter keeps the invariant.
LEMMA Step_closeAdapter ==
  ASSUME Inv, NEW c \in Calls, closeAdapter(c)
  PROVE  Inv'
  <1>1. UNCHANGED <<rec, claim, budget, paid, crashes>>
    BY DEF closeAdapter, durable
  <1>2. res' \in Resources /\ Started' /\ StartedPaid'
    BY <1>1, EndedKeeps DEF closeAdapter
  <1>3. PICK pc \in {"settling", "session"} : Goto(c, pc)
    BY DEF closeAdapter
  <1>4. call[c].agr \in Agreements
    BY Agreed DEF closeAdapter, Early
  <1>5. Fits([call[c] EXCEPT !.pc = pc]) /\ pc \in Pcs
    BY <1>4, Steps DEF Pcs, Locked, Serving, Early
  <1>6. Quiet(c)
    BY <1>1, <1>3, <1>5, GotoQuiet
  <1> QED
    BY <1>1, <1>2, <1>6, Calm_Inv, Settled

\* closeRecovered keeps the invariant.
LEMMA Step_closeRecovered ==
  ASSUME Inv, NEW c \in Calls, closeRecovered(c)
  PROVE  Inv'
  <1>1. UNCHANGED <<rec, claim, budget, paid, crashes>> /\ Goto(c, "end")
    BY DEF closeRecovered, durable
  <1>2. res' \in Resources /\ Started' /\ StartedPaid'
    BY <1>1, EndedKeeps DEF closeRecovered
  <1>3. Quiet(c)
    BY <1>1, GotoQuiet DEF Pcs
  <1> QED
    BY <1>1, <1>2, <1>3, Calm_Inv, Settled

\* A resource that ends by itself.
LEMMA Step_Finish ==
  ASSUME Inv, NEW r \in Calls, Finish(r)
  PROVE  Inv'
  <1>1. UNCHANGED <<rec, claim, budget, call, paid, crashes>>
    BY DEF Finish, durable
  <1>2. res' \in Resources /\ Started' /\ StartedPaid'
    BY <1>1, EndedKeeps DEF Finish
  <1>3. TypeOK'
    BY <1>1, <1>2 DEF Inv, TypeOK, Resources
  <1> QED
    BY <1>1, <1>2, <1>3 DEF Inv, AgreementKnown, OneHolder, ClaimFirst, PortUnpaid, SinglePayer,
                            KeyPaid, ClaimPaid, CallPaid, PaidFor

\* A crash ends the calls and changes nothing else that the invariant speaks of.
LEMMA Step_Crash ==
  ASSUME Inv, Crash
  PROVE  Inv'
  <1>1. UNCHANGED <<rec, claim, budget, paid, res>>
    BY DEF Crash, durable
  <1>2. call' \in [Calls -> CallStates] /\ \A c \in Calls : call'[c].pc \in {"new", "end"}
    <2>1. \A c \in Calls : call[c] \in CallStates
      BY DEF Inv, TypeOK
    <2>2. call' = [c \in Calls |-> IF call[c].pc = "new" THEN call[c] ELSE Over]
      BY DEF Crash
    <2> QED
      BY <2>1, <2>2, OverFits DEF Fits
  <1>3. crashes' \in 0 .. MaxCrashes
    BY PurchaseAssumption DEF Crash, Inv, TypeOK
  <1>4. TypeOK'
    BY <1>1, <1>2, <1>3 DEF Inv, TypeOK
  <1>5. AgreementKnown' /\ OneHolder' /\ PortUnpaid'
    BY <1>2 DEF AgreementKnown, OneHolder, PortUnpaid, Early, Locked
  <1>6. CallPaid'
    BY <1>2 DEF CallPaid, Serving
  <1> QED
    BY <1>1, <1>4, <1>5, <1>6
       DEF Inv, ClaimFirst, SinglePayer, KeyPaid, ClaimPaid, Started, StartedPaid

------------------------------------------------------------------------------
(* The theorems. *)

\* The invariant holds initially.
LEMMA Inv_Init ==
  Init => Inv
  <1> SUFFICES ASSUME Init
               PROVE  Inv
    OBVIOUS
  <1>1. Unmade \in CallStates /\ Unmade.pc = "new"
    BY DEF Unmade, CallStates, Pcs
  <1>2. NoRecord \in Records /\ NoRecord.keys = {}
    BY DEF NoRecord, Records, Statuses
  <1>3. TypeOK
    BY <1>1, <1>2, PurchaseAssumption DEF Init, TypeOK
  <1>4. AgreementKnown /\ OneHolder /\ PortUnpaid /\ CallPaid
    BY <1>1 DEF Init, AgreementKnown, OneHolder, PortUnpaid, CallPaid, Early, Locked, Serving
  <1>5. ClaimFirst /\ SinglePayer /\ KeyPaid /\ ClaimPaid
    BY <1>2 DEF Init, ClaimFirst, SinglePayer, KeyPaid, ClaimPaid
  <1>6. Started /\ StartedPaid
    BY DEF Init, Started, StartedPaid
  <1> QED
    BY <1>3, <1>4, <1>5, <1>6 DEF Inv

\* Every step keeps the invariant.
LEMMA Inv_Next ==
  Inv /\ [Next]_vars => Inv'
  <1> SUFFICES ASSUME Inv, [Next]_vars
               PROVE  Inv'
    OBVIOUS
  <1>1. CASE UNCHANGED vars
    BY <1>1 DEF vars, durable, outside, Inv, TypeOK, AgreementKnown, OneHolder, ClaimFirst,
                PortUnpaid, SinglePayer, KeyPaid, ClaimPaid, CallPaid, PaidFor, Started, StartedPaid
  <1>2. CASE Crash
    BY <1>2, Step_Crash
  <1>3. ASSUME NEW c \in Calls, Finish(c)
        PROVE  Inv'
    BY <1>3, Step_Finish
  <1>4. ASSUME NEW c \in Calls, Step(c)
        PROVE  Inv'
    <2>1. CASE prepareBuy(c)
      BY <2>1, Step_prepareBuy
    <2>2. CASE Create(c)
      BY <2>2, Step_Create
    <2>3. CASE Discover(c)
      BY <2>3, Step_Discover
    <2>4. CASE negotiateWith(c)
      BY <2>4, Step_negotiateWith
    <2>5. CASE Agree(c)
      BY <2>5, Step_Agree
    <2>6. CASE Refuse(c)
      BY <2>6, Step_Refuse
    <2>7. CASE Reserve(c)
      BY <2>7, Step_Reserve
    <2>8. CASE Barrier(c)
      BY <2>8, Step_Barrier
    <2>9. CASE Authorizing(c)
      BY <2>9, Step_Authorizing
    <2>10. CASE approve(c)
      BY <2>10, Step_approve
    <2>11. CASE Paying(c)
      BY <2>11, Step_Paying
    <2>12. CASE pay(c)
      BY <2>12, Step_pay
    <2>13. CASE Port(c)
      BY <2>13, Step_Port
    <2>14. CASE Outcome(c)
      BY <2>14, Step_Outcome
    <2>15. CASE Paid(c)
      BY <2>15, Step_Paid
    <2>16. CASE recover(c)
      BY <2>16, Step_recover
    <2>17. CASE Starting(c)
      BY <2>17, Step_Starting
    <2>18. CASE start(c)
      BY <2>18, Step_start
    <2>19. CASE Active(c)
      BY <2>19, Step_Active
    <2>20. CASE Settle(c)
      BY <2>20, Step_Settle
    <2>21. CASE close(c)
      BY <2>21, Step_close
    <2>22. CASE closeAdapter(c)
      BY <2>22, Step_closeAdapter
    <2>23. CASE Settling(c)
      BY <2>23, Step_Settling
    <2>24. CASE Receipt(c)
      BY <2>24, Step_Receipt
    <2>25. CASE recoverResource(c)
      BY <2>25, Step_recoverResource
    <2>26. CASE closeRecovered(c)
      BY <2>26, Step_closeRecovered
    <2> QED
      BY <1>4, <2>1, <2>2, <2>3, <2>4, <2>5, <2>6, <2>7, <2>8, <2>9, <2>10, <2>11, <2>12, <2>13,
         <2>14, <2>15, <2>16, <2>17, <2>18, <2>19, <2>20, <2>21, <2>22, <2>23, <2>24, <2>25, <2>26
         DEF Step
  <1> QED
    BY <1>1, <1>2, <1>3, <1>4 DEF Next

\* The invariant holds throughout.
LEMMA Inv_Holds ==
  Spec => []Inv
  BY Inv_Init, Inv_Next, PTL DEF Spec

\* Type correctness, for every instance.
THEOREM TypeCorrect ==
  Spec => []TypeOK
  <1>1. Inv => TypeOK
    BY DEF Inv
  <1> QED
    BY <1>1, Inv_Holds, PTL

\* An agreement is paid once, however many calls buy, fail, retry or die between the
\* payment and the record of it.
THEOREM NoDoublePayment ==
  Spec => []PaidOnce
  <1>1. Inv => PaidOnce
    <2> SUFFICES ASSUME Inv, NEW a \in Agreements
                 PROVE  Cardinality(paid[a]) <= 1
      BY DEF PaidOnce
    <2>1. CASE paid[a] = {}
      BY <2>1, FS_EmptySet
    <2>2. CASE paid[a] # {}
      <3>1. PICK c \in paid[a] : TRUE
        BY <2>2
      <3>2. paid[a] = {c}
        BY <3>1 DEF Inv, SinglePayer
      <3> QED
        BY <3>2, FS_Singleton
    <2> QED
      BY <2>1, <2>2
  <1> QED
    BY <1>1, Inv_Holds, PTL

\* Nothing is started for an agreement that was not paid, however the calls interleave.
THEOREM NothingUnpaid ==
  Spec => []StartedPaid
  <1>1. Inv => StartedPaid
    BY DEF Inv
  <1> QED
    BY <1>1, Inv_Holds, PTL

------------------------------------------------------------------------------
(* One running resource in hand: SessionInv is kept by every step.          *)

Apart(c) ==
  \A d \in Calls \ {c} : call'[d] = call[d] \/ call'[d] = [call[d] EXCEPT !.fresh = FALSE]

\* Resources may end, and nothing else happens to them.
Fades(v, v2) ==
  \A c \in Calls :
    /\ v2[c].agr = v[c].agr /\ (v2[c].state = "none" <=> v[c].state = "none")
    /\ v2[c].state = "running" => v[c].state = "running"

\* A step that starts no resource and leaves the record's reference alone.
Plain(c) ==
  /\ Apart(c) /\ Fades(res, res') /\ rec'.ref = rec.ref /\ rec.keys \subseteq rec'.keys
  /\ SessionSound(c, call'[c], rec', res')

\* A move of a call that neither looks at the resource nor starts one.
Tame(q, n) ==
  /\ n.handle \in {q.handle, NoResource} /\ n.pc \notin Restarting \cup {"recover"}
  /\ n.pc \in BeforeStart => q.pc \in BeforeStart

\* A tame move keeps what is known of the call.
LEMMA TameSound ==
  ASSUME NEW c, NEW q, NEW n, NEW r, NEW r2, NEW v,
         SessionSound(c, q, r, v), Tame(q, n), r2.ref = r.ref
  PROVE  SessionSound(c, n, r2, v)
  BY DEF SessionSound, Tame, Restarting

\* So does a write of another call that leaves the reference alone.
LEMMA ApartSound ==
  ASSUME NEW d, NEW q \in CallStates, NEW r, NEW r2, NEW v,
         SessionSound(d, q, r, v), r2.ref = r.ref
  PROVE  /\ SessionSound(d, q, r2, v)
         /\ SessionSound(d, [q EXCEPT !.fresh = FALSE], r2, v)
  <1> DEFINE n == [q EXCEPT !.fresh = FALSE]
  <1>1. n.pc = q.pc /\ n.handle = q.handle /\ n.agr = q.agr /\ n.fresh = FALSE
    BY DEF CallStates
  <1>2. SessionSound(d, q, r2, v)
    BY DEF SessionSound
  <1> HIDE DEF n
  <1>3. SessionSound(d, n, r2, v)
    BY <1>1, <1>2 DEF SessionSound
  <1> QED
    BY <1>2, <1>3 DEF n

\* What is known of a call does not depend on a resource that runs.
LEMMA FadesSound ==
  ASSUME NEW c \in Calls, NEW q \in CallStates, NEW r \in Records, NEW v, NEW v2,
         SessionSound(c, q, r, v), Fades(v, v2)
  PROVE  SessionSound(c, q, r, v2)
  <1>1. q.handle \in Calls \cup {NoResource} /\ r.ref \in Calls \cup {NoResource}
    BY DEF CallStates, Records
  <1>2. \A a : OnlyFor(v2, a) <=> OnlyFor(v, a)
    BY DEF OnlyFor, Fades
  <1> QED
    BY <1>1, <1>2 DEF SessionSound, Fades

LEMMA PlainSession ==
  ASSUME Inv, SessionInv, Inv', NEW c \in Calls, Plain(c)
  PROVE  SessionInv'
  <1>1. \A d \in Calls : call[d] \in CallStates /\ SessionSound(d, call[d], rec, res)
    BY DEF Inv, TypeOK, SessionInv
  <1>2. RefKeyed(rec', res')
    <2>1. rec.ref \in Calls \cup {NoResource}
      BY DEF Inv, TypeOK, Records
    <2> QED
      BY <2>1 DEF SessionInv, RefKeyed, Plain, Fades
  <1>3. ASSUME NEW d \in Calls PROVE SessionSound(d, call'[d], rec', res')
    <2>1. CASE d = c
      BY <2>1 DEF Plain
    <2>2. CASE d # c
      <3>1. Fades(res, res') /\ rec'.ref = rec.ref /\ rec' \in Records
        BY DEF Plain, Inv, TypeOK
      <3>2. call'[d] = call[d] \/ call'[d] = [call[d] EXCEPT !.fresh = FALSE]
        BY <2>2 DEF Plain, Apart
      <3>3. SessionSound(d, call[d], rec', res) /\ SessionSound(d, [call[d] EXCEPT !.fresh = FALSE], rec', res)
        BY <1>1, <3>1, ApartSound
      <3>4. call[d] \in CallStates /\ [call[d] EXCEPT !.fresh = FALSE] \in CallStates
        BY <1>1 DEF CallStates
      <3> QED
        BY <3>1, <3>2, <3>3, <3>4, FadesSound
    <2> QED
      BY <2>1, <2>2
  <1> QED
    BY <1>2, <1>3 DEF SessionInv

LEMMA Known ==
  ASSUME Inv, SessionInv, NEW c \in Calls
  PROVE  /\ call \in [Calls -> CallStates] /\ call[c] \in CallStates /\ rec \in Records
         /\ SessionSound(c, call[c], rec, res) /\ RefKeyed(rec, res)
  BY DEF Inv, TypeOK, SessionInv

\* A move of one call and nothing else.
LEMMA MovePlain ==
  ASSUME Inv, SessionInv, NEW c \in Calls, NEW n, call' = [call EXCEPT ![c] = n],
         UNCHANGED <<rec, res>>, SessionSound(c, n, rec, res)
  PROVE  Plain(c)
  BY Known DEF Plain, Apart, Fades

LEMMA GotoPlain ==
  ASSUME Inv, SessionInv, NEW c \in Calls, NEW pc \in Pcs \ (Restarting \cup {"recover"}), Goto(c, pc),
         UNCHANGED rec, Fades(res, res'), pc \in BeforeStart => call[c].pc \in BeforeStart
  PROVE  Plain(c)
  <1>1. Over.pc = "end" /\ Over.handle = NoResource
    BY DEF Over, Unmade
  <1>2. pc # "end" => call'[c] = [call[c] EXCEPT !.pc = pc]
    BY GotoMoves
  <1>3. /\ pc = "end" => call'[c] = Over
        /\ \A d \in Calls \ {c} : call'[d] = call[d]
    BY GotoMoves
  <1>4. Tame(call[c], call'[c])
    <2>1. call[c] \in CallStates
      BY Known
    <2>2. CASE pc = "end"
      BY <1>1, <1>3, <2>2 DEF Tame, Restarting, BeforeStart
    <2>3. CASE pc # "end"
      BY <1>2, <2>1, <2>3 DEF Tame, CallStates
    <2> QED
      BY <2>2, <2>3
  <1>5. SessionSound(c, call'[c], rec', res')
    <2>1. SessionSound(c, call'[c], rec, res)
      BY <1>4, Known, TameSound
    <2>2. call'[c] \in CallStates /\ rec \in Records
      BY GotoMoves, Known DEF Moves
    <2> QED
      BY <2>1, <2>2, FadesSound
  <1> QED
    BY <1>3, <1>5 DEF Plain, Apart

\* An error.
LEMMA ThrowPlain ==
  ASSUME Inv, SessionInv, NEW c \in Calls, NEW code, Throw(c, code), UNCHANGED <<rec, res>>
  PROVE  Plain(c)
  <1>1. PICK pc \in {"abort", "end"} : Goto(c, pc)
    BY DEF Throw
  <1>2. pc \in Pcs \ (Restarting \cup {"recover"}) /\ pc \notin BeforeStart
    BY DEF Pcs, Restarting, BeforeStart
  <1> QED
    BY <1>1, <1>2, GotoPlain DEF Fades

LEMMA WritePlain ==
  ASSUME Inv, SessionInv, NEW c \in Calls, NEW r, NEW new, Write(c, r, new), UNCHANGED res,
         r.ref = rec.ref, rec.keys \subseteq r.keys, SessionSound(c, new, rec, res), new \in CallStates
  PROVE  Plain(c)
  <1>1. rec' = r /\ call' = [d \in Calls |-> IF d = c THEN new ELSE [call[d] EXCEPT !.fresh = FALSE]]
    BY DEF Write
  <1>2. SessionSound(c, new, r, res)
    BY ApartSound
  <1> QED
    BY <1>1, <1>2 DEF Plain, Apart, Fades

LEMMA CasPlain ==
  ASSUME Inv, SessionInv, NEW c \in Calls, NEW r, NEW new, Cas(c, r, new), UNCHANGED res,
         r.ref = rec.ref, rec.keys \subseteq r.keys, new \in CallStates,
         call[c].fresh => SessionSound(c, new, rec, res)
  PROVE  Plain(c)
  <1>1. CASE call[c].fresh /\ Write(c, r, new)
    BY <1>1, WritePlain
  <1>2. CASE UNCHANGED rec /\ Throw(c, "STALE_REVISION")
    BY <1>2, ThrowPlain
  <1> QED
    BY <1>1, <1>2 DEF Cas, Unmoved

\* A call sent to the resource finds the one the record names, or none of its
\* agreement.
LEMMA ToResourceSound ==
  ASSUME Inv, SessionInv, NEW c \in Calls, NEW q \in CallStates, q.pc \in BeforeStart,
         SessionSound(c, q, rec, res)
  PROVE  SessionSound(c, ToResource(q), rec, res) /\ ToResource(q) \in CallStates
  <1>1. rec.ref \in Calls \cup {NoResource} /\ RefKeyed(rec, res)
    BY Known DEF Records
  <1>2. CASE Issued("resource-start", q.agr) /\ rec.ref # NoResource
    <2> DEFINE n == [q EXCEPT !.pc = "recover", !.handle = rec.ref]
    <2>1. ToResource(q) = n
      BY <1>2 DEF ToResource
    <2>2. n \in CallStates /\ n.pc = "recover" /\ n.handle = rec.ref
      BY <1>1 DEF CallStates, Pcs
    <2> HIDE DEF n
    <2>3. SessionSound(c, n, rec, res)
      BY <1>1, <1>2, <2>2 DEF SessionSound, RefKeyed, Restarting
    <2> QED
      BY <2>1, <2>2, <2>3
  <1>3. CASE ~(Issued("resource-start", q.agr) /\ rec.ref # NoResource)
    <2> DEFINE n == [q EXCEPT !.pc = "starting"]
    <2>1. ToResource(q) = n
      BY <1>3 DEF ToResource
    <2>2. n \in CallStates /\ n.pc = "starting" /\ n.handle = q.handle /\ n.agr = q.agr
      BY DEF CallStates, Pcs
    <2> HIDE DEF n
    <2>3. rec.ref # NoResource => res[rec.ref].agr # n.agr
      BY <1>1, <1>3, <2>2 DEF RefKeyed, Issued
    <2>4. SessionSound(c, n, rec, res)
      BY <2>2, <2>3 DEF SessionSound
    <2> QED
      BY <2>1, <2>2, <2>4
  <1> QED
    BY <1>2, <1>3

LEMMA ToPaymentSound ==
  ASSUME Inv, SessionInv, NEW c \in Calls, NEW q \in CallStates, q.pc \in BeforeStart,
         SessionSound(c, q, rec, res)
  PROVE  SessionSound(c, ToPayment(q), rec, res) /\ ToPayment(q) \in CallStates
  <1>1. CASE PaymentDone(q.agr)
    BY <1>1, ToResourceSound DEF ToPayment
  <1>2. CASE ~PaymentDone(q.agr)
    <2> DEFINE n == [q EXCEPT !.pc = "paying"]
    <2>1. ToPayment(q) = n
      BY <1>2 DEF ToPayment
    <2>2. n \in CallStates /\ Tame(q, n)
      BY DEF CallStates, Pcs, Tame, Restarting
    <2> HIDE DEF n
    <2> QED
      BY <2>1, <2>2, TameSound
  <1> QED
    BY <1>1, <1>2

\* Reading the record again.
LEMMA ReadPlain ==
  ASSUME Inv, SessionInv, NEW c \in Calls, NEW pc \in Pcs \ (Restarting \cup {"recover"}), Read(c, pc),
         UNCHANGED <<rec, res>>, pc \in BeforeStart => call[c].pc \in BeforeStart
  PROVE  Plain(c)
  <1>1. call \in [Calls -> CallStates] /\ call[c] \in CallStates /\ SessionSound(c, call[c], rec, res)
    BY Known
  <1> DEFINE n == [call[c] EXCEPT !.fresh = TRUE, !.pc = pc]
  <1>2. call' = [call EXCEPT ![c] = n]
    BY <1>1 DEF Read, CallStates
  <1>3. Tame(call[c], n)
    BY <1>1 DEF Tame, CallStates
  <1> HIDE DEF n
  <1> QED
    BY <1>1, <1>2, <1>3, TameSound, MovePlain

\* A write of a status on the way to the resource.
LEMMA MarkPlain ==
  ASSUME Inv, SessionInv, NEW c \in Calls, NEW from, NEW status,
         NEW pc \in Pcs \ (Restarting \cup {"recover"}), Mark(c, from, status, pc),
         pc \in BeforeStart => from \in BeforeStart
  PROVE  Plain(c)
  <1>1. call[c] \in CallStates /\ SessionSound(c, call[c], rec, res) /\ rec \in Records
    BY Known
  <1> DEFINE n == [call[c] EXCEPT !.pc = pc]
             r == [rec EXCEPT !.status = status]
  <1>2. Tame(call[c], n) /\ n \in CallStates
    BY <1>1 DEF Tame, CallStates, Mark
  <1>3. r.ref = rec.ref /\ r.keys = rec.keys
    BY <1>1 DEF Records
  <1>4. Cas(c, r, n) /\ UNCHANGED res
    BY DEF Mark, outside
  <1> HIDE DEF n, r
  <1> QED
    BY <1>1, <1>2, <1>3, <1>4, TameSound, CasPlain

LEMMA Plain_prepare ==
  ASSUME Inv, SessionInv, NEW c \in Calls,
         prepareBuy(c) \/ Create(c) \/ Discover(c) \/ negotiateWith(c) \/ Agree(c) \/ Refuse(c)
  PROVE  Plain(c)
  <1>1. /\ call \in [Calls -> CallStates] /\ call[c] \in CallStates
        /\ SessionSound(c, call[c], rec, res) /\ rec \in Records
    BY Known
  <1>2. CASE prepareBuy(c)
    <2>1. PICK pc \in {"create", "lookup"} : Read(c, pc)
      BY <1>2 DEF prepareBuy
    <2>2. UNCHANGED <<rec, res>> /\ call[c].pc \in BeforeStart
      BY <1>2 DEF prepareBuy, durable, outside, BeforeStart, Pcs
    <2> QED
      BY <2>1, <2>2, ReadPlain DEF Pcs, Restarting
  <1>3. CASE Create(c)
    <2> DEFINE r == [rec EXCEPT !.status = "REQUESTED"]
               n == [call[c] EXCEPT !.pc = "lookup"]
    <2>1. r.ref = rec.ref /\ r.keys = rec.keys
      BY <1>1 DEF Records
    <2>2. n \in CallStates /\ Tame(call[c], n)
      BY <1>1, <1>3 DEF Create, Tame, CallStates, BeforeStart, Pcs, Restarting
    <2>3. UNCHANGED res /\ (Write(c, r, n) \/ (UNCHANGED rec /\ Goto(c, "end")))
      BY <1>3 DEF Create, outside
    <2>4. Fades(res, res')
      BY <2>3 DEF Fades
    <2> HIDE DEF n, r
    <2> QED
      BY <1>1, <2>1, <2>2, <2>3, <2>4, TameSound, WritePlain, GotoPlain DEF Pcs, Restarting, BeforeStart
  <1>4. CASE Discover(c)
    <2> DEFINE r == [rec EXCEPT !.status = "DISCOVERING"]
               direct == [call[c] EXCEPT !.agr = Direct, !.pc = Prepared(c)]
               later == [call[c] EXCEPT !.pc = "negotiating"]
    <2>1. r.ref = rec.ref /\ r.keys = rec.keys
      BY <1>1 DEF Records
    <2>2. later \in CallStates /\ Tame(call[c], later)
      BY <1>1, <1>4 DEF Discover, Tame, CallStates, BeforeStart, Pcs, Restarting
    <2>3. direct \in CallStates /\ Tame(call[c], direct)
      <3>1. Prepared(c) \in {"authorize", "barrier"} /\ Direct \in Agreements /\ call[c].pc = "lookup"
        BY <1>4 DEF Prepared, Agreements, Discover
      <3> QED
        BY <1>1, <3>1 DEF Tame, CallStates, BeforeStart, Pcs, Restarting
    <2>4. PICK n \in {direct, later} : Cas(c, r, n)
      BY <1>4 DEF Discover
    <2>5. UNCHANGED res
      BY <1>4 DEF Discover, outside
    <2>6. n \in CallStates /\ Tame(call[c], n)
      BY <2>2, <2>3, <2>4
    <2> HIDE DEF r, direct, later
    <2> QED
      BY <1>1, <2>1, <2>4, <2>5, <2>6, TameSound, CasPlain
  <1>5. CASE negotiateWith(c)
    BY <1>5, MarkPlain DEF negotiateWith, Pcs, Restarting, BeforeStart
  <1>6. CASE Agree(c)
    <2> DEFINE n == [call[c] EXCEPT !.agr = c, !.pc = Prepared(c)]
    <2>1. Prepared(c) \in {"authorize", "barrier"}
      BY DEF Prepared
    <2>2. call' = [call EXCEPT ![c] = n] /\ UNCHANGED <<rec, res>> /\ call[c].pc = "agree"
      BY <1>1, <1>6 DEF Agree, CallStates, durable, outside
    <2>3. Tame(call[c], n)
      BY <1>1, <2>1, <2>2 DEF Tame, CallStates, BeforeStart, Pcs, Restarting
    <2> HIDE DEF n
    <2> QED
      BY <1>1, <2>2, <2>3, TameSound, MovePlain
  <1>7. CASE Refuse(c)
    <2>1. UNCHANGED <<rec, res>> /\ Goto(c, "end") /\ Fades(res, res')
      BY <1>7 DEF Refuse, durable, outside, Fades
    <2> QED
      BY <2>1, GotoPlain DEF Pcs, Restarting, BeforeStart
  <1> QED
    BY <1>2, <1>3, <1>4, <1>5, <1>6, <1>7

LEMMA Plain_execute ==
  ASSUME Inv, SessionInv, NEW c \in Calls,
         Reserve(c) \/ Barrier(c) \/ Authorizing(c) \/ approve(c) \/ Paying(c) \/ Paid(c)
  PROVE  Plain(c)
  <1>1. /\ call \in [Calls -> CallStates] /\ call[c] \in CallStates
        /\ SessionSound(c, call[c], rec, res) /\ rec \in Records
    BY Known
  <1>2. CASE Reserve(c)
    <2>1. UNCHANGED <<rec, res>> /\ Goto(c, "barrier") /\ Fades(res, res') /\ call[c].pc \in BeforeStart
      BY <1>2 DEF Reserve, outside, Fades, BeforeStart, Pcs
    <2> QED
      BY <2>1, GotoPlain DEF Pcs, Restarting
  <1>3. CASE Barrier(c)
    <2> DEFINE new == [call[c] EXCEPT !.fresh = TRUE, !.pc = "authorizing"]
               next == IF c \in Governed THEN ToPayment(new) ELSE new
    <2>1. UNCHANGED <<rec, res>> /\ call[c].pc = "barrier"
      BY <1>3 DEF Barrier, durable, outside
    <2>2. new \in CallStates /\ new.pc = "authorizing" /\ Tame(call[c], new)
      BY <1>1, <2>1 DEF CallStates, Pcs, Tame, Restarting, BeforeStart
    <2>3. call' = [call EXCEPT ![c] = next] \/ \E code \in revalidateBeforeCommit : Throw(c, code)
      BY <1>3 DEF Barrier
    <2>4. SessionSound(c, new, rec, res)
      BY <1>1, <2>2, TameSound
    <2> HIDE DEF new
    <2>5. SessionSound(c, next, rec, res)
      BY <2>2, <2>4, ToPaymentSound DEF BeforeStart, Pcs
    <2> HIDE DEF next
    <2> QED
      BY <2>1, <2>3, <2>5, MovePlain, ThrowPlain
  <1>4. CASE Authorizing(c)
    <2> DEFINE r == [rec EXCEPT !.status = "AUTHORIZING", !.agr = call[c].agr]
               n == [call[c] EXCEPT !.pc = "approve"]
    <2>1. r.ref = rec.ref /\ r.keys = rec.keys
      BY <1>1 DEF Records
    <2>2. n \in CallStates /\ Tame(call[c], n)
      BY <1>1, <1>4 DEF Authorizing, Tame, CallStates, BeforeStart, Pcs, Restarting
    <2>3. UNCHANGED res /\ Cas(c, r, n)
      BY <1>4 DEF Authorizing, outside
    <2> HIDE DEF n, r
    <2> QED
      BY <1>1, <2>1, <2>2, <2>3, TameSound, CasPlain
  <1>5. CASE approve(c)
    <2> DEFINE r == [rec EXCEPT !.status = "AUTHORIZED"]
    <2>1. r.ref = rec.ref /\ r.keys = rec.keys
      BY <1>1 DEF Records
    <2>2. SessionSound(c, ToPayment(call[c]), rec, res) /\ ToPayment(call[c]) \in CallStates
      BY <1>1, <1>5, ToPaymentSound DEF approve, BeforeStart, Pcs
    <2>3. UNCHANGED res /\ (Cas(c, r, ToPayment(call[c])) \/ (UNCHANGED rec /\ Throw(c, "AUTHORITY_DENIED")))
      BY <1>5 DEF approve, outside
    <2> HIDE DEF r
    <2> QED
      BY <2>1, <2>2, <2>3, CasPlain, ThrowPlain
  <1>6. CASE Paying(c)
    BY <1>6, MarkPlain DEF Paying, Pcs, Restarting, BeforeStart
  <1>7. CASE Paid(c)
    <2> DEFINE r == [rec EXCEPT !.status = "PAID", !.keys = @ \cup {<<"payment", call[c].agr>>}]
    <2>1. r.ref = rec.ref /\ rec.keys \subseteq r.keys
      BY <1>1 DEF Records
    <2>2. SessionSound(c, ToResource(call[c]), rec, res) /\ ToResource(call[c]) \in CallStates
      BY <1>1, <1>7, ToResourceSound DEF Paid, BeforeStart, Pcs
    <2>3. UNCHANGED res /\ Cas(c, r, ToResource(call[c]))
      BY <1>7 DEF Paid, outside
    <2> HIDE DEF r
    <2> QED
      BY <2>1, <2>2, <2>3, CasPlain
  <1> QED
    BY <1>2, <1>3, <1>4, <1>5, <1>6, <1>7

LEMMA Plain_pay ==
  ASSUME Inv, SessionInv, NEW c \in Calls, pay(c) \/ Port(c) \/ Outcome(c) \/ Settle(c)
  PROVE  Plain(c)
  <1>1. UNCHANGED <<rec, res>> /\ Fades(res, res')
    BY DEF pay, Port, Outcome, Settle, outside, durable, Fades
  <1>2. \/ \E code : Throw(c, code)
        \/ \E pc \in {"port", "ok", "failed", "mark"} : Goto(c, pc) /\ call[c].pc \in {"pay", "port", "ok"}
        \/ \E pc \in {"session", "end"} : Goto(c, pc)
    BY DEF pay, Port, Outcome, Settle
  <1>3. CASE \E code : Throw(c, code)
    BY <1>1, <1>3, ThrowPlain
  <1>4. CASE \E pc \in {"port", "ok", "failed", "mark"} : Goto(c, pc) /\ call[c].pc \in {"pay", "port", "ok"}
    BY <1>1, <1>4, GotoPlain DEF Pcs, Restarting, BeforeStart
  <1>5. CASE \E pc \in {"session", "end"} : Goto(c, pc)
    BY <1>1, <1>5, GotoPlain DEF Pcs, Restarting, BeforeStart
  <1> QED
    BY <1>2, <1>3, <1>4, <1>5

LEMMA EndedFades ==
  ASSUME Inv, NEW r, Ended(r) \/ UNCHANGED res
  PROVE  Fades(res, res')
  <1>1. res \in Resources
    BY DEF Inv, TypeOK, Resources
  <1>2. ASSUME NEW c \in Calls
        PROVE  /\ res'[c].agr = res[c].agr /\ (res'[c].state = "none" <=> res[c].state = "none")
               /\ res'[c].state = "running" => res[c].state = "running"
    BY <1>1 DEF Ended, Resources
  <1> QED
    BY <1>2 DEF Fades

\* recover() of the adapter: a resource is started again only when it says that the
\* one the record names is gone.
LEMMA Plain_recover ==
  ASSUME Inv, SessionInv, NEW c \in Calls, recover(c)
  PROVE  Plain(c)
  <1>1. /\ call \in [Calls -> CallStates] /\ call[c] \in CallStates /\ call[c].pc = "recover"
        /\ SessionSound(c, call[c], rec, res)
    BY Known DEF recover
  <1>2. UNCHANGED <<rec, res>> /\ Fades(res, res') /\ Return(c) \in {"commit", "session"}
    BY DEF recover, durable, outside, Fades, Return
  <1>3. PICK answer \in Answers(call[c].handle) :
          CASE answer = "ACTIVE" -> Goto(c, Return(c))
            [] answer = "COMPLETED" ->
                 call' = [call EXCEPT ![c].handle = NoResource, ![c].pc = Return(c)]
            [] answer = "MISSING" ->
                 call' = [call EXCEPT ![c].handle = NoResource, ![c].pc = "starting"]
            [] answer = "UNKNOWN" -> Throw(c, "RESOURCE_STATE_UNKNOWN")
    BY DEF recover
  <1>4. answer \in {"ACTIVE", "COMPLETED", "MISSING", "UNKNOWN"}
    BY DEF Answers
  <1>5. CASE answer = "ACTIVE"
    <2>1. Goto(c, Return(c))
      BY <1>3, <1>5
    <2> QED
      BY <1>2, <2>1, GotoPlain DEF Pcs, Restarting, BeforeStart
  <1>6. CASE answer = "COMPLETED"
    <2> DEFINE n == [call[c] EXCEPT !.handle = NoResource, !.pc = Return(c)]
    <2>1. call' = [call EXCEPT ![c].handle = NoResource, ![c].pc = Return(c)]
      BY <1>3, <1>6
    <2>2. call' = [call EXCEPT ![c] = n]
      BY <1>1, <2>1 DEF CallStates
    <2>3. Tame(call[c], n)
      BY <1>1, <1>2 DEF Tame, CallStates, Restarting, BeforeStart
    <2> HIDE DEF n
    <2> QED
      BY <1>1, <1>2, <2>2, <2>3, TameSound, MovePlain
  <1>7. CASE answer = "MISSING"
    <2> DEFINE n == [call[c] EXCEPT !.handle = NoResource, !.pc = "starting"]
    <2>1. call' = [call EXCEPT ![c].handle = NoResource, ![c].pc = "starting"]
      BY <1>3, <1>7
    <2>2. call' = [call EXCEPT ![c] = n]
      BY <1>1, <2>1 DEF CallStates
    <2>3. n.pc = "starting" /\ n.handle = NoResource /\ n.fresh = call[c].fresh
      BY <1>1 DEF CallStates
    <2>4. res[call[c].handle].state # "running"
      BY <1>3, <1>7 DEF Answers
    <2> HIDE DEF n
    <2>5. call[c].pc \in BeforeStart
      BY <1>1 DEF BeforeStart, Pcs
    <2>6. SessionSound(c, n, rec, res)
      BY <1>1, <2>3, <2>4, <2>5 DEF SessionSound
    <2> QED
      BY <1>1, <1>2, <2>2, <2>6, MovePlain
  <1>8. CASE answer = "UNKNOWN"
    BY <1>2, <1>3, <1>8, ThrowPlain
  <1> QED
    BY <1>4, <1>5, <1>6, <1>7, <1>8

LEMMA Plain_Starting ==
  ASSUME Inv, SessionInv, NEW c \in Calls, Starting(c)
  PROVE  Plain(c)
  <1>1. call[c] \in CallStates /\ SessionSound(c, call[c], rec, res) /\ rec \in Records /\ call[c].pc = "starting"
    BY Known DEF Starting, Mark
  <1> DEFINE n == [call[c] EXCEPT !.pc = "start"]
             r == [rec EXCEPT !.status = "STARTING_RESOURCE"]
  <1>2. n \in CallStates /\ n.pc = "start" /\ n.handle = call[c].handle /\ n.fresh = call[c].fresh /\ n.agr = call[c].agr
    BY <1>1 DEF CallStates, Pcs
  <1>3. r.ref = rec.ref /\ r.keys = rec.keys
    BY <1>1 DEF Records
  <1>4. Cas(c, r, n) /\ UNCHANGED res
    BY DEF Starting, Mark, outside
  <1> HIDE DEF n, r
  <1>5. SessionSound(c, n, rec, res)
    BY <1>1, <1>2 DEF SessionSound, Restarting, BeforeStart, Pcs
  <1> QED
    BY <1>2, <1>3, <1>4, <1>5, CasPlain

LEMMA Plain_close ==
  ASSUME Inv, SessionInv, NEW c \in Calls, close(c) \/ closeAdapter(c) \/ closeRecovered(c)
  PROVE  Plain(c)
  <1>1. CASE close(c)
    <2>1. UNCHANGED <<rec, res>> /\ Fades(res, res')
      BY <1>1 DEF close, durable, outside, Fades
    <2>2. Goto(c, "end") \/ \E pc \in {"close", "receipt", "session"} : Read(c, pc)
      BY <1>1 DEF close
    <2>3. CASE Goto(c, "end")
      BY <2>1, <2>3, GotoPlain DEF Pcs, Restarting, BeforeStart
    <2>4. CASE \E pc \in {"close", "receipt", "session"} : Read(c, pc)
      BY <2>1, <2>4, ReadPlain DEF Pcs, Restarting, BeforeStart
    <2> QED
      BY <2>2, <2>3, <2>4
  <1>2. CASE closeAdapter(c) \/ closeRecovered(c)
    <2>1. UNCHANGED rec /\ Fades(res, res')
      BY <1>2, EndedFades DEF closeAdapter, closeRecovered, durable
    <2>2. PICK pc \in {"settling", "session", "end"} : Goto(c, pc)
      BY <1>2 DEF closeAdapter, closeRecovered
    <2> QED
      BY <2>1, <2>2, GotoPlain DEF Pcs, Restarting, BeforeStart
  <1> QED
    BY <1>1, <1>2

LEMMA Plain_conclude ==
  ASSUME Inv, SessionInv, NEW c \in Calls, Settling(c) \/ Receipt(c)
  PROVE  Plain(c)
  <1>1. call[c] \in CallStates /\ SessionSound(c, call[c], rec, res) /\ rec \in Records
    BY Known
  <1>2. Over \in CallStates /\ Tame(call[c], Over)
    BY OverFits DEF Fits, Tame, Over, Unmade, Restarting, BeforeStart
  <1>3. [call[c] EXCEPT !.pc = "receipt"] \in CallStates /\ Tame(call[c], [call[c] EXCEPT !.pc = "receipt"])
    BY <1>1 DEF CallStates, Pcs, Tame, Restarting, BeforeStart
  <1>4. PICK status \in {"SETTLING", "COMPLETED"}, key \in {"settlement", "receipt"},
             new \in {Over, [call[c] EXCEPT !.pc = "receipt"]} :
          /\ \/ Write(c, [rec EXCEPT !.status = status, !.keys = @ \cup {<<key, call[c].agr>>}], new)
             \/ UNCHANGED rec /\ Goto(c, "session")
          /\ UNCHANGED res
    BY DEF Settling, Receipt, Conclude, outside
  <1>5. new \in CallStates /\ SessionSound(c, new, rec, res)
    BY <1>1, <1>2, <1>3, TameSound
  <1> DEFINE r == [rec EXCEPT !.status = status, !.keys = @ \cup {<<key, call[c].agr>>}]
  <1>6. r.ref = rec.ref /\ rec.keys \subseteq r.keys
    BY <1>1 DEF Records
  <1>7. CASE Write(c, r, new)
    <2> HIDE DEF r
    <2> QED
      BY <1>4, <1>5, <1>6, <1>7, WritePlain
  <1>8. CASE UNCHANGED rec /\ Goto(c, "session")
    BY <1>4, <1>8, GotoPlain DEF Pcs, Restarting, BeforeStart, Fades
  <1> QED
    BY <1>4, <1>7, <1>8

LEMMA Plain_recoverResource ==
  ASSUME Inv, SessionInv, NEW c \in Calls, recoverResource(c)
  PROVE  Plain(c)
  <1>1. /\ call \in [Calls -> CallStates] /\ call[c] \in CallStates /\ call[c].pc = "new"
        /\ SessionSound(c, call[c], rec, res) /\ RefKeyed(rec, res) /\ rec.ref # NoResource
    BY Known DEF recoverResource
  <1>2. UNCHANGED <<rec, res>> /\ Fades(res, res')
    BY DEF recoverResource, durable, outside, Fades
  <1>3. CASE Goto(c, "end")
    BY <1>2, <1>3, GotoPlain DEF Pcs, Restarting, BeforeStart
  <1>4. CASE call' = [call EXCEPT ![c].handle = rec.ref, ![c].agr = rec.agr, ![c].pc = "recovered"]
    <2> DEFINE n == [call[c] EXCEPT !.handle = rec.ref, !.agr = rec.agr, !.pc = "recovered"]
    <2>1. call' = [call EXCEPT ![c] = n]
      BY <1>1, <1>4 DEF CallStates
    <2>2. n.pc = "recovered" /\ n.handle = rec.ref
      BY <1>1 DEF CallStates
    <2> HIDE DEF n
    <2>3. SessionSound(c, n, rec, res)
      BY <1>1, <2>2 DEF SessionSound, RefKeyed, BeforeStart, Restarting
    <2> QED
      BY <1>1, <1>2, <2>1, <2>3, MovePlain
  <1> QED
    BY <1>3, <1>4 DEF recoverResource

\* A new resource is not the one the record names, nor one in anybody's hand.
LEMMA StartSound ==
  ASSUME NEW c \in Calls, NEW d \in Calls, NEW q \in CallStates, NEW r \in Records, NEW v, NEW v2,
         v[c].state = "none", v[c].agr = NoAgreement, \A e \in Calls \ {c} : v2[e] = v[e],
         RefKeyed(r, v), SessionSound(d, q, r, v)
  PROVE  /\ d # c => SessionSound(d, q, r, v2)
         /\ RefKeyed(r, v2)
         /\ q.handle # NoResource => v2[q.handle] = v[q.handle]
         /\ r.ref # NoResource => v2[r.ref] = v[r.ref]
         /\ \A a : OnlyFor(v2, a) => OnlyFor(v, a)
  <1>1. q.handle \in Calls \cup {NoResource} /\ r.ref \in Calls \cup {NoResource}
    BY DEF CallStates, Records
  <1>2. q.handle # NoResource => q.handle \in Calls \ {c}
    BY <1>1 DEF SessionSound
  <1>3. r.ref # NoResource => r.ref \in Calls \ {c}
    BY <1>1 DEF RefKeyed
  <1>4. \A a : OnlyFor(v2, a) => OnlyFor(v, a)
    BY DEF OnlyFor
  <1>5. d # c => SessionSound(d, q, r, v2)
    BY <1>2, <1>3, <1>4 DEF SessionSound
  <1>6. RefKeyed(r, v2)
    BY <1>3 DEF RefKeyed
  <1> QED
    BY <1>2, <1>3, <1>4, <1>5, <1>6

LEMMA Session_start ==
  ASSUME Inv, SessionInv, Inv', NEW c \in Calls, start(c)
  PROVE  SessionInv'
  <1>1. /\ \A d \in Calls : call[d] \in CallStates /\ SessionSound(d, call[d], rec, res)
        /\ rec \in Records /\ RefKeyed(rec, res) /\ UNCHANGED rec /\ call[c].pc = "start"
    BY Known DEF start, durable
  <1>2. CASE /\ res' = [res EXCEPT ![c] = [state |-> "running", agr |-> call[c].agr]]
             /\ Goto(c, "active")
    <2>1. res[c].state = "none" /\ res[c].agr = NoAgreement
      BY <1>1 DEF SessionSound, BeforeStart, Pcs
    <2>2. res'[c].state = "running" /\ res'[c].agr = call[c].agr /\ \A e \in Calls \ {c} : res'[e] = res[e]
      BY <1>2 DEF Inv, TypeOK
    <2>3. call'[c] = [call[c] EXCEPT !.pc = "active"] /\ \A d \in Calls \ {c} : call'[d] = call[d]
      BY <1>2, GotoMoves DEF Pcs
    <2>4. /\ call'[c].pc = "active" /\ call'[c].agr = call[c].agr
          /\ call'[c].handle = call[c].handle /\ call'[c].fresh = call[c].fresh
      BY <1>1, <2>3 DEF CallStates
    <2>5. \A d \in Calls \ {c} : SessionSound(d, call'[d], rec', res')
      BY <1>1, <2>1, <2>2, <2>3, StartSound
    <2>r. rec' = rec
      BY <1>1
    <2>s. call[c] \in CallStates /\ SessionSound(c, call[c], rec, res)
      BY <1>1
    <2>6. /\ RefKeyed(rec, res')
          /\ call[c].handle # NoResource => res'[call[c].handle] = res[call[c].handle]
          /\ rec.ref # NoResource => res'[rec.ref] = res[rec.ref]
          /\ \A a : OnlyFor(res', a) => OnlyFor(res, a)
      BY <1>1, <2>1, <2>2, <2>s, StartSound
    <2>7. "active" \notin BeforeStart /\ "active" # "recover" /\ call[c].pc \in Restarting
      BY <1>1 DEF BeforeStart, Restarting
    <2>8. call[c].fresh /\ rec.ref # NoResource /\ res'[rec.ref].agr = call[c].agr =>
            res'[rec.ref].state # "running"
      BY <2>6, <2>7, <2>s DEF SessionSound
    <2>9. call[c].handle # NoResource => res'[call[c].handle].state # "none"
      BY <2>6, <2>s DEF SessionSound
    <2>10. call[c].handle # NoResource /\ res'[call[c].handle].state = "running"
             /\ OnlyFor(res', res'[call[c].handle].agr) => rec.ref = call[c].handle
      BY <2>6, <2>s DEF SessionSound
    <2>11. SessionSound(c, call'[c], rec, res')
      BY <2>2, <2>4, <2>7, <2>8, <2>9, <2>10 DEF SessionSound
    <2> QED
      BY <2>5, <2>6, <2>11, <2>r DEF SessionInv
  <1>3. CASE UNCHANGED res /\ Throw(c, "START_FAILED")
    BY <1>1, <1>3, ThrowPlain, PlainSession
  <1> QED
    BY <1>2, <1>3 DEF start

\* The write that names the new resource: the record named none of its agreement that
\* runs, and every other call now holds an old copy.
LEMMA Session_Active ==
  ASSUME Inv, SessionInv, Inv', NEW c \in Calls, Active(c)
  PROVE  SessionInv'
  <1> DEFINE r == [rec EXCEPT !.status = "ACTIVE", !.ref = c,
                              !.keys = @ \cup {<<"resource-start", call[c].agr>>}]
             n == [call[c] EXCEPT !.handle = c, !.pc = Return(c)]
  <1>1. /\ \A d \in Calls : call[d] \in CallStates /\ SessionSound(d, call[d], rec, res)
        /\ rec \in Records /\ RefKeyed(rec, res) /\ UNCHANGED res /\ call[c].pc = "active"
    BY Known DEF Active, outside
  <1>2. r.ref = c /\ <<"resource-start", call[c].agr>> \in r.keys
    BY <1>1 DEF Records
  <1>3. Return(c) \in {"commit", "session"}
    BY DEF Return
  <1>4. n.pc = Return(c) /\ n.handle = c
    BY <1>1 DEF CallStates
  <1>5. (call[c].fresh /\ Write(c, r, n)) \/ (UNCHANGED rec /\ Throw(c, "STALE_REVISION"))
    BY DEF Active, Cas, Unmoved
  <1>6. c # NoResource
    BY PurchaseAssumption
  <1> HIDE DEF r, n
  <1>7. CASE call[c].fresh /\ Write(c, r, n)
    <2>1. /\ rec' = r /\ call'[c] = n
          /\ \A d \in Calls \ {c} : call'[d] = [call[d] EXCEPT !.fresh = FALSE]
      BY <1>7 DEF Write
    <2>2. res[c].state # "none" /\ res[c].agr = call[c].agr /\ call[c].pc \in Restarting
      BY <1>1 DEF SessionSound, Restarting
    <2>3. RefKeyed(rec', res')
      BY <1>1, <1>2, <2>1, <2>2 DEF RefKeyed
    <2>4. SessionSound(c, call'[c], rec', res')
      BY <1>1, <1>2, <1>3, <1>4, <2>1, <2>2 DEF SessionSound, BeforeStart, Restarting
    <2>5. ASSUME NEW d \in Calls \ {c} PROVE SessionSound(d, call'[d], rec', res')
      <3>1. /\ call'[d].pc = call[d].pc /\ call'[d].handle = call[d].handle
            /\ call'[d].agr = call[d].agr /\ call'[d].fresh = FALSE
        BY <1>1, <2>1 DEF CallStates
      <3> DEFINE h == call[d].handle
      <3>2. ~(h # NoResource /\ res[h].state = "running" /\ OnlyFor(res, res[h].agr))
        <4> SUFFICES ASSUME h # NoResource, res[h].state = "running", OnlyFor(res, res[h].agr)
                     PROVE  FALSE
          OBVIOUS
        <4>1. rec.ref = h
          BY <1>1 DEF SessionSound
        <4>2. res[c].agr # NoAgreement
          BY <2>2, PurchaseAssumption DEF Inv, Started
        <4>3. res[h].agr = call[c].agr
          BY <2>2, <4>2 DEF OnlyFor
        <4> QED
          BY <1>1, <1>7, <2>2, <4>1, <4>3 DEF SessionSound
      <3> QED
        BY <1>1, <3>1, <3>2 DEF SessionSound
    <2> QED
      BY <2>3, <2>4, <2>5 DEF SessionInv
  <1>8. CASE UNCHANGED rec /\ Throw(c, "STALE_REVISION")
    BY <1>1, <1>8, ThrowPlain, PlainSession
  <1> QED
    BY <1>5, <1>7, <1>8

LEMMA Session_Finish ==
  ASSUME Inv, SessionInv, Inv', NEW r \in Calls, Finish(r)
  PROVE  SessionInv'
  <1>1. Fades(res, res') /\ UNCHANGED <<rec, call>>
    BY EndedFades DEF Finish, durable
  <1>2. SessionSound(r, call[r], rec, res) /\ call[r] \in CallStates /\ rec \in Records
    BY Known
  <1>3. SessionSound(r, call[r], rec, res')
    BY <1>1, <1>2, FadesSound
  <1>4. Plain(r)
    BY <1>1, <1>3 DEF Plain, Apart
  <1> QED
    BY <1>4, PlainSession

LEMMA Session_Crash ==
  ASSUME Inv, SessionInv, Crash
  PROVE  SessionInv'
  <1>1. UNCHANGED <<rec, res>> /\ \A c \in Calls : call'[c] \in {call[c], Over}
    BY DEF Crash, durable
  <1>2. ASSUME NEW c \in Calls PROVE SessionSound(c, call'[c], rec', res')
    <2>1. SessionSound(c, call[c], rec, res)
      BY Known
    <2>2. Tame(call[c], Over)
      BY DEF Tame, Over, Unmade, Restarting, BeforeStart
    <2> QED
      BY <1>1, <2>1, <2>2, TameSound
  <1> QED
    BY <1>1, <1>2 DEF SessionInv

LEMMA Session_Init ==
  Init => SessionInv
  BY DEF Init, SessionInv, SessionSound, RefKeyed, NoRecord, Unmade, Restarting

LEMMA Session_Next ==
  Inv /\ Inv' /\ SessionInv /\ [Next]_vars => SessionInv'
  <1> SUFFICES ASSUME Inv, Inv', SessionInv, [Next]_vars
               PROVE  SessionInv'
    OBVIOUS
  <1>1. CASE UNCHANGED vars
    BY <1>1 DEF vars, durable, outside, SessionInv
  <1>2. ASSUME NEW c \in Calls, Step(c)
        PROVE  SessionInv'
    <2>1. CASE start(c)
      BY <2>1, Session_start
    <2>2. CASE Active(c)
      BY <2>2, Session_Active
    <2>3. CASE ~start(c) /\ ~Active(c)
      <3>1. Plain(c)
        BY <1>2, <2>3, Plain_prepare, Plain_execute, Plain_pay, Plain_recover, Plain_Starting, Plain_close,
           Plain_conclude, Plain_recoverResource DEF Step
      <3> QED
        BY <3>1, PlainSession
    <2> QED
      BY <2>1, <2>2, <2>3
  <1>3. ASSUME NEW c \in Calls, Finish(c)
        PROVE  SessionInv'
    BY <1>3, Session_Finish
  <1>4. CASE Crash
    BY <1>4, Session_Crash
  <1> QED
    BY <1>1, <1>2, <1>3, <1>4 DEF Next

\* While every resource ever started for the intent is of one agreement, two callers
\* never hold two running ones, however many calls buy, overtake one another, retry,
\* close or die: the compare-and-set of the record (casPurchase) lets one of them name
\* its resource, and whoever comes later is sent to that one (recover).  Where calls on
\* standing terms and negotiated calls have both started a resource nothing is said:
\* the record names one of the two and both may run.
THEOREM OneSession ==
  Spec => []OneLiveSession
  <1>1. Inv /\ SessionInv => OneLiveSession
    <2> SUFFICES ASSUME Inv, SessionInv, NEW c \in Calls, NEW d \in Calls,
                        call[c].handle # NoResource, call[d].handle # NoResource,
                        res[call[c].handle].state = "running", res[call[d].handle].state = "running",
                        OnlyFor(res, res[call[c].handle].agr)
                 PROVE  call[c].handle = call[d].handle
      BY DEF OneLiveSession, OnlyFor
    <2>1. call[c].handle \in Calls /\ call[d].handle \in Calls
      BY Known DEF CallStates
    <2>2. res[call[d].handle].agr # NoAgreement
      BY <2>1, PurchaseAssumption DEF Inv, Started
    <2>3. res[call[d].handle].agr = res[call[c].handle].agr
      BY <2>1, <2>2 DEF OnlyFor
    <2>4. SessionSound(c, call[c], rec, res) /\ SessionSound(d, call[d], rec, res)
      BY Known
    <2> QED
      BY <2>3, <2>4 DEF SessionSound
  <1> QED
    BY <1>1, Inv_Holds, Session_Init, Session_Next, PTL DEF Spec
==============================================================================
