--------------------------- MODULE GovernedAction ---------------------------
(****************************************************************************)
(* Governed device actions of one agent run: AgentEdgeRuntime.executeAction *)
(* (packages/edge/src/agent-runtime.ts), the authority it asks for          *)
(* (packages/agent-policy, GrantBoundAutonomyPolicy over                    *)
(* SqliteRunStateStore), and the execution of an industrial action with its *)
(* durable operation record (packages/act-core).                            *)
(*                                                                          *)
(* A call of executeAction reads the run's totals, consumes its nonce,      *)
(* reserves a step, claims the operation, sends the command to the device,  *)
(* records the outcome and settles the reservation; calls interleave at     *)
(* each of these awaited steps.  Beside them the host reconciles and        *)
(* cancels operations and settles reservations.  The run store, the nonces  *)
(* and the operation records are durable, everything else dies in a crash.  *)
(*                                                                          *)
(* An operation is named by its operationId.  Spends, mandates and receipts *)
(* are left out: a reservation is one step of the run's budget.  A command  *)
(* is retried any number of times (policy.maxAttempts is not counted).      *)
(****************************************************************************)
EXTENDS Integers, FiniteSets

CONSTANTS
  Calls,         \* calls of executeAction; a retry is a call of its own
  Ops,           \* operation ids
  OpOf,          \* the operation a call prepares
  KeyOf,         \* its idempotencyKey, or NoKey
  NoKey,
  Jobs,          \* calls of reconcile and cancel running at one time
  MaxSteps, MaxParallel, MaxFailures,   \* profile.runLimits
  MaxCrashes     \* bound on crashes

ASSUME GovernedAssumption ==
  /\ OpOf \in [Calls -> Ops] /\ Ops # {}
  /\ IsFiniteSet(Calls)
  /\ MaxSteps \in Nat /\ MaxParallel \in Nat /\ MaxFailures \in Nat /\ MaxCrashes \in Nat

VARIABLES
  \* durable: SqliteRunStateStore and DeviceOperationStore
  nonces,    \* idempotency keys consumed
  resv,      \* status of the reservation of each call
  totals,    \* run.totals
  oprec,     \* status of the record of each operation
  \* configuration
  async,     \* operations whose definition is asynchronous
  \* in memory
  call,      \* running calls of executeAction
  job,       \* running calls of the operation lifecycle
  \* the device, time, and the bound
  sent,      \* the calls that sent the command of an operation
  device,    \* what the device makes of it
  reported,  \* operations a controller was asked about and reported as ended
  crashes

store == <<nonces, resv, totals>>
vars == <<store, oprec, async, call, job, sent, device, reported, crashes>>

\* Terminal statuses; failed stands for aborted, safe-stated, suppressed and
\* requires-reset too.  pending stands for accepted, running and reconciling.
Terminal == {"confirmed", "failed"}

\* A reservation that is overdue is still reserved in the store, past its TTL.
Reserved == {"reserved", "overdue"}
ResvStates == Reserved \cup {"none", "committed", "aborted", "unknown"}

\* room: the limits, evaluated on the totals that getRun returned.
\* result: of a command, before it is recorded; charged is a failure after dispatch.
CallStates ==
  [pc : {"start", "nonce", "reserve", "claim", "actuate", "wait", "record", "commit", "abort", "end"},
   room : BOOLEAN, result : {"none", "pending", "confirmed", "failed", "charged"}]
JobStates == [pc : {"idle", "poll", "write"}, op : Ops, cancel : BOOLEAN, new : Terminal \cup {"pending"}]

At(pc) == [pc |-> pc, room |-> FALSE, result |-> "none"]
Started == At("start")
Over == At("end")
NoJob == [pc |-> "idle", op |-> CHOOSE o \in Ops : TRUE, cancel |-> FALSE, new |-> "pending"]

Init ==
  /\ nonces = {} /\ resv = [c \in Calls |-> "none"]
  /\ totals = [committed |-> 0, reserved |-> 0, aborted |-> 0]
  /\ oprec = [o \in Ops |-> "none"] /\ async \in SUBSET Ops
  /\ call = [c \in Calls |-> Started] /\ job = [j \in Jobs |-> NoJob]
  /\ sent = [o \in Ops |-> {}] /\ device = [o \in Ops |-> "idle"]
  /\ reported = {} /\ crashes = 0

Goto(c, pc) == call' = [call EXCEPT ![c].pc = pc]
End(c) == call' = [call EXCEPT ![c] = Over]
Record(c, r) == call' = [call EXCEPT ![c] = [pc |-> "record", room |-> FALSE, result |-> r]]

------------------------------------------------------------------------------
(* authorizeAndReserve. *)

\* checkRunLimits.
WithinLimits(t) ==
  /\ t.committed + t.reserved < MaxSteps
  /\ t.reserved < MaxParallel
  /\ t.aborted < MaxFailures

\* getRun returns a copy of the totals, on which the limits are checked later.
getRun(c) ==
  /\ call[c].pc = "start"
  /\ call' = [call EXCEPT ![c] = [pc |-> "nonce", room |-> WithinLimits(totals), result |-> "none"]]
  /\ UNCHANGED <<async, store, oprec, job, sent, device, reported, crashes>>

\* INSERT OR IGNORE; without a key the nonce is new.
FreshNonce(c) == KeyOf[c] = NoKey \/ KeyOf[c] \notin nonces

\* checkNonce consumes the nonce, whatever the checks after it decide: limits,
\* transition, obligations and mandates may refuse.
checkNonce(c) ==
  /\ call[c].pc = "nonce"
  /\ nonces' = nonces \cup ({KeyOf[c]} \ {NoKey})
  /\ \/ FreshNonce(c) /\ call[c].room /\ call' = [call EXCEPT ![c] = At("reserve")]
     \/ End(c)
  /\ UNCHANGED <<async, resv, totals, oprec, job, sent, device, reported, crashes>>

\* reserveStep: one transaction, which does not look at the limits.
reserveStep(c) ==
  /\ call[c].pc = "reserve"
  /\ resv' = [resv EXCEPT ![c] = "reserved"]
  /\ totals' = [totals EXCEPT !.reserved = @ + 1]
  /\ Goto(c, "claim")
  /\ UNCHANGED <<async, nonces, oprec, job, sent, device, reported, crashes>>

------------------------------------------------------------------------------
(* execute of the industrial definition, and what its result does to the    *)
(* reservation.                                                             *)

\* Mutant: a failure of an asynchronous action releases its reservation.
BugReleasesAsync(o, r) ==
  CASE r \in {"confirmed", "charged"} -> "commit" [] r = "failed" -> "abort" [] OTHER -> "end"

\* settleResult and the classification of a thrown error: a result that was
\* dispatched is charged, a synchronous failure is released, the rest is held.
Disposition(o, r) ==
  CASE r \in {"confirmed", "charged"} -> "commit"
    [] r \in {"failed", "threw"} /\ o \notin async -> "abort"
    [] OTHER -> "end"

SettleAs(c, r) == call' = [call EXCEPT ![c] = At(Disposition(OpOf[c], r))]

\* Mutant: a record left in flight is taken over.
BugClaimsInFlight(o) == oprec[o] \in {"none", "in-flight"}
Unclaimed(o) == oprec[o] = "none"

\* resolveExisting: a terminal record is charged again, any other is pending.
Existing(o) == IF oprec[o] \in Terminal THEN "charged" ELSE "pending"

\* claimOperation.
claimOperation(c) ==
  LET o == OpOf[c] IN
  /\ call[c].pc = "claim"
  /\ \/ Unclaimed(o) /\ oprec' = [oprec EXCEPT ![o] = "in-flight"] /\ Goto(c, "actuate")
     \/ ~Unclaimed(o) /\ SettleAs(c, Existing(o)) /\ UNCHANGED oprec
  /\ UNCHANGED <<async, store, job, sent, device, reported, crashes>>

\* runWithPolicy sends the command.
actuate(c) ==
  /\ call[c].pc = "actuate"
  /\ sent' = [sent EXCEPT ![OpOf[c]] = @ \cup {c}]
  /\ Goto(c, "wait")
  /\ UNCHANGED <<async, store, oprec, job, device, reported, crashes>>

\* The device answered: that it has done, or, when an asynchronous action is
\* confirmed as accepted, that it has begun.
actuated(c) ==
  LET o == OpOf[c] IN
  /\ call[c].pc = "wait"
  /\ \/ device[o] = "done" /\ Record(c, "confirmed")
     \/ o \in async /\ device[o] \in {"running", "done"} /\ Record(c, "pending")
  /\ UNCHANGED <<async, store, oprec, job, sent, device, reported, crashes>>

\* An error or the timeout: another attempt, the failure mode's outcome, or the
\* fallback of fail-operational.
notActuated(c) ==
  /\ call[c].pc = "wait"
  /\ \/ Goto(c, "actuate")
     \/ \E r \in {"failed", "charged", "confirmed"} : Record(c, r)
  /\ UNCHANGED <<async, store, oprec, job, sent, device, reported, crashes>>

\* A store, an event sink, actuate or the settlement of a metered result rejects.
Throw(c) ==
  /\ call[c].pc \in {"claim", "actuate", "wait", "record", "commit"}
  /\ SettleAs(c, "threw")
  /\ UNCHANGED <<async, store, oprec, job, sent, device, reported, crashes>>

\* transitionOperation replaces the record, whatever it is by now.
transitionOperation(c) ==
  LET r == call[c].result IN
  /\ call[c].pc = "record"
  /\ oprec' = [oprec EXCEPT ![OpOf[c]] = IF r = "charged" THEN "failed" ELSE r]
  /\ SettleAs(c, r)
  /\ UNCHANGED <<async, store, job, sent, device, reported, crashes>>

------------------------------------------------------------------------------
(* Settling the reservation. *)

Set(c, status) == resv' = [resv EXCEPT ![c] = status]
\* bumpRunTotal and foldReceiptIntoRun stop at zero.
Less(n) == IF n = 0 THEN 0 ELSE n - 1
Charge == totals' = [totals EXCEPT !.committed = @ + 1, !.reserved = Less(@)]
Free == totals' = [totals EXCEPT !.aborted = @ + 1, !.reserved = Less(@)]

\* Mutant: the status is not looked at.
BugAnyStatus(c) == TRUE
IsReserved(c) == resv[c] \in Reserved

\* commitStep: a reservation that is overdue becomes unknown instead.
commitStep(c) ==
  /\ call[c].pc = "commit"
  /\ IF IsReserved(c) /\ resv[c] # "overdue"
     THEN Set(c, "committed") /\ Charge
     ELSE /\ Set(c, IF resv[c] = "overdue" THEN "unknown" ELSE resv[c])
          /\ UNCHANGED totals
  /\ End(c)
  /\ UNCHANGED <<async, nonces, oprec, job, sent, device, reported, crashes>>

\* abortStep returns when the reservation is not reserved any more.
abortStep(c) ==
  /\ call[c].pc = "abort"
  /\ IF IsReserved(c) THEN Set(c, "aborted") /\ Free ELSE UNCHANGED <<resv, totals>>
  /\ End(c)
  /\ UNCHANGED <<async, nonces, oprec, job, sent, device, reported, crashes>>

\* Mutant: a settled reservation is settled again.
BugSettlesAgain(c) == resv[c] # "none"
Unsettled(c) == resv[c] \in {"unknown", "overdue"}

\* settleReservation, also of an overdue reservation: the metered result of the
\* call itself, or what the host reads from the operation's final record; the host
\* says not-dispatched only of a call that is over and sent nothing.
settleReservation(c) ==
  /\ resv[c] = "reserved" \/ Unsettled(c)
  /\ \/ /\ \/ call[c].pc = "commit" /\ End(c)
           \/ call[c].pc = "end" /\ oprec[OpOf[c]] \in Terminal /\ UNCHANGED call
        /\ Set(c, "committed") /\ Charge
     \/ /\ call[c].pc = "end" /\ c \notin sent[OpOf[c]] /\ UNCHANGED call
        /\ Set(c, "aborted") /\ Free
  /\ UNCHANGED <<async, nonces, oprec, job, sent, device, reported, crashes>>

\* recoverReservations.
recoverReservations ==
  /\ \E c \in Calls : resv[c] = "overdue"
  /\ resv' = [c \in Calls |-> IF resv[c] = "overdue" THEN "unknown" ELSE resv[c]]
  /\ UNCHANGED <<async, nonces, totals, oprec, call, job, sent, device, reported, crashes>>

\* reconcileReservation: the host says definitely-not-executed only of a call
\* that is over and sent nothing, completed only of a final record.
reconcileReservation(c) ==
  /\ Unsettled(c)
  /\ \/ oprec[OpOf[c]] \in Terminal /\ Set(c, "committed") /\ Charge
     \/ call[c].pc = "end" /\ c \notin sent[OpOf[c]] /\ Set(c, "aborted") /\ Free
  /\ UNCHANGED <<async, nonces, oprec, call, job, sent, device, reported, crashes>>

------------------------------------------------------------------------------
(* The operation lifecycle. *)

\* reconcile refuses an operation in flight; cancel does not.
load(j, o, cancel) ==
  /\ job[j] = NoJob
  /\ oprec[o] = "pending" \/ (cancel /\ oprec[o] = "in-flight")
  /\ job' = [job EXCEPT ![j] = [pc |-> "poll", op |-> o, cancel |-> cancel, new |-> "pending"]]
  /\ UNCHANGED <<async, store, oprec, call, sent, device, reported, crashes>>

\* What the controller answers: to reconcile, anything, whether or not the command
\* reached it (adapters read the state of the device); an answer to a cancellation
\* proves nothing.
Progress(k) == {"pending"} \cup (IF k.cancel THEN {} ELSE Terminal)

poll(j) ==
  /\ job[j].pc = "poll"
  /\ \E s \in Progress(job[j]) :
       /\ job' = [job EXCEPT ![j] = [pc |-> "write", op |-> @.op, cancel |-> @.cancel, new |-> s]]
       /\ reported' = IF s \in Terminal THEN reported \cup {job[j].op} ELSE reported
  /\ UNCHANGED <<async, store, oprec, call, sent, device, crashes>>

\* The record is replaced, whatever it is by now.
transition(j) ==
  /\ job[j].pc = "write"
  /\ oprec' = [oprec EXCEPT ![job[j].op] = job[j].new]
  /\ job' = [job EXCEPT ![j] = NoJob]
  /\ UNCHANGED <<async, store, call, sent, device, reported, crashes>>

------------------------------------------------------------------------------
\* The device takes up a command some time after it was sent, and ends it.
Device(o) ==
  /\ sent[o] # {}
  /\ \/ device[o] = "idle" /\ device' = [device EXCEPT ![o] = "running"]
     \/ /\ device[o] = "running"
        /\ \E s \in {"done", "failed"} : device' = [device EXCEPT ![o] = s]
  /\ UNCHANGED <<async, store, oprec, call, job, sent, reported, crashes>>

Expire(c) ==
  /\ resv[c] = "reserved"
  /\ Set(c, "overdue")
  /\ UNCHANGED <<async, nonces, totals, oprec, call, job, sent, device, reported, crashes>>

Crash ==
  /\ crashes < MaxCrashes /\ crashes' = crashes + 1
  /\ call' = [c \in Calls |-> IF call[c] = Started THEN Started ELSE Over]
  /\ job' = [j \in Jobs |-> NoJob]
  /\ UNCHANGED <<async, store, oprec, sent, device, reported>>

Execute(c) ==
  \/ getRun(c) \/ checkNonce(c) \/ reserveStep(c)
  \/ claimOperation(c) \/ actuate(c) \/ actuated(c) \/ notActuated(c) \/ Throw(c)
  \/ transitionOperation(c)
  \/ commitStep(c) \/ abortStep(c)

Host ==
  \/ recoverReservations
  \/ \E c \in Calls : settleReservation(c) \/ reconcileReservation(c)
  \/ \E j \in Jobs : poll(j) \/ transition(j)
  \/ \E j \in Jobs, o \in Ops, cancel \in BOOLEAN : load(j, o, cancel)

Next ==
  \/ \E c \in Calls : Execute(c) \/ Expire(c)
  \/ Host
  \/ \E o \in Ops : Device(o)
  \/ Crash

Spec == Init /\ [][Next]_vars

------------------------------------------------------------------------------
(* Correctness. *)

\* The stores, calls and counters have the shape the code gives them.
TypeOK ==
  /\ nonces \subseteq {KeyOf[c] : c \in Calls}
  /\ resv \in [Calls -> ResvStates]
  /\ totals \in [committed : 0 .. Cardinality(Calls), reserved : 0 .. Cardinality(Calls),
                 aborted : 0 .. Cardinality(Calls)]
  /\ oprec \in [Ops -> {"none", "in-flight", "pending"} \cup Terminal]
  /\ call \in [Calls -> CallStates] /\ job \in [Jobs -> JobStates]
  /\ async \subseteq Ops /\ sent \in [Ops -> SUBSET Calls]
  /\ device \in [Ops -> {"idle", "running", "done", "failed"}] /\ reported \subseteq Ops
  /\ crashes \in 0 .. MaxCrashes

\* One call at most ever sends the command of an operation, over duplicate and
\* retried calls, cancellations that rewrite its record, and restarts
\* (claimOperation; "at-most-once guarantee").
ActuatedByOne == \A o \in Ops : \A c, d \in sent[o] : c = d

\* The run's counters count its reservations, whichever of the call, the expiry
\* and the host comes first in settling each of them.
TotalsAccounted ==
  /\ totals.committed = Cardinality({c \in Calls : resv[c] = "committed"})
  /\ totals.reserved = Cardinality({c \in Calls : resv[c] \in Reserved \cup {"unknown"}})
  /\ totals.aborted = Cardinality({c \in Calls : resv[c] = "aborted"})

\* Budget is charged only for an operation that was sent to the device, or that its
\* controller reported as ended, never for one that is just claimed or held; and an
\* asynchronous call that sent a command never gets its budget back, however it timed
\* out, threw, expired or crashed (settleResult, resolveExisting, settleReservation).
BudgetFollowsDevice ==
  \A c \in Calls :
    /\ resv[c] = "committed" => sent[OpOf[c]] # {} \/ OpOf[c] \in reported
    /\ resv[c] = "aborted" /\ OpOf[c] \in async => c \notin sent[OpOf[c]]

\* A reservation is settled at most once.
SettledFinal ==
  [][\A c \in Calls : resv[c] \in {"committed", "aborted"} => resv'[c] = resv[c]]_vars

------------------------------------------------------------------------------
(* The inductive invariant behind the safety properties. *)

\* A call is engaged once it has claimed the operation and may send its command.
Engaged(c) == call[c].pc \in {"actuate", "wait", "record"} \/ c \in sent[OpOf[c]]

\* An operation has one engaged call, and a record from then on.
OneEngaged ==
  /\ \A o \in Ops : \A c \in sent[o] : OpOf[c] = o
  /\ \A c \in Calls : Engaged(c) => ~Unclaimed(OpOf[c])
  /\ \A c, d \in Calls : Engaged(c) /\ Engaged(d) /\ OpOf[c] = OpOf[d] => c = d
  /\ \A c \in Calls : call[c].pc = "record" => call[c].result # "none"

\* An operation that may have run.
Backed(o) == sent[o] # {} \/ o \in reported

\* What says that an operation ran follows a command that was sent or a report.
FollowsDevice ==
  /\ \A o \in Ops : device[o] # "idle" => sent[o] # {}
  /\ \A o \in Ops : oprec[o] \in Terminal => Backed(o)
  /\ \A j \in Jobs : job[j].new \in Terminal => job[j].op \in reported
  /\ \A c \in Calls : call[c].pc \in {"wait", "record"} => c \in sent[OpOf[c]]
  /\ \A c \in Calls : call[c].pc = "commit" \/ resv[c] = "committed" => Backed(OpOf[c])

\* A call that releases its budget is synchronous, or over without having sent.
ReleasedUnsent ==
  /\ \A c \in Calls : call[c].pc = "abort" => OpOf[c] \notin async
  /\ \A c \in Calls : resv[c] = "aborted" /\ OpOf[c] \in async =>
       call[c].pc = "end" /\ c \notin sent[OpOf[c]]

\* A call reserves once.
ReservesOnce == \A c \in Calls : call[c].pc \in {"start", "nonce", "reserve"} => resv[c] = "none"

\* The conjunction that every step preserves.
IndInv == TypeOK /\ OneEngaged /\ FollowsDevice /\ ReleasedUnsent /\ ReservesOnce /\ TotalsAccounted
==============================================================================
