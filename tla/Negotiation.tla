----------------------------- MODULE Negotiation -----------------------------
(****************************************************************************)
(* One negotiation of packages/edge/src/purchasing between a buyer and a    *)
(* seller: NegotiationEngine on both sides (engine.ts), its stores          *)
(* (store.ts), the outbox and its drainer (outbox.ts, outbox-drainer.ts),   *)
(* the replay ledger (messages.ts, ingress.ts), the buyer's loop (buyer.ts) *)
(* and the seller's handlers (seller.ts), with work admission disabled.     *)
(*                                                                          *)
(* Every engine operation is two or three steps of a task: it reads the     *)
(* record and checks it, then replaces the record by compare-and-set on the *)
(* revision it read, then releases the principal's admission slot.  Tasks   *)
(* of one side interleave at these awaits.                                  *)
(*                                                                          *)
(* A proposal is its round: even rounds are the buyer's, odd rounds the     *)
(* seller's.  Terms, signatures and the cooldown are left out.  The records,*)
(* slots, ledgers and outboxes are durable; fullProposals, the buyer's loop *)
(* and its inbound queue are in memory.                                     *)
(****************************************************************************)
EXTENDS Integers, FiniteSets

CONSTANTS
  Handlers,    \* per side, the inbound and application calls running at one time
  MaxRounds,   \* limits.maxRounds: rounds 0 .. MaxRounds - 1 are allowed
  MaxCalls,    \* bound on the application's calls of the engine
  MaxCrashes   \* bound on crashes

ASSUME NegotiationAssumption ==
  /\ DOMAIN Handlers = {"buyer", "seller"}
  /\ "loop" \notin Handlers["buyer"] \cup Handlers["seller"]
  /\ MaxRounds \in Nat \ {0}
  /\ MaxCalls \in Nat
  /\ MaxCrashes \in Nat

VARIABLES
  \* durable, per side
  rec,       \* NegotiationStore
  slot,      \* PrincipalNegotiationStore: TRUE iff the negotiation holds a slot
  outbox,    \* undelivered entries of OutboxStore
  ledger,    \* ReplayLedger
  \* in memory, per side
  full,      \* NegotiationEngine.fullProposals
  inbox,     \* EdgeBuyer.inboundQueues
  task,      \* the calls in progress
  up,        \* FALSE between a crash and the end of recoverPurchases
  \* time, and bounds
  expired,   \* TRUE iff now > record.expiresAt on the side's clock
  calls, crashes

durable == <<rec, slot, outbox, ledger>>
volatile == <<full, inbox, task, up>>
vars == <<durable, volatile, expired, calls, crashes>>

Sides == {"buyer", "seller"}
Other(s) == IF s = "buyer" THEN "seller" ELSE "buyer"
Proposer(p) == IF p % 2 = 0 THEN "buyer" ELSE "seller"

Tasks(s) == Handlers[s] \cup IF s = "buyer" THEN {"loop"} ELSE {}
Rounds == 0 .. MaxRounds
Live == {"OPEN", "NEGOTIATING"}
Terminal == {"AGREED", "REJECTED", "CANCELLED", "EXHAUSTED", "EXPIRED"}

\* head is the round of the head proposal, -1 before the first.
Records == [state : {"none"} \cup Live \cup Terminal, head : -1 .. MaxRounds - 1,
            rev : 0 .. MaxRounds + 2]
NoRecord == [state |-> "none", head |-> -1, rev |-> 0]

Messages == [type : {"proposal", "acceptance", "rejection", "cancellation"},
             p : Rounds, from : Sides]
Message(type, p, s) == [type |-> type, p |-> p, from |-> s]
NoMessage == [type |-> "none", p |-> 0, from |-> "buyer"]

\* own: the operation is this side's decision, and not the inbound message's.
TaskStates ==
  [pc : {"idle", "wait", "find", "open", "create", "read", "cas", "close", "decide",
         "enqueue", "complete"},
   op : {"propose", "accept", "reject", "cancel", "expire", "exhaust", "state"},
   p : Rounds, own : BOOLEAN, msg : Messages \cup {NoMessage}, snap : Records]
Idle == [pc |-> "idle", op |-> "state", p |-> 0, own |-> TRUE, msg |-> NoMessage,
         snap |-> NoRecord]

Init ==
  /\ rec = [s \in Sides |-> NoRecord]
  /\ slot = [s \in Sides |-> FALSE]
  /\ outbox = [s \in Sides |-> {}]
  /\ ledger = [s \in Sides |-> [m \in Messages |-> "none"]]
  /\ full = [s \in Sides |-> {}]
  /\ inbox = {}
  /\ task = [s \in Sides |-> [t \in Tasks(s) |->
       IF t = "loop" THEN [Idle EXCEPT !.pc = "open", !.op = "propose"] ELSE Idle]]
  /\ up = [s \in Sides |-> TRUE]
  /\ expired = [s \in Sides |-> FALSE]
  /\ calls = 0 /\ crashes = 0

Set(s, t, new) == task' = [task EXCEPT ![s][t] = new]
Goto(s, t, pc) == Set(s, t, [task[s][t] EXCEPT !.pc = pc, !.snap = NoRecord])
Decided(s, t, op, p) ==
  Set(s, t, [task[s][t] EXCEPT !.pc = "read", !.op = op, !.p = p, !.own = TRUE])

\* A call that throws: a handler answers its sender with the error and notes the
\* message as completed; the buyer's loop and the application's call end.
Throw(s, t) ==
  Set(s, t, IF task[s][t].msg = NoMessage THEN Idle
            ELSE [task[s][t] EXCEPT !.pc = "complete", !.op = "state", !.p = 0,
                                  !.own = FALSE, !.snap = NoRecord])

\* What a call does once its engine operation is done.
Continue(s, t) ==
  LET c == task[s][t] IN
  IF c.op \in {"expire", "exhaust", "state"} THEN Throw(s, t)
  ELSE IF c.own /\ (t = "loop" \/ c.op = "propose") THEN Goto(s, t, "enqueue")
  ELSE IF c.msg = NoMessage THEN Set(s, t, Idle)
  ELSE Goto(s, t, IF s = "seller" /\ ~c.own /\ c.op = "propose" THEN "decide" ELSE "complete")

------------------------------------------------------------------------------
(* NegotiationEngine. *)

\* seller.ts ensureNegotiationForProposal.
ensureNegotiationForProposal(s, t) ==
  /\ task[s][t].pc = "find"
  /\ Goto(s, t, IF rec[s].state = "none" THEN "open" ELSE "read")
  /\ UNCHANGED <<durable, full, inbox, up, expired, calls, crashes>>

\* principalStore.tryOpen: other negotiations may have used up the limits.
tryOpen(s, t) ==
  /\ task[s][t].pc = "open"
  /\ \/ slot' = [slot EXCEPT ![s] = TRUE] /\ Goto(s, t, "create")
     \/ Throw(s, t) /\ UNCHANGED slot
  /\ UNCHANGED <<rec, outbox, ledger, full, inbox, up, expired, calls, crashes>>

\* store.create throws when the record exists; the slot stays.
create(s, t) ==
  /\ task[s][t].pc = "create"
  /\ IF rec[s].state = "none"
     THEN /\ rec' = [rec EXCEPT ![s] = [NoRecord EXCEPT !.state = "OPEN", !.rev = 1]]
          /\ Goto(s, t, "read")
     ELSE Throw(s, t) /\ UNCHANGED rec
  /\ UNCHANGED <<slot, outbox, ledger, full, inbox, up, expired, calls, crashes>>

\* Mutant: one round more than the limit.
BugRoundOff(p) == p > MaxRounds
ExceedsRounds(p) == p >= MaxRounds

\* The proposal answered is the newest one.
IsHead(s, p) == p = rec[s].head

\* What the engine refuses of a live negotiation, leaving the record as it is.
Refused(s, c) ==
  \/ c.op = "state"
  \/ c.op = "propose" /\ c.p # rec[s].head + 1
  \/ c.op = "accept" /\ (~IsHead(s, c.p) \/ c.p \notin full[s])
  \/ c.op = "reject" /\ ~IsHead(s, c.p)

\* The checks of submitProposal, acceptProposal, rejectProposal, cancelNegotiation
\* after the record was read: the operation to attempt, "throw" when refused.
Checked(s, c) ==
  IF rec[s].state \notin Live THEN "throw"
  ELSE IF expired[s] /\ c.op # "cancel" THEN "expire"
  ELSE IF c.op = "propose" /\ ExceedsRounds(c.p) THEN "exhaust"
  ELSE IF Refused(s, c) THEN "throw" ELSE c.op

Read(s, t) ==
  LET op == Checked(s, task[s][t]) IN
  /\ task[s][t].pc = "read"
  /\ IF op = "throw" THEN Throw(s, t)
     ELSE Set(s, t, [task[s][t] EXCEPT !.pc = "cas", !.op = op, !.snap = rec[s]])
  /\ UNCHANGED <<durable, full, inbox, up, expired, calls, crashes>>

\* proposal.expiresAt has passed.
ProposalExpired(s, t) ==
  /\ task[s][t].pc = "read" /\ Checked(s, task[s][t]) = "propose"
  /\ Throw(s, t)
  /\ UNCHANGED <<durable, full, inbox, up, expired, calls, crashes>>

Outcome(op) ==
  CASE op = "propose" -> "NEGOTIATING" [] op = "accept" -> "AGREED"
    [] op = "reject" -> "REJECTED"     [] op = "cancel" -> "CANCELLED"
    [] op = "expire" -> "EXPIRED"      [] op = "exhaust" -> "EXHAUSTED"

\* The record as the operation derives it from the one it read.
Advanced(c) ==
  [c.snap EXCEPT !.state = Outcome(c.op), !.rev = @ + 1,
                 !.head = IF c.op = "propose" THEN c.p ELSE @]

\* transitionAndEnqueue puts the acceptance for the other side in the outbox in
\* the transaction that makes the record AGREED.
Enqueued(s, c) == IF c.op = "accept" THEN {Message("acceptance", c.p, s)} ELSE {}

\* Mutant: the record is replaced without comparing revisions.
BugNoCas(s, c) == TRUE
Current(s, c) == rec[s].rev = c.snap.rev

compareAndSet(s, t) ==
  LET c == task[s][t] IN
  /\ c.pc = "cas"
  /\ Current(s, c)
  /\ rec' = [rec EXCEPT ![s] = Advanced(c)]
  /\ outbox' = [outbox EXCEPT ![s] = @ \cup Enqueued(s, c)]
  /\ full' = [full EXCEPT ![s] = @ \cup IF c.op = "propose" THEN {c.p} ELSE {}]
  /\ IF c.op = "propose" THEN Continue(s, t) ELSE Goto(s, t, "close")
  /\ UNCHANGED <<slot, ledger, inbox, up, expired, calls, crashes>>

\* Mutant: the acceptance is enqueued although the record was advanced.
BugEnqueuesStale(s, t) ==
  /\ task[s][t].pc = "cas"
  /\ ~Current(s, task[s][t])
  /\ Throw(s, t)
  /\ outbox' = [outbox EXCEPT ![s] = @ \cup Enqueued(s, task[s][t])]
  /\ UNCHANGED <<rec, slot, ledger, full, inbox, up, expired, calls, crashes>>

StaleRevision(s, t) ==
  /\ task[s][t].pc = "cas"
  /\ ~Current(s, task[s][t])
  /\ Throw(s, t)
  /\ UNCHANGED <<durable, full, inbox, up, expired, calls, crashes>>

close(s, t) ==
  /\ task[s][t].pc = "close"
  /\ slot' = [slot EXCEPT ![s] = FALSE]
  /\ Continue(s, t)
  /\ UNCHANGED <<rec, outbox, ledger, full, inbox, up, expired, calls, crashes>>

------------------------------------------------------------------------------
(* Deciding, sending and receiving. *)

\* strategy.evaluate, then signAcceptance, signRejection or buildCounterProposal.
Evaluate(s, t, p) ==
  \E op \in {"accept", "reject", "propose"} :
    Decided(s, t, op, IF op = "propose" THEN p + 1 ELSE p)

\* seller.ts onTradeProposal.
decide(t) ==
  /\ task["seller"][t].pc = "decide"
  /\ Evaluate("seller", t, task["seller"][t].p)
  /\ UNCHANGED <<durable, full, inbox, up, expired, calls, crashes>>

\* buyer.ts negotiateOverTransport: the loop takes the next inbound message.
Respond ==
  /\ task["buyer"]["loop"].pc = "wait"
  /\ \E m \in inbox :
       /\ inbox' = inbox \ {m}
       /\ CASE m.type = "proposal" -> Evaluate("buyer", "loop", m.p)
            [] m.type = "acceptance" ->
                 Set("buyer", "loop", [task["buyer"]["loop"] EXCEPT
                   !.pc = "read", !.op = "accept", !.p = m.p, !.own = FALSE])
            [] OTHER -> Set("buyer", "loop", Idle)
  /\ UNCHANGED <<durable, full, up, expired, calls, crashes>>

\* waitForInbound gives up.
Timeout ==
  /\ task["buyer"]["loop"].pc = "wait"
  /\ Set("buyer", "loop", Idle)
  /\ UNCHANGED <<durable, full, inbox, up, expired, calls, crashes>>

\* enqueueOutbound.  The buyer enqueues its acceptance although the engine did,
\* and waits for an answer to everything but a rejection.
Enqueue(s, t) ==
  LET c == task[s][t] IN
  /\ c.pc = "enqueue"
  /\ outbox' = [outbox EXCEPT ![s] = @ \cup
       {Message(CASE c.op = "propose" -> "proposal" [] c.op = "accept" -> "acceptance"
                  [] c.op = "reject" -> "rejection", c.p, s)}]
  /\ CASE t # "loop" -> Goto(s, t, "complete")
       [] t = "loop" /\ c.op = "reject" -> Set(s, t, Idle)
       [] OTHER -> Set(s, t, [Idle EXCEPT !.pc = "wait"])
  /\ UNCHANGED <<rec, slot, ledger, full, inbox, up, expired, calls, crashes>>

\* ReplayLedger.claim.  A claim whose lease has passed is taken over: its task is
\* gone, or is waiting for the strategy, which alone may outlast the lease.
Claimable(s, m) ==
  \/ ledger[s][m] = "none"
  \/ /\ ledger[s][m] = "processing"
     /\ \A t \in Handlers[s] : task[s][t].msg = m => task[s][t].pc = "decide"

OpFor(m) == CASE m.type = "proposal" -> "propose" [] m.type = "acceptance" -> "accept"
              [] m.type = "rejection" -> "reject" [] m.type = "cancellation" -> "cancel"

\* The drainer sends an entry, and handleInbound of the other side claims it.
Deliver(s, m, t) ==
  /\ m \in outbox[Other(s)] /\ up[Other(s)]
  /\ up[s] /\ task[s][t] = Idle
  /\ Claimable(s, m)
  /\ ledger' = [ledger EXCEPT ![s][m] = "processing"]
  /\ Set(s, t, [Idle EXCEPT !.op = OpFor(m), !.p = m.p, !.own = FALSE, !.msg = m,
                  !.pc = IF s = "seller" /\ m.type = "proposal" THEN "find" ELSE "read"])
  /\ UNCHANGED <<rec, slot, outbox, full, inbox, up, expired, calls, crashes>>

\* replayLedger.complete, after deliverInbound on the buyer's side: of a proposal
\* when it was recorded, of anything else always.  Sending a completed message
\* again has no effect, so that its entry leaves the outbox here.
complete(s, t) ==
  LET c == task[s][t] IN
  /\ c.pc = "complete"
  /\ ledger' = [ledger EXCEPT ![s][c.msg] = "completed"]
  /\ inbox' = IF s = "buyer" /\ (c.msg.type = "proposal" => c.op = "propose")
              THEN inbox \cup {c.msg} ELSE inbox
  /\ outbox' = [outbox EXCEPT ![Other(s)] = @ \ {c.msg}]
  /\ Set(s, t, Idle)
  /\ UNCHANGED <<rec, slot, full, up, expired, calls, crashes>>

\* The transport returned a receipt, for which it is enough that the message was
\* claimed: a replayed message is answered as a handled one is.
markDelivered(s, m) ==
  /\ m \in outbox[s] /\ up[s]
  /\ ledger[Other(s)][m] = "processing"
  /\ outbox' = [outbox EXCEPT ![s] = @ \ {m}]
  /\ UNCHANGED <<rec, slot, ledger, volatile, expired, calls, crashes>>

\* The application calls cancelNegotiation or getState of the engine.
Application(s, t, op) ==
  /\ calls < MaxCalls /\ calls' = calls + 1
  /\ up[s] /\ task[s][t] = Idle
  /\ rec[s].state \in Live
  /\ op = "state" => expired[s]
  /\ Set(s, t, [Idle EXCEPT !.pc = "read", !.op = op])
  /\ UNCHANGED <<durable, full, inbox, up, expired, crashes>>

\* buyer.ts enqueueMessage: the application tells the seller of its cancellation.
enqueueMessage ==
  /\ up["buyer"] /\ rec["buyer"].state = "CANCELLED"
  /\ ledger["seller"][Message("cancellation", 0, "buyer")] # "completed"
  /\ outbox' = [outbox EXCEPT !["buyer"] = @ \cup {Message("cancellation", 0, "buyer")}]
  /\ UNCHANGED <<rec, slot, ledger, volatile, expired, calls, crashes>>

------------------------------------------------------------------------------
Expire(s) ==
  /\ ~expired[s] /\ rec[s].state # "none"
  /\ expired' = [expired EXCEPT ![s] = TRUE]
  /\ UNCHANGED <<durable, volatile, calls, crashes>>

Crash(s) ==
  /\ crashes < MaxCrashes /\ up[s]
  /\ crashes' = crashes + 1
  /\ up' = [up EXCEPT ![s] = FALSE]
  /\ task' = [task EXCEPT ![s] = [t \in Tasks(s) |-> Idle]]
  /\ full' = [full EXCEPT ![s] = {}]
  /\ inbox' = IF s = "buyer" THEN {} ELSE inbox
  /\ UNCHANGED <<durable, expired, calls>>

\* create-edge.ts recoverPurchases, before the transport is started: slots of
\* negotiations that are not recoverable are released.
\* Mutant: every slot is released at a restart.
BugForgetsLive(s) == FALSE
\* Mutant: slots of ended negotiations survive a restart.
BugKeepsEnded(s) == rec[s].state # "none"
Recoverable(s) == rec[s].state \in Live
recoverPurchases(s) ==
  /\ ~up[s]
  /\ slot' = [slot EXCEPT ![s] = @ /\ Recoverable(s)]
  /\ up' = [up EXCEPT ![s] = TRUE]
  /\ UNCHANGED <<rec, outbox, ledger, full, inbox, task, expired, calls, crashes>>

Step(s, t) ==
  \/ ensureNegotiationForProposal(s, t) \/ tryOpen(s, t) \/ create(s, t)
  \/ Read(s, t) \/ ProposalExpired(s, t)
  \/ compareAndSet(s, t) \/ StaleRevision(s, t) \/ close(s, t)
  \/ Enqueue(s, t) \/ complete(s, t)

Next ==
  \/ \E s \in Sides : \E t \in Tasks(s) : Step(s, t)
  \/ \E t \in Handlers["seller"] : decide(t)
  \/ Respond \/ Timeout \/ enqueueMessage
  \/ \E s \in Sides, m \in Messages : \E t \in Handlers[s] : Deliver(s, m, t)
  \/ \E s \in Sides, m \in Messages : markDelivered(s, m)
  \/ \E s \in Sides, op \in {"cancel", "state"} : \E t \in Handlers[s] : Application(s, t, op)
  \/ \E s \in Sides : Expire(s) \/ Crash(s) \/ recoverPurchases(s)

Spec == Init /\ [][Next]_vars

------------------------------------------------------------------------------
(* Properties. *)

\* The stores, queues and calls have the shape the code gives them.
TypeOK ==
  /\ rec \in [Sides -> Records]
  /\ slot \in [Sides -> BOOLEAN] /\ up \in [Sides -> BOOLEAN] /\ expired \in [Sides -> BOOLEAN]
  /\ outbox \in [Sides -> SUBSET Messages]
  /\ ledger \in [Sides -> [Messages -> {"none", "processing", "completed"}]]
  /\ full \in [Sides -> SUBSET Rounds]
  /\ inbox \subseteq Messages
  /\ DOMAIN task = Sides /\ \A s \in Sides : task[s] \in [Tasks(s) -> TaskStates]
  /\ calls \in 0 .. MaxCalls /\ crashes \in 0 .. MaxCrashes

Agreed(s) == rec[s].state = "AGREED"

\* Two sides that both hold an agreement hold one on the same proposal, and a side
\* holds an agreement on a proposal of its own only if the other side has committed
\* to it: no acceptance leaves a side that did not agree, however accepting,
\* countering, cancelling, replays and restarts interleave.
AgreementBacked ==
  \A s \in Sides : Agreed(s) =>
    /\ Agreed(Other(s)) => rec[Other(s)].head = rec[s].head
    /\ Proposer(rec[s].head) = s => Agreed(Other(s))

\* A negotiation that ended stays as it ended, whatever calls were under way.
TerminalFinal == [][\A s \in Sides : rec[s].state \in Terminal => rec'[s] = rec[s]]_vars

\* Every live negotiation holds its admission slot, so that the principal's limit on
\* concurrent negotiations counts it.
LiveHoldsSlot == \A s \in Sides : rec[s].state \in Live => slot[s]

\* A slot without a live negotiation is about to be used or released by a call in
\* progress, or the side is down and recoverPurchases releases it: no crash, replay
\* or failed open leaks capacity.
SlotAccounted ==
  \A s \in Sides : slot[s] /\ rec[s].state \notin Live =>
    ~up[s] \/ \E t \in Tasks(s) : task[s][t].pc \in {"create", "close"}

------------------------------------------------------------------------------
(* The inductive invariant of NegotiationProofs.  What depends on the records *)
(* takes them as r, so that a fact about the records before a step can be     *)
(* carried to the records after it.                                           *)

AgreedOn(r, s, p) == r[s].state = "AGREED" /\ r[s].head = p

\* A proposal was recorded by its author, an acceptance was agreed to by its sender.
Backed(m, r) ==
  /\ m.type = "proposal" => Proposer(m.p) = m.from /\ m.p <= r[m.from].head
  /\ m.type = "acceptance" => AgreedOn(r, m.from, m.p)

\* Every transition adds one to the revision, and every proposal one to the head.
RecordsFormed ==
  \A s \in Sides :
    /\ rec[s].state = "none" => rec[s] = NoRecord
    /\ rec[s].state \in Live => rec[s].rev = rec[s].head + 2
    /\ rec[s].state \in Terminal => rec[s].rev = rec[s].head + 3

\* No side is more than a round ahead, and its head is its own proposal when it is.
HeadsClose ==
  \A s \in Sides :
    /\ rec[s].head <= rec[Other(s)].head + 1
    /\ rec[s].head >= 0 /\ Proposer(rec[s].head) = Other(s) => rec[s].head <= rec[Other(s)].head

\* What a call in progress looks like, by where it is.
Shape(s, t, c) ==
  /\ t = "loop" => c.msg = NoMessage /\ c.op # "cancel" /\ c.pc \notin {"find", "decide", "complete"}
  /\ t # "loop" => c.pc # "wait" /\ (c.msg = NoMessage => c.op \notin {"propose", "accept", "reject"})
  /\ t # "loop" /\ c.pc \in {"find", "open", "create", "decide"} => s = "seller" /\ c.msg.type = "proposal"
  /\ c.pc \in {"find", "open", "create", "decide"} => c.op = "propose"
  /\ t # "loop" /\ c.op = "propose" /\ ~c.own => c.msg.type = "proposal"
  /\ c.pc = "decide" => ~c.own
  /\ c.pc = "complete" => c.msg # NoMessage
  /\ c.msg # NoMessage => c.msg.from = Other(s)
  /\ c.own /\ c.op = "propose" => Proposer(c.p) = s
  /\ c.own /\ c.op = "accept" => Proposer(c.p) = Other(s)
  /\ c.pc = "cas" =>
       /\ c.snap.state \in Live /\ c.snap.rev = c.snap.head + 2 /\ c.op # "state"
       /\ c.op = "propose" => c.p = c.snap.head + 1 /\ c.p < MaxRounds
       /\ c.op = "accept" => c.p = c.snap.head
  /\ c.pc = "close" => c.op # "propose"
  /\ c.pc = "enqueue" => c.op \in {"propose", "accept", "reject"} /\ (c.op = "propose" => c.own)

\* What the records say of a call in progress: none of it is lost as they advance.
Supported(s, c, r) ==
  /\ Backed(c.msg, r)
  /\ ~c.own /\ c.op = "propose" => Proposer(c.p) = Other(s) /\ c.p <= r[Other(s)].head
  /\ ~c.own /\ c.op = "accept" => AgreedOn(r, Other(s), c.p)
  /\ c.pc = "decide" => r[s].state # "none"
  /\ c.pc = "cas" => c.snap.rev <= r[s].rev /\ (c.snap.rev = r[s].rev => r[s] = c.snap)
  /\ c.pc = "close" => r[s].state \in Terminal
  /\ c.pc = "enqueue" /\ c.op = "propose" => c.p <= r[s].head
  /\ c.pc \in {"close", "enqueue"} /\ c.op = "accept" => AgreedOn(r, s, c.p)

TasksShaped == \A s \in Sides : \A t \in Tasks(s) : Shape(s, t, task[s][t])
TasksSupported == \A s \in Sides : \A t \in Tasks(s) : Supported(s, task[s][t], rec)

MessagesBacked ==
  /\ \A s \in Sides : \A m \in outbox[s] : m.from = s /\ Backed(m, rec)
  /\ \A m \in inbox : m.from = "seller" /\ Backed(m, rec)

\* A side that is down runs nothing, and a message in hand is in the ledger.
TasksRunning ==
  \A s \in Sides : \A t \in Tasks(s) :
    /\ task[s][t].pc # "idle" => up[s]
    /\ task[s][t].msg # NoMessage => ledger[s][task[s][t].msg] # "none"

\* A negotiation is opened once: whoever is opening it finds no record, and nobody
\* else of that side handles the proposal that opens it.
Opening(c) == c.pc \in {"open", "create"}
OpenersAlone ==
  /\ \A s \in Sides : \A t \in Tasks(s) :
       /\ Opening(task[s][t]) => rec[s].state = "none"
       /\ task[s][t].pc = "create" => slot[s]
  /\ \A t, u \in Handlers["seller"] :
       t # u /\ (task["seller"][t].pc = "find" \/ Opening(task["seller"][t]))
         /\ task["seller"][u].msg = task["seller"][t].msg => rec["seller"].state # "none"

Inv ==
  /\ TypeOK /\ RecordsFormed /\ HeadsClose /\ MessagesBacked
  /\ TasksShaped /\ TasksSupported /\ TasksRunning /\ OpenersAlone
  /\ AgreementBacked /\ LiveHoldsSlot /\ SlotAccounted
==============================================================================
