-------------------------- MODULE NegotiationProofs --------------------------
(****************************************************************************)
(* Proofs about Negotiation, for any number of concurrent handlers of each  *)
(* side, any limit on rounds, calls of the application and crashes.         *)
(*                                                                          *)
(* Inv of Negotiation is inductive.  Its centre is Backed: a proposal in an *)
(* outbox, a queue or a call was recorded by its author and an acceptance   *)
(* was agreed to by its sender.  Both survive every later step because the  *)
(* records only grow (Grows), which is what comparing revisions gives.      *)
(****************************************************************************)
EXTENDS Negotiation, TLAPS

\* What no transition of a record undoes.
Grows(r, r2) ==
  \A s \in Sides :
    /\ r[s].head <= r2[s].head /\ r[s].rev <= r2[s].rev
    /\ r[s].rev = r2[s].rev => r2[s] = r[s]
    /\ r[s].state \in Terminal => r2[s] = r[s]
    /\ r[s].state # "none" => r2[s].state # "none"

\* A call's next state, checked against the records r.
Good(s, t, k, r) == k \in TaskStates /\ Shape(s, t, k) /\ Supported(s, k, r)

\* A call that may create the record later on.
MayOpen(c) == c.pc = "find" \/ Opening(c)

------------------------------------------------------------------------------
(* The two sides, their calls and their proposals. *)

LEMMA SidesFacts ==
  ASSUME NEW s \in Sides
  PROVE  /\ Other(s) \in Sides /\ Other(s) # s /\ Other(Other(s)) = s
         /\ \A x \in Sides : x = s \/ x = Other(s)
BY DEF Sides, Other

LEMMA TasksFacts ==
  /\ Tasks("buyer") = Handlers["buyer"] \cup {"loop"} /\ Tasks("seller") = Handlers["seller"]
  /\ "loop" \notin Handlers["buyer"] /\ "loop" \notin Handlers["seller"]
  /\ \A s \in Sides : Handlers[s] \subseteq Tasks(s)
BY NegotiationAssumption DEF Tasks, Sides

LEMMA ProposerFacts ==
  ASSUME NEW p \in Nat
  PROVE  Proposer(p) \in Sides /\ Proposer(p + 1) = Other(Proposer(p))
<1>1. CASE p % 2 = 0
  <2>1. (p + 1) % 2 = 1
    BY <1>1, Z3
  <2>. QED
    BY <1>1, <2>1 DEF Proposer, Other, Sides
<1>2. CASE p % 2 = 1
  <2>1. (p + 1) % 2 = 0
    BY <1>2, Z3
  <2>. QED
    BY <1>2, <2>1 DEF Proposer, Other, Sides
<1>. QED
  BY <1>1, <1>2, Z3

LEMMA IdleType == Idle \in TaskStates /\ NoRecord \in Records /\ NoMessage \notin Messages
BY NegotiationAssumption DEF Idle, TaskStates, Records, NoRecord, NoMessage, Messages, Rounds, Live

------------------------------------------------------------------------------
(* What growing records preserve. *)

LEMMA GrowsRefl == ASSUME rec \in [Sides -> Records] PROVE Grows(rec, rec)
BY NegotiationAssumption DEF Grows, Records

LEMMA BackedGrows ==
  ASSUME NEW r \in [Sides -> Records], NEW r2 \in [Sides -> Records], Grows(r, r2),
         NEW m \in Messages \cup {NoMessage}, Backed(m, r)
  PROVE  Backed(m, r2)
<1>1. CASE m = NoMessage
  BY <1>1 DEF Backed, NoMessage
<1>2. CASE m \in Messages
  <2>1. m.from \in Sides /\ m.p \in Int
    BY <1>2, NegotiationAssumption DEF Messages, Rounds
  <2>2. r[m.from].head \in Int /\ r2[m.from].head \in Int
    BY <2>1, NegotiationAssumption DEF Records
  <2>. QED
    BY <2>1, <2>2 DEF Backed, Grows, AgreedOn, Terminal
<1>. QED
  BY <1>1, <1>2

LEMMA SupportedGrows ==
  ASSUME NEW r \in [Sides -> Records], NEW r2 \in [Sides -> Records], Grows(r, r2),
         NEW s \in Sides, NEW c \in TaskStates, Supported(s, c, r)
  PROVE  Supported(s, c, r2)
<1>1. Backed(c.msg, r2)
  BY BackedGrows DEF Supported, TaskStates
<1>2. \A x \in Sides : /\ r[x].head \in Int /\ r2[x].head \in Int
                       /\ r[x].rev \in Int /\ r2[x].rev \in Int
  BY NegotiationAssumption DEF Records
<1>3. c.p \in Int /\ c.snap.rev \in Int
  BY NegotiationAssumption DEF TaskStates, Rounds, Records
<1>4. Other(s) \in Sides
  BY SidesFacts
<1>5. \A x \in Sides : \A p : AgreedOn(r, x, p) => AgreedOn(r2, x, p)
  BY DEF AgreedOn, Grows, Terminal
<1>. QED
  BY <1>1, <1>2, <1>3, <1>4, <1>5 DEF Supported, Grows

------------------------------------------------------------------------------
(* A step of one call. *)

LEMMA SetTask ==
  ASSUME TypeOK, NEW s \in Sides, NEW t \in Tasks(s), NEW k, Set(s, t, k)
  PROVE  /\ DOMAIN task' = Sides /\ task'[s][t] = k
         /\ \A x \in Sides : \A u \in Tasks(x) : x # s \/ u # t => task'[x][u] = task[x][u]
         /\ k \in TaskStates => \A x \in Sides : task'[x] \in [Tasks(x) -> TaskStates]
BY DEF TypeOK, Set

LEMMA Landing ==
  ASSUME Inv, NEW s \in Sides, NEW t \in Tasks(s), NEW k, Set(s, t, k),
         rec' \in [Sides -> Records], Grows(rec, rec'), Good(s, t, k, rec')
  PROVE  TasksShaped' /\ TasksSupported'
<1>1. TypeOK /\ rec \in [Sides -> Records]
  BY DEF Inv, TypeOK
<1>2. \A x \in Sides : \A u \in Tasks(x) : task[x][u] \in TaskStates
  BY <1>1 DEF TypeOK
<1>3. \A x \in Sides : \A u \in Tasks(x) :
        Shape(x, u, task[x][u]) /\ Supported(x, task[x][u], rec')
  BY <1>1, <1>2, SupportedGrows DEF Inv, TasksShaped, TasksSupported
<1>4. \A x \in Sides : \A u \in Tasks(x) :
        Shape(x, u, task'[x][u]) /\ Supported(x, task'[x][u], rec')
  <2>. SUFFICES ASSUME NEW x \in Sides, NEW u \in Tasks(x)
       PROVE Shape(x, u, task'[x][u]) /\ Supported(x, task'[x][u], rec')
    OBVIOUS
  <2>1. CASE x = s /\ u = t
    BY <2>1, <1>1, SetTask DEF Good
  <2>2. CASE x # s \/ u # t
    <3>1. task'[x][u] = task[x][u]
      BY <2>2, <1>1, SetTask
    <3>. QED
      BY <3>1, <1>3
  <2>. QED
    BY <2>1, <2>2
<1>. QED
  BY <1>4 DEF TasksShaped, TasksSupported

LEMMA RunningStep ==
  ASSUME Inv, NEW s \in Sides, NEW t \in Tasks(s), NEW k, Set(s, t, k), up' = up, up[s],
         k.msg # NoMessage => ledger'[s][k.msg] # "none",
         \A x \in Sides : \A m \in Messages : ledger[x][m] # "none" => ledger'[x][m] # "none"
  PROVE  TasksRunning'
<1>. SUFFICES ASSUME NEW x \in Sides, NEW u \in Tasks(x)
     PROVE /\ task'[x][u].pc # "idle" => up'[x]
           /\ task'[x][u].msg # NoMessage => ledger'[x][task'[x][u].msg] # "none"
  BY DEF TasksRunning
<1>1. CASE x = s /\ u = t
  BY <1>1, SetTask DEF Inv
<1>2. CASE x # s \/ u # t
  <2>1. task'[x][u] = task[x][u]
    BY <1>2, SetTask DEF Inv
  <2>2. task[x][u].msg \in Messages \cup {NoMessage}
    BY DEF Inv, TypeOK, TaskStates
  <2>. QED
    BY <2>1, <2>2 DEF Inv, TasksRunning
<1>. QED
  BY <1>1, <1>2

\* A call that was not opening the negotiation does not start to, unless it finds no
\* record; and the others are as they were.
LEMMA OpenersStep ==
  ASSUME Inv, NEW s \in Sides, NEW t \in Tasks(s), NEW k, Set(s, t, k),
         \A x \in Sides : rec'[x].state = "none" <=> rec[x].state = "none",
         \A x \in Sides : slot[x] => slot'[x] \/ rec[x].state # "none",
         k.msg \in {task[s][t].msg, NoMessage},
         MayOpen(k) => MayOpen(task[s][t]) /\ k.msg = task[s][t].msg,
         Opening(k) => rec[s].state = "none",
         k.pc = "create" => slot'[s]
  PROVE  OpenersAlone'
<1>1. ASSUME NEW x \in Sides, NEW u \in Tasks(x)
      PROVE  /\ Opening(task'[x][u]) => rec'[x].state = "none"
             /\ task'[x][u].pc = "create" => slot'[x]
  <2>1. CASE x = s /\ u = t
    BY <2>1, SetTask DEF Inv
  <2>2. CASE x # s \/ u # t
    <3>1. task'[x][u] = task[x][u]
      BY <2>2, SetTask DEF Inv
    <3>. QED
      BY <3>1 DEF Inv, OpenersAlone, Opening
  <2>. QED
    BY <2>1, <2>2
<1>2. ASSUME NEW v \in Handlers["seller"], NEW u \in Handlers["seller"], v # u,
             MayOpen(task'["seller"][v]), task'["seller"][u].msg = task'["seller"][v].msg
      PROVE  rec'["seller"].state # "none"
  <2>1. "seller" \in Sides /\ v \in Tasks("seller") /\ u \in Tasks("seller") /\ v # "loop"
    BY TasksFacts DEF Sides
  <2>2. MayOpen(task["seller"][v]) /\ task'["seller"][v].msg = task["seller"][v].msg
    BY <1>2, <2>1, SetTask DEF Inv
  <2>3. task["seller"][v].msg # NoMessage
    BY <2>1, <2>2 DEF Inv, TasksShaped, Shape, MayOpen, Opening, NoMessage
  <2>4. task["seller"][u].msg = task'["seller"][u].msg
    BY <1>2, <2>1, <2>2, <2>3, SetTask DEF Inv
  <2>. QED
    BY <1>2, <2>1, <2>2, <2>4 DEF Inv, OpenersAlone, MayOpen
<1>. QED
  BY <1>1, <1>2 DEF OpenersAlone, MayOpen

LEMMA SlotsStep ==
  ASSUME Inv, NEW s \in Sides, NEW t \in Tasks(s), NEW k, Set(s, t, k), UNCHANGED <<rec, slot, up>>,
         task[s][t].pc \notin {"create", "close"}
  PROVE  SlotAccounted'
<1>. SUFFICES ASSUME NEW x \in Sides, slot'[x], rec'[x].state \notin Live, up'[x]
     PROVE \E u \in Tasks(x) : task'[x][u].pc \in {"create", "close"}
  BY DEF SlotAccounted
<1>1. PICK u \in Tasks(x) : task[x][u].pc \in {"create", "close"}
  BY DEF Inv, SlotAccounted
<1>2. task'[x][u] = task[x][u]
  BY <1>1, SetTask DEF Inv
<1>. QED
  BY <1>1, <1>2

LEMMA MessagesStep ==
  ASSUME Inv, rec' \in [Sides -> Records], Grows(rec, rec'), inbox' \subseteq inbox,
         \A s \in Sides : outbox'[s] \subseteq outbox[s]
  PROVE  MessagesBacked'
<1>1. rec \in [Sides -> Records] /\ inbox \subseteq Messages /\ \A s \in Sides : outbox[s] \subseteq Messages
  BY DEF Inv, TypeOK
<1>. QED
  BY <1>1, BackedGrows DEF Inv, MessagesBacked

LEMMA RecordsKept ==
  ASSUME Inv, UNCHANGED <<rec, slot>>
  PROVE  RecordsFormed' /\ HeadsClose' /\ AgreementBacked' /\ LiveHoldsSlot'
BY DEF Inv, RecordsFormed, HeadsClose, AgreementBacked, Agreed, LiveHoldsSlot

\* A step of one call that changes nothing but the call, and takes from the queue.
LEMMA CallStep ==
  ASSUME Inv, NEW s \in Sides, NEW t \in Tasks(s), NEW k, Set(s, t, k), Good(s, t, k, rec),
         UNCHANGED <<rec, slot, outbox, ledger, full, up, expired, crashes>>,
         inbox' \subseteq inbox, calls' \in 0 .. MaxCalls, up[s],
         k.msg \in {task[s][t].msg, NoMessage},
         MayOpen(k) => MayOpen(task[s][t]) /\ k.msg = task[s][t].msg,
         Opening(k) => rec[s].state = "none",
         k.pc # "create", task[s][t].pc \notin {"create", "close"}
  PROVE  Inv'
<1>1. rec \in [Sides -> Records] /\ rec' \in [Sides -> Records] /\ Grows(rec, rec')
  BY GrowsRefl DEF Inv, TypeOK
<1>2. Good(s, t, k, rec') /\ k \in TaskStates
  BY DEF Good
<1>3. TypeOK'
  BY <1>2, SetTask DEF Inv, TypeOK
<1>4. TasksShaped' /\ TasksSupported'
  BY <1>1, <1>2, Landing
<1>5. k.msg # NoMessage => ledger[s][k.msg] # "none"
  BY DEF Inv, TasksRunning
<1>6. TasksRunning'
  BY <1>5, RunningStep
<1>7. OpenersAlone'
  BY OpenersStep
<1>8. SlotAccounted'
  BY SlotsStep
<1>9. MessagesBacked'
  BY <1>1, MessagesStep
<1>. QED
  BY <1>3, <1>4, <1>6, <1>7, <1>8, <1>9, RecordsKept DEF Inv

\* A call that throws.
LEMMA ThrowStep ==
  ASSUME Inv, NEW s \in Sides, NEW t \in Tasks(s), Throw(s, t)
  PROVE  \E k \in TaskStates : /\ Set(s, t, k) /\ Good(s, t, k, rec)
                               /\ k.pc \in {"idle", "complete"} /\ k.msg = task[s][t].msg
<1>1. task[s][t] \in TaskStates /\ Shape(s, t, task[s][t]) /\ Supported(s, task[s][t], rec)
  BY DEF Inv, TypeOK, TasksShaped, TasksSupported
<1>2. CASE task[s][t].msg = NoMessage
  <2>1. Set(s, t, Idle)
    BY <1>2 DEF Throw
  <2>2. Good(s, t, Idle, rec)
    BY IdleType DEF Good, Shape, Supported, Idle, Backed, NoMessage
  <2>. QED
    BY <1>2, <2>1, <2>2, IdleType DEF Idle
<1>3. CASE task[s][t].msg # NoMessage
  <2>. DEFINE k == [task[s][t] EXCEPT !.pc = "complete", !.op = "state", !.p = 0,
                                     !.own = FALSE, !.snap = NoRecord]
  <2>1. Set(s, t, k)
    BY <1>3 DEF Throw
  <2>2. k \in TaskStates
    <3>1. 0 \in Rounds /\ NoRecord \in Records
      BY IdleType, NegotiationAssumption DEF Rounds
    <3>. QED
      BY <1>1, <3>1 DEF TaskStates
  <2>3. k.pc = "complete" /\ k.op = "state" /\ k.msg = task[s][t].msg
    BY <1>1 DEF TaskStates
  <2>4. Shape(s, t, k) /\ Supported(s, k, rec)
    BY <1>1, <1>3, <2>3 DEF Shape, Supported
  <2>. QED
    BY <2>1, <2>2, <2>3, <2>4 DEF Good
<1>. QED
  BY <1>2, <1>3

------------------------------------------------------------------------------
(* The steps that read, decide and wait. *)

LEMMA FindStep ==
  ASSUME Inv, NEW s \in Sides, NEW t \in Tasks(s), ensureNegotiationForProposal(s, t)
  PROVE  Inv'
<1>. DEFINE c == task[s][t]
            k == [c EXCEPT !.pc = IF rec[s].state = "none" THEN "open" ELSE "read",
                           !.snap = NoRecord]
<1>1. c \in TaskStates /\ Shape(s, t, c) /\ Supported(s, c, rec) /\ c.pc = "find"
  BY DEF Inv, TypeOK, TasksShaped, TasksSupported, ensureNegotiationForProposal
<1>2. Set(s, t, k) /\ k \in TaskStates
  BY <1>1, IdleType DEF ensureNegotiationForProposal, Goto, TaskStates
<1>3. /\ k.pc = IF rec[s].state = "none" THEN "open" ELSE "read"
      /\ k.op = c.op /\ k.own = c.own /\ k.p = c.p /\ k.msg = c.msg
  BY <1>1 DEF TaskStates
<1>4. Good(s, t, k, rec)
  BY <1>1, <1>2, <1>3 DEF Good, Shape, Supported
<1>5. up[s]
  BY <1>1 DEF Inv, TasksRunning
<1>6. calls' \in 0 .. MaxCalls
  BY DEF ensureNegotiationForProposal, Inv, TypeOK
<1>7. Opening(k) => rec[s].state = "none"
  BY <1>3 DEF Opening
<1>. HIDE DEF k
<1>. QED
  BY <1>1, <1>2, <1>3, <1>4, <1>5, <1>6, <1>7, CallStep
     DEF ensureNegotiationForProposal, MayOpen, durable

\* Steps that end in the caller's error handling.
LEMMA ThrowCallStep ==
  ASSUME Inv, NEW s \in Sides, NEW t \in Tasks(s), Throw(s, t),
         task[s][t].pc \notin {"idle", "create", "close"},
         UNCHANGED <<durable, full, inbox, up, expired, calls, crashes>>
  PROVE  Inv'
<1>1. PICK k \in TaskStates : /\ Set(s, t, k) /\ Good(s, t, k, rec)
                              /\ k.pc \in {"idle", "complete"} /\ k.msg = task[s][t].msg
  BY ThrowStep
<1>2. up[s]
  BY DEF Inv, TasksRunning
<1>3. calls' \in 0 .. MaxCalls
  BY DEF Inv, TypeOK
<1>. QED
  BY <1>1, <1>2, <1>3, CallStep DEF MayOpen, Opening, durable

LEMMA ReadStep ==
  ASSUME Inv, NEW s \in Sides, NEW t \in Tasks(s), Read(s, t)
  PROVE  Inv'
<1>. DEFINE c == task[s][t]
            op == Checked(s, c)
            k == [c EXCEPT !.pc = "cas", !.op = op, !.snap = rec[s]]
<1>1. c \in TaskStates /\ Shape(s, t, c) /\ Supported(s, c, rec) /\ c.pc = "read" /\ rec[s] \in Records
  BY DEF Inv, TypeOK, TasksShaped, TasksSupported, Read
<1>2. CASE op = "throw"
  BY <1>1, <1>2, ThrowCallStep DEF Read
<1>3. CASE op # "throw"
  <2>1. rec[s].state \in Live /\ op \in {c.op, "expire", "exhaust"} /\ op # "state"
    BY <1>1, <1>3 DEF Checked, Refused
  <2>2. Set(s, t, k)
    BY <1>3 DEF Read
  <2>3. k \in TaskStates
    BY <1>1, <2>1 DEF TaskStates
  <2>4. k.pc = "cas" /\ k.op = op /\ k.snap = rec[s] /\ k.p = c.p /\ k.own = c.own /\ k.msg = c.msg
    BY <1>1 DEF TaskStates
  <2>5. rec[s].rev = rec[s].head + 2 /\ rec[s].rev \in Int
    BY <1>1, <2>1, NegotiationAssumption DEF Inv, RecordsFormed, Records
  <2>6. op = "propose" => c.op = "propose" /\ c.p = rec[s].head + 1 /\ ~(c.p >= MaxRounds)
    BY <1>1, <1>3 DEF Checked, Refused, ExceedsRounds
  <2>7. op = "accept" => c.op = "accept" /\ c.p = rec[s].head
    BY <1>1, <1>3 DEF Checked, Refused, IsHead
  <2>8. c.p \in Int /\ MaxRounds \in Int
    BY <1>1, NegotiationAssumption DEF TaskStates, Rounds
  <2>. HIDE DEF op, k
  <2>9. op = "reject" => c.op = "reject"
    BY <2>1
  <2>10. op = "cancel" => c.op = "cancel"
    BY <2>1
  <2>11. Shape(s, t, k)
    BY <1>1, <2>1, <2>4, <2>5, <2>6, <2>7, <2>8, <2>9, <2>10 DEF Shape
  <2>12. Supported(s, k, rec)
    BY <1>1, <2>4, <2>5, <2>6, <2>7 DEF Supported
  <2>13. up[s]
    BY <1>1 DEF Inv, TasksRunning
  <2>14. calls' \in 0 .. MaxCalls
    BY DEF Read, Inv, TypeOK
  <2>. QED
    BY <1>1, <2>2, <2>3, <2>4, <2>11, <2>12, <2>13, <2>14, CallStep
       DEF Read, MayOpen, Opening, durable, Good
<1>. QED
  BY <1>2, <1>3

LEMMA ExpiredProposalStep ==
  ASSUME Inv, NEW s \in Sides, NEW t \in Tasks(s), ProposalExpired(s, t)
  PROVE  Inv'
BY ThrowCallStep DEF ProposalExpired

LEMMA StaleStep ==
  ASSUME Inv, NEW s \in Sides, NEW t \in Tasks(s), StaleRevision(s, t)
  PROVE  Inv'
BY ThrowCallStep DEF StaleRevision

\* Evaluate: the strategy accepts, rejects or counters the proposal p of the other
\* side, which is recorded there.
LEMMA EvaluateStep ==
  ASSUME Inv, NEW s \in Sides, NEW t \in Tasks(s), NEW p \in Rounds, Evaluate(s, t, p),
         Proposer(p) = Other(s), p <= rec[Other(s)].head,
         t # "loop" => task[s][t].msg # NoMessage,
         task[s][t].pc \in {"decide", "wait"}
  PROVE  \E k \in TaskStates : /\ Set(s, t, k) /\ Good(s, t, k, rec)
                               /\ k.pc = "read" /\ k.msg = task[s][t].msg
<1>. DEFINE c == task[s][t]
<1>1. PICK op \in {"accept", "reject", "propose"} :
        Decided(s, t, op, IF op = "propose" THEN p + 1 ELSE p)
  BY DEF Evaluate
<1>. DEFINE q == IF op = "propose" THEN p + 1 ELSE p
            k == [c EXCEPT !.pc = "read", !.op = op, !.p = q, !.own = TRUE]
<1>2. c \in TaskStates /\ Shape(s, t, c) /\ Supported(s, c, rec)
  BY DEF Inv, TypeOK, TasksShaped, TasksSupported
<1>3. Set(s, t, k)
  BY <1>1 DEF Decided
<1>4. p \in Nat /\ q \in Rounds
  <2>1. rec[Other(s)].head \in -1 .. MaxRounds - 1
    BY SidesFacts DEF Inv, TypeOK, Records
  <2>. QED
    BY <2>1, NegotiationAssumption DEF Rounds
<1>5. k \in TaskStates
  BY <1>2, <1>4 DEF TaskStates
<1>6. k.pc = "read" /\ k.op = op /\ k.p = q /\ k.own /\ k.msg = c.msg
  BY <1>2 DEF TaskStates
<1>7. Proposer(p + 1) = s
  BY <1>4, ProposerFacts, SidesFacts
<1>8. Shape(s, t, k)
  BY <1>2, <1>6, <1>7 DEF Shape
<1>9. Supported(s, k, rec)
  BY <1>2, <1>6 DEF Supported
<1>. QED
  BY <1>3, <1>5, <1>6, <1>8, <1>9 DEF Good

LEMMA DecideStep ==
  ASSUME Inv, NEW t \in Handlers["seller"], decide(t)
  PROVE  Inv'
<1>. DEFINE c == task["seller"][t]
<1>1. "seller" \in Sides /\ t \in Tasks("seller") /\ t # "loop"
  BY TasksFacts DEF Sides
<1>2. c \in TaskStates /\ Shape("seller", t, c) /\ Supported("seller", c, rec) /\ c.pc = "decide"
  BY <1>1 DEF Inv, TypeOK, TasksShaped, TasksSupported, decide
<1>3. c.op = "propose" /\ ~c.own /\ c.msg # NoMessage /\ c.p \in Rounds
  BY <1>1, <1>2 DEF Shape, NoMessage, TaskStates
<1>4. Proposer(c.p) = Other("seller") /\ c.p <= rec[Other("seller")].head
  BY <1>2, <1>3 DEF Supported
<1>5. PICK k \in TaskStates : /\ Set("seller", t, k) /\ Good("seller", t, k, rec)
                              /\ k.pc = "read" /\ k.msg = c.msg
  BY <1>1, <1>2, <1>3, <1>4, EvaluateStep DEF decide
<1>6. up["seller"]
  BY <1>1, <1>2 DEF Inv, TasksRunning
<1>7. calls' \in 0 .. MaxCalls
  BY DEF decide, Inv, TypeOK
<1>. QED
  BY <1>1, <1>2, <1>5, <1>6, <1>7, CallStep DEF decide, MayOpen, Opening, durable

LEMMA IdleGood ==
  ASSUME NEW s \in Sides, NEW t, NEW r
  PROVE  Good(s, t, Idle, r) /\ Idle.pc = "idle" /\ Idle.msg = NoMessage
BY IdleType DEF Good, Shape, Supported, Idle, Backed, NoMessage

LEMMA RespondStep ==
  ASSUME Inv, Respond
  PROVE  Inv'
<1>. DEFINE c == task["buyer"]["loop"]
<1>1. "buyer" \in Sides /\ "loop" \in Tasks("buyer") /\ Other("buyer") = "seller"
  BY TasksFacts DEF Sides, Other
<1>2. c \in TaskStates /\ Shape("buyer", "loop", c) /\ Supported("buyer", c, rec) /\ c.pc = "wait"
  BY <1>1 DEF Inv, TypeOK, TasksShaped, TasksSupported, Respond
<1>3. c.msg = NoMessage
  BY <1>2 DEF Shape
<1>4. PICK m \in inbox :
        /\ inbox' = inbox \ {m}
        /\ CASE m.type = "proposal" -> Evaluate("buyer", "loop", m.p)
             [] m.type = "acceptance" ->
                  Set("buyer", "loop", [c EXCEPT
                    !.pc = "read", !.op = "accept", !.p = m.p, !.own = FALSE])
             [] OTHER -> Set("buyer", "loop", Idle)
  BY DEF Respond
<1>5. m \in Messages /\ m.from = "seller" /\ Backed(m, rec) /\ m.p \in Rounds
  BY DEF Inv, TypeOK, MessagesBacked, Messages
<1>6. \E k \in TaskStates : /\ Set("buyer", "loop", k) /\ Good("buyer", "loop", k, rec)
                            /\ k.pc \in {"read", "idle"} /\ k.msg = NoMessage
  <2>1. CASE m.type = "proposal"
    <3>1. Evaluate("buyer", "loop", m.p)
      BY <1>4, <2>1
    <3>2. Proposer(m.p) = Other("buyer") /\ m.p <= rec[Other("buyer")].head
      BY <1>1, <1>5, <2>1 DEF Backed
    <3>. QED
      BY <1>1, <1>2, <1>3, <1>5, <3>1, <3>2, EvaluateStep
  <2>2. CASE m.type = "acceptance"
    <3>. DEFINE k == [c EXCEPT !.pc = "read", !.op = "accept", !.p = m.p, !.own = FALSE]
    <3>1. Set("buyer", "loop", k)
      BY <1>4, <2>2
    <3>2. k \in TaskStates
      BY <1>2, <1>5 DEF TaskStates
    <3>3. k.pc = "read" /\ k.op = "accept" /\ k.p = m.p /\ ~k.own /\ k.msg = c.msg
      BY <1>2 DEF TaskStates
    <3>4. Shape("buyer", "loop", k)
      BY <1>2, <3>3 DEF Shape
    <3>5. Supported("buyer", k, rec)
      BY <1>1, <1>2, <1>5, <2>2, <3>3 DEF Supported, Backed
    <3>. QED
      BY <1>3, <3>1, <3>2, <3>3, <3>4, <3>5 DEF Good
  <2>3. CASE m.type \notin {"proposal", "acceptance"}
    BY <1>1, <1>4, <2>3, IdleGood, IdleType
  <2>. QED
    BY <2>1, <2>2, <2>3
<1>7. up["buyer"]
  BY <1>1, <1>2 DEF Inv, TasksRunning
<1>8. calls' \in 0 .. MaxCalls
  BY DEF Respond, Inv, TypeOK
<1>. QED
  BY <1>1, <1>2, <1>3, <1>4, <1>6, <1>7, <1>8, CallStep DEF Respond, MayOpen, Opening, durable

LEMMA TimeoutStep ==
  ASSUME Inv, Timeout
  PROVE  Inv'
<1>1. "buyer" \in Sides /\ "loop" \in Tasks("buyer")
  BY TasksFacts DEF Sides
<1>2. task["buyer"]["loop"].pc = "wait" /\ Set("buyer", "loop", Idle)
  BY DEF Timeout
<1>3. up["buyer"]
  BY <1>1, <1>2 DEF Inv, TasksRunning
<1>4. calls' \in 0 .. MaxCalls
  BY DEF Timeout, Inv, TypeOK
<1>. QED
  BY <1>1, <1>2, <1>3, <1>4, IdleGood, CallStep DEF Timeout, MayOpen, Opening, durable

LEMMA ApplicationStep ==
  ASSUME Inv, NEW s \in Sides, NEW op \in {"cancel", "state"}, NEW t \in Handlers[s],
         Application(s, t, op)
  PROVE  Inv'
<1>. DEFINE k == [Idle EXCEPT !.pc = "read", !.op = op]
<1>1. t \in Tasks(s) /\ t # "loop"
  BY TasksFacts DEF Sides
<1>2. Set(s, t, k) /\ up[s] /\ task[s][t] = Idle
  BY DEF Application
<1>3. k \in TaskStates
  BY IdleType DEF TaskStates
<1>4. k.pc = "read" /\ k.op = op /\ k.own /\ k.msg = NoMessage
  BY DEF Idle
<1>5. Good(s, t, k, rec)
  BY <1>1, <1>3, <1>4 DEF Good, Shape, Supported, Backed, NoMessage
<1>6. calls' \in 0 .. MaxCalls
  BY NegotiationAssumption DEF Application, Inv, TypeOK
<1>. QED
  BY <1>1, <1>2, <1>4, <1>5, <1>6, IdleGood, CallStep DEF Application, MayOpen, Opening, durable

------------------------------------------------------------------------------
(* Opening the negotiation. *)

\* A call where Goto takes it.
At(c, pc) == [c EXCEPT !.pc = pc, !.snap = NoRecord]

LEMMA AtFacts ==
  ASSUME NEW c \in TaskStates,
         NEW pc \in {"open", "create", "read", "close", "decide", "enqueue", "complete"}
  PROVE  /\ At(c, pc) \in TaskStates /\ At(c, pc).pc = pc
         /\ At(c, pc).op = c.op /\ At(c, pc).p = c.p /\ At(c, pc).own = c.own
         /\ At(c, pc).msg = c.msg
BY IdleType DEF At, TaskStates

LEMMA GotoAt ==
  ASSUME NEW s, NEW t, NEW pc, Goto(s, t, pc)
  PROVE  Set(s, t, At(task[s][t], pc))
BY DEF Goto, At

LEMMA CallFacts ==
  ASSUME Inv, NEW s \in Sides, NEW t \in Tasks(s)
  PROVE  /\ task[s][t] \in TaskStates /\ Shape(s, t, task[s][t]) /\ Supported(s, task[s][t], rec)
         /\ task[s][t].pc # "idle" => up[s]
         /\ task[s][t].msg # NoMessage => ledger[s][task[s][t].msg] # "none"
BY DEF Inv, TypeOK, TasksShaped, TasksSupported, TasksRunning

\* Only the buyer's first proposal opens the seller's negotiation, and the ledger has
\* it handled by one call: there is one opener.
LEMMA OneOpener ==
  ASSUME Inv, NEW s \in Sides, NEW t \in Tasks(s), NEW u \in Tasks(s),
         Opening(task[s][t]), Opening(task[s][u])
  PROVE  t = u
<1>. SUFFICES ASSUME t # u PROVE FALSE
  OBVIOUS
<1>1. rec[s].state = "none" /\ rec[s] = NoRecord
  BY DEF Inv, OpenersAlone, RecordsFormed
<1>2. Shape(s, t, task[s][t]) /\ Shape(s, u, task[s][u])
  BY CallFacts
<1>3. s = "seller" /\ t # "loop" /\ u # "loop"
  BY <1>2, TasksFacts DEF Shape, Opening, Sides
<1>4. t \in Handlers["seller"] /\ u \in Handlers["seller"]
  BY <1>3, TasksFacts
<1>5. rec["buyer"].head \in Int /\ rec["buyer"].head <= 0
  <2>1. "buyer" \in Sides /\ Other("buyer") = "seller"
    BY DEF Sides, Other
  <2>2. rec["buyer"].head <= rec["seller"].head + 1 /\ rec["seller"].head = -1
    BY <1>1, <1>3, <2>1 DEF Inv, HeadsClose, NoRecord
  <2>. QED
    BY <2>1, <2>2, NegotiationAssumption DEF Inv, TypeOK, Records
<1>6. ASSUME NEW v \in Tasks(s), v # "loop", Opening(task[s][v])
      PROVE  task[s][v].msg = Message("proposal", 0, "buyer")
  <2>. DEFINE m == task[s][v].msg
  <2>1. Shape(s, v, task[s][v]) /\ Supported(s, task[s][v], rec) /\ m \in Messages \cup {NoMessage}
    BY CallFacts DEF TaskStates
  <2>2. m.type = "proposal" /\ m # NoMessage
    BY <1>6, <2>1 DEF Shape, Opening, NoMessage
  <2>3. m.from = "buyer"
    BY <1>3, <2>1, <2>2 DEF Shape, Other
  <2>4. m \in Messages /\ m.p <= rec["buyer"].head
    BY <2>1, <2>2, <2>3 DEF Supported, Backed
  <2>5. m.p = 0
    BY <1>5, <2>4, NegotiationAssumption DEF Messages, Rounds
  <2>. QED
    BY <2>2, <2>3, <2>4, <2>5 DEF Messages, Message
<1>7. task["seller"][t].msg = task["seller"][u].msg
  BY <1>3, <1>6
<1>. QED
  BY <1>1, <1>3, <1>4, <1>7 DEF Inv, OpenersAlone

LEMMA TryOpenStep ==
  ASSUME Inv, NEW s \in Sides, NEW t \in Tasks(s), tryOpen(s, t)
  PROVE  Inv'
<1>. DEFINE c == task[s][t]
            k == At(c, "create")
<1>1. c.pc = "open" /\ c \in TaskStates /\ Shape(s, t, c) /\ Supported(s, c, rec) /\ up[s]
  BY CallFacts DEF tryOpen
<1>2. CASE Throw(s, t) /\ UNCHANGED slot
  BY <1>1, <1>2, ThrowCallStep DEF tryOpen, durable
<1>3. CASE slot' = [slot EXCEPT ![s] = TRUE] /\ Goto(s, t, "create")
  <2>1. Set(s, t, k)
    BY <1>3, GotoAt
  <2>2. k \in TaskStates /\ k.pc = "create" /\ k.op = c.op /\ k.p = c.p /\ k.own = c.own /\ k.msg = c.msg
    BY <1>1, AtFacts
  <2>. HIDE DEF k
  <2>3. Good(s, t, k, rec)
    BY <1>1, <2>2 DEF Good, Shape, Supported
  <2>4. UNCHANGED <<rec, outbox, ledger, full, inbox, up, expired, calls, crashes>>
    BY DEF tryOpen
  <2>5. rec \in [Sides -> Records] /\ rec' \in [Sides -> Records] /\ Grows(rec, rec') /\ Good(s, t, k, rec')
    BY <2>3, <2>4, GrowsRefl DEF Inv, TypeOK
  <2>6. slot' \in [Sides -> BOOLEAN] /\ slot'[s] /\ \A x \in Sides : slot[x] => slot'[x]
    BY <1>3 DEF Inv, TypeOK
  <2>7. rec[s].state = "none"
    BY <1>1 DEF Inv, OpenersAlone, Opening
  <2>8. TypeOK'
    BY <2>1, <2>2, <2>4, <2>6, SetTask DEF Inv, TypeOK
  <2>9. TasksShaped' /\ TasksSupported'
    BY <2>1, <2>5, Landing
  <2>10. TasksRunning'
    BY <1>1, <2>1, <2>2, <2>4, CallFacts, RunningStep
  <2>11. OpenersAlone'
    BY <1>1, <2>1, <2>2, <2>4, <2>6, <2>7, OpenersStep DEF MayOpen, Opening
  <2>12. MessagesBacked'
    BY <2>4, <2>5, MessagesStep
  <2>13. RecordsFormed' /\ HeadsClose' /\ AgreementBacked' /\ LiveHoldsSlot'
    BY <2>4, <2>6 DEF Inv, RecordsFormed, HeadsClose, AgreementBacked, Agreed, LiveHoldsSlot
  <2>14. SlotAccounted'
    <3>. SUFFICES ASSUME NEW x \in Sides, slot'[x], rec'[x].state \notin Live, up'[x]
         PROVE \E u \in Tasks(x) : task'[x][u].pc \in {"create", "close"}
      BY DEF SlotAccounted
    <3>1. CASE x = s
      BY <2>1, <2>2, <3>1, SetTask DEF Inv
    <3>2. CASE x # s
      <4>1. slot[x]
        BY <1>3, <3>2 DEF Inv, TypeOK
      <4>2. PICK u \in Tasks(x) : task[x][u].pc \in {"create", "close"}
        BY <2>4, <4>1 DEF Inv, SlotAccounted
      <4>. QED
        BY <2>1, <3>2, <4>2, SetTask DEF Inv
    <3>. QED
      BY <3>1, <3>2
  <2>. QED
    BY <2>8, <2>9, <2>10, <2>11, <2>12, <2>13, <2>14 DEF Inv
<1>. QED
  BY <1>2, <1>3 DEF tryOpen

LEMMA CreateGrows ==
  ASSUME Inv, NEW s \in Sides, rec[s].state = "none",
         rec' = [rec EXCEPT ![s] = [NoRecord EXCEPT !.state = "OPEN", !.rev = 1]]
  PROVE  /\ rec' \in [Sides -> Records] /\ Grows(rec, rec')
         /\ rec'[s] = [state |-> "OPEN", head |-> -1, rev |-> 1] /\ rec[s] = NoRecord
         /\ \A x \in Sides : x # s => rec'[x] = rec[x]
         /\ \A x \in Sides : rec'[x].head = rec[x].head
<1>1. rec \in [Sides -> Records] /\ rec[s] = NoRecord
  BY DEF Inv, TypeOK, RecordsFormed
<1>2. rec'[s] = [state |-> "OPEN", head |-> -1, rev |-> 1]
  BY <1>1 DEF NoRecord
<1>3. rec'[s] \in Records
  <2>1. -1 \in -1 .. MaxRounds - 1 /\ 1 \in 0 .. MaxRounds + 2 /\ "OPEN" \in Live
    BY NegotiationAssumption DEF Live
  <2>2. [NoRecord EXCEPT !.state = "OPEN", !.rev = 1] \in Records
    BY <2>1, IdleType DEF Records
  <2>. QED
    BY <1>1, <2>2
<1>4. rec' \in [Sides -> Records] /\ \A x \in Sides : x # s => rec'[x] = rec[x]
  BY <1>1, <1>3
<1>5. Grows(rec, rec')
  <2>. SUFFICES ASSUME NEW x \in Sides
       PROVE  /\ rec[x].head <= rec'[x].head /\ rec[x].rev <= rec'[x].rev
              /\ rec[x].rev = rec'[x].rev => rec'[x] = rec[x]
              /\ rec[x].state \in Terminal => rec'[x] = rec[x]
              /\ rec[x].state # "none" => rec'[x].state # "none"
    BY DEF Grows
  <2>1. CASE x = s
    BY <1>1, <1>2, <2>1 DEF NoRecord, Terminal
  <2>2. CASE x # s
    <3>1. rec[x].head \in Int /\ rec[x].rev \in Int
      BY <1>1, NegotiationAssumption DEF Records
    <3>. QED
      BY <1>4, <2>2, <3>1
  <2>. QED
    BY <2>1, <2>2
<1>. QED
  BY <1>1, <1>2, <1>4, <1>5 DEF NoRecord

LEMMA CreateStep ==
  ASSUME Inv, NEW s \in Sides, NEW t \in Tasks(s), create(s, t)
  PROVE  Inv'
<1>. DEFINE c == task[s][t]
            k == At(c, "read")
<1>1. c.pc = "create" /\ c \in TaskStates /\ Shape(s, t, c) /\ Supported(s, c, rec) /\ up[s]
  BY CallFacts DEF create
<1>2. rec[s].state = "none" /\ slot[s]
  BY <1>1 DEF Inv, OpenersAlone, Opening
<1>3. /\ rec' = [rec EXCEPT ![s] = [NoRecord EXCEPT !.state = "OPEN", !.rev = 1]]
      /\ Goto(s, t, "read")
      /\ UNCHANGED <<slot, outbox, ledger, full, inbox, up, expired, calls, crashes>>
  BY <1>2 DEF create
<1>4. Set(s, t, k)
  BY <1>3, GotoAt
<1>5. k \in TaskStates /\ k.pc = "read" /\ k.op = c.op /\ k.p = c.p /\ k.own = c.own /\ k.msg = c.msg
  BY <1>1, AtFacts
<1>. HIDE DEF k
<1>6. /\ rec \in [Sides -> Records] /\ rec' \in [Sides -> Records] /\ Grows(rec, rec')
      /\ rec'[s] = [state |-> "OPEN", head |-> -1, rev |-> 1] /\ rec[s] = NoRecord
      /\ \A x \in Sides : x # s => rec'[x] = rec[x]
      /\ \A x \in Sides : rec'[x].head = rec[x].head
  BY <1>2, <1>3, CreateGrows DEF Inv, TypeOK
<1>7. Good(s, t, k, rec')
  <2>1. Shape(s, t, k) /\ Supported(s, k, rec)
    BY <1>1, <1>5 DEF Shape, Supported
  <2>. QED
    BY <1>5, <1>6, <2>1, SupportedGrows DEF Good
<1>8. TypeOK'
  BY <1>3, <1>4, <1>5, <1>6, SetTask DEF Inv, TypeOK
<1>9. TasksShaped' /\ TasksSupported'
  BY <1>4, <1>6, <1>7, Landing
<1>10. TasksRunning'
  BY <1>1, <1>3, <1>4, <1>5, CallFacts, RunningStep
<1>11. MessagesBacked'
  BY <1>3, <1>6, MessagesStep
<1>12. RecordsFormed'
  <2>. SUFFICES ASSUME NEW x \in Sides
       PROVE  /\ rec'[x].state = "none" => rec'[x] = NoRecord
              /\ rec'[x].state \in Live => rec'[x].rev = rec'[x].head + 2
              /\ rec'[x].state \in Terminal => rec'[x].rev = rec'[x].head + 3
    BY DEF RecordsFormed
  <2>1. CASE x = s
    BY <1>6, <2>1 DEF Terminal
  <2>2. CASE x # s
    BY <1>6, <2>2 DEF Inv, RecordsFormed
  <2>. QED
    BY <2>1, <2>2
<1>16. LiveHoldsSlot'
  BY <1>2, <1>3, <1>6 DEF Inv, LiveHoldsSlot
<1>13. HeadsClose' /\ AgreementBacked'
  <2>1. \A x \in Sides : Agreed(x)' <=> Agreed(x)
    BY <1>2, <1>6 DEF Agreed
  <2>. QED
    BY <1>6, <2>1, SidesFacts DEF Inv, HeadsClose, AgreementBacked
<1>14. OpenersAlone'
  <2>1. ASSUME NEW x \in Sides, NEW u \in Tasks(x)
        PROVE  /\ Opening(task'[x][u]) => rec'[x].state = "none"
               /\ task'[x][u].pc = "create" => slot'[x]
    <3>1. CASE x = s /\ u = t
      BY <1>4, <1>5, <3>1, SetTask DEF Inv, Opening
    <3>2. CASE x # s \/ u # t
      <4>1. task'[x][u] = task[x][u]
        BY <1>4, <3>2, SetTask DEF Inv
      <4>2. x = s => ~Opening(task[x][u])
        BY <1>1, <3>2, OneOpener DEF Opening
      <4>. QED
        BY <1>3, <1>6, <4>1, <4>2 DEF Inv, OpenersAlone, Opening
    <3>. QED
      BY <3>1, <3>2
  <2>2. CASE s = "seller"
    BY <1>6, <2>1, <2>2 DEF OpenersAlone
  <2>3. CASE s # "seller"
    <3>1. "seller" \in Sides /\ \A u \in Handlers["seller"] : u \in Tasks("seller")
      BY TasksFacts DEF Sides
    <3>2. \A u \in Handlers["seller"] : task'["seller"][u] = task["seller"][u]
      BY <1>4, <2>3, <3>1, SetTask DEF Inv
    <3>3. rec'["seller"] = rec["seller"]
      BY <1>6, <2>3, <3>1
    <3>. QED
      BY <2>1, <3>2, <3>3 DEF Inv, OpenersAlone
  <2>. QED
    BY <2>2, <2>3
<1>15. SlotAccounted'
  <2>. SUFFICES ASSUME NEW x \in Sides, slot'[x], rec'[x].state \notin Live, up'[x]
       PROVE \E u \in Tasks(x) : task'[x][u].pc \in {"create", "close"}
    BY DEF SlotAccounted
  <2>1. x # s
    BY <1>6 DEF Live
  <2>2. PICK u \in Tasks(x) : task[x][u].pc \in {"create", "close"}
    BY <1>3, <1>6, <2>1 DEF Inv, SlotAccounted
  <2>. QED
    BY <1>4, <2>1, <2>2, SetTask DEF Inv
<1>. QED
  BY <1>8, <1>9, <1>10, <1>11, <1>12, <1>13, <1>14, <1>15, <1>16 DEF Inv

------------------------------------------------------------------------------
(* The compare-and-set. *)

\* The record is the one the operation read, and moves to what it derived from it.
LEMMA CasRecord ==
  ASSUME Inv, NEW s \in Sides, NEW t \in Tasks(s), task[s][t].pc = "cas",
         Current(s, task[s][t]), rec' = [rec EXCEPT ![s] = Advanced(task[s][t])]
  PROVE  /\ rec[s] = task[s][t].snap /\ rec[s].state \in Live
         /\ rec' \in [Sides -> Records] /\ \A x \in Sides : x # s => rec'[x] = rec[x]
         /\ rec'[s].state = Outcome(task[s][t].op) /\ rec'[s].rev = rec[s].rev + 1
         /\ rec'[s].head = IF task[s][t].op = "propose" THEN rec[s].head + 1 ELSE rec[s].head
         /\ task[s][t].op = "propose" => task[s][t].p = rec[s].head + 1
         /\ task[s][t].op = "accept" => task[s][t].p = rec[s].head
         /\ task[s][t].op = "propose" => rec'[s].state = "NEGOTIATING"
         /\ task[s][t].op # "propose" => rec'[s].state \in Terminal
         /\ rec'[s].state = "AGREED" <=> task[s][t].op = "accept"
<1>. DEFINE c == task[s][t]
<1>1. c \in TaskStates /\ Shape(s, t, c) /\ Supported(s, c, rec) /\ rec \in [Sides -> Records]
  BY CallFacts DEF Inv, TypeOK
<1>2. rec[s] = c.snap
  BY <1>1 DEF Supported, Current
<1>3. /\ c.snap \in Records /\ c.snap.state \in Live /\ c.snap.rev = c.snap.head + 2 /\ c.op # "state"
      /\ c.op = "propose" => c.p = c.snap.head + 1 /\ c.p < MaxRounds
      /\ c.op = "accept" => c.p = c.snap.head
  BY <1>1 DEF Shape, TaskStates
<1>4. c.op \in {"propose", "accept", "reject", "cancel", "expire", "exhaust"}
  BY <1>1, <1>3 DEF TaskStates
<1>5. /\ Outcome(c.op) \in Live \cup Terminal
      /\ c.op = "propose" => Outcome(c.op) = "NEGOTIATING"
      /\ c.op # "propose" => Outcome(c.op) \in Terminal
      /\ Outcome(c.op) = "AGREED" <=> c.op = "accept"
  BY <1>4 DEF Outcome, Live, Terminal
<1>6. rec'[s] = Advanced(c)
  BY <1>1
<1>7. /\ Advanced(c).state = Outcome(c.op) /\ Advanced(c).rev = c.snap.rev + 1
      /\ Advanced(c).head = IF c.op = "propose" THEN c.p ELSE c.snap.head
  BY <1>3 DEF Advanced, Records
<1>8. Advanced(c) \in Records
  <2>1. c.snap.head \in -1 .. MaxRounds - 1 /\ c.snap.rev \in 0 .. MaxRounds + 2
    BY <1>3 DEF Records
  <2>2. c.snap.rev + 1 \in 0 .. MaxRounds + 2
    BY <1>3, <2>1, NegotiationAssumption
  <2>3. (IF c.op = "propose" THEN c.p ELSE c.snap.head) \in -1 .. MaxRounds - 1
    BY <1>3, <2>1, NegotiationAssumption
  <2>4. Outcome(c.op) \in {"none"} \cup Live \cup Terminal
    BY <1>5
  <2>. HIDE DEF c
  <2>. QED
    BY <1>3, <2>2, <2>3, <2>4 DEF Advanced, Records
<1>. QED
  BY <1>1, <1>2, <1>3, <1>5, <1>6, <1>7, <1>8

LEMMA CasGrows ==
  ASSUME Inv, NEW s \in Sides, NEW t \in Tasks(s), task[s][t].pc = "cas",
         Current(s, task[s][t]), rec' = [rec EXCEPT ![s] = Advanced(task[s][t])]
  PROVE  Grows(rec, rec') /\ RecordsFormed'
<1>. DEFINE c == task[s][t]
<1>1. /\ rec[s].state \in Live /\ rec' \in [Sides -> Records]
      /\ \A x \in Sides : x # s => rec'[x] = rec[x]
      /\ rec'[s].rev = rec[s].rev + 1
      /\ rec'[s].head = IF c.op = "propose" THEN rec[s].head + 1 ELSE rec[s].head
      /\ c.op = "propose" => rec'[s].state = "NEGOTIATING"
      /\ c.op # "propose" => rec'[s].state \in Terminal
  BY CasRecord
<1>. HIDE DEF c
<1>2. \A x \in Sides : rec[x].head \in Int /\ rec[x].rev \in Int
  BY NegotiationAssumption DEF Inv, TypeOK, Records
<1>3. rec[s].rev = rec[s].head + 2
  BY <1>1 DEF Inv, RecordsFormed
<1>4. ASSUME NEW x \in Sides
      PROVE  /\ rec[x].head <= rec'[x].head /\ rec[x].rev <= rec'[x].rev
             /\ rec[x].rev = rec'[x].rev => rec'[x] = rec[x]
             /\ rec[x].state \in Terminal => rec'[x] = rec[x]
             /\ rec[x].state # "none" => rec'[x].state # "none"
  <2>1. CASE x = s
    BY <1>1, <1>2, <2>1 DEF Live, Terminal
  <2>2. CASE x # s
    BY <1>1, <1>2, <2>2
  <2>. QED
    BY <2>1, <2>2
<1>5. ASSUME NEW x \in Sides
      PROVE  /\ rec'[x].state = "none" => rec'[x] = NoRecord
             /\ rec'[x].state \in Live => rec'[x].rev = rec'[x].head + 2
             /\ rec'[x].state \in Terminal => rec'[x].rev = rec'[x].head + 3
  <2>1. CASE x = s
    BY <1>1, <1>2, <1>3, <2>1 DEF Live, Terminal
  <2>2. CASE x # s
    BY <1>1, <2>2 DEF Inv, RecordsFormed
  <2>. QED
    BY <2>1, <2>2
<1>. QED
  BY <1>4, <1>5 DEF Grows, RecordsFormed

\* A proposal moves the head by a round: to one's own after the other side's, or to
\* one the other side has recorded.
LEMMA CasHeads ==
  ASSUME Inv, NEW s \in Sides, NEW t \in Tasks(s), task[s][t].pc = "cas",
         Current(s, task[s][t]), rec' = [rec EXCEPT ![s] = Advanced(task[s][t])]
  PROVE  HeadsClose'
<1>. DEFINE c == task[s][t]
            o == Other(s)
            h == rec[s].head
            g == rec[o].head
<1>1. /\ \A x \in Sides : x # s => rec'[x] = rec[x]
      /\ rec'[s].head = IF c.op = "propose" THEN h + 1 ELSE h
      /\ c.op = "propose" => c.p = h + 1
  BY CasRecord
<1>2. o \in Sides /\ o # s /\ Other(o) = s /\ \A x \in Sides : x = s \/ x = o
  BY SidesFacts
<1>3. h \in Int /\ g \in Int /\ h >= -1 /\ g >= -1 /\ rec'[o] = rec[o]
  BY <1>1, <1>2, NegotiationAssumption DEF Inv, TypeOK, Records
<1>4. h <= g + 1 /\ g <= h + 1 /\ (h >= 0 /\ Proposer(h) = o => h <= g)
      /\ (g >= 0 /\ Proposer(g) = s => g <= h)
  BY <1>2 DEF Inv, HeadsClose
<1>5. Shape(s, t, c) /\ Supported(s, c, rec)
  BY CallFacts
<1>6. CASE c.op # "propose"
  <2>1. \A x \in Sides : rec'[x].head = rec[x].head
    BY <1>1, <1>6
  <2>. QED
    BY <2>1, SidesFacts DEF Inv, HeadsClose
<1>7. CASE c.op = "propose"
  <2>1. rec'[s].head = h + 1 /\ c.p = h + 1
    BY <1>1, <1>7
  <2>2. h >= 0 => Proposer(h + 1) = Other(Proposer(h)) /\ Proposer(h) \in Sides
    BY <1>3, ProposerFacts
  <2>3. h + 1 <= g + 1 /\ (Proposer(h + 1) = o => h + 1 <= g)
    <3>1. CASE c.own
      <4>1. Proposer(h + 1) = s
        BY <1>5, <1>7, <2>1, <3>1 DEF Shape
      <4>2. h >= 0 => Proposer(h) = o
        BY <1>2, <2>2, <4>1
      <4>. QED
        BY <1>2, <1>3, <1>4, <4>1, <4>2
    <3>2. CASE ~c.own
      <4>1. h + 1 <= g
        BY <1>5, <1>7, <2>1, <3>2 DEF Supported
      <4>. QED
        BY <1>3, <4>1
    <3>. QED
      BY <3>1, <3>2 DEF Inv, TypeOK, TaskStates
  <2>4. g <= h + 1 + 1 /\ (g >= 0 /\ Proposer(g) = s => g <= h + 1)
    BY <1>3, <1>4
  <2>. HIDE DEF o, g, h
  <2>5. rec'[s].head <= rec'[o].head + 1 /\ (rec'[s].head >= 0 /\ Proposer(rec'[s].head) = o => rec'[s].head <= rec'[o].head)
    BY <1>3, <2>1, <2>3 DEF g
  <2>6. rec'[o].head <= rec'[s].head + 1 /\ (rec'[o].head >= 0 /\ Proposer(rec'[o].head) = s => rec'[o].head <= rec'[s].head)
    BY <1>3, <2>1, <2>4 DEF g
  <2>7. ASSUME NEW x \in Sides
        PROVE  /\ rec'[x].head <= rec'[Other(x)].head + 1
               /\ rec'[x].head >= 0 /\ Proposer(rec'[x].head) = Other(x) => rec'[x].head <= rec'[Other(x)].head
    <3>1. CASE x = s
      BY <3>1, <2>5 DEF o
    <3>2. CASE x = o
      BY <3>2, <2>6, <1>2
    <3>. QED
      BY <1>2, <3>1, <3>2
  <2>. QED
    BY <2>7 DEF HeadsClose
<1>. QED
  BY <1>6, <1>7

\* Accepting the other side's proposal that is the head, or what the other side
\* agreed to: an agreement of the other side is on the same proposal.
LEMMA CasAgreement ==
  ASSUME Inv, NEW s \in Sides, NEW t \in Tasks(s), task[s][t].pc = "cas",
         Current(s, task[s][t]), rec' = [rec EXCEPT ![s] = Advanced(task[s][t])]
  PROVE  AgreementBacked'
<1>. DEFINE c == task[s][t]
            o == Other(s)
            h == rec[s].head
            g == rec[o].head
<1>1. /\ \A x \in Sides : x # s => rec'[x] = rec[x]
      /\ rec[s].state \in Live
      /\ c.op # "propose" => rec'[s].head = h
      /\ c.op = "accept" => c.p = h
      /\ rec'[s].state = "AGREED" <=> c.op = "accept"
  BY CasRecord
<1>2. o \in Sides /\ o # s /\ Other(o) = s /\ \A x \in Sides : x = s \/ x = o
  BY SidesFacts
<1>3. h \in Int /\ g \in Int /\ h >= -1 /\ g >= -1 /\ rec'[o] = rec[o]
  BY <1>1, <1>2, NegotiationAssumption DEF Inv, TypeOK, Records
<1>4. h <= g + 1 /\ g <= h + 1 /\ (h >= 0 /\ Proposer(h) = o => h <= g)
      /\ (g >= 0 /\ Proposer(g) = s => g <= h)
  BY <1>2 DEF Inv, HeadsClose
<1>5. c \in TaskStates /\ Shape(s, t, c) /\ Supported(s, c, rec)
  BY CallFacts
<1>6. Agreed(o) => Proposer(g) # o
  BY <1>1, <1>2 DEF Inv, AgreementBacked, Agreed, Live
<1>7. c.op = "accept" => h >= 0
  BY <1>1, <1>5, NegotiationAssumption DEF TaskStates, Rounds
<1>8. c.op = "accept" => (Agreed(o) => g = h) /\ (Proposer(h) = s => Agreed(o))
  <2>1. CASE c.own
    <3>. SUFFICES ASSUME c.op = "accept"
         PROVE (Agreed(o) => g = h) /\ (Proposer(h) = s => Agreed(o))
      OBVIOUS
    <3>1. Proposer(h) = o /\ h >= 0
      BY <1>1, <1>5, <1>7, <2>1 DEF Shape
    <3>2. Proposer(h + 1) = s
      BY <1>2, <1>3, <3>1, ProposerFacts
    <3>3. g # h + 1
      BY <1>3, <1>4, <3>1, <3>2
    <3>. QED
      BY <1>2, <1>3, <1>4, <3>1, <3>3
  <2>2. CASE ~c.own
    BY <1>1, <1>5, <2>2 DEF Supported, AgreedOn, Agreed
  <2>. QED
    BY <1>5, <2>1, <2>2 DEF TaskStates
<1>9. Agreed(o)' <=> Agreed(o)
  BY <1>3 DEF Agreed
<1>10. Agreed(s)' <=> c.op = "accept"
  BY <1>1 DEF Agreed
<1>. HIDE DEF o, h, g
<1>11. Agreed(s)' => (Agreed(o)' => rec'[o].head = rec'[s].head) /\ (Proposer(rec'[s].head) = s => Agreed(o)')
  BY <1>1, <1>3, <1>8, <1>9, <1>10 DEF g
<1>12. Agreed(o)' => (Agreed(s)' => rec'[s].head = rec'[o].head) /\ (Proposer(rec'[o].head) = o => Agreed(s)')
  BY <1>3, <1>6, <1>9, <1>11 DEF g
<1>13. ASSUME NEW x \in Sides, Agreed(x)'
       PROVE  /\ Agreed(Other(x))' => rec'[Other(x)].head = rec'[x].head
              /\ Proposer(rec'[x].head) = x => Agreed(Other(x))'
  <2>1. CASE x = s
    BY <1>11, <1>13, <2>1 DEF o
  <2>2. CASE x = o
    BY <1>2, <1>12, <1>13, <2>2
  <2>. QED
    BY <1>2, <2>1, <2>2
<1>. QED
  BY <1>13 DEF AgreementBacked

LEMMA MessagesAdded ==
  ASSUME Inv, rec' \in [Sides -> Records], Grows(rec, rec'),
         \A s \in Sides : \A m \in outbox'[s] : m \in outbox[s] \/ (m.from = s /\ Backed(m, rec')),
         \A m \in inbox' : m \in inbox \/ (m.from = "seller" /\ Backed(m, rec'))
  PROVE  MessagesBacked'
<1>1. rec \in [Sides -> Records] /\ inbox \subseteq Messages /\ \A s \in Sides : outbox[s] \subseteq Messages
  BY DEF Inv, TypeOK
<1>. QED
  BY <1>1, BackedGrows DEF Inv, MessagesBacked

\* What follows an operation that is done: the records r are those it left.
LEMMA ContinueStep ==
  ASSUME Inv, NEW s \in Sides, NEW t \in Tasks(s), task[s][t].pc \in {"cas", "close"},
         Continue(s, t), NEW r \in [Sides -> Records], Grows(rec, r),
         task[s][t].op = "propose" => task[s][t].p <= r[s].head /\ r[s].state # "none",
         task[s][t].op = "accept" => AgreedOn(r, s, task[s][t].p)
  PROVE  \E k \in TaskStates : /\ Set(s, t, k) /\ Good(s, t, k, r)
                               /\ k.pc \in {"idle", "complete", "enqueue", "decide"}
                               /\ k.msg \in {task[s][t].msg, NoMessage}
<1>. DEFINE c == task[s][t]
<1>1. c \in TaskStates /\ Shape(s, t, c) /\ Supported(s, c, rec) /\ rec \in [Sides -> Records]
  BY CallFacts DEF Inv, TypeOK
<1>2. Supported(s, c, r)
  BY <1>1, SupportedGrows
<1>3. ASSUME NEW pc \in {"enqueue", "decide", "complete"}
      PROVE  /\ At(c, pc) \in TaskStates /\ At(c, pc).pc = pc
             /\ At(c, pc).op = c.op /\ At(c, pc).p = c.p /\ At(c, pc).own = c.own
             /\ At(c, pc).msg = c.msg
  BY <1>1, AtFacts
<1>4. CASE c.op \in {"expire", "exhaust", "state"}
  <2>1. Throw(s, t)
    BY <1>4 DEF Continue
  <2>2. PICK k \in TaskStates : /\ Set(s, t, k) /\ Good(s, t, k, rec)
                                /\ k.pc \in {"idle", "complete"} /\ k.msg = c.msg
    BY <2>1, ThrowStep
  <2>3. Good(s, t, k, r)
    BY <1>1, <2>2, SupportedGrows DEF Good
  <2>. QED
    BY <2>2, <2>3
<1>5. CASE c.op \notin {"expire", "exhaust", "state"} /\ c.own /\ (t = "loop" \/ c.op = "propose")
  <2>. DEFINE k == At(c, "enqueue")
  <2>1. Set(s, t, k)
    BY <1>5, GotoAt DEF Continue
  <2>2. k \in TaskStates /\ k.pc = "enqueue" /\ k.op = c.op /\ k.p = c.p /\ k.own = c.own /\ k.msg = c.msg
    BY <1>3
  <2>3. c.op \in {"propose", "accept", "reject"}
    BY <1>1, <1>5 DEF Shape, TaskStates
  <2>. HIDE DEF k
  <2>4. Shape(s, t, k)
    BY <1>1, <1>5, <2>2, <2>3 DEF Shape
  <2>5. Supported(s, k, r)
    BY <1>2, <1>5, <2>2 DEF Supported
  <2>. QED
    BY <2>1, <2>2, <2>4, <2>5 DEF Good
<1>6. CASE /\ c.op \notin {"expire", "exhaust", "state"} /\ ~(c.own /\ (t = "loop" \/ c.op = "propose"))
           /\ c.msg = NoMessage
  <2>1. Set(s, t, Idle)
    BY <1>6 DEF Continue
  <2>. QED
    BY <2>1, IdleGood, IdleType
<1>7. CASE /\ c.op \notin {"expire", "exhaust", "state"} /\ ~(c.own /\ (t = "loop" \/ c.op = "propose"))
           /\ c.msg # NoMessage
  <2>1. t # "loop"
    BY <1>1, <1>7 DEF Shape
  <2>2. CASE s = "seller" /\ ~c.own /\ c.op = "propose"
    <3>. DEFINE k == At(c, "decide")
    <3>1. Set(s, t, k)
      BY <1>7, <2>2, GotoAt DEF Continue
    <3>2. k \in TaskStates /\ k.pc = "decide" /\ k.op = c.op /\ k.p = c.p /\ k.own = c.own /\ k.msg = c.msg
      BY <1>3
    <3>3. c.msg.type = "proposal"
      BY <1>1, <2>1, <2>2 DEF Shape
    <3>. HIDE DEF k
    <3>4. Shape(s, t, k)
      BY <1>1, <1>7, <2>1, <2>2, <3>2, <3>3 DEF Shape
    <3>5. Supported(s, k, r)
      BY <1>2, <2>2, <3>2 DEF Supported
    <3>. QED
      BY <3>1, <3>2, <3>4, <3>5 DEF Good
  <2>3. CASE ~(s = "seller" /\ ~c.own /\ c.op = "propose")
    <3>. DEFINE k == At(c, "complete")
    <3>1. Set(s, t, k)
      BY <1>7, <2>3, GotoAt DEF Continue
    <3>2. k \in TaskStates /\ k.pc = "complete" /\ k.op = c.op /\ k.p = c.p /\ k.own = c.own /\ k.msg = c.msg
      BY <1>3
    <3>. HIDE DEF k
    <3>4. Shape(s, t, k)
      BY <1>1, <1>7, <2>1, <3>2 DEF Shape
    <3>5. Supported(s, k, r)
      BY <1>2, <3>2 DEF Supported
    <3>. QED
      BY <3>1, <3>2, <3>4, <3>5 DEF Good
  <2>. QED
    BY <2>2, <2>3
<1>. QED
  BY <1>4, <1>5, <1>6, <1>7

LEMMA CasStep ==
  ASSUME Inv, NEW s \in Sides, NEW t \in Tasks(s), compareAndSet(s, t)
  PROVE  Inv'
<1>. DEFINE c == task[s][t]
<1>1. /\ c.pc = "cas" /\ Current(s, c) /\ rec' = [rec EXCEPT ![s] = Advanced(c)]
      /\ outbox' = [outbox EXCEPT ![s] = @ \cup Enqueued(s, c)]
      /\ full' = [full EXCEPT ![s] = @ \cup IF c.op = "propose" THEN {c.p} ELSE {}]
      /\ IF c.op = "propose" THEN Continue(s, t) ELSE Goto(s, t, "close")
      /\ UNCHANGED <<slot, ledger, inbox, up, expired, calls, crashes>>
  BY DEF compareAndSet
<1>2. /\ rec[s].state \in Live /\ rec' \in [Sides -> Records]
      /\ \A x \in Sides : x # s => rec'[x] = rec[x]
      /\ rec'[s].head = IF c.op = "propose" THEN rec[s].head + 1 ELSE rec[s].head
      /\ c.op = "propose" => c.p = rec[s].head + 1
      /\ c.op = "accept" => c.p = rec[s].head
      /\ c.op = "propose" => rec'[s].state = "NEGOTIATING"
      /\ c.op # "propose" => rec'[s].state \in Terminal
      /\ rec'[s].state = "AGREED" <=> c.op = "accept"
  BY <1>1, CasRecord
<1>3. /\ c \in TaskStates /\ Shape(s, t, c) /\ Supported(s, c, rec) /\ up[s] /\ rec \in [Sides -> Records]
      /\ c.msg # NoMessage => ledger[s][c.msg] # "none"
  BY <1>1, CallFacts DEF Inv, TypeOK
<1>4. Grows(rec, rec') /\ RecordsFormed'
  BY <1>1, CasGrows
<1>5. HeadsClose' /\ AgreementBacked'
  BY <1>1, CasHeads, CasAgreement
<1>6. c.op = "accept" => AgreedOn(rec', s, c.p)
  BY <1>2 DEF AgreedOn
<1>7. \E k \in TaskStates : /\ Set(s, t, k) /\ Good(s, t, k, rec')
                            /\ k.pc \in {"idle", "complete", "enqueue", "decide", "close"}
                            /\ k.msg \in {c.msg, NoMessage}
                            /\ c.op # "propose" => k.pc = "close"
  <2>1. CASE c.op = "propose"
    <3>1. rec'[s].head \in Int /\ c.p \in Int /\ c.p <= rec'[s].head /\ rec'[s].state # "none"
      BY <1>2, <1>3, <2>1, NegotiationAssumption DEF TaskStates, Rounds, Records
    <3>2. Continue(s, t)
      BY <1>1, <2>1
    <3>3. PICK k \in TaskStates : /\ Set(s, t, k) /\ Good(s, t, k, rec')
                                  /\ k.pc \in {"idle", "complete", "enqueue", "decide"}
                                  /\ k.msg \in {c.msg, NoMessage}
      BY <1>1, <1>2, <1>4, <1>6, <3>1, <3>2, ContinueStep
    <3>. QED
      BY <2>1, <3>3
  <2>2. CASE c.op # "propose"
    <3>. DEFINE k == At(c, "close")
    <3>1. Set(s, t, k)
      BY <1>1, <2>2, GotoAt
    <3>2. k \in TaskStates /\ k.pc = "close" /\ k.op = c.op /\ k.p = c.p /\ k.own = c.own /\ k.msg = c.msg
      BY <1>3, AtFacts
    <3>3. Supported(s, c, rec')
      BY <1>2, <1>3, <1>4, SupportedGrows
    <3>. HIDE DEF k
    <3>4. Shape(s, t, k)
      BY <1>3, <2>2, <3>2 DEF Shape
    <3>5. Supported(s, k, rec')
      BY <1>2, <1>6, <2>2, <3>2, <3>3 DEF Supported
    <3>. QED
      BY <3>1, <3>2, <3>4, <3>5 DEF Good
  <2>. QED
    BY <2>1, <2>2
<1>8. PICK k \in TaskStates : /\ Set(s, t, k) /\ Good(s, t, k, rec')
                              /\ k.pc \in {"idle", "complete", "enqueue", "decide", "close"}
                              /\ k.msg \in {c.msg, NoMessage}
                              /\ c.op # "propose" => k.pc = "close"
  BY <1>7
<1>9. Enqueued(s, c) \subseteq Messages /\ \A m \in Enqueued(s, c) : m.from = s /\ Backed(m, rec')
  <2>1. c.p \in Rounds
    BY <1>3 DEF TaskStates
  <2>. QED
    BY <1>6, <2>1 DEF Enqueued, Message, Messages, Backed
<1>10. TypeOK'
  <2>1. outbox' \in [Sides -> SUBSET Messages]
    BY <1>1, <1>9 DEF Inv, TypeOK
  <2>2. full' \in [Sides -> SUBSET Rounds]
    BY <1>1, <1>3 DEF Inv, TypeOK, TaskStates
  <2>. QED
    BY <1>1, <1>2, <1>8, <2>1, <2>2, SetTask DEF Inv, TypeOK
<1>11. TasksShaped' /\ TasksSupported'
  BY <1>2, <1>4, <1>8, Landing
<1>12. TasksRunning'
  BY <1>1, <1>3, <1>8, RunningStep
<1>13. OpenersAlone'
  <2>1. \A x \in Sides : rec'[x].state = "none" <=> rec[x].state = "none"
    BY <1>2 DEF Live, Terminal
  <2>. QED
    BY <1>1, <1>8, <2>1, OpenersStep DEF MayOpen, Opening
<1>14. MessagesBacked'
  <2>1. \A x \in Sides : \A m \in outbox'[x] : m \in outbox[x] \/ (m.from = x /\ Backed(m, rec'))
    BY <1>1, <1>9 DEF Inv, TypeOK
  <2>. QED
    BY <1>1, <1>2, <1>4, <2>1, MessagesAdded
<1>15. LiveHoldsSlot'
  BY <1>1, <1>2 DEF Inv, LiveHoldsSlot
<1>16. SlotAccounted'
  <2>. SUFFICES ASSUME NEW x \in Sides, slot'[x], rec'[x].state \notin Live, up'[x]
       PROVE \E u \in Tasks(x) : task'[x][u].pc \in {"create", "close"}
    BY DEF SlotAccounted
  <2>1. CASE x = s
    <3>1. k.pc = "close"
      BY <1>2, <1>8, <2>1 DEF Live
    <3>. QED
      BY <1>8, <2>1, <3>1, SetTask DEF Inv
  <2>2. CASE x # s
    <3>1. PICK u \in Tasks(x) : task[x][u].pc \in {"create", "close"}
      BY <1>1, <1>2, <2>2 DEF Inv, SlotAccounted
    <3>. QED
      BY <1>8, <2>2, <3>1, SetTask DEF Inv
  <2>. QED
    BY <2>1, <2>2
<1>. QED
  BY <1>4, <1>5, <1>10, <1>11, <1>12, <1>13, <1>14, <1>15, <1>16 DEF Inv

LEMMA CloseStep ==
  ASSUME Inv, NEW s \in Sides, NEW t \in Tasks(s), close(s, t)
  PROVE  Inv'
<1>. DEFINE c == task[s][t]
<1>1. /\ c.pc = "close" /\ slot' = [slot EXCEPT ![s] = FALSE] /\ Continue(s, t)
      /\ UNCHANGED <<rec, outbox, ledger, full, inbox, up, expired, calls, crashes>>
  BY DEF close
<1>2. /\ c \in TaskStates /\ Shape(s, t, c) /\ Supported(s, c, rec) /\ up[s] /\ rec \in [Sides -> Records]
      /\ c.msg # NoMessage => ledger[s][c.msg] # "none"
  BY <1>1, CallFacts DEF Inv, TypeOK
<1>3. c.op # "propose" /\ rec[s].state \in Terminal /\ (c.op = "accept" => AgreedOn(rec, s, c.p))
  BY <1>1, <1>2 DEF Shape, Supported
<1>4. Grows(rec, rec)
  BY <1>2, GrowsRefl
<1>5. PICK k \in TaskStates : /\ Set(s, t, k) /\ Good(s, t, k, rec)
                              /\ k.pc \in {"idle", "complete", "enqueue", "decide"}
                              /\ k.msg \in {c.msg, NoMessage}
  BY <1>1, <1>2, <1>3, <1>4, ContinueStep
<1>6. rec' \in [Sides -> Records] /\ Grows(rec, rec') /\ Good(s, t, k, rec')
  BY <1>1, <1>2, <1>4, <1>5
<1>7. slot' \in [Sides -> BOOLEAN] /\ ~slot'[s] /\ \A x \in Sides : x # s => slot'[x] = slot[x]
  BY <1>1 DEF Inv, TypeOK
<1>8. TypeOK'
  BY <1>1, <1>5, <1>7, SetTask DEF Inv, TypeOK
<1>9. TasksShaped' /\ TasksSupported'
  BY <1>5, <1>6, Landing
<1>10. TasksRunning'
  BY <1>1, <1>2, <1>5, RunningStep
<1>11. OpenersAlone'
  <2>1. \A x \in Sides : slot[x] => slot'[x] \/ rec[x].state # "none"
    BY <1>3, <1>7 DEF Terminal
  <2>. QED
    BY <1>1, <1>5, <2>1, OpenersStep DEF MayOpen, Opening
<1>12. MessagesBacked'
  BY <1>1, <1>6, MessagesStep
<1>13. RecordsFormed' /\ HeadsClose' /\ AgreementBacked'
  BY <1>1 DEF Inv, RecordsFormed, HeadsClose, AgreementBacked, Agreed
<1>14. LiveHoldsSlot'
  BY <1>1, <1>3, <1>7 DEF Inv, LiveHoldsSlot, Live, Terminal
<1>15. SlotAccounted'
  <2>. SUFFICES ASSUME NEW x \in Sides, slot'[x], rec'[x].state \notin Live, up'[x]
       PROVE \E u \in Tasks(x) : task'[x][u].pc \in {"create", "close"}
    BY DEF SlotAccounted
  <2>1. x # s
    BY <1>7
  <2>2. PICK u \in Tasks(x) : task[x][u].pc \in {"create", "close"}
    BY <1>1, <1>7, <2>1 DEF Inv, SlotAccounted
  <2>. QED
    BY <1>5, <2>1, <2>2, SetTask DEF Inv
<1>. QED
  BY <1>8, <1>9, <1>10, <1>11, <1>12, <1>13, <1>14, <1>15 DEF Inv

------------------------------------------------------------------------------
(* Sending and receiving. *)

LEMMA MessageStep ==
  ASSUME Inv, NEW s \in Sides, NEW t \in Tasks(s), NEW k, Set(s, t, k), Good(s, t, k, rec),
         UNCHANGED <<rec, slot, up>>, task[s][t].pc \notin {"create", "close"},
         TypeOK', MessagesBacked', TasksRunning', OpenersAlone'
  PROVE  Inv'
<1>1. rec \in [Sides -> Records] /\ rec' \in [Sides -> Records] /\ Grows(rec, rec') /\ Good(s, t, k, rec')
  BY GrowsRefl DEF Inv, TypeOK
<1>2. TasksShaped' /\ TasksSupported'
  BY <1>1, Landing
<1>3. SlotAccounted'
  BY SlotsStep
<1>. QED
  BY <1>2, <1>3, RecordsKept DEF Inv

LEMMA EnqueueStep ==
  ASSUME Inv, NEW s \in Sides, NEW t \in Tasks(s), Enqueue(s, t)
  PROVE  Inv'
<1>. DEFINE c == task[s][t]
            type == CASE c.op = "propose" -> "proposal" [] c.op = "accept" -> "acceptance"
                      [] c.op = "reject" -> "rejection"
            m == Message(type, c.p, s)
<1>1. /\ c.pc = "enqueue" /\ outbox' = [outbox EXCEPT ![s] = @ \cup {m}]
      /\ CASE t # "loop" -> Goto(s, t, "complete")
           [] t = "loop" /\ c.op = "reject" -> Set(s, t, Idle)
           [] OTHER -> Set(s, t, [Idle EXCEPT !.pc = "wait"])
      /\ UNCHANGED <<rec, slot, ledger, full, inbox, up, expired, calls, crashes>>
  BY DEF Enqueue
<1>2. /\ c \in TaskStates /\ Shape(s, t, c) /\ Supported(s, c, rec) /\ up[s] /\ rec \in [Sides -> Records]
      /\ c.msg # NoMessage => ledger[s][c.msg] # "none"
  BY <1>1, CallFacts DEF Inv, TypeOK
<1>3. c.op \in {"propose", "accept", "reject"} /\ (c.op = "propose" => c.own) /\ c.p \in Rounds
  BY <1>1, <1>2 DEF Shape, TaskStates
<1>4. m.type = type /\ m.p = c.p /\ m.from = s
  BY DEF Message
<1>5. /\ c.op = "propose" => type = "proposal"
      /\ c.op = "accept" => type = "acceptance"
      /\ c.op = "reject" => type = "rejection"
  OBVIOUS
<1>6. m \in Messages
  <2>1. type \in {"proposal", "acceptance", "rejection", "cancellation"}
    BY <1>3, <1>5
  <2>. HIDE DEF type
  <2>. QED
    BY <1>3, <2>1 DEF Message, Messages
<1>. HIDE DEF m, type
<1>7. Backed(m, rec)
  <2>1. c.op = "propose" => Proposer(c.p) = s /\ c.p <= rec[s].head
    BY <1>1, <1>2, <1>3 DEF Shape, Supported
  <2>2. c.op = "accept" => AgreedOn(rec, s, c.p)
    BY <1>1, <1>2 DEF Supported
  <2>. QED
    BY <1>3, <1>4, <1>5, <2>1, <2>2 DEF Backed
<1>8. \E k \in TaskStates : /\ Set(s, t, k) /\ Good(s, t, k, rec)
                            /\ k.pc \in {"idle", "wait", "complete"}
                            /\ k.msg \in {c.msg, NoMessage}
  <2>1. CASE t # "loop"
    <3>1. Set(s, t, At(c, "complete"))
      BY <1>1, <2>1, GotoAt
    <3>. DEFINE k == At(c, "complete")
    <3>2. k \in TaskStates /\ k.pc = "complete" /\ k.op = c.op /\ k.p = c.p /\ k.own = c.own /\ k.msg = c.msg
      BY <1>2, AtFacts
    <3>3. c.msg # NoMessage
      BY <1>2, <1>3, <2>1 DEF Shape
    <3>. HIDE DEF k
    <3>4. Shape(s, t, k)
      BY <1>2, <2>1, <3>2, <3>3 DEF Shape
    <3>5. Supported(s, k, rec)
      BY <1>2, <3>2 DEF Supported
    <3>. QED
      BY <3>1, <3>2, <3>4, <3>5 DEF Good, k
  <2>2. CASE t = "loop" /\ c.op = "reject"
    BY <1>1, <2>2, IdleGood, IdleType
  <2>3. CASE t = "loop" /\ c.op # "reject"
    <3>. DEFINE k == [Idle EXCEPT !.pc = "wait"]
    <3>1. Set(s, t, k)
      BY <1>1, <2>3
    <3>2. k \in TaskStates
      BY IdleType DEF TaskStates
    <3>3. k.pc = "wait" /\ k.op = "state" /\ k.msg = NoMessage
      BY DEF Idle
    <3>4. Good(s, t, k, rec)
      BY <2>3, <3>2, <3>3 DEF Good, Shape, Supported, Backed, NoMessage
    <3>. QED
      BY <3>1, <3>2, <3>3, <3>4
  <2>. QED
    BY <2>1, <2>2, <2>3
<1>9. PICK k \in TaskStates : /\ Set(s, t, k) /\ Good(s, t, k, rec)
                              /\ k.pc \in {"idle", "wait", "complete"}
                              /\ k.msg \in {c.msg, NoMessage}
  BY <1>8
<1>10. TypeOK'
  <2>1. outbox' \in [Sides -> SUBSET Messages]
    BY <1>1, <1>6 DEF Inv, TypeOK
  <2>. QED
    BY <1>1, <1>9, <2>1, SetTask DEF Inv, TypeOK
<1>11. MessagesBacked'
  <2>1. \A x \in Sides : \A n \in outbox'[x] : n \in outbox[x] \/ (n.from = x /\ Backed(n, rec'))
    BY <1>1, <1>4, <1>7 DEF Inv, TypeOK
  <2>. QED
    BY <1>1, <1>2, <2>1, GrowsRefl, MessagesAdded
<1>12. TasksRunning'
  BY <1>1, <1>2, <1>9, RunningStep
<1>13. OpenersAlone'
  BY <1>1, <1>9, OpenersStep DEF MayOpen, Opening
<1>. QED
  BY <1>1, <1>9, <1>10, <1>11, <1>12, <1>13, MessageStep

LEMMA DeliverStep ==
  ASSUME Inv, NEW s \in Sides, NEW m \in Messages, NEW t \in Handlers[s], Deliver(s, m, t)
  PROVE  Inv'
<1>. DEFINE pc == IF s = "seller" /\ m.type = "proposal" THEN "find" ELSE "read"
            k == [Idle EXCEPT !.op = OpFor(m), !.p = m.p, !.own = FALSE, !.msg = m, !.pc = pc]
<1>1. /\ m \in outbox[Other(s)] /\ up[s] /\ task[s][t] = Idle /\ Claimable(s, m)
      /\ ledger' = [ledger EXCEPT ![s][m] = "processing"] /\ Set(s, t, k)
      /\ UNCHANGED <<rec, slot, outbox, full, inbox, up, expired, calls, crashes>>
  BY DEF Deliver
<1>2. t \in Tasks(s) /\ t # "loop" /\ Other(s) \in Sides
  BY TasksFacts, SidesFacts DEF Sides
<1>3. m.from = Other(s) /\ Backed(m, rec) /\ m # NoMessage /\ m.p \in Rounds
  BY <1>1, <1>2, IdleType DEF Inv, MessagesBacked, Messages
<1>4. /\ OpFor(m) \in {"propose", "accept", "reject", "cancel"}
      /\ OpFor(m) = "propose" <=> m.type = "proposal"
      /\ OpFor(m) = "accept" <=> m.type = "acceptance"
  BY DEF OpFor, Messages
<1>5. k \in TaskStates /\ k.pc = pc /\ k.op = OpFor(m) /\ k.p = m.p /\ ~k.own /\ k.msg = m
  BY <1>3, <1>4, IdleType DEF TaskStates, Idle
<1>. HIDE DEF k
<1>6. Shape(s, t, k)
  BY <1>2, <1>3, <1>4, <1>5 DEF Shape
<1>7. Supported(s, k, rec)
  BY <1>3, <1>4, <1>5 DEF Supported, Backed
<1>8. ledger' \in [Sides -> [Messages -> {"none", "processing", "completed"}]]
      /\ ledger'[s][m] = "processing"
      /\ \A x \in Sides : \A n \in Messages : ledger[x][n] # "none" => ledger'[x][n] # "none"
  BY <1>1 DEF Inv, TypeOK
<1>9. TypeOK'
  BY <1>1, <1>2, <1>5, <1>8, SetTask DEF Inv, TypeOK
<1>10. MessagesBacked'
  BY <1>1, GrowsRefl, MessagesStep DEF Inv, TypeOK
<1>11. TasksRunning'
  BY <1>1, <1>2, <1>5, <1>8, RunningStep
<1>12. OpenersAlone'
  <2>1. ASSUME NEW x \in Sides, NEW u \in Tasks(x)
        PROVE  /\ Opening(task'[x][u]) => rec'[x].state = "none"
               /\ task'[x][u].pc = "create" => slot'[x]
    <3>1. CASE x = s /\ u = t
      BY <1>1, <1>2, <1>5, <3>1, SetTask DEF Inv, Opening
    <3>2. CASE x # s \/ u # t
      <4>1. task'[x][u] = task[x][u]
        BY <1>1, <1>2, <3>2, SetTask DEF Inv
      <4>. QED
        BY <1>1, <4>1 DEF Inv, OpenersAlone, Opening
    <3>. QED
      BY <3>1, <3>2
  <2>2. ASSUME NEW v \in Handlers["seller"], NEW u \in Handlers["seller"], v # u,
               MayOpen(task'["seller"][v]), task'["seller"][u].msg = task'["seller"][v].msg
        PROVE  rec'["seller"].state # "none"
    <3>1. "seller" \in Sides /\ v \in Tasks("seller") /\ u \in Tasks("seller")
      BY TasksFacts DEF Sides
    <3>2. CASE s = "seller" /\ v = t
      <4>1. task["seller"][u].msg = m
        BY <1>1, <1>2, <1>5, <2>2, <3>1, <3>2, SetTask DEF Inv
      <4>2. ledger["seller"][m] # "none"
        BY <1>3, <3>1, <4>1, CallFacts
      <4>3. task["seller"][u].pc = "decide"
        BY <1>1, <3>2, <4>1, <4>2 DEF Claimable
      <4>. QED
        BY <1>1, <3>1, <4>3, CallFacts DEF Supported
    <3>3. CASE s = "seller" /\ u = t
      <4>1. task["seller"][v].msg = m /\ MayOpen(task["seller"][v])
        BY <1>1, <1>2, <1>5, <2>2, <3>1, <3>3, SetTask DEF Inv
      <4>2. ledger["seller"][m] # "none"
        BY <1>3, <3>1, <4>1, CallFacts
      <4>3. task["seller"][v].pc = "decide"
        BY <1>1, <3>3, <4>1, <4>2 DEF Claimable
      <4>. QED
        BY <4>1, <4>3 DEF MayOpen, Opening
    <3>4. CASE s # "seller" \/ (v # t /\ u # t)
      <4>1. task'["seller"][v] = task["seller"][v] /\ task'["seller"][u] = task["seller"][u]
        BY <1>1, <1>2, <3>1, <3>4, SetTask DEF Inv
      <4>. QED
        BY <1>1, <2>2, <4>1 DEF Inv, OpenersAlone, MayOpen
    <3>. QED
      BY <3>2, <3>3, <3>4
  <2>. QED
    BY <2>1, <2>2 DEF OpenersAlone, MayOpen
<1>13. task[s][t].pc \notin {"create", "close"}
  BY <1>1, IdleGood
<1>. QED
  BY <1>1, <1>2, <1>5, <1>6, <1>7, <1>9, <1>10, <1>11, <1>12, <1>13, MessageStep DEF Good

LEMMA CompleteStep ==
  ASSUME Inv, NEW s \in Sides, NEW t \in Tasks(s), complete(s, t)
  PROVE  Inv'
<1>. DEFINE c == task[s][t]
<1>1. /\ c.pc = "complete" /\ ledger' = [ledger EXCEPT ![s][c.msg] = "completed"]
      /\ inbox' = IF s = "buyer" /\ (c.msg.type = "proposal" => c.op = "propose")
                  THEN inbox \cup {c.msg} ELSE inbox
      /\ outbox' = [outbox EXCEPT ![Other(s)] = @ \ {c.msg}] /\ Set(s, t, Idle)
      /\ UNCHANGED <<rec, slot, full, up, expired, calls, crashes>>
  BY DEF complete
<1>2. c \in TaskStates /\ Shape(s, t, c) /\ Supported(s, c, rec) /\ up[s] /\ rec \in [Sides -> Records]
  BY <1>1, CallFacts DEF Inv, TypeOK
<1>3. c.msg \in Messages /\ c.msg.from = Other(s) /\ Backed(c.msg, rec)
  BY <1>1, <1>2 DEF Shape, Supported, TaskStates
<1>4. Good(s, t, Idle, rec) /\ Idle.pc = "idle" /\ Idle.msg = NoMessage /\ Idle \in TaskStates
  BY IdleGood, IdleType
<1>5. /\ ledger' \in [Sides -> [Messages -> {"none", "processing", "completed"}]]
      /\ \A x \in Sides : \A n \in Messages : ledger[x][n] # "none" => ledger'[x][n] # "none"
  BY <1>1, <1>3 DEF Inv, TypeOK
<1>6. /\ outbox' \in [Sides -> SUBSET Messages] /\ inbox' \subseteq Messages
      /\ \A x \in Sides : outbox'[x] \subseteq outbox[x]
  BY <1>1, <1>3 DEF Inv, TypeOK
<1>7. TypeOK'
  BY <1>1, <1>4, <1>5, <1>6, SetTask DEF Inv, TypeOK
<1>8. MessagesBacked'
  <2>1. \A n \in inbox' : n \in inbox \/ (n.from = "seller" /\ Backed(n, rec'))
    BY <1>1, <1>3 DEF Other
  <2>. QED
    BY <1>1, <1>2, <1>6, <2>1, GrowsRefl, MessagesAdded
<1>9. TasksRunning'
  BY <1>1, <1>2, <1>4, <1>5, RunningStep
<1>10. OpenersAlone'
  BY <1>1, <1>4, OpenersStep DEF MayOpen, Opening
<1>. QED
  BY <1>1, <1>4, <1>7, <1>8, <1>9, <1>10, MessageStep

\* Steps that are no step of a call.
LEMMA CallsKept ==
  ASSUME Inv, UNCHANGED <<rec, slot, ledger, task, up>>, TypeOK', MessagesBacked'
  PROVE  Inv'
<1>1. TasksShaped' /\ TasksSupported' /\ TasksRunning' /\ OpenersAlone' /\ SlotAccounted'
  BY DEF Inv, TasksShaped, TasksSupported, TasksRunning, OpenersAlone, SlotAccounted
<1>. QED
  BY <1>1, RecordsKept DEF Inv

LEMMA DeliveredStep ==
  ASSUME Inv, NEW s \in Sides, NEW m \in Messages, markDelivered(s, m)
  PROVE  Inv'
<1>1. /\ outbox' = [outbox EXCEPT ![s] = @ \ {m}]
      /\ UNCHANGED <<rec, slot, ledger, full, inbox, task, up, expired, calls, crashes>>
  BY DEF markDelivered, volatile
<1>2. TypeOK'
  BY <1>1 DEF Inv, TypeOK
<1>3. \A x \in Sides : outbox'[x] \subseteq outbox[x]
  BY <1>1 DEF Inv, TypeOK
<1>4. MessagesBacked'
  BY <1>1, <1>3, GrowsRefl, MessagesStep DEF Inv, TypeOK
<1>. QED
  BY <1>1, <1>2, <1>4, CallsKept

LEMMA EnqueueMessageStep ==
  ASSUME Inv, enqueueMessage
  PROVE  Inv'
<1>. DEFINE m == Message("cancellation", 0, "buyer")
<1>1. /\ outbox' = [outbox EXCEPT !["buyer"] = @ \cup {m}]
      /\ UNCHANGED <<rec, slot, ledger, full, inbox, task, up, expired, calls, crashes>>
  BY DEF enqueueMessage, volatile
<1>2. m \in Messages /\ m.from = "buyer" /\ m.type = "cancellation"
  BY NegotiationAssumption DEF Message, Messages, Rounds, Sides
<1>. HIDE DEF m
<1>3. TypeOK'
  BY <1>1, <1>2 DEF Inv, TypeOK
<1>4. \A x \in Sides : \A n \in outbox'[x] : n \in outbox[x] \/ (n.from = x /\ Backed(n, rec'))
  BY <1>1, <1>2 DEF Inv, TypeOK, Backed
<1>5. MessagesBacked'
  BY <1>1, <1>4, GrowsRefl, MessagesAdded DEF Inv, TypeOK
<1>. QED
  BY <1>1, <1>3, <1>5, CallsKept

LEMMA ExpireStep ==
  ASSUME Inv, NEW s \in Sides, Expire(s)
  PROVE  Inv'
<1>1. /\ expired' = [expired EXCEPT ![s] = TRUE]
      /\ UNCHANGED <<rec, slot, outbox, ledger, full, inbox, task, up, calls, crashes>>
  BY DEF Expire, durable, volatile
<1>2. TypeOK'
  BY <1>1 DEF Inv, TypeOK
<1>3. MessagesBacked'
  BY <1>1 DEF Inv, MessagesBacked
<1>. QED
  BY <1>1, <1>2, <1>3, CallsKept

LEMMA CrashStep ==
  ASSUME Inv, NEW s \in Sides, Crash(s)
  PROVE  Inv'
<1>1. /\ crashes < MaxCrashes /\ crashes' = crashes + 1 /\ up' = [up EXCEPT ![s] = FALSE]
      /\ task' = [task EXCEPT ![s] = [t \in Tasks(s) |-> Idle]]
      /\ full' = [full EXCEPT ![s] = {}] /\ inbox' = IF s = "buyer" THEN {} ELSE inbox
      /\ UNCHANGED <<rec, slot, outbox, ledger, expired, calls>>
  BY DEF Crash, durable
<1>2. /\ DOMAIN task' = Sides
      /\ \A x \in Sides : \A u \in Tasks(x) : task'[x][u] = IF x = s THEN Idle ELSE task[x][u]
      /\ \A x \in Sides : task'[x] \in [Tasks(x) -> TaskStates]
  BY <1>1, IdleType DEF Inv, TypeOK
<1>3. TypeOK'
  <2>1. crashes' \in 0 .. MaxCrashes
    BY <1>1, NegotiationAssumption DEF Inv, TypeOK
  <2>. QED
    BY <1>1, <1>2, <2>1 DEF Inv, TypeOK
<1>4. MessagesBacked'
  BY <1>1, GrowsRefl, MessagesStep DEF Inv, TypeOK
<1>5. TasksShaped' /\ TasksSupported'
  <2>1. \A x \in Sides : \A u \in Tasks(x) :
          Shape(x, u, task'[x][u]) /\ Supported(x, task'[x][u], rec')
    BY <1>1, <1>2, IdleGood, CallFacts DEF Good
  <2>. QED
    BY <2>1 DEF TasksShaped, TasksSupported
<1>6. TasksRunning'
  <2>. SUFFICES ASSUME NEW x \in Sides, NEW u \in Tasks(x)
       PROVE /\ task'[x][u].pc # "idle" => up'[x]
             /\ task'[x][u].msg # NoMessage => ledger'[x][task'[x][u].msg] # "none"
    BY DEF TasksRunning
  <2>1. CASE x = s
    BY <1>2, <2>1, IdleGood
  <2>2. CASE x # s
    BY <1>1, <1>2, <2>2, CallFacts DEF Inv, TypeOK
  <2>. QED
    BY <2>1, <2>2
<1>7. OpenersAlone'
  <2>1. ASSUME NEW x \in Sides, NEW u \in Tasks(x)
        PROVE  /\ Opening(task'[x][u]) => rec'[x].state = "none"
               /\ task'[x][u].pc = "create" => slot'[x]
    BY <1>1, <1>2, IdleGood DEF Inv, OpenersAlone, Opening
  <2>2. ASSUME NEW v \in Handlers["seller"], NEW u \in Handlers["seller"], v # u,
               MayOpen(task'["seller"][v]), task'["seller"][u].msg = task'["seller"][v].msg
        PROVE  rec'["seller"].state # "none"
    <3>1. "seller" \in Sides /\ v \in Tasks("seller") /\ u \in Tasks("seller")
      BY TasksFacts DEF Sides
    <3>2. s # "seller"
      BY <1>2, <2>2, <3>1, IdleGood DEF MayOpen, Opening
    <3>3. task'["seller"][v] = task["seller"][v] /\ task'["seller"][u] = task["seller"][u]
      BY <1>2, <3>1, <3>2
    <3>. QED
      BY <1>1, <2>2, <3>3 DEF Inv, OpenersAlone, MayOpen
  <2>. QED
    BY <2>1, <2>2 DEF OpenersAlone, MayOpen
<1>8. SlotAccounted'
  <2>. SUFFICES ASSUME NEW x \in Sides, slot'[x], rec'[x].state \notin Live, up'[x]
       PROVE \E u \in Tasks(x) : task'[x][u].pc \in {"create", "close"}
    BY DEF SlotAccounted
  <2>1. x # s
    BY <1>1 DEF Inv, TypeOK
  <2>2. up[x]
    BY <1>1, <2>1 DEF Inv, TypeOK
  <2>3. PICK u \in Tasks(x) : task[x][u].pc \in {"create", "close"}
    BY <1>1, <2>2 DEF Inv, SlotAccounted
  <2>. QED
    BY <1>2, <2>1, <2>3
<1>. QED
  BY <1>1, <1>3, <1>4, <1>5, <1>6, <1>7, <1>8, RecordsKept DEF Inv

LEMMA RecoverStep ==
  ASSUME Inv, NEW s \in Sides, recoverPurchases(s)
  PROVE  Inv'
<1>1. /\ ~up[s] /\ slot' = [slot EXCEPT ![s] = @ /\ Recoverable(s)] /\ up' = [up EXCEPT ![s] = TRUE]
      /\ UNCHANGED <<rec, outbox, ledger, full, inbox, task, expired, calls, crashes>>
  BY DEF recoverPurchases
<1>2. \A u \in Tasks(s) : task[s][u].pc = "idle"
  BY <1>1 DEF Inv, TasksRunning
<1>3. slot[s] \in BOOLEAN /\ slot \in [Sides -> BOOLEAN]
  BY DEF Inv, TypeOK
<1>4. slot' \in [Sides -> BOOLEAN] /\ (slot'[s] <=> slot[s] /\ rec[s].state \in Live)
  <2>1. (slot[s] /\ Recoverable(s)) \in BOOLEAN
    BY DEF Recoverable
  <2>. QED
    BY <1>1, <1>3, <2>1 DEF Recoverable
<1>5. \A x \in Sides : x # s => slot'[x] = slot[x]
  BY <1>1, <1>3
<1>6. up' \in [Sides -> BOOLEAN] /\ \A x \in Sides : up[x] => up'[x]
  BY <1>1 DEF Inv, TypeOK
<1>7. TypeOK'
  BY <1>1, <1>4, <1>6 DEF Inv, TypeOK
<1>8. MessagesBacked' /\ TasksShaped' /\ TasksSupported' /\ RecordsFormed' /\ HeadsClose' /\ AgreementBacked'
  BY <1>1 DEF Inv, MessagesBacked, TasksShaped, TasksSupported, RecordsFormed, HeadsClose,
              AgreementBacked, Agreed
<1>9. TasksRunning'
  BY <1>1, <1>6 DEF Inv, TasksRunning
<1>10. OpenersAlone'
  BY <1>1, <1>2, <1>5 DEF Inv, OpenersAlone, Opening
<1>11. LiveHoldsSlot'
  BY <1>1, <1>4, <1>5 DEF Inv, LiveHoldsSlot
<1>12. SlotAccounted'
  <2>. SUFFICES ASSUME NEW x \in Sides, slot'[x], rec'[x].state \notin Live, up'[x]
       PROVE \E u \in Tasks(x) : task'[x][u].pc \in {"create", "close"}
    BY DEF SlotAccounted
  <2>1. x # s
    BY <1>1, <1>4
  <2>2. up[x] /\ slot[x]
    BY <1>1, <1>5, <2>1 DEF Inv, TypeOK
  <2>. QED
    BY <1>1, <2>2 DEF Inv, SlotAccounted
<1>. QED
  BY <1>7, <1>8, <1>9, <1>10, <1>11, <1>12 DEF Inv

------------------------------------------------------------------------------
(* The theorems. *)

LEMMA InitInv == Init => Inv
<1>. SUFFICES ASSUME Init PROVE Inv
  OBVIOUS
<1>. DEFINE first == [Idle EXCEPT !.pc = "open", !.op = "propose"]
<1>1. first \in TaskStates
  BY IdleType DEF TaskStates
<1>2. /\ DOMAIN task = Sides
      /\ \A s \in Sides : \A t \in Tasks(s) : task[s][t] = IF t = "loop" THEN first ELSE Idle
      /\ \A s \in Sides : task[s] \in [Tasks(s) -> TaskStates]
  BY <1>1, IdleType DEF Init
<1>3. rec \in [Sides -> Records] /\ \A s \in Sides : rec[s] = NoRecord
  BY IdleType DEF Init
<1>4. TypeOK
  <2>1. calls \in 0 .. MaxCalls /\ crashes \in 0 .. MaxCrashes
    BY NegotiationAssumption DEF Init
  <2>. QED
    BY <1>2, <1>3, <2>1 DEF Init, TypeOK
<1>5. RecordsFormed /\ HeadsClose /\ AgreementBacked /\ LiveHoldsSlot
  BY <1>3, SidesFacts DEF RecordsFormed, HeadsClose, AgreementBacked, LiveHoldsSlot, Agreed,
                          NoRecord, Live, Terminal
<1>6. MessagesBacked /\ SlotAccounted
  BY DEF Init, MessagesBacked, SlotAccounted
<1>7. \A t \in Tasks("seller") : t # "loop"
  BY TasksFacts
<1>8. first.pc = "open" /\ first.op = "propose" /\ first.p = 0 /\ first.own /\ first.msg = NoMessage
  BY DEF Idle
<1>9. Good("buyer", "loop", first, rec)
  <2>1. Proposer(0) = "buyer"
    BY DEF Proposer
  <2>. HIDE DEF first
  <2>. QED
    BY <1>1, <1>8, <2>1 DEF Good, Shape, Supported, Backed, NoMessage
<1>. HIDE DEF first
<1>10. \A s \in Sides : \A t \in Tasks(s) : Good(s, t, task[s][t], rec)
  BY <1>2, <1>7, <1>9, IdleGood DEF Sides
<1>11. TasksShaped /\ TasksSupported
  BY <1>10 DEF TasksShaped, TasksSupported, Good
<1>12. TasksRunning
  BY <1>2, <1>8, IdleGood DEF Init, TasksRunning
<1>13. OpenersAlone
  <2>1. \A t \in Handlers["seller"] : task["seller"][t] = Idle
    BY <1>2, TasksFacts DEF Sides
  <2>2. \A s \in Sides : \A t \in Tasks(s) : task[s][t].pc # "create"
    BY <1>2, <1>8, IdleGood
  <2>3. ~Opening(Idle) /\ Idle.pc # "find"
    BY DEF Idle, Opening
  <2>4. \A s \in Sides : rec[s].state = "none"
    BY <1>3 DEF NoRecord
  <2>. QED
    BY <2>1, <2>2, <2>3, <2>4 DEF OpenersAlone
<1>. QED
  BY <1>4, <1>5, <1>6, <1>11, <1>12, <1>13 DEF Inv

LEMMA NextInv == Inv /\ [Next]_vars => Inv'
<1>. SUFFICES ASSUME Inv, [Next]_vars PROVE Inv'
  OBVIOUS
<1>1. CASE UNCHANGED vars
  <2>1. UNCHANGED <<rec, slot, outbox, ledger, full, inbox, task, up, expired, calls, crashes>>
    BY <1>1 DEF vars, durable, volatile
  <2>2. TypeOK' /\ MessagesBacked'
    BY <2>1 DEF Inv, TypeOK, MessagesBacked
  <2>. QED
    BY <2>1, <2>2, CallsKept
<1>2. ASSUME NEW s \in Sides, NEW t \in Tasks(s), Step(s, t) PROVE Inv'
  BY <1>2, FindStep, TryOpenStep, CreateStep, ReadStep, ExpiredProposalStep, CasStep, StaleStep,
     CloseStep, EnqueueStep, CompleteStep DEF Step
<1>3. CASE \E t \in Handlers["seller"] : decide(t)
  BY <1>3, DecideStep
<1>4. CASE Respond \/ Timeout \/ enqueueMessage
  BY <1>4, RespondStep, TimeoutStep, EnqueueMessageStep
<1>5. ASSUME NEW s \in Sides, NEW m \in Messages, NEW t \in Handlers[s], Deliver(s, m, t) PROVE Inv'
  BY <1>5, DeliverStep
<1>6. ASSUME NEW s \in Sides, NEW m \in Messages, markDelivered(s, m) PROVE Inv'
  BY <1>6, DeliveredStep
<1>7. ASSUME NEW s \in Sides, NEW op \in {"cancel", "state"}, NEW t \in Handlers[s], Application(s, t, op)
      PROVE Inv'
  BY <1>7, ApplicationStep
<1>8. ASSUME NEW s \in Sides, Expire(s) \/ Crash(s) \/ recoverPurchases(s) PROVE Inv'
  BY <1>8, ExpireStep, CrashStep, RecoverStep
<1>. QED
  BY <1>1, <1>2, <1>3, <1>4, <1>5, <1>6, <1>7, <1>8 DEF Next

LEMMA Invariance == Spec => []Inv
BY InitInv, NextInv, PTL DEF Spec

\* Only create and the compare-and-set write a record.
LEMMA NextGrows == Inv /\ [Next]_vars => Grows(rec, rec')
<1>. SUFFICES ASSUME Inv, [Next]_vars PROVE Grows(rec, rec')
  OBVIOUS
<1>1. Grows(rec, rec)
  BY GrowsRefl DEF Inv, TypeOK
<1>2. CASE rec' = rec
  BY <1>1, <1>2
<1>3. CASE \E s \in Sides : \E t \in Tasks(s) : create(s, t)
  <2>0. PICK s \in Sides : \E t \in Tasks(s) : create(s, t)
    BY <1>3
  <2>1. PICK t \in Tasks(s) : create(s, t)
    BY <2>0
  <2>2. rec[s].state = "none"
    BY <2>1 DEF create, Inv, OpenersAlone, Opening
  <2>. QED
    BY <2>1, <2>2, CreateGrows DEF create
<1>4. CASE \E s \in Sides : \E t \in Tasks(s) : compareAndSet(s, t)
  BY <1>4, CasGrows DEF compareAndSet
<1>5. ASSUME NEW s \in Sides, NEW t \in Tasks(s), Step(s, t)
      PROVE  create(s, t) \/ compareAndSet(s, t) \/ rec' = rec
  BY <1>5 DEF Step, ensureNegotiationForProposal, tryOpen, Read, ProposalExpired, StaleRevision,
              close, Enqueue, complete, durable
<1>6. ASSUME NEW s \in Sides, Expire(s) \/ Crash(s) \/ recoverPurchases(s) PROVE rec' = rec
  BY <1>6 DEF Expire, Crash, recoverPurchases, durable
<1>7. ASSUME \/ UNCHANGED vars \/ Respond \/ Timeout \/ enqueueMessage
             \/ \E t \in Handlers["seller"] : decide(t)
      PROVE  rec' = rec
  BY <1>7 DEF vars, durable, decide, Respond, Timeout, enqueueMessage
<1>8. ASSUME NEW s \in Sides,
             \/ \E m \in Messages : markDelivered(s, m) \/ \E t \in Handlers[s] : Deliver(s, m, t)
             \/ \E op \in {"cancel", "state"} : \E t \in Handlers[s] : Application(s, t, op)
      PROVE  rec' = rec
  BY <1>8 DEF durable, markDelivered, Deliver, Application
<1>. QED
  BY <1>2, <1>3, <1>4, <1>5, <1>6, <1>7, <1>8 DEF Next

\* Records, slots, outboxes, ledgers and calls keep the shape the code gives them: no
\* head passes the limit on rounds and no revision the number of transitions.
THEOREM TypeCorrect == Spec => []TypeOK
<1>1. Inv => TypeOK
  BY DEF Inv
<1>. QED
  BY <1>1, Invariance, PTL

\* No agreement without the other side: two agreements are on one proposal, and a
\* side's own proposal is agreed only when the other side accepted it, whatever
\* engine calls, deliveries, replays and restarts interleave.
THEOREM Backing == Spec => []AgreementBacked
<1>1. Inv => AgreementBacked
  BY DEF Inv
<1>. QED
  BY <1>1, Invariance, PTL

\* A live negotiation holds the slot that tryOpen took for it.
THEOREM SlotsHeld == Spec => []LiveHoldsSlot
<1>1. Inv => LiveHoldsSlot
  BY DEF Inv
<1>. QED
  BY <1>1, Invariance, PTL

\* A slot without a live negotiation has a call that will use or release it, or is
\* released by recoverPurchases: no opener loses the race of store.create, because
\* there is only one.
THEOREM NoSlotLeak == Spec => []SlotAccounted
<1>1. Inv => SlotAccounted
  BY DEF Inv
<1>. QED
  BY <1>1, Invariance, PTL

\* The compare-and-set replaces the record it read and nothing else, so that an ended
\* negotiation is never written again.
THEOREM Finality == Spec => TerminalFinal
<1>1. Inv /\ [Next]_vars => [\A s \in Sides : rec[s].state \in Terminal => rec'[s] = rec[s]]_vars
  BY NextGrows DEF Grows
<1>. QED
  BY <1>1, Invariance, PTL DEF Spec, TerminalFinal
==============================================================================
