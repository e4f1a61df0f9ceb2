------------------------- MODULE OmniaChannelProofs -------------------------
(****************************************************************************)
(* Proofs about OmniaChannel for any number of tasks, sequences, restarts   *)
(* and failures, and any value of the channel.                              *)
(****************************************************************************)
EXTENDS OmniaChannel, FiniteSetTheorems, SequenceTheorems, TLAPS

------------------------------------------------------------------------------
(* The two parties, and payloads. *)

\* There are two parties, each the other of the other.
LEMMA TwoParties ==
  /\ First \in Parties /\ Other(First) \in Parties /\ Other(First) # First
  /\ Parties = {First, Other(First)} /\ Other(Other(First)) = First
  <1> DEFINE rest == Parties \ {First}
  <1>1. Parties # {}
    BY ChannelAssumption, FS_EmptySet
  <1>2. First \in Parties
    BY <1>1 DEF First
  <1>3. IsFiniteSet(rest) /\ Cardinality(rest) = 1
    BY <1>2, ChannelAssumption, FS_RemoveElement
  <1> HIDE DEF rest
  <1>4. PICK q : rest = {q}
    BY <1>3, FS_Singleton
  <1>5. q \in Parties /\ q # First /\ Parties = {First, q}
    BY <1>2, <1>4 DEF rest
  <1>6. Other(First) \in Parties /\ Other(First) # First
    BY <1>5 DEF Other
  <1>7. Other(First) = q
    BY <1>5, <1>6
  <1>8. Other(q) \in Parties /\ Other(q) # q
    BY <1>5 DEF Other
  <1> QED
    BY <1>2, <1>5, <1>7, <1>8

\* A set of HTLCs is finite, and counts one more or one less with an HTLC.
LEMMA Pending ==
  ASSUME NEW S \in SUBSET Parties, NEW h \in Parties
  PROVE  /\ IsFiniteSet(S) /\ Cardinality(S) \in Nat
         /\ h \notin S => Cardinality(S \cup {h}) = Cardinality(S) + 1
         /\ h \in S => Cardinality(S \ {h}) = Cardinality(S) - 1
  <1>1. IsFiniteSet(S)
    BY ChannelAssumption, FS_Subset
  <1>2. Cardinality(S) \in Nat
    BY <1>1, FS_CardinalityType
  <1>3. h \notin S => Cardinality(S \cup {h}) = Cardinality(S) + 1
    BY <1>1, FS_AddElement
  <1>4. h \in S => Cardinality(S \ {h}) = Cardinality(S) - 1
    BY <1>1, FS_RemoveElement
  <1> QED
    BY <1>1, <1>2, <1>3, <1>4

\* The balances of a payload as two numbers.
LEMMA HeldIs ==
  ASSUME NEW x \in Payloads, NEW p \in Parties
  PROVE  /\ Other(p) \in Parties /\ Other(p) # p /\ Parties = {p, Other(p)}
         /\ x.bal[p] \in 0 .. Total /\ x.bal[Other(p)] \in 0 .. Total
         /\ x.pend \in SUBSET Parties /\ Cardinality(x.pend) \in Nat
         /\ Held(x) = x.bal[p] + x.bal[Other(p)] + Cardinality(x.pend)
  <1>1. /\ Other(p) \in Parties /\ Other(p) # p /\ Parties = {p, Other(p)}
    BY TwoParties
  <1>2. x.bal \in [Parties -> 0 .. Total] /\ x.pend \in SUBSET Parties
    BY DEF Payloads
  <1>3. Cardinality(x.pend) \in Nat
    BY <1>2, Pending
  <1>4. Held(x) = x.bal[First] + x.bal[Other(First)] + Cardinality(x.pend)
    BY DEF Held
  <1>5. CASE p = First
    BY <1>1, <1>2, <1>3, <1>4, <1>5
  <1>6. CASE p = Other(First)
    BY <1>1, <1>2, <1>3, <1>4, <1>6, TwoParties, ChannelAssumption
  <1> QED
    BY <1>5, <1>6, TwoParties

\* The opening payload.
LEMMA OpeningSound ==
  /\ Opening \in Payloads /\ Held(Opening) = Total /\ Opening.pend = {}
  /\ NoState \in States /\ Opened \in Channels /\ Idle \in TaskStates
  <1>1. (Total + 1) \div 2 \in 0 .. Total /\ Total \div 2 \in 0 .. Total
        /\ (Total + 1) \div 2 + Total \div 2 = Total
    <2>1. Total \in Nat
      BY ChannelAssumption
    <2> QED
      BY <2>1, Z3
  <1>2. Opening \in Payloads
    BY <1>1 DEF Opening, Payloads
  <1>3. Opening.bal[First] + Opening.bal[Other(First)] = Total /\ Opening.pend = {}
    BY <1>1, TwoParties DEF Opening
  <1>4. Held(Opening) = Total
    <2>1. Cardinality(Opening.pend) = 0 /\ Total \in Nat
      BY <1>3, FS_EmptySet, ChannelAssumption
    <2>2. /\ Held(Opening) = Opening.bal[First] + Opening.bal[Other(First)]
                             + Cardinality(Opening.pend)
      BY <1>2, HeldIs, TwoParties
    <2> QED
      BY <1>3, <2>1, <2>2
  <1>5. NoState \in States /\ Opened \in Channels /\ Idle \in TaskStates
    BY <1>2, TwoParties, ChannelAssumption
       DEF NoState, States, Opened, Channels, Idle, TaskStates, Ops
  <1> QED
    BY <1>2, <1>3, <1>4, <1>5

\* A move of one unit from a balance to the other.
LEMMA PaymentSound ==
  ASSUME NEW c \in Channels, NEW p \in Parties, c.pay.bal[p] >= 1, Held(c.pay) = Total
  PROVE  /\ payment(c, p) \in Payloads /\ Held(payment(c, p)) = Total
         /\ payment(c, p).pend = c.pay.pend
  <1> DEFINE x == c.pay
             y == payment(c, p)
             q == Other(p)
  <1>1. x \in Payloads
    BY DEF Channels
  <1>2. q \in Parties /\ q # p /\ Parties = {p, q}
    BY TwoParties
  <1>3. x.bal[p] + x.bal[q] + Cardinality(x.pend) = Total
    BY <1>1, HeldIs
  <1>4. x.bal \in [Parties -> 0 .. Total] /\ Cardinality(x.pend) \in Nat /\ Total \in Nat
    BY <1>1, <1>2, Pending, ChannelAssumption DEF Payloads
  <1>5. /\ y.bal = [x.bal EXCEPT ![p] = x.bal[p] - 1, ![q] = x.bal[q] + 1] /\ y.pend = x.pend
    BY <1>1, <1>2, <1>4 DEF payment, Payloads
  <1>6. x.bal[p] - 1 \in 0 .. Total /\ x.bal[q] + 1 \in 0 .. Total
    BY <1>2, <1>3, <1>4
  <1>7. y \in Payloads
    BY <1>1, <1>2, <1>4, <1>6 DEF payment, Payloads
  <1>8. y.bal[p] = x.bal[p] - 1 /\ y.bal[q] = x.bal[q] + 1
    BY <1>2, <1>4, <1>5
  <1>9. Held(y) = y.bal[p] + y.bal[q] + Cardinality(y.pend)
    BY <1>7, HeldIs
  <1> QED
    BY <1>3, <1>4, <1>5, <1>6, <1>7, <1>8, <1>9, <1>2

\* One unit goes from a balance into an HTLC.
LEMMA OfferSound ==
  ASSUME NEW c \in Channels, NEW p \in Parties, c.pay.bal[p] >= 1, Held(c.pay) = Total,
         p \notin c.pay.pend
  PROVE  /\ withHTLC(c, p) \in Payloads /\ Held(withHTLC(c, p)) = Total
         /\ withHTLC(c, p).pend = c.pay.pend \cup {p}
  <1> DEFINE x == c.pay
             y == withHTLC(c, p)
             q == Other(p)
  <1>1. x \in Payloads
    BY DEF Channels
  <1>2. q \in Parties /\ q # p /\ Parties = {p, q}
    BY TwoParties
  <1>3. x.bal[p] + x.bal[q] + Cardinality(x.pend) = Total
    BY <1>1, HeldIs
  <1>4. x.bal \in [Parties -> 0 .. Total] /\ Cardinality(x.pend) \in Nat /\ Total \in Nat
        /\ x.pend \in SUBSET Parties
    BY <1>1, <1>2, Pending, ChannelAssumption DEF Payloads
  <1>5. y.bal = [x.bal EXCEPT ![p] = x.bal[p] - 1] /\ y.pend = x.pend \cup {p}
    BY <1>1, <1>2, <1>4 DEF withHTLC, Payloads
  <1>6. x.bal[p] - 1 \in 0 .. Total
    BY <1>2, <1>3, <1>4
  <1>7. y \in Payloads
    BY <1>1, <1>2, <1>4, <1>6 DEF withHTLC, Payloads
  <1>8. y.bal[p] = x.bal[p] - 1 /\ y.bal[q] = x.bal[q]
        /\ Cardinality(y.pend) = Cardinality(x.pend) + 1
    BY <1>2, <1>4, <1>5, Pending
  <1>9. Held(y) = y.bal[p] + y.bal[q] + Cardinality(y.pend)
    BY <1>7, HeldIs
  <1>10. x.bal[p] \in Int /\ x.bal[q] \in Int
    BY <1>1, HeldIs
  <1>11. Held(y) = Total
    BY <1>3, <1>4, <1>8, <1>9, <1>10, Z3
  <1> QED
    BY <1>5, <1>7, <1>11

\* The unit of an HTLC goes to one of the parties.
LEMMA ResolveSound ==
  ASSUME NEW c \in Channels, NEW h \in c.pay.pend, Held(c.pay) = Total, NEW p \in Parties,
         NEW y, y = [c.pay EXCEPT !.bal[p] = @ + 1, !.pend = @ \ {h}]
  PROVE  y \in Payloads /\ Held(y) = Total /\ y.pend \subseteq c.pay.pend
  <1> DEFINE x == c.pay
             q == Other(p)
  <1>1. x \in Payloads /\ h \in Parties
    BY DEF Channels, Payloads
  <1>2. q \in Parties /\ q # p /\ Parties = {p, q}
    BY TwoParties
  <1>3. x.bal[p] + x.bal[q] + Cardinality(x.pend) = Total
    BY <1>1, HeldIs
  <1>4. x.bal \in [Parties -> 0 .. Total] /\ Cardinality(x.pend) \in Nat /\ Total \in Nat
        /\ x.pend \in SUBSET Parties
    BY <1>1, <1>2, Pending, ChannelAssumption DEF Payloads
  <1>5. y.bal = [x.bal EXCEPT ![p] = x.bal[p] + 1] /\ y.pend = x.pend \ {h}
    BY <1>1, <1>2, <1>4 DEF Payloads
  <1>6. Cardinality(y.pend) = Cardinality(x.pend) - 1 /\ Cardinality(y.pend) \in Nat
    BY <1>1, <1>4, <1>5, Pending
  <1>7. x.bal[p] + 1 \in 0 .. Total
    BY <1>2, <1>3, <1>4, <1>6
  <1>8. y \in Payloads
    BY <1>1, <1>2, <1>4, <1>7 DEF Payloads
  <1>9. y.bal[p] = x.bal[p] + 1 /\ y.bal[q] = x.bal[q]
    BY <1>2, <1>4, <1>5
  <1>10. Held(y) = y.bal[p] + y.bal[q] + Cardinality(y.pend)
    BY <1>8, HeldIs
  <1> QED
    BY <1>2, <1>3, <1>4, <1>5, <1>6, <1>8, <1>9, <1>10

------------------------------------------------------------------------------
(* Types, tasks and value. *)

\* The first state.
LEMMA StateInit == Init => StateInv
  <1> SUFFICES ASSUME Init PROVE StateInv
    OBVIOUS
  <1>1. TypeOK
    <2>1. /\ net \in [Parties -> Seq(States)] /\ sealed \in [Parties -> SUBSET (1 .. MaxSeq)]
          /\ signed = {} /\ offered = {}
      BY DEF Init
    <2> QED
      BY <2>1, OpeningSound, ChannelAssumption DEF Init, TypeOK
  <1>2. /\ \A p \in Parties : store[p].pay = Opening /\ net[p] = <<>>
        /\ \A p \in Parties, t \in Tasks : task[p][t] = Idle
    BY DEF Init, Opened
  <1>3. ValueConserved
    BY <1>2, OpeningSound DEF ValueConserved, StoresSound, TasksSound, NetSound, Sound, Idle, Opened
  <1>4. TasksFormed
    BY <1>2 DEF TasksFormed, Idle, Signing
  <1> QED
    BY <1>1, <1>3, <1>4 DEF StateInv

\* A task may become k, given the HTLCs offered.
Fits(k, off) ==
  /\ k \in TaskStates
  /\ Held(k.pay) = Total /\ k.pay.pend \subseteq off
  /\ Held(k.chan.pay) = Total /\ k.chan.pay.pend \subseteq off
  /\ k.pc = "tip" => k.op \in {"fulfillHTLC", "timeoutHTLC"} /\ k.htlc \in k.chan.pay.pend
  /\ k.pc \in Signing => k.seq >= 1
Becomes(p, t, k) == task' = [task EXCEPT ![p][t] = k]

\* The tasks are typed, formed and sound.
TasksOK == task \in [Parties -> [Tasks -> TaskStates]] /\ TasksSound /\ TasksFormed

\* One task moves, and the others are as they were.
LEMMA TaskMoves ==
  ASSUME StateInv, NEW p \in Parties, NEW t \in Tasks, NEW k, Becomes(p, t, k),
         offered \subseteq offered', Fits(k, offered')
  PROVE  /\ TasksOK' /\ task'[p][t] = k
         /\ \A q \in Parties, u \in Tasks : q # p \/ u # t => task'[q][u] = task[q][u]
  <1>1. task \in [Parties -> [Tasks -> TaskStates]] /\ k \in TaskStates
    BY DEF StateInv, TypeOK, Fits
  <1>2. task' \in [Parties -> [Tasks -> TaskStates]] /\ task'[p][t] = k
    BY <1>1 DEF Becomes
  <1>3. \A q \in Parties, u \in Tasks : q # p \/ u # t => task'[q][u] = task[q][u]
    BY <1>1 DEF Becomes
  <1>4. TasksSound'
    <2> SUFFICES ASSUME NEW q \in Parties, NEW u \in Tasks
                 PROVE  /\ Held(task'[q][u].pay) = Total
                        /\ task'[q][u].pay.pend \subseteq offered'
                        /\ Held(task'[q][u].chan.pay) = Total
                        /\ task'[q][u].chan.pay.pend \subseteq offered'
      BY DEF TasksSound, Sound, Held
    <2>1. CASE q = p /\ u = t
      BY <1>2, <2>1 DEF Fits
    <2>2. CASE q # p \/ u # t
      BY <1>3, <2>2 DEF StateInv, ValueConserved, TasksSound, Sound
    <2> QED
      BY <2>1, <2>2
  <1>5. TasksFormed'
    BY <1>2, <1>3 DEF StateInv, TasksFormed, Fits
  <1> QED
    BY <1>2, <1>3, <1>4, <1>5 DEF TasksOK

\* An idle task fits, and a task goes on as it is.
LEMMA IdleFits == ASSUME NEW off PROVE Fits(Idle, off)
  BY OpeningSound DEF Fits, Idle, Opened, Signing
LEMMA PcFits ==
  ASSUME StateInv, NEW p \in Parties, NEW t \in Tasks, task[p][t].pc \in Signing,
         NEW pc \in Signing, Goto(p, t, pc)
  PROVE  LET k == [task[p][t] EXCEPT !.pc = pc]
         IN Becomes(p, t, k) /\ Fits(k, offered)
  <1> DEFINE k == [task[p][t] EXCEPT !.pc = pc]
  <1>1. task \in [Parties -> [Tasks -> TaskStates]] /\ task[p][t] \in TaskStates
    BY DEF StateInv, TypeOK
  <1>2. Becomes(p, t, k)
    BY DEF Goto, Becomes
  <1>3. /\ k \in TaskStates /\ k.pc = pc /\ k.seq = task[p][t].seq
        /\ k.pay = task[p][t].pay /\ k.chan = task[p][t].chan
    BY <1>1 DEF TaskStates, Signing
  <1>4. task[p][t].seq >= 1
    BY DEF StateInv, TasksFormed
  <1>5. Sound(task[p][t].pay) /\ Sound(task[p][t].chan.pay)
    BY DEF StateInv, ValueConserved, TasksSound
  <1> HIDE DEF k
  <1>6. Fits(k, offered)
    BY <1>3, <1>4, <1>5 DEF Fits, Sound, Signing
  <1> QED
    BY <1>2, <1>6 DEF k

\* What is not touched stays sound when HTLCs are offered.
LEMMA Kept ==
  ASSUME StateInv, offered \subseteq offered'
  PROVE  /\ UNCHANGED store => StoresSound'
         /\ UNCHANGED net => NetSound'
  <1>1. ASSUME UNCHANGED store PROVE StoresSound'
    BY <1>1 DEF StateInv, ValueConserved, StoresSound, Sound, Held
  <1>2. ASSUME UNCHANGED net PROVE NetSound'
    BY <1>2 DEF StateInv, ValueConserved, NetSound, Sound, Held
  <1> QED
    BY <1>1, <1>2

\* A step that touches tasks, the watermark and the offers only.
LEMMA Local ==
  ASSUME StateInv, TasksOK', offered \subseteq offered', offered' \subseteq Parties,
         mark' \in [Parties -> States], UNCHANGED <<store, net, sealed, boot, fails, signed, lapsed>>
  PROVE  StateInv'
  <1>1. StoresSound' /\ NetSound'
    BY Kept
  <1> QED
    BY <1>1 DEF StateInv, TypeOK, TasksOK, ValueConserved

\* Enter with a sound payload of a sound channel.
LEMMA EnterSound ==
  ASSUME StateInv, NEW p \in Parties, NEW t \in Tasks, NEW op \in Ops, NEW c \in Channels,
         NEW seq \in Nat, NEW pay \in Payloads, NEW h \in Parties, Enter(p, t, op, c, seq, pay, h),
         seq >= 1, Held(pay) = Total, pay.pend \subseteq offered', Sound(c.pay),
         offered \subseteq offered'
  PROVE  TasksOK' /\ mark' \in [Parties -> States]
  <1> DEFINE k == [pc |-> "sign", op |-> op, seq |-> seq, pay |-> pay, chan |-> c, htlc |-> h]
  <1>1. seq \in 0 .. MaxSeq
    BY ChannelAssumption DEF Enter, GuardsPass
  <1>2. Becomes(p, t, k)
    BY DEF Enter, Becomes
  <1>3. Fits(k, offered')
    BY <1>1 DEF Fits, TaskStates, Sound
  <1>4. mark' \in [Parties -> States]
    <2>1. [seq |-> seq, pay |-> pay] \in States
      BY <1>1 DEF States
    <2> QED
      BY <2>1 DEF Enter, StateInv, TypeOK
  <1> HIDE DEF k
  <1> QED
    BY <1>2, <1>3, <1>4, TaskMoves

\* What a stored channel gives a method that reads it.
LEMMA Reads ==
  ASSUME StateInv, NEW p \in Parties
  PROVE  /\ store[p] \in Channels /\ Sound(store[p].pay) /\ Held(store[p].pay) = Total
         /\ store[p].seq + 1 \in Nat /\ store[p].seq + 1 >= 1 /\ store[p].pay \in Payloads
         /\ store[p].seq \in 0 .. MaxSeq
  BY ChannelAssumption DEF StateInv, TypeOK, ValueConserved, StoresSound, Sound, Channels

LEMMA State_updateState ==
  ASSUME StateInv, NEW p \in Parties, NEW t \in Tasks, updateState(p, t)
  PROVE  StateInv'
  <1> DEFINE c == store[p]
  <1>1. /\ c \in Channels /\ Sound(c.pay) /\ Held(c.pay) = Total /\ c.seq + 1 \in Nat
        /\ c.seq + 1 >= 1
    BY Reads
  <1>2. /\ c.pay.bal[p] >= 1 /\ Enter(p, t, "pay", c, c.seq + 1, payment(c, p), First)
        /\ UNCHANGED <<store, sealed, net, offered, boot, fails, signed, lapsed>>
    BY DEF updateState
  <1>3. /\ payment(c, p) \in Payloads /\ Held(payment(c, p)) = Total
        /\ payment(c, p).pend \subseteq offered'
    BY <1>1, <1>2, PaymentSound DEF Sound
  <1>4. "pay" \in Ops /\ First \in Parties /\ offered \subseteq offered'
    BY <1>2, TwoParties DEF Ops
  <1> HIDE DEF c
  <1>5. TasksOK' /\ mark' \in [Parties -> States]
    BY <1>1, <1>2, <1>3, <1>4, EnterSound
  <1> QED
    BY <1>2, <1>4, <1>5, Local DEF StateInv, TypeOK

LEMMA State_addHTLC ==
  ASSUME StateInv, NEW p \in Parties, NEW t \in Tasks, addHTLC(p, t)
  PROVE  StateInv'
  <1> DEFINE c == store[p]
  <1>1. /\ c \in Channels /\ Sound(c.pay) /\ Held(c.pay) = Total /\ c.seq + 1 \in Nat
        /\ c.seq + 1 >= 1
    BY Reads
  <1>2. /\ c.pay.bal[p] >= 1 /\ Enter(p, t, "addHTLC", c, c.seq + 1, withHTLC(c, p), First)
        /\ p \notin offered /\ offered' = offered \cup {p}
        /\ UNCHANGED <<store, sealed, net, boot, fails, signed, lapsed>>
    BY DEF addHTLC
  <1>3. /\ withHTLC(c, p) \in Payloads /\ Held(withHTLC(c, p)) = Total
        /\ withHTLC(c, p).pend \subseteq offered'
    <2>1. p \notin c.pay.pend /\ c.pay.pend \subseteq offered
      BY <1>1, <1>2 DEF Sound
    <2> HIDE DEF c
    <2> QED
      BY <1>1, <1>2, <2>1, OfferSound
  <1>4. "addHTLC" \in Ops /\ First \in Parties /\ offered \subseteq offered' /\ offered' \subseteq Parties
    BY <1>2, TwoParties DEF Ops, StateInv, TypeOK
  <1> HIDE DEF c
  <1>5. TasksOK' /\ mark' \in [Parties -> States]
    BY <1>1, <1>2, <1>3, <1>4, EnterSound
  <1> QED
    BY <1>2, <1>4, <1>5, Local

LEMMA State_resolveHTLC ==
  ASSUME StateInv, NEW p \in Parties, NEW t \in Tasks, NEW op, NEW h \in Parties,
         resolveHTLC(p, t, op, h)
  PROVE  StateInv'
  <1> DEFINE c == store[p]
             k == [Idle EXCEPT !.pc = "tip", !.op = op, !.chan = c, !.htlc = h]
  <1>1. /\ c \in Channels /\ Sound(c.pay)
    BY Reads
  <1>2. /\ op \in {"fulfillHTLC", "timeoutHTLC"} /\ h \in c.pay.pend /\ Becomes(p, t, k)
        /\ UNCHANGED <<store, mark, sealed, net, offered, boot, fails, signed, lapsed>>
    BY DEF resolveHTLC, Becomes, guards
  <1>3. /\ k \in TaskStates /\ k.pc = "tip" /\ k.op = op /\ k.chan = c /\ k.htlc = h
        /\ k.pay = Opening
    BY <1>1, <1>2, OpeningSound, ChannelAssumption DEF Idle, TaskStates, Ops
  <1>4. Fits(k, offered')
    BY <1>1, <1>2, <1>3, OpeningSound DEF Fits, Sound, Signing
  <1> HIDE DEF k
  <1>5. TasksOK'
    BY <1>2, <1>4, TaskMoves
  <1> QED
    BY <1>2, <1>5, Local DEF StateInv, TypeOK

LEMMA State_TipRead ==
  ASSUME StateInv, NEW p \in Parties, NEW t \in Tasks, NEW tip, TipRead(p, t, tip)
  PROVE  StateInv'
  <1> DEFINE k == task[p][t]
             new == IF k.op = "fulfillHTLC" THEN fulfilled(k.chan, k.htlc)
                                            ELSE timedOut(k.chan, k.htlc)
  <1>1. /\ k \in TaskStates /\ k.chan \in Channels /\ Sound(k.chan.pay) /\ k.htlc \in Parties
        /\ k.htlc \in k.chan.pay.pend /\ k.op \in Ops /\ k.chan.seq + 1 \in Nat
        /\ k.chan.seq + 1 >= 1
    <2>1. k \in TaskStates /\ Sound(k.chan.pay) /\ k.pc = "tip"
      BY DEF TipRead, StateInv, TypeOK, ValueConserved, TasksSound
    <2>2. k.htlc \in k.chan.pay.pend
      BY <2>1 DEF StateInv, TasksFormed
    <2> HIDE DEF k
    <2> QED
      BY <2>1, <2>2, ChannelAssumption DEF TaskStates, Channels
  <1>2. UNCHANGED <<store, sealed, net, offered, boot, fails, signed, lapsed>>
    BY DEF TipRead
  <1>3. \/ Enter(p, t, k.op, k.chan, k.chan.seq + 1, new, k.htlc)
        \/ Becomes(p, t, Idle) /\ UNCHANGED mark
    BY DEF TipRead, Becomes
  <1>4. CASE Enter(p, t, k.op, k.chan, k.chan.seq + 1, new, k.htlc)
    <2>1. PICK q \in Parties :
            new = [k.chan.pay EXCEPT !.bal[q] = @ + 1, !.pend = @ \ {k.htlc}]
      <3>1. Other(k.htlc) \in Parties
        BY <1>1, TwoParties
      <3> QED
        BY <1>1, <3>1 DEF fulfilled, timedOut
    <2> HIDE DEF new, k
    <2>2. new \in Payloads /\ Held(new) = Total /\ new.pend \subseteq k.chan.pay.pend
      BY <1>1, <2>1, ResolveSound DEF Sound
    <2>3. new.pend \subseteq offered' /\ offered \subseteq offered'
      BY <1>1, <1>2, <2>2 DEF Sound
    <2>4. TasksOK' /\ mark' \in [Parties -> States]
      BY <1>1, <1>4, <2>2, <2>3, EnterSound
    <2> QED
      BY <1>2, <2>3, <2>4, Local DEF StateInv, TypeOK
  <1>5. CASE Becomes(p, t, Idle) /\ UNCHANGED mark
    <2>1. TasksOK'
      BY <1>2, <1>5, IdleFits, TaskMoves
    <2> QED
      BY <1>2, <1>5, <2>1, Local DEF StateInv, TypeOK
  <1> QED
    BY <1>3, <1>4, <1>5

\* What a message brings, and the messages after it.
LEMMA Receives ==
  ASSUME StateInv, NEW p \in Parties, net[p] # <<>>
  PROVE  /\ Head(net[p]) \in States /\ Sound(Head(net[p]).pay)
         /\ Tail(net[p]) \in Seq(States)
         /\ \A i \in 1 .. Len(Tail(net[p])) : Sound(Tail(net[p])[i].pay)
  <1>1. net[p] \in Seq(States) /\ \A i \in 1 .. Len(net[p]) : Sound(net[p][i].pay)
    BY DEF StateInv, TypeOK, ValueConserved, NetSound
  <1>2. /\ Head(net[p]) = net[p][1] /\ 1 \in 1 .. Len(net[p]) /\ Head(net[p]) \in States
        /\ Tail(net[p]) \in Seq(States)
    BY <1>1
  <1>3. \A i \in 1 .. Len(Tail(net[p])) : i + 1 \in 1 .. Len(net[p]) /\ Tail(net[p])[i] = net[p][i + 1]
    BY <1>1
  <1> QED
    BY <1>1, <1>2, <1>3

\* The queue of one party changes.
LEMMA NetMoves ==
  ASSUME StateInv, NEW p \in Parties, NEW q, net' = [net EXCEPT ![p] = q], q \in Seq(States),
         \A i \in 1 .. Len(q) : Sound(q[i].pay), offered' = offered
  PROVE  net' \in [Parties -> Seq(States)] /\ NetSound'
  <1>1. net \in [Parties -> Seq(States)]
    BY DEF StateInv, TypeOK
  <1>2. net' \in [Parties -> Seq(States)] /\ net'[p] = q
        /\ \A r \in Parties \ {p} : net'[r] = net[r]
    BY <1>1
  <1>3. \A r \in Parties : \A i \in 1 .. Len(net'[r]) : Sound(net'[r][i].pay)
    BY <1>2 DEF StateInv, ValueConserved, NetSound
  <1> QED
    BY <1>2, <1>3 DEF NetSound, Sound, Held

LEMMA State_handleStateUpdate ==
  ASSUME StateInv, NEW p \in Parties, NEW t \in Tasks, handleStateUpdate(p, t)
  PROVE  StateInv'
  <1> DEFINE c == store[p]
             m == Head(net[p])
  <1>1. /\ c \in Channels /\ Sound(c.pay) /\ c.seq \in 0 .. MaxSeq
    BY Reads
  <1>2. /\ net[p] # <<>> /\ net' = [net EXCEPT ![p] = Tail(@)]
        /\ UNCHANGED <<store, sealed, offered, boot, fails, signed, lapsed>>
        /\ \/ m.seq > c.seq /\ Enter(p, t, "cosign", c, m.seq, m.pay, First)
           \/ UNCHANGED <<task, mark>>
    BY DEF handleStateUpdate, CoSignable
  <1>3. /\ m \in States /\ Sound(m.pay) /\ Tail(net[p]) \in Seq(States)
        /\ \A i \in 1 .. Len(Tail(net[p])) : Sound(Tail(net[p])[i].pay)
    BY <1>2, Receives
  <1>4. net' \in [Parties -> Seq(States)] /\ NetSound'
    BY <1>2, <1>3, NetMoves
  <1>5. TasksOK' /\ mark' \in [Parties -> States]
    <2> HIDE DEF c, m
    <2>1. CASE m.seq > c.seq /\ Enter(p, t, "cosign", c, m.seq, m.pay, First)
      <3>1. /\ "cosign" \in Ops /\ First \in Parties /\ offered \subseteq offered' /\ m.seq \in Nat
            /\ m.pay \in Payloads /\ m.seq >= 1 /\ Held(m.pay) = Total /\ m.pay.pend \subseteq offered'
        BY <1>1, <1>2, <1>3, <2>1, TwoParties, ChannelAssumption DEF Ops, States, Sound
      <3> QED
        BY <1>1, <2>1, <3>1, EnterSound
    <2>2. CASE UNCHANGED <<task, mark>>
      BY <1>2, <2>2 DEF StateInv, TypeOK, TasksOK, ValueConserved, TasksSound, TasksFormed, Sound, Held
    <2> QED
      BY <1>2, <2>1, <2>2
  <1>6. StoresSound'
    BY <1>2, Kept
  <1> QED
    BY <1>2, <1>4, <1>5, <1>6 DEF StateInv, TypeOK, TasksOK, ValueConserved

\* A signature of a task that signs.
LEMMA OutTyped ==
  ASSUME StateInv, NEW p \in Parties, NEW t \in Tasks, Out(p, t)
  PROVE  signed' \subseteq [by : Parties, seq : 0 .. MaxSeq, pay : Payloads, boot : 0 .. MaxCrashes]
  BY DEF StateInv, TypeOK, Out, TaskStates

\* The sequences a process attempted are sequences.
LEMMA AttemptedTyped ==
  ASSUME StateInv, NEW p \in Parties, NEW t \in Tasks
  PROVE  Attempted(p, t) \subseteq 0 .. MaxSeq
  <1>1. \A u \in Tasks : task[p][u].seq \in 0 .. MaxSeq
    BY DEF StateInv, TypeOK, TaskStates
  <1>2. \A s \in signed : s.seq \in 0 .. MaxSeq
    BY DEF StateInv, TypeOK
  <1> QED
    BY <1>1, <1>2 DEF Attempted

LEMMA State_Sign ==
  ASSUME StateInv, NEW p \in Parties, NEW t \in Tasks, Sign(p, t)
  PROVE  StateInv'
  <1>1. /\ task[p][t].pc = "sign" /\ Goto(p, t, "commit")
        /\ sealed' = [sealed EXCEPT ![p] = @ \cup {task[p][t].seq}]
        /\ UNCHANGED <<store, mark, net, offered, boot, fails, signed, lapsed>>
    BY DEF Sign
  <1>2. TasksOK'
    BY <1>1, PcFits, TaskMoves DEF Signing
  <1>3. task[p][t].seq \in 1 .. MaxSeq
    BY <1>1, ChannelAssumption DEF StateInv, TypeOK, TaskStates, TasksFormed, Signing
  <1>4. sealed' \in [Parties -> SUBSET (1 .. MaxSeq)]
    BY <1>1, <1>3 DEF StateInv, TypeOK
  <1>5. StoresSound' /\ NetSound'
    BY <1>1, Kept
  <1> QED
    BY <1>1, <1>2, <1>4, <1>5 DEF StateInv, TypeOK, TasksOK, ValueConserved

LEMMA State_Fail ==
  ASSUME StateInv, NEW p \in Parties, NEW t \in Tasks, Fail(p, t)
  PROVE  StateInv'
  <1>1. /\ Becomes(p, t, Idle) /\ fails < MaxFails /\ fails' = fails + 1
        /\ mark' = mark \/ mark' = [mark EXCEPT ![p] = NoState]
        /\ UNCHANGED <<store, sealed, net, offered, boot, signed>>
    BY DEF Fail, End, Becomes
  <1>2. TasksOK'
    BY <1>1, IdleFits, TaskMoves
  <1>3. mark' \in [Parties -> States] /\ fails' \in 0 .. MaxFails
    <2>1. mark' \in [Parties -> States]
      BY <1>1, OpeningSound DEF StateInv, TypeOK
    <2>2. fails' \in 0 .. MaxFails
      BY <1>1, ChannelAssumption DEF StateInv, TypeOK
    <2> QED
      BY <2>1, <2>2
  <1>4. StoresSound' /\ NetSound'
    BY <1>1, Kept
  <1>5. lapsed' \subseteq [by : Parties, boot : 0 .. MaxCrashes, seq : 0 .. MaxSeq]
    <2>1. \/ lapsed' = lapsed
          \/ lapsed' = lapsed \cup {[by |-> p, boot |-> boot[p], seq |-> n] : n \in Attempted(p, t)}
      BY DEF Fail
    <2>2. boot[p] \in 0 .. MaxCrashes /\ lapsed \subseteq [by : Parties, boot : 0 .. MaxCrashes, seq : 0 .. MaxSeq]
      BY DEF StateInv, TypeOK
    <2> QED
      BY <2>1, <2>2, AttemptedTyped
  <1> QED
    BY <1>1, <1>2, <1>3, <1>4, <1>5 DEF StateInv, TypeOK, TasksOK, ValueConserved

\* A channel is stored with the payload of the task that stores it.
LEMMA StoreMoves ==
  ASSUME StateInv, NEW p \in Parties, NEW t \in Tasks, NEW x, offered' = offered,
         store' = [store EXCEPT ![p] = [seq |-> task[p][t].seq, pay |-> task[p][t].pay, prop |-> x]],
         x = task[p][t].chan.prop \/ x = [seq |-> task[p][t].seq, pay |-> task[p][t].pay]
  PROVE  store' \in [Parties -> Channels] /\ StoresSound'
  <1> DEFINE c == [seq |-> task[p][t].seq, pay |-> task[p][t].pay, prop |-> x]
  <1>1. task[p][t] \in TaskStates /\ Sound(task[p][t].pay)
    BY DEF StateInv, TypeOK, ValueConserved, TasksSound
  <1>2. c \in Channels /\ c.pay = task[p][t].pay
    BY <1>1 DEF TaskStates, Channels, States
  <1>3. store \in [Parties -> Channels]
    BY DEF StateInv, TypeOK
  <1> HIDE DEF c
  <1>4. store' = [store EXCEPT ![p] = c]
    BY DEF c
  <1>5. store' \in [Parties -> Channels] /\ store'[p] = c /\ \A q \in Parties \ {p} : store'[q] = store[q]
    BY <1>2, <1>3, <1>4
  <1>6. \A q \in Parties : Sound(store'[q].pay)
    BY <1>1, <1>2, <1>5 DEF StateInv, ValueConserved, StoresSound
  <1> QED
    BY <1>5, <1>6 DEF StoresSound, Sound, Held

LEMMA State_Commit ==
  ASSUME StateInv, NEW p \in Parties, NEW t \in Tasks, Commit(p, t)
  PROVE  StateInv'
  <1>1. /\ task[p][t].pc = "commit"
        /\ UNCHANGED <<mark, sealed, net, offered, boot, fails, signed, lapsed>>
    BY DEF Commit, guards
  <1>2. PICK pc \in {"ack", "send"} : Goto(p, t, pc)
    BY DEF Commit
  <1>3. TasksOK'
    <2>1. pc \in Signing /\ task[p][t].pc \in Signing /\ offered' = offered
      BY <1>1, <1>2 DEF Signing
    <2> DEFINE k == [task[p][t] EXCEPT !.pc = pc]
    <2>2. Becomes(p, t, k) /\ Fits(k, offered)
      BY <1>2, <2>1, PcFits
    <2> HIDE DEF k
    <2> QED
      BY <2>1, <2>2, TaskMoves
  <1>4. store' \in [Parties -> Channels] /\ StoresSound'
    <2>1. CASE task[p][t].op = "cosign"
      BY <1>1, <2>1, Kept DEF Commit, StateInv, TypeOK
    <2>2. CASE task[p][t].op # "cosign"
      <3> DEFINE x == IF task[p][t].op = "pay" THEN [seq |-> task[p][t].seq, pay |-> task[p][t].pay]
                                               ELSE task[p][t].chan.prop
      <3>1. store' = [store EXCEPT ![p] = [seq |-> task[p][t].seq, pay |-> task[p][t].pay, prop |-> x]]
        BY <2>2 DEF Commit
      <3>2. x = task[p][t].chan.prop \/ x = [seq |-> task[p][t].seq, pay |-> task[p][t].pay]
        OBVIOUS
      <3> HIDE DEF x
      <3> QED
        BY <1>1, <3>1, <3>2, StoreMoves
    <2> QED
      BY <2>1, <2>2
  <1>5. NetSound'
    BY <1>1, Kept
  <1> QED
    BY <1>1, <1>3, <1>4, <1>5 DEF StateInv, TypeOK, TasksOK, ValueConserved

LEMMA State_Send ==
  ASSUME StateInv, NEW p \in Parties, NEW t \in Tasks, Send(p, t)
  PROVE  StateInv'
  <1> DEFINE m == [seq |-> task[p][t].seq, pay |-> task[p][t].pay]
             q == Other(p)
  <1>1. /\ Becomes(p, t, Idle) /\ Out(p, t) /\ net' = [net EXCEPT ![q] = Append(@, m)]
        /\ UNCHANGED <<store, mark, sealed, offered, boot, fails, lapsed>>
    BY DEF Send, End, Becomes, guards
  <1>2. TasksOK'
    BY <1>1, IdleFits, TaskMoves
  <1>3. m \in States /\ Sound(m.pay)
    BY DEF StateInv, TypeOK, TaskStates, States, ValueConserved, TasksSound
  <1>4. q \in Parties /\ net[q] \in Seq(States) /\ \A i \in 1 .. Len(net[q]) : Sound(net[q][i].pay)
    BY TwoParties DEF StateInv, TypeOK, ValueConserved, NetSound
  <1> HIDE DEF m, q
  <1>5. Append(net[q], m) \in Seq(States) /\ \A i \in 1 .. Len(Append(net[q], m)) : Sound(Append(net[q], m)[i].pay)
    <2>1. /\ Append(net[q], m) \in Seq(States) /\ Len(Append(net[q], m)) = Len(net[q]) + 1
          /\ Append(net[q], m)[Len(net[q]) + 1] = m
          /\ \A i \in 1 .. Len(net[q]) : Append(net[q], m)[i] = net[q][i]
          /\ Len(net[q]) \in Nat
      BY <1>3, <1>4
    <2>2. \A i \in 1 .. Len(net[q]) + 1 : i \in 1 .. Len(net[q]) \/ i = Len(net[q]) + 1
      BY <2>1
    <2> QED
      BY <1>3, <1>4, <2>1, <2>2
  <1>6. net' \in [Parties -> Seq(States)] /\ NetSound'
    BY <1>1, <1>4, <1>5, NetMoves
  <1>7. StoresSound'
    BY <1>1, Kept
  <1> QED
    BY <1>1, <1>2, <1>6, <1>7, OutTyped DEF StateInv, TypeOK, TasksOK, ValueConserved

LEMMA State_Ack ==
  ASSUME StateInv, NEW p \in Parties, NEW t \in Tasks, Ack(p, t)
  PROVE  StateInv'
  <1>1. /\ task[p][t].pc = "ack" /\ Goto(p, t, "store") /\ Out(p, t)
        /\ UNCHANGED <<store, mark, sealed, net, offered, boot, fails, lapsed>>
    BY DEF Ack, guards
  <1>2. TasksOK'
    BY <1>1, PcFits, TaskMoves DEF Signing
  <1>3. StoresSound' /\ NetSound'
    BY <1>1, Kept
  <1> QED
    BY <1>1, <1>2, <1>3, OutTyped DEF StateInv, TypeOK, TasksOK, ValueConserved

LEMMA State_StoreMerged ==
  ASSUME StateInv, NEW p \in Parties, NEW t \in Tasks, StoreMerged(p, t)
  PROVE  StateInv'
  <1>1. /\ Becomes(p, t, Idle)
        /\ store' = [store EXCEPT ![p] = [seq |-> task[p][t].seq, pay |-> task[p][t].pay,
                                          prop |-> task[p][t].chan.prop]]
        /\ UNCHANGED <<mark, sealed, net, offered, boot, fails, signed, lapsed>>
    BY DEF StoreMerged, End, Becomes, guards
  <1>2. TasksOK'
    BY <1>1, IdleFits, TaskMoves
  <1>3. store' \in [Parties -> Channels] /\ StoresSound'
    BY <1>1, StoreMoves
  <1>4. NetSound'
    BY <1>1, Kept
  <1> QED
    BY <1>1, <1>2, <1>3, <1>4 DEF StateInv, TypeOK, TasksOK, ValueConserved

LEMMA State_Crash ==
  ASSUME StateInv, NEW p \in Parties, Crash(p)
  PROVE  StateInv'
  <1>1. /\ boot[p] + boot[Other(p)] < MaxCrashes /\ boot' = [boot EXCEPT ![p] = @ + 1]
        /\ task' = [task EXCEPT ![p] = [t \in Tasks |-> Idle]]
        /\ mark' = [mark EXCEPT ![p] = NoState] /\ sealed' = [sealed EXCEPT ![p] = {}]
        /\ net' = [net EXCEPT ![p] = <<>>]
        /\ UNCHANGED <<store, offered, fails, signed, lapsed>>
    BY DEF Crash
  <1>2. TasksOK'
    <2>1. /\ task' \in [Parties -> [Tasks -> TaskStates]]
          /\ \A t \in Tasks : task'[p][t] = Idle
          /\ \A q \in Parties \ {p} : task'[q] = task[q]
      BY <1>1, OpeningSound DEF StateInv, TypeOK
    <2>2. Fits(Idle, offered)
      BY IdleFits
    <2>3. \A q \in Parties, t \in Tasks :
            /\ Held(task'[q][t].pay) = Total /\ task'[q][t].pay.pend \subseteq offered
            /\ Held(task'[q][t].chan.pay) = Total /\ task'[q][t].chan.pay.pend \subseteq offered
      BY <2>1, <2>2 DEF StateInv, ValueConserved, TasksSound, Sound, Fits
    <2>4. TasksFormed'
      BY <2>1, <2>2 DEF StateInv, TasksFormed, Fits
    <2> QED
      BY <1>1, <2>1, <2>3, <2>4 DEF TasksOK, TasksSound, Sound, Held
  <1>3. net' \in [Parties -> Seq(States)] /\ NetSound'
    <2> DEFINE e == <<>>
    <2>1. e \in Seq(States) /\ \A i \in 1 .. Len(e) : Sound(e[i].pay)
      OBVIOUS
    <2>2. net' = [net EXCEPT ![p] = e] /\ offered' = offered
      BY <1>1
    <2> HIDE DEF e
    <2> QED
      BY <2>1, <2>2, NetMoves
  <1>4. /\ mark' \in [Parties -> States] /\ boot' \in [Parties -> 0 .. MaxCrashes]
        /\ sealed' \in [Parties -> SUBSET (1 .. MaxSeq)]
    <2>1. boot \in [Parties -> 0 .. MaxCrashes] /\ Other(p) \in Parties
      BY TwoParties DEF StateInv, TypeOK
    <2>2. boot[p] + 1 \in 0 .. MaxCrashes
      BY <1>1, <2>1, ChannelAssumption
    <2> QED
      BY <1>1, <2>1, <2>2, OpeningSound DEF StateInv, TypeOK
  <1>5. StoresSound'
    BY <1>1, Kept
  <1> QED
    BY <1>1, <1>2, <1>3, <1>4, <1>5 DEF StateInv, TypeOK, TasksOK, ValueConserved

\* A lost message, and a step that changes nothing.
LEMMA State_Environment ==
  ASSUME StateInv, (\E p \in Parties : Lose(p)) \/ UNCHANGED vars
  PROVE  StateInv'
  <1>1. UNCHANGED <<store, mark, sealed, task, offered, boot, fails, signed, lapsed>>
    BY DEF Lose, vars, guards
  <1>2. TasksOK'
    BY <1>1 DEF StateInv, TypeOK, TasksOK, ValueConserved, TasksSound, TasksFormed, Sound, Held
  <1>3. StoresSound'
    BY <1>1, Kept
  <1>4. net' \in [Parties -> Seq(States)] /\ NetSound'
    <2>1. CASE UNCHANGED net
      BY <1>1, <2>1, Kept DEF StateInv, TypeOK
    <2>2. ASSUME NEW p \in Parties, Lose(p) PROVE net' \in [Parties -> Seq(States)] /\ NetSound'
      <3>1. net[p] # <<>> /\ net' = [net EXCEPT ![p] = Tail(net[p])]
        BY <2>2 DEF Lose
      <3> QED
        BY <1>1, <3>1, Receives, NetMoves
    <2> QED
      BY <2>1, <2>2 DEF vars
  <1> QED
    BY <1>1, <1>2, <1>3, <1>4 DEF StateInv, TypeOK, TasksOK, ValueConserved

LEMMA StateStep == StateInv /\ [Next]_vars => StateInv'
  <1> SUFFICES ASSUME StateInv, [Next]_vars PROVE StateInv'
    OBVIOUS
  <1>1. ASSUME NEW p \in Parties, NEW t \in Tasks, Step(p, t) PROVE StateInv'
    BY <1>1, State_updateState, State_addHTLC, State_resolveHTLC, State_TipRead,
       State_handleStateUpdate, State_Sign, State_Fail, State_Commit, State_Send, State_Ack,
       State_StoreMerged DEF Step
  <1>2. ASSUME NEW p \in Parties, Crash(p) PROVE StateInv'
    BY <1>2, State_Crash
  <1> QED
    BY <1>1, <1>2, State_Environment DEF Next

\* Every variable keeps its type: balances never leave 0 .. totalValue, and no
\* sequence at the capacity threshold is signed.
THEOREM TypeCorrect == Spec => []TypeOK
  <1>1. StateInv => TypeOK
    BY DEF StateInv
  <1> QED
    BY <1>1, StateInit, StateStep, PTL DEF Spec

\* However payments, HTLCs, co-signatures, lost messages and restarts interleave, every
\* copy of the channel holds exactly its total value.
THEOREM Conservation == Spec => []ValueConserved
  <1>1. StateInv => ValueConserved
    BY DEF StateInv
  <1> QED
    BY <1>1, StateInit, StateStep, PTL DEF Spec

------------------------------------------------------------------------------
(* Signatures. *)

LEMMA SignInit == Init => SignInv
  <1> SUFFICES ASSUME Init PROVE SignInv
    OBVIOUS
  <1>1. /\ signed = {} /\ \A p \in Parties, t \in Tasks : task[p][t].pc = "idle"
    BY DEF Init, Idle
  <1>2. \A p \in Parties, x \in States : ~Attempt(p, x)
    BY <1>1 DEF Attempt, Signing
  <1> QED
    BY <1>1, <1>2 DEF SignInv, Marked, OneAttempt, SignedBefore, OnePayloadPerSequence

\* A step without a new attempt keeps the attempts consistent.
LEMMA NoNewAttempt ==
  ASSUME SignInv, UNCHANGED <<mark, boot>>, lapsed \subseteq lapsed',
         \A p \in Parties, x \in States : Attempt(p, x)' => Attempt(p, x)
  PROVE  Marked' /\ OneAttempt'
  BY DEF SignInv, Marked, OneAttempt, Lapsed

\* A task that signs is an attempt; so is a signature of the running process.
LEMMA IsAttempt ==
  ASSUME StateInv, NEW p \in Parties
  PROVE  /\ \A t \in Tasks : task[p][t].pc \in Signing =>
              LET x == [seq |-> task[p][t].seq, pay |-> task[p][t].pay]
              IN x \in States /\ Attempt(p, x)
         /\ \A s \in signed : s.by = p /\ s.boot = boot[p] =>
              LET x == [seq |-> s.seq, pay |-> s.pay] IN x \in States /\ Attempt(p, x)
  <1>1. ASSUME NEW t \in Tasks, task[p][t].pc \in Signing
        PROVE  LET x == [seq |-> task[p][t].seq, pay |-> task[p][t].pay]
               IN x \in States /\ Attempt(p, x)
    BY <1>1 DEF Attempt, StateInv, TypeOK, TaskStates, States
  <1>2. ASSUME NEW s \in signed, s.by = p /\ s.boot = boot[p]
        PROVE  LET x == [seq |-> s.seq, pay |-> s.pay] IN x \in States /\ Attempt(p, x)
    BY <1>2 DEF Attempt, StateInv, TypeOK, States
  <1> QED
    BY <1>1, <1>2

\* Steps of a task that enter no signature.
LEMMA Moved ==
  ASSUME StateInv, NEW p \in Parties, NEW t \in Tasks, NEW k, Becomes(p, t, k)
  PROVE  /\ task'[p][t] = k
         /\ \A q \in Parties, u \in Tasks : q # p \/ u # t => task'[q][u] = task[q][u]
  BY DEF Becomes, StateInv, TypeOK
LEMMA GoneOn ==
  ASSUME StateInv, NEW p \in Parties, NEW t \in Tasks, NEW pc, Goto(p, t, pc)
  PROVE  /\ task'[p][t].seq = task[p][t].seq /\ task'[p][t].pay = task[p][t].pay
         /\ \A q \in Parties, u \in Tasks : q # p \/ u # t => task'[q][u] = task[q][u]
  BY DEF Goto, StateInv, TypeOK, TaskStates
LEMMA IdleSignsNothing == Idle.pc \notin Signing
  BY DEF Idle, Signing

\* A task that takes up a state the guards let pass.
LEMMA EnterSigns ==
  ASSUME StateInv, SignInv, NEW p \in Parties, NEW t \in Tasks, NEW op, NEW c, NEW seq \in Nat,
         NEW pay \in Payloads, NEW h, Enter(p, t, op, c, seq, pay, h), UNCHANGED <<boot, signed, lapsed>>
  PROVE  SignInv'
  <1> DEFINE k == [pc |-> "sign", op |-> op, seq |-> seq, pay |-> pay, chan |-> c, htlc |-> h]
  <1>1. /\ mark[p].seq <= seq /\ (mark[p].seq = seq => mark[p].pay = pay) /\ seq <= MaxSeq
        /\ mark' = [mark EXCEPT ![p] = [seq |-> seq, pay |-> pay]]
        /\ task' = [task EXCEPT ![p][t] = k]
    BY DEF Enter, GuardsPass
  <1>2. /\ mark \in [Parties -> States] /\ task \in [Parties -> [Tasks -> TaskStates]]
    BY DEF StateInv, TypeOK
  <1>3. /\ task'[p][t].seq = seq /\ task'[p][t].pay = pay
        /\ \A q \in Parties, u \in Tasks : q # p \/ u # t => task'[q][u] = task[q][u]
    BY <1>1, <1>2
  <1>4. /\ mark'[p].seq = seq /\ mark'[p].pay = pay /\ \A q \in Parties \ {p} : mark'[q] = mark[q]
    BY <1>1, <1>2
  <1>5. \A q \in Parties, x \in States :
          Attempt(q, x)' => Attempt(q, x) \/ (q = p /\ x.seq = seq /\ x.pay = pay)
    BY <1>3 DEF Attempt
  <1>0. \A q, n : Lapsed(q, boot[q], n)' <=> Lapsed(q, boot[q], n)
    BY DEF Lapsed
  <1>6. \A x \in States : Attempt(p, x) /\ ~Lapsed(p, boot[p], x.seq)
                          => x.seq <= seq /\ (x.seq = seq => x.pay = pay)
    <2> SUFFICES ASSUME NEW x \in States, Attempt(p, x), ~Lapsed(p, boot[p], x.seq)
                 PROVE  x.seq <= seq /\ (x.seq = seq => x.pay = pay)
      OBVIOUS
    <2>1. x.seq <= mark[p].seq /\ (x.seq = mark[p].seq => x.pay = mark[p].pay)
      BY DEF SignInv, Marked
    <2>2. x.seq \in Int /\ mark[p].seq \in Int
      BY <1>2 DEF States
    <2> QED
      BY <1>1, <2>1, <2>2
  <1>7. Marked'
    <2> SUFFICES ASSUME NEW q \in Parties, NEW x \in States, Attempt(q, x)', ~Lapsed(q, boot[q], x.seq)
                 PROVE  x.seq <= mark'[q].seq /\ (x.seq = mark'[q].seq => x.pay = mark'[q].pay)
      BY <1>0 DEF Marked
    <2>1. CASE q = p
      BY <1>4, <1>5, <1>6, <2>1
    <2>2. CASE q # p
      BY <1>4, <1>5, <2>2 DEF SignInv, Marked
    <2> QED
      BY <2>1, <2>2
  <1>8. OneAttempt'
    <2> SUFFICES ASSUME NEW q \in Parties, NEW x \in States, NEW y \in States,
                        Attempt(q, x)', Attempt(q, y)', x.seq = y.seq,
                        ~Lapsed(q, boot[q], x.seq)
                 PROVE  x.pay = y.pay
      BY <1>0 DEF OneAttempt
    <2>1. CASE Attempt(q, x) /\ Attempt(q, y)
      BY <2>1 DEF SignInv, OneAttempt
    <2>2. CASE ~Attempt(q, x)
      BY <1>5, <1>6, <2>2
    <2>3. CASE ~Attempt(q, y)
      BY <1>5, <1>6, <2>3
    <2> QED
      BY <2>1, <2>2, <2>3
  <1>9. SignedBefore' /\ OnePayloadPerSequence'
    BY DEF SignInv, SignedBefore, OnePayloadPerSequence, Lapsed
  <1> QED
    BY <1>7, <1>8, <1>9 DEF SignInv

\* A task that signs no state it did not sign before, and no signature leaves.
LEMMA QuietSigns ==
  ASSUME StateInv, SignInv, NEW p \in Parties, NEW t \in Tasks,
         \A q \in Parties, u \in Tasks : q # p \/ u # t => task'[q][u] = task[q][u],
         \/ task'[p][t].pc \notin Signing
         \/ /\ task[p][t].pc \in Signing
            /\ task'[p][t].seq = task[p][t].seq /\ task'[p][t].pay = task[p][t].pay,
         UNCHANGED <<mark, boot, signed, lapsed>>
  PROVE  SignInv'
  <1>1. \A q \in Parties, x \in States : Attempt(q, x)' => Attempt(q, x)
    BY DEF Attempt
  <1>2. Marked' /\ OneAttempt'
    BY <1>1, NoNewAttempt
  <1>3. SignedBefore' /\ OnePayloadPerSequence'
    BY DEF SignInv, SignedBefore, OnePayloadPerSequence, Lapsed
  <1> QED
    BY <1>2, <1>3 DEF SignInv

\* The signature of an attempt leaves.
LEMMA OutSigns ==
  ASSUME StateInv, SignInv, NEW p \in Parties, NEW t \in Tasks, task[p][t].pc \in Signing, Out(p, t),
         \A q \in Parties, u \in Tasks : q # p \/ u # t => task'[q][u] = task[q][u],
         \/ task'[p][t].pc \notin Signing
         \/ task'[p][t].seq = task[p][t].seq /\ task'[p][t].pay = task[p][t].pay,
         UNCHANGED <<mark, boot, lapsed>>
  PROVE  SignInv'
  <1> DEFINE n == [by |-> p, seq |-> task[p][t].seq, pay |-> task[p][t].pay, boot |-> boot[p]]
             y == [seq |-> task[p][t].seq, pay |-> task[p][t].pay]
  <1>1. signed' = signed \cup {n}
    BY DEF Out
  <1>2. n.by = p /\ n.boot = boot[p] /\ n.seq = task[p][t].seq /\ n.pay = task[p][t].pay
    OBVIOUS
  <1>3. y \in States /\ Attempt(p, y) /\ y.seq = task[p][t].seq /\ y.pay = task[p][t].pay
    BY IsAttempt
  <1> HIDE DEF n, y
  <1>4. \A q \in Parties, x \in States : Attempt(q, x)' => Attempt(q, x)
    <2> SUFFICES ASSUME NEW q \in Parties, NEW x \in States, Attempt(q, x)'
                 PROVE  Attempt(q, x)
      OBVIOUS
    <2>1. CASE \E u \in Tasks : /\ task'[q][u].pc \in Signing /\ task'[q][u].seq = x.seq
                               /\ task'[q][u].pay = x.pay
      BY <2>1 DEF Attempt
    <2>2. CASE \E s \in signed' : s.by = q /\ s.boot = boot'[q] /\ s.seq = x.seq /\ s.pay = x.pay
      BY <1>1, <1>2, <2>2 DEF Attempt
    <2> QED
      BY <2>1, <2>2 DEF Attempt
  <1>5. Marked' /\ OneAttempt'
    BY <1>4, NoNewAttempt
  <1>6. SignedBefore'
    <2>1. boot[p] \in Int
      BY DEF StateInv, TypeOK
    <2> QED
      BY <1>1, <1>2, <2>1 DEF SignInv, SignedBefore
  <1>7. OnePayloadPerSequence'
    <2> SUFFICES ASSUME NEW s \in signed', NEW r \in signed',
                        s.by = r.by, s.boot = r.boot, s.seq = r.seq, ~Lapsed(s.by, s.boot, s.seq)
                 PROVE  s.pay = r.pay
      BY DEF OnePayloadPerSequence, Lapsed
    <2>1. CASE s \in signed /\ r \in signed
      BY <2>1 DEF SignInv, OnePayloadPerSequence
    <2>2. ASSUME NEW z \in signed, z.by = p, z.boot = boot[p], z.seq = task[p][t].seq,
                 ~Lapsed(p, boot[p], z.seq)
          PROVE  z.pay = task[p][t].pay
      <3> DEFINE x == [seq |-> z.seq, pay |-> z.pay]
      <3>1. x \in States /\ Attempt(p, x) /\ x.seq = z.seq /\ x.pay = z.pay
        BY <2>2, IsAttempt
      <3> HIDE DEF x
      <3> QED
        BY <1>3, <2>2, <3>1 DEF SignInv, OneAttempt
    <2> QED
      BY <1>1, <1>2, <2>1, <2>2
  <1> QED
    BY <1>5, <1>6, <1>7 DEF SignInv

\* A call of a task fails: the watermark may go, and with it every attempt behind it.
LEMMA FailSigns ==
  ASSUME StateInv, SignInv, NEW p \in Parties, NEW t \in Tasks, Fail(p, t)
  PROVE  SignInv'
  <1>1. Becomes(p, t, Idle) /\ UNCHANGED <<boot, signed>> /\ lapsed \subseteq lapsed'
    BY DEF Fail, End, Becomes
  <1>2. /\ task'[p][t].pc \notin Signing
        /\ \A q \in Parties, u \in Tasks : q # p \/ u # t => task'[q][u] = task[q][u]
    BY <1>1, Moved, IdleSignsNothing
  <1>3. \A q \in Parties, x \in States : Attempt(q, x)' => Attempt(q, x)
    BY <1>1, <1>2 DEF Attempt
  <1>4. SignedBefore' /\ OnePayloadPerSequence'
    BY <1>1 DEF SignInv, SignedBefore, OnePayloadPerSequence, Lapsed
  <1>5. CASE mark' = mark
    BY <1>1, <1>3, <1>4, <1>5, NoNewAttempt DEF SignInv
  <1>6. CASE mark' # mark
    <2>1. /\ mark' = [mark EXCEPT ![p] = NoState]
          /\ lapsed' = lapsed \cup {[by |-> p, boot |-> boot[p], seq |-> n] : n \in Attempted(p, t)}
      BY <1>6 DEF Fail, Releases
    <2>2. \A q \in Parties \ {p} : mark'[q] = mark[q]
      BY <2>1 DEF StateInv, TypeOK
    <2>3. \A x \in States : Attempt(p, x)' => x.seq \in Attempted(p, t)
      BY <1>1, <1>2 DEF Attempt, Attempted
    <2>4. \A x \in States : Attempt(p, x)' => Lapsed(p, boot[p], x.seq)'
      BY <1>1, <2>1, <2>3 DEF Lapsed
    <2>5. \A q \in Parties, x \in States : Lapsed(q, boot[q], x.seq) => Lapsed(q, boot[q], x.seq)'
      BY <1>1 DEF Lapsed
    <2>6. Marked' /\ OneAttempt'
      BY <1>3, <2>2, <2>4, <2>5 DEF SignInv, Marked, OneAttempt
    <2> QED
      BY <1>4, <2>6 DEF SignInv
  <1> QED
    BY <1>5, <1>6

\* A restart forgets the attempts of the process and begins without any.
LEMMA CrashSigns ==
  ASSUME StateInv, SignInv, NEW p \in Parties, Crash(p)
  PROVE  SignInv'
  <1>1. /\ boot' = [boot EXCEPT ![p] = @ + 1] /\ task' = [task EXCEPT ![p] = [t \in Tasks |-> Idle]]
        /\ mark' = [mark EXCEPT ![p] = NoState] /\ UNCHANGED <<signed, lapsed>>
    BY DEF Crash
  <1>2. /\ boot \in [Parties -> 0 .. MaxCrashes] /\ task \in [Parties -> [Tasks -> TaskStates]]
        /\ mark \in [Parties -> States]
        /\ signed \subseteq [by : Parties, seq : 0 .. MaxSeq, pay : Payloads, boot : 0 .. MaxCrashes]
    BY DEF StateInv, TypeOK
  <1>3. /\ boot'[p] = boot[p] + 1 /\ boot[p] \in Int /\ \A t \in Tasks : task'[p][t].pc = "idle"
        /\ \A q \in Parties \ {p} : boot'[q] = boot[q] /\ task'[q] = task[q] /\ mark'[q] = mark[q]
    BY <1>1, <1>2 DEF Idle
  <1>4. \A s \in signed : s.boot <= boot[s.by] /\ s.boot \in Int /\ s.by \in Parties
    BY <1>2 DEF SignInv, SignedBefore
  <1>5. \A x \in States : ~Attempt(p, x)'
    BY <1>1, <1>3, <1>4 DEF Attempt, Signing
  <1>6. \A q \in Parties \ {p}, x \in States : Attempt(q, x)' => Attempt(q, x)
    BY <1>1, <1>3 DEF Attempt
  <1>7. Marked' /\ OneAttempt'
    BY <1>1, <1>3, <1>5, <1>6 DEF SignInv, Marked, OneAttempt, Lapsed
  <1>8. SignedBefore'
    BY <1>1, <1>3, <1>4 DEF SignedBefore
  <1>9. OnePayloadPerSequence'
    BY <1>1 DEF SignInv, OnePayloadPerSequence, Lapsed
  <1> QED
    BY <1>7, <1>8, <1>9 DEF SignInv

LEMMA SignStep == StateInv /\ SignInv /\ [Next]_vars => SignInv'
  <1> SUFFICES ASSUME StateInv, SignInv, [Next]_vars PROVE SignInv'
    OBVIOUS
  <1>1. ASSUME NEW p \in Parties, NEW t \in Tasks, updateState(p, t) PROVE SignInv'
    <2> DEFINE c == store[p]
    <2>1. /\ c \in Channels /\ c.seq + 1 \in Nat /\ Held(c.pay) = Total
      BY Reads
    <2>2. /\ c.pay.bal[p] >= 1 /\ Enter(p, t, "pay", c, c.seq + 1, payment(c, p), First)
          /\ UNCHANGED <<boot, signed, lapsed>>
      BY <1>1 DEF updateState
    <2> HIDE DEF c
    <2> QED
      BY <2>1, <2>2, PaymentSound, EnterSigns
  <1>2. ASSUME NEW p \in Parties, NEW t \in Tasks, addHTLC(p, t) PROVE SignInv'
    <2> DEFINE c == store[p]
    <2>1. /\ c \in Channels /\ c.seq + 1 \in Nat /\ Held(c.pay) = Total /\ c.pay.pend \subseteq offered
      BY Reads DEF Sound
    <2>2. /\ c.pay.bal[p] >= 1 /\ Enter(p, t, "addHTLC", c, c.seq + 1, withHTLC(c, p), First)
          /\ p \notin offered /\ UNCHANGED <<boot, signed, lapsed>>
      BY <1>2 DEF addHTLC
    <2> HIDE DEF c
    <2> QED
      BY <2>1, <2>2, OfferSound, EnterSigns
  <1>3. ASSUME NEW p \in Parties, NEW t \in Tasks, NEW op, NEW h \in Parties, resolveHTLC(p, t, op, h)
        PROVE  SignInv'
    <2> DEFINE k == [Idle EXCEPT !.pc = "tip", !.op = op, !.chan = store[p], !.htlc = h]
    <2>1. Becomes(p, t, k) /\ UNCHANGED <<mark, boot, signed, lapsed>>
      BY <1>3 DEF resolveHTLC, Becomes, guards
    <2>2. k.pc \notin Signing
      BY DEF Idle, Signing
    <2> HIDE DEF k
    <2> QED
      BY <2>1, <2>2, Moved, QuietSigns
  <1>4. ASSUME NEW p \in Parties, NEW t \in Tasks, NEW tip, TipRead(p, t, tip) PROVE SignInv'
    <2> DEFINE k == task[p][t]
               new == IF k.op = "fulfillHTLC" THEN fulfilled(k.chan, k.htlc)
                                              ELSE timedOut(k.chan, k.htlc)
    <2>1. /\ k \in TaskStates /\ Sound(k.chan.pay) /\ k.pc = "tip"
      BY <1>4 DEF TipRead, StateInv, TypeOK, ValueConserved, TasksSound
    <2>2. k.htlc \in k.chan.pay.pend
      BY <2>1 DEF StateInv, TasksFormed
    <2>3. /\ UNCHANGED <<boot, signed, lapsed>>
          /\ \/ Enter(p, t, k.op, k.chan, k.chan.seq + 1, new, k.htlc)
             \/ Becomes(p, t, Idle) /\ UNCHANGED mark
      BY <1>4 DEF TipRead, Becomes
    <2>4. CASE Enter(p, t, k.op, k.chan, k.chan.seq + 1, new, k.htlc)
      <3>1. k.chan \in Channels /\ k.htlc \in Parties /\ k.chan.seq + 1 \in Nat
        BY <2>1, ChannelAssumption DEF TaskStates, Channels
      <3>2. PICK q \in Parties :
              new = [k.chan.pay EXCEPT !.bal[q] = @ + 1, !.pend = @ \ {k.htlc}]
        <4>1. Other(k.htlc) \in Parties
          BY <3>1, TwoParties
        <4> QED
          BY <3>1, <4>1 DEF fulfilled, timedOut
      <3> HIDE DEF new, k
      <3>3. new \in Payloads
        BY <2>1, <2>2, <3>1, <3>2, ResolveSound DEF Sound
      <3> QED
        BY <2>3, <2>4, <3>1, <3>3, EnterSigns
    <2>5. CASE Becomes(p, t, Idle) /\ UNCHANGED mark
      BY <2>3, <2>5, Moved, IdleSignsNothing, QuietSigns
    <2> QED
      BY <2>3, <2>4, <2>5
  <1>5. ASSUME NEW p \in Parties, NEW t \in Tasks, handleStateUpdate(p, t) PROVE SignInv'
    <2> DEFINE m == Head(net[p])
    <2>1. /\ net[p] # <<>> /\ UNCHANGED <<boot, signed, lapsed>>
          /\ \/ Enter(p, t, "cosign", store[p], m.seq, m.pay, First)
             \/ UNCHANGED <<task, mark>>
      BY <1>5 DEF handleStateUpdate
    <2>2. m \in States
      BY <2>1, Receives
    <2> HIDE DEF m
    <2>3. m.seq \in Nat /\ m.pay \in Payloads
      BY <2>2, ChannelAssumption DEF States
    <2>4. CASE UNCHANGED <<task, mark>>
      <3>1. \A q \in Parties, x \in States : Attempt(q, x)' => Attempt(q, x)
        BY <2>1, <2>4 DEF Attempt
      <3> QED
        BY <2>1, <2>4, <3>1, NoNewAttempt DEF SignInv, SignedBefore, OnePayloadPerSequence, Lapsed
    <2> QED
      BY <2>1, <2>3, <2>4, EnterSigns
  <1>6. ASSUME NEW p \in Parties, NEW t \in Tasks, Sign(p, t) \/ Commit(p, t) PROVE SignInv'
    <2>1. PICK pc : Goto(p, t, pc)
      BY <1>6 DEF Sign, Commit
    <2>2. task[p][t].pc \in Signing /\ UNCHANGED <<mark, boot, signed, lapsed>>
      BY <1>6 DEF Sign, Commit, Signing, guards
    <2> QED
      BY <2>1, <2>2, GoneOn, QuietSigns
  <1>7. ASSUME NEW p \in Parties, NEW t \in Tasks, StoreMerged(p, t) PROVE SignInv'
    <2>1. Becomes(p, t, Idle) /\ UNCHANGED <<mark, boot, signed, lapsed>>
      BY <1>7 DEF StoreMerged, End, Becomes, guards
    <2> QED
      BY <2>1, Moved, IdleSignsNothing, QuietSigns
  <1>8. ASSUME NEW p \in Parties, NEW t \in Tasks, Send(p, t) PROVE SignInv'
    <2>1. Becomes(p, t, Idle) /\ Out(p, t) /\ UNCHANGED <<mark, boot, lapsed>> /\ task[p][t].pc \in Signing
      BY <1>8 DEF Send, End, Becomes, guards, Signing
    <2> QED
      BY <2>1, Moved, IdleSignsNothing, OutSigns
  <1>9. ASSUME NEW p \in Parties, NEW t \in Tasks, Ack(p, t) PROVE SignInv'
    <2>1. /\ Goto(p, t, "store") /\ Out(p, t) /\ UNCHANGED <<mark, boot, lapsed>> /\ task[p][t].pc \in Signing
      BY <1>9 DEF Ack, guards, Signing
    <2> QED
      BY <2>1, GoneOn, OutSigns
  <1>10. CASE (\E p \in Parties : Lose(p)) \/ UNCHANGED vars
    <2>1. UNCHANGED <<task, mark, boot, signed, lapsed>>
      BY <1>10 DEF Lose, vars, guards
    <2>2. \A q \in Parties, x \in States : Attempt(q, x)' => Attempt(q, x)
      BY <2>1 DEF Attempt
    <2> QED
      BY <2>1, <2>2, NoNewAttempt DEF SignInv, SignedBefore, OnePayloadPerSequence, Lapsed
  <1> QED
    BY <1>1, <1>2, <1>3, <1>4, <1>5, <1>6, <1>7, <1>8, <1>9, <1>10, FailSigns, CrashSigns DEF Next, Step

LEMMA SignInvariance == Spec => [](StateInv /\ SignInv)
  BY StateInit, StateStep, SignInit, SignStep, PTL DEF Spec

\* No process of a host signs two payloads at one sequence, whatever copies of the channel
\* its methods and handlers hold and whatever messages arrive, are lost or come late, unless
\* it gave up its watermark after it had attempted the sequence (enforceUpdateGuards,
\* releaseUpdateGuard), for any number of failing leases and signatures.
THEOREM OnePayload == Spec => []OnePayloadPerSequence
  <1>1. StateInv /\ SignInv => OnePayloadPerSequence
    BY DEF SignInv
  <1> QED
    BY <1>1, SignInvariance, PTL

\* One host that was not restarted and did not give up its watermark over a sequence is
\* enough for the sequence not to have two complete states, whatever the other one signs.
THEOREM NoFork == Spec => []NoForkWhileOneGuards
  <1>1. StateInv /\ SignInv => NoForkWhileOneGuards
    <2> SUFFICES ASSUME StateInv, SignInv, NEW s \in signed, NEW t \in signed, s.seq = t.seq,
                        Complete(s.seq, s.pay), Complete(t.seq, t.pay),
                        NEW p \in Parties, ~(boot[p] > 0), ~Lapsed(p, 0, s.seq)
                 PROVE  s.pay = t.pay
      BY DEF NoForkWhileOneGuards
    <2>1. PICK a \in signed : a.by = p /\ a.seq = s.seq /\ a.pay = s.pay
      BY DEF Complete
    <2>2. PICK b \in signed : b.by = p /\ b.seq = t.seq /\ b.pay = t.pay
      BY DEF Complete
    <2>3. a.boot = 0 /\ b.boot = 0
      <3>1. /\ a.boot \in 0 .. MaxCrashes /\ b.boot \in 0 .. MaxCrashes /\ boot[p] \in 0 .. MaxCrashes
        BY DEF StateInv, TypeOK
      <3>2. a.boot <= boot[p] /\ b.boot <= boot[p]
        BY <2>1, <2>2 DEF SignInv, SignedBefore
      <3> QED
        BY <3>1, <3>2, ChannelAssumption
    <2> QED
      BY <2>1, <2>2, <2>3 DEF SignInv, OnePayloadPerSequence
  <1> QED
    BY <1>1, SignInvariance, PTL
==============================================================================
