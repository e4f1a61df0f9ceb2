---------------------------- MODULE OmniaChannel ----------------------------
(****************************************************************************)
(* Off-chain updates of one Omnia payment channel between two hosts.        *)
(*                                                                          *)
(* Each host keeps the channel as a snapshot in its SqliteChannelStore, and *)
(* the double-sign guards of packages/omnia/src/guards.ts in memory.  RPC   *)
(* methods propose the next state (updateState, addHTLC, fulfillHTLC,       *)
(* timeoutHTLC), store it and send STATE_UPDATE; the other host co-signs    *)
(* (integration.ts).  Methods and handlers of one host are tasks that       *)
(* interleave at their awaited calls, each with the channel it read.        *)
(*                                                                          *)
(* A payload is what the update digest commits to besides the sequence:     *)
(* balances and pending HTLCs.  Signatures are valid and leases distinct    *)
(* (LocalLease), so that reserve, sign and commit only succeed or fail.     *)
(****************************************************************************)
EXTENDS Integers, Sequences, FiniteSets

CONSTANTS
  Parties,     \* the two hosts
  Tasks,       \* methods and handlers running at one time in a host (bound)
  Total,       \* totalValue of the channel; a payment or an HTLC moves 1
  MaxSeq,      \* last sequence below the capacity threshold of 95%
  Offerers,    \* the parties that offer an HTLC, once each (bound)
  Timeout,     \* timeoutBlock of every HTLC
  MaxTip,      \* bound on the block height a chain provider answers
  MaxCrashes,  \* bound on restarts of the hosts
  MaxFails     \* bound on failed lease and signer calls

ASSUME ChannelAssumption ==
  /\ IsFiniteSet(Parties) /\ Cardinality(Parties) = 2
  /\ Offerers \subseteq Parties
  /\ Total \in Nat \ {0} /\ MaxSeq \in Nat \ {0}
  /\ Timeout \in Nat /\ MaxTip \in Nat /\ MaxCrashes \in Nat /\ MaxFails \in Nat

VARIABLES
  store,    \* the snapshot of the channel in each host's database
  mark,     \* _channelWatermarks of the process
  sealed,   \* _sealedWatermarks of the process
  task,     \* running methods and handlers
  net,      \* STATE_UPDATE messages on their way to each host
  offered,  \* the parties that added their HTLC
  boot, fails,
  signed,   \* update signatures that left their host
  lapsed    \* sequences a process had attempted when it gave up its watermark

guards == <<mark, sealed>>
vars == <<store, guards, task, net, offered, boot, fails, signed, lapsed>>

Other(p) == CHOOSE q \in Parties : q # p

\* An HTLC is named by the party that offers it; its recipient is the other one.
Payloads == [bal : [Parties -> 0 .. Total], pend : SUBSET Parties]
States == [seq : 0 .. MaxSeq, pay : Payloads]
Channels == [seq : 0 .. MaxSeq, pay : Payloads, prop : States]
Ops == {"pay", "addHTLC", "fulfillHTLC", "timeoutHTLC", "cosign"}
TaskStates == [pc : {"idle", "tip", "sign", "commit", "send", "ack", "store"}, op : Ops,
               seq : 0 .. MaxSeq, pay : Payloads, chan : Channels, htlc : Parties]

First == CHOOSE p \in Parties : TRUE
Opening == [bal |-> [p \in Parties |-> IF p = First THEN (Total + 1) \div 2
                                                    ELSE Total \div 2],
            pend |-> {}]
NoState == [seq |-> 0, pay |-> Opening]     \* no watermark, no pendingProposal
Opened == [seq |-> 0, pay |-> Opening, prop |-> NoState]
Idle == [pc |-> "idle", op |-> "pay", seq |-> 0, pay |-> Opening, chan |-> Opened,
         htlc |-> First]

\* assertChannelShape: what SqliteChannelStore.get demands of a snapshot.  It
\* throws otherwise, and the method or handler ends.
Recoverable(c) == c.prop.seq = 0 \/ c.prop.seq >= c.seq

------------------------------------------------------------------------------
(* Proposals. *)

Held(pay) == LET q == Other(First) IN pay.bal[First] + pay.bal[q] + Cardinality(pay.pend)

payment(c, p) ==
  [c.pay EXCEPT !.bal[p] = @ - 1, !.bal[Other(p)] = @ + 1]
withHTLC(c, p) ==
  [c.pay EXCEPT !.bal[p] = @ - 1, !.pend = @ \cup {p}]
fulfilled(c, h) ==
  [c.pay EXCEPT !.bal[Other(h)] = @ + 1, !.pend = @ \ {h}]
timedOut(c, h) ==
  [c.pay EXCEPT !.bal[h] = @ + 1, !.pend = @ \ {h}]

\* Mutant: the stored proposal is the only guard.
BugNoWatermark(p, prop, seq, pay) ==
  /\ seq <= MaxSeq
  /\ prop.seq <= seq /\ (prop.seq = seq => prop.pay = pay)

\* Mutant: sequences at the capacity threshold are signed.
BugNoCapacity(p, prop, seq, pay) ==
  /\ mark[p].seq <= seq /\ (mark[p].seq = seq => mark[p].pay = pay)
  /\ prop.seq <= seq /\ (prop.seq = seq => prop.pay = pay)

\* enforceUpdateGuards: below the capacity threshold, behind neither the
\* watermark of the process nor the stored proposal, and with the same payload at
\* the same sequence.
GuardsPass(p, prop, seq, pay) ==
  /\ seq <= MaxSeq
  /\ mark[p].seq <= seq /\ (mark[p].seq = seq => mark[p].pay = pay)
  /\ prop.seq <= seq /\ (prop.seq = seq => prop.pay = pay)

\* The guards, the watermark and the wait for leases and signer: the part of
\* updateState, addHTLC, signState and prepareStateUpdate without an await.
Enter(p, t, op, c, seq, pay, h) ==
  /\ GuardsPass(p, c.prop, seq, pay)
  /\ mark' = [mark EXCEPT ![p] = [seq |-> seq, pay |-> pay]]
  /\ task' = [task EXCEPT ![p][t] = [pc |-> "sign", op |-> op, seq |-> seq,
                                     pay |-> pay, chan |-> c, htlc |-> h]]

\* totem_omniaPay and updateState.
updateState(p, t) ==
  LET c == store[p]
  IN /\ task[p][t] = Idle /\ Recoverable(c)
     /\ c.pay.bal[p] >= 1
     /\ Enter(p, t, "pay", c, c.seq + 1, payment(c, p), First)
     /\ UNCHANGED <<store, sealed, net, offered, boot, fails, signed, lapsed>>

addHTLC(p, t) ==
  LET c == store[p]
  IN /\ task[p][t] = Idle /\ Recoverable(c)
     /\ c.pay.bal[p] >= 1 /\ p \in Offerers \ offered
     /\ offered' = offered \cup {p}
     /\ Enter(p, t, "addHTLC", c, c.seq + 1, withHTLC(c, p), First)
     /\ UNCHANGED <<store, sealed, net, boot, fails, signed, lapsed>>

\* fulfillHTLC and timeoutHTLC read the channel and then wait for the tip.
resolveHTLC(p, t, op, h) ==
  LET c == store[p]
  IN /\ task[p][t] = Idle /\ Recoverable(c)
     /\ op \in {"fulfillHTLC", "timeoutHTLC"} /\ h \in c.pay.pend
     /\ task' = [task EXCEPT ![p][t] = [Idle EXCEPT !.pc = "tip", !.op = op,
                                                    !.chan = c, !.htlc = h]]
     /\ UNCHANGED <<store, guards, net, offered, boot, fails, signed, lapsed>>

\* The chain provider answers.  Both are allowed at the timeout block itself.
TipRead(p, t, tip) ==
  LET k == task[p][t]
      intime == IF k.op = "fulfillHTLC" THEN tip <= Timeout ELSE tip >= Timeout
      new == IF k.op = "fulfillHTLC" THEN fulfilled(k.chan, k.htlc)
                                     ELSE timedOut(k.chan, k.htlc)
  IN /\ k.pc = "tip"
     /\ IF intime /\ GuardsPass(p, k.chan.prop, k.chan.seq + 1, new)
        THEN Enter(p, t, k.op, k.chan, k.chan.seq + 1, new, k.htlc)
        ELSE task' = [task EXCEPT ![p][t] = Idle] /\ UNCHANGED mark
     /\ UNCHANGED <<store, sealed, net, offered, boot, fails, signed, lapsed>>

------------------------------------------------------------------------------
(* Co-signing, from the message to the wait for the leases. *)

\* validateStateForCoSign: the state moves the channel on and conserves it.
CoSignable(c, m) == m.seq > c.seq /\ Held(m.pay) = Total

\* _handleStateUpdate: the sender's balances and HTLCs replace the host's own.
\* A state that is refused is answered with ERROR.
handleStateUpdate(p, t) ==
  LET c == store[p]
      m == Head(net[p])
  IN /\ net[p] # <<>> /\ task[p][t] = Idle
     /\ net' = [net EXCEPT ![p] = Tail(@)]
     /\ IF Recoverable(c) /\ CoSignable(c, m) /\ GuardsPass(p, c.prop, m.seq, m.pay)
        THEN Enter(p, t, "cosign", c, m.seq, m.pay, First)
        ELSE UNCHANGED <<task, mark>>
     /\ UNCHANGED <<store, sealed, offered, boot, fails, signed, lapsed>>

------------------------------------------------------------------------------
(* signState, for both sides. *)

\* Where a task has a state to sign, or signed it.
Signing == {"sign", "commit", "send", "ack", "store"}

Goto(p, t, pc) == task' = [task EXCEPT ![p][t].pc = pc]
End(p, t) == task' = [task EXCEPT ![p][t] = Idle]

\* prepareStateUpdate got its two leaves, and the first signature, of the update,
\* seals the sequence.
Sign(p, t) ==
  /\ task[p][t].pc = "sign" /\ Goto(p, t, "commit")
  /\ sealed' = [sealed EXCEPT ![p] = @ \cup {task[p][t].seq}]
  /\ UNCHANGED <<store, mark, net, offered, boot, fails, signed, lapsed>>

\* Mutant: a guard is released although its sequence was signed.
BugReleasesSealed(p, seq, pay) == mark[p] = [seq |-> seq, pay |-> pay]

\* releaseUpdateGuard: of an unsealed watermark with this sequence and payload,
\* whichever attempt set it.
Releases(p, seq, pay) == seq \notin sealed[p] /\ mark[p] = [seq |-> seq, pay |-> pay]

\* The sequences that the process of p has signed, or signs in a task other than t.
Attempted(p, t) ==
  {task[p][u].seq : u \in {v \in Tasks \ {t} : task[p][v].pc \in Signing}}
  \cup {s.seq : s \in {x \in signed : x.by = p /\ x.boot = boot[p]}}

\* A lease or signer call fails: the leaves are burned and a proposal releases
\* its guard; the co-signing handler does not.  The released watermark was the
\* only one, for the attempts at lower sequences and of the same payload too.
Fail(p, t) ==
  LET k == task[p][t]
  IN /\ k.pc \in {"sign", "commit"} /\ fails < MaxFails
     /\ fails' = fails + 1
     /\ End(p, t)
     /\ mark' = IF k.op # "cosign" /\ Releases(p, k.seq, k.pay)
                THEN [mark EXCEPT ![p] = NoState] ELSE mark
     /\ lapsed' = IF mark' # mark /\ k.seq \notin sealed[p]
                  THEN lapsed \cup {[by |-> p, boot |-> boot[p], seq |-> n] :
                                      n \in Attempted(p, t)}
                  ELSE lapsed
     /\ UNCHANGED <<store, sealed, net, offered, boot, signed>>

Out(p, t) == signed' = signed \cup
  {[by |-> p, seq |-> task[p][t].seq, pay |-> task[p][t].pay, boot |-> boot[p]]}

\* The leases are committed.  A proposal is stored at once, over whatever the
\* database holds by now; only a payment records its pendingProposal.
Commit(p, t) ==
  LET k == task[p][t]
      prop == IF k.op = "pay" THEN [seq |-> k.seq, pay |-> k.pay] ELSE k.chan.prop
  IN /\ k.pc = "commit"
     /\ IF k.op = "cosign"
        THEN Goto(p, t, "ack") /\ UNCHANGED store
        ELSE /\ store' = [store EXCEPT ![p] = [seq |-> k.seq, pay |-> k.pay,
                                               prop |-> prop]]
             /\ Goto(p, t, "send")
     /\ UNCHANGED <<guards, net, offered, boot, fails, signed, lapsed>>

\* The proposal goes out as STATE_UPDATE.
Send(p, t) ==
  LET k == task[p][t]
  IN /\ k.pc = "send" /\ End(p, t) /\ Out(p, t)
     /\ net' = [net EXCEPT ![Other(p)] = Append(@, [seq |-> k.seq, pay |-> k.pay])]
     /\ UNCHANGED <<store, guards, offered, boot, fails, lapsed>>

\* The co-signature goes out as ACK before the merged channel is stored.
Ack(p, t) ==
  /\ task[p][t].pc = "ack" /\ Goto(p, t, "store") /\ Out(p, t)
  /\ UNCHANGED <<store, guards, net, offered, boot, fails, lapsed>>

StoreMerged(p, t) ==
  LET k == task[p][t]
  IN /\ k.pc = "store" /\ End(p, t)
     /\ store' = [store EXCEPT ![p] = [seq |-> k.seq, pay |-> k.pay,
                                       prop |-> k.chan.prop]]
     /\ UNCHANGED <<guards, net, offered, boot, fails, signed, lapsed>>

------------------------------------------------------------------------------
(* Environment. *)

\* The connection breaks with a message on its way.
Lose(p) ==
  /\ net[p] # <<>> /\ net' = [net EXCEPT ![p] = Tail(@)]
  /\ UNCHANGED <<store, guards, task, offered, boot, fails, signed, lapsed>>

\* The process dies: the guards are gone, the database stays.
Crash(p) ==
  /\ boot[p] + boot[Other(p)] < MaxCrashes /\ boot' = [boot EXCEPT ![p] = @ + 1]
  /\ task' = [task EXCEPT ![p] = [t \in Tasks |-> Idle]]
  /\ mark' = [mark EXCEPT ![p] = NoState]
  /\ sealed' = [sealed EXCEPT ![p] = {}]
  /\ net' = [net EXCEPT ![p] = <<>>]
  /\ UNCHANGED <<store, offered, fails, signed, lapsed>>

Init ==
  /\ store = [p \in Parties |-> Opened]
  /\ mark = [p \in Parties |-> NoState] /\ sealed = [p \in Parties |-> {}]
  /\ task = [p \in Parties |-> [t \in Tasks |-> Idle]]
  /\ net = [p \in Parties |-> <<>>]
  /\ offered = {} /\ boot = [p \in Parties |-> 0] /\ fails = 0
  /\ signed = {} /\ lapsed = {}

Step(p, t) ==
  \/ updateState(p, t) \/ addHTLC(p, t)
  \/ \E op \in Ops, h \in Parties : resolveHTLC(p, t, op, h)
  \/ \E tip \in 0 .. MaxTip : TipRead(p, t, tip)
  \/ handleStateUpdate(p, t)
  \/ Sign(p, t) \/ Fail(p, t) \/ Commit(p, t)
  \/ Send(p, t) \/ Ack(p, t) \/ StoreMerged(p, t)

Next ==
  \/ \E p \in Parties, t \in Tasks : Step(p, t)
  \/ \E p \in Parties : Lose(p) \/ Crash(p)

Spec == Init /\ [][Next]_vars

------------------------------------------------------------------------------
(* Correctness. *)

\* Every variable has its type.
TypeOK ==
  /\ store \in [Parties -> Channels]
  /\ mark \in [Parties -> States]
  /\ sealed \in [Parties -> SUBSET (1 .. MaxSeq)]
  /\ task \in [Parties -> [Tasks -> TaskStates]]
  /\ net \in [Parties -> Seq(States)]
  /\ offered \subseteq Parties
  /\ fails \in 0 .. MaxFails
  /\ boot \in [Parties -> 0 .. MaxCrashes]
  /\ signed \subseteq [by : Parties, seq : 0 .. MaxSeq, pay : Payloads, boot : 0 .. MaxCrashes]
  /\ lapsed \subseteq [by : Parties, boot : 0 .. MaxCrashes, seq : 0 .. MaxSeq]

\* The process of p that was started for the n-th time gave up its watermark after it
\* had attempted this sequence.
Lapsed(p, n, seq) == [by |-> p, boot |-> n, seq |-> seq] \in lapsed

\* No process signs two payloads at one sequence of the channel, whatever copies of
\* the channel its concurrent methods and handlers hold, unless it gave up its
\* watermark in between: when a proposal fails that nothing was signed for, with
\* another attempt of its payload or a signature of an earlier sequence behind it
\* (enforceUpdateGuards, sealUpdateGuard, releaseUpdateGuard).
OnePayloadPerSequence ==
  \A s, t \in signed :
    s.by = t.by /\ s.boot = t.boot /\ s.seq = t.seq /\ s.pay # t.pay
      => Lapsed(s.by, s.boot, s.seq)

Complete(seq, x) ==
  \A p \in Parties : \E s \in signed : s.by = p /\ s.seq = seq /\ s.pay = x

\* Two different states of one sequence carry both signatures only when neither host
\* guarded it throughout: the chain would take either of them, so one host that was
\* not restarted and did not give up its watermark must be enough to prevent it,
\* whatever the other one signs (enforceUpdateGuards on both sides).
NoForkWhileOneGuards ==
  \A s, t \in signed :
    s.seq = t.seq /\ s.pay # t.pay /\ Complete(s.seq, s.pay) /\ Complete(t.seq, t.pay)
      => \A p \in Parties : boot[p] > 0 \/ Lapsed(p, 0, s.seq)

\* A host can read back the channel it stored: "pending proposal sequence is
\* behind channel sequence" (assertChannelShape) is never said of a snapshot
\* the host itself wrote.
SnapshotRecoverable == \A p \in Parties : Recoverable(store[p])

------------------------------------------------------------------------------
(* The inductive invariants behind the types and the signatures. *)

\* A payload that conserves the channel and whose HTLCs were offered.
Sound(x) == Held(x) = Total /\ x.pend \subseteq offered

\* No copy of the channel, stored, in use or on its way, creates or destroys value
\* (validateStateForCoSign and the checks of the proposing methods).
StoresSound == \A p \in Parties : Sound(store[p].pay)
TasksSound ==
  \A p \in Parties, t \in Tasks : Sound(task[p][t].pay) /\ Sound(task[p][t].chan.pay)
NetSound == \A p \in Parties : \A i \in 1 .. Len(net[p]) : Sound(net[p][i].pay)
ValueConserved == StoresSound /\ TasksSound /\ NetSound

\* What a task that waits for the tip, or that signs, looks like.
TasksFormed ==
  \A p \in Parties, t \in Tasks :
    LET k == task[p][t] IN
    /\ k.pc = "tip" => k.op \in {"fulfillHTLC", "timeoutHTLC"} /\ k.htlc \in k.chan.pay.pend
    /\ k.pc \in Signing => k.seq >= 1

StateInv == TypeOK /\ ValueConserved /\ TasksFormed

\* The running process of p signed this state or is about to.
Attempt(p, x) ==
  \/ \E t \in Tasks : task[p][t].pc \in Signing /\ task[p][t].seq = x.seq /\ task[p][t].pay = x.pay
  \/ \E s \in signed : s.by = p /\ s.boot = boot[p] /\ s.seq = x.seq /\ s.pay = x.pay

\* The watermark is ahead of every attempt it was not given up over, and each of these
\* sequences has one payload.
Marked ==
  \A p \in Parties, x \in States :
    Attempt(p, x) /\ ~Lapsed(p, boot[p], x.seq)
      => x.seq <= mark[p].seq /\ (x.seq = mark[p].seq => x.pay = mark[p].pay)
OneAttempt ==
  \A p \in Parties : \A x, y \in States :
    Attempt(p, x) /\ Attempt(p, y) /\ x.seq = y.seq /\ ~Lapsed(p, boot[p], x.seq)
      => x.pay = y.pay

\* No signature comes from a process that has yet to start.
SignedBefore == \A s \in signed : s.boot <= boot[s.by]

SignInv == Marked /\ OneAttempt /\ SignedBefore /\ OnePayloadPerSequence
==============================================================================
