------------------------ MODULE LocalLeaseRefinement ------------------------
(****************************************************************************)
(* Proofs about LocalLease, continued: a reservation is settled once in any *)
(* journal that can be read, providers on one adapter object implement      *)
(* SlotAllocator, a provider refuses for ever what it handed out, and one   *)
(* provider's recovery leaves nothing over.                                 *)
(*                                                                          *)
(* The journal of a readable store has the sequence numbers 0, 1, ... with  *)
(* no gap (Dense).  A writer numbers its record by the records it read, so  *)
(* either it read all of them or its record forks the journal: what         *)
(* appendOne decided on its reading (Decided) is true of the journal it     *)
(* leaves readable.  That a slot nobody recorded means a reservation nobody *)
(* recorded needs one slot for each reservation, wherever it is named       *)
(* (OneName).                                                               *)
(*                                                                          *)
(* What is refused is a matter of the memory alone (MemoryInv): overlapping *)
(* persists, and other providers, may take the stored watermark back.  A    *)
(* provider has read every record it wrote, its initialize() marks them all *)
(* before it is ready, nothing takes a mark away, and only a seed that may  *)
(* regress takes the cursor back.                                           *)
(*                                                                          *)
(* RecoveryCompletes is about one provider, whose journal in memory is then *)
(* the journal on the medium unless a write took effect although it was     *)
(* rejected (Torn).  Its invariant says loop by loop of initialize() what   *)
(* is already in line and what the loop still has to visit.                 *)
(****************************************************************************)
EXTENDS LocalLeaseProofs

------------------------------------------------------------------------------
(* One slot for each reservation. *)

\* A step that names no reservation anew.
LEMMA NamesKeep ==
  ASSUME OneName,
         \A e \in journal' : Names(e.rid, e.slot),
         \A r \in Rids : leases'[r].status # "none" => Names(r, leases'[r].slot),
         \A q \in Providers, r \in Rids :
           lview'[q][r].status # "none" => Names(r, lview'[q][r].slot),
         \A q \in Providers : job'[q].rid \in Rids => Names(job'[q].rid, job'[q].slot)
  PROVE  OneName'
  <1>1. ASSUME NEW r \in Rids, NEW s \in Slots, Names(r, s)' PROVE Names(r, s)
    <2>1. CASE \E e \in journal' : e.rid = r /\ e.slot = s
      BY <2>1
    <2>2. CASE leases'[r].status # "none" /\ leases'[r].slot = s
      BY <2>2
    <2>3. CASE \E p \in Providers : lview'[p][r].status # "none" /\ lview'[p][r].slot = s
      BY <2>3
    <2>4. CASE \E p \in Providers : job'[p].rid = r /\ job'[p].slot = s
      BY <2>4
    <2> QED
      BY <1>1, <2>1, <2>2, <2>3, <2>4 DEF Names
  <1> QED
    BY <1>1 DEF OneName

\* What names a reservation now.
LEMMA NamesNow ==
  /\ \A e \in journal : Names(e.rid, e.slot)
  /\ \A r \in Rids : leases[r].status # "none" => Names(r, leases[r].slot)
  /\ \A q \in Providers, r \in Rids : lview[q][r].status # "none" => Names(r, lview[q][r].slot)
  /\ \A q \in Providers : job[q].rid \in Rids => Names(job[q].rid, job[q].slot)
  BY DEF Names

\* Idle names nothing.
LEMMA IdleFacts ==
  /\ Idle.rid \notin Rids /\ Idle.lease = "none" /\ Idle.pc = "idle" /\ Idle.goal = "none"
  BY ProviderAssumption DEF Idle

\* How far a job of one provider has come: it moved on or was given up.
Onward(p, j) == j = Idle \/ \E pc : j = [job[p] EXCEPT !.pc = pc]

LEMMA OnwardFacts ==
  ASSUME TypeOK, NEW p \in Providers, NEW j, Onward(p, j)
  PROVE  \/ j = Idle
         \/ /\ j.rid = job[p].rid /\ j.slot = job[p].slot /\ j.lease = job[p].lease
            /\ j.goal = job[p].goal /\ j.status = job[p].status /\ j.tx = job[p].tx
  BY DEF Onward, TypeOK, ControlTypeOK, Jobs

\* Where the job and the loop of a provider are after a step of the job.
Moved(p) ==
  /\ \E j : Onward(p, j) /\ job' = [job EXCEPT ![p] = j]
  /\ \/ UNCHANGED <<stage, work>>
     \/ \E J : EnterLoops(p, J)

LEMMA HelpersMove ==
  ASSUME NEW p \in Providers
  PROVE  /\ \A J : Abandon(p, J) => Moved(p)
         /\ Return(p) => Moved(p)
         /\ \A pc : Goto(p, pc) => Moved(p)
  BY DEF Abandon, Return, Goto, Moved, Onward

LEMMA SerializeMoves ==
  ASSUME TypeOK, NEW p \in Providers, Serialize(p)
  PROVE  Moved(p)
  <1>1. job[p] \in Jobs /\ job \in [Providers -> Jobs]
    BY DEF TypeOK, ControlTypeOK
  <1>2. job[p] = [job[p] EXCEPT !.pc = job[p].pc]
    BY <1>1 DEF Jobs
  <1>3. Onward(p, job[p])
    BY <1>2 DEF Onward
  <1>4. job' = [job EXCEPT ![p] = job[p]]
    BY <1>1 DEF Serialize
  <1> QED
    BY <1>3, <1>4 DEF Moved, Serialize

\* A step of a job that writes no lease.
LEMMA StepNames ==
  ASSUME IndInv, OneName, WorkKnown, NEW p \in Providers,
         \/ AppendRead(p) \/ Probe(p) \/ Mark(p) \/ Serialize(p)
         \/ \E o \in Outcomes : Claim(p, o) \/ Write(p, o) \/ Land(p, o)
  PROVE  /\ Moved(p) /\ UNCHANGED <<leases, lview>>
         /\ \A e \in journal' : Names(e.rid, e.slot)
         /\ journal \subseteq journal'
  <1>0. TypeOK
    BY DEF IndInv
  <1>1. Moved(p)
    BY <1>0, HelpersMove, SerializeMoves DEF AppendRead, Probe, Claim, Write, Mark, Land
  <1>2. UNCHANGED <<leases, lview>>
    BY DEF AppendRead, Probe, Claim, Write, Mark, Serialize, Land, durable
  <1>3. job[p].pc = "write" => Names(RecordOf(p).rid, RecordOf(p).slot)
    BY NamesNow DEF RecordOf, IndInv, JobsFormed
  <1>4. journal \subseteq journal' /\ \A e \in journal' : Names(e.rid, e.slot)
    BY <1>3, NamesNow DEF AppendRead, Probe, Claim, Write, Mark, Serialize, Land, durable
  <1> QED
    BY <1>1, <1>2, <1>4

\* What the loops and the jobs of the other providers rest on stays.
LEMMA WorkApart ==
  ASSUME TypeOK, WorkKnown, NEW p \in Providers, journal \subseteq journal',
         \A q \in Providers \ {p} : /\ job'[q] = job[q] /\ stage'[q] = stage[q]
                                    /\ work'[q] = work[q] /\ lview'[q] = lview[q],
         WorkSound(p)'
  PROVE  WorkKnown'
  <1> SUFFICES ASSUME NEW q \in Providers \ {p} PROVE WorkSound(q)'
    BY DEF WorkKnown
  <1>1. Held(q)' = Held(q)
    BY DEF Held
  <1> QED
    BY <1>1 DEF WorkKnown, WorkSound

\* A job that moves on leaves its provider with what it needs.
LEMMA MovedWork ==
  ASSUME TypeOK, WorkKnown, NEW p \in Providers, Busy(p), Moved(p), journal \subseteq journal',
         \A q \in Providers \ {p} : lview'[q] = lview[q], Held(p) \subseteq Held(p)'
  PROVE  WorkKnown'
  <1>1. PICK j : Onward(p, j) /\ job' = [job EXCEPT ![p] = j]
    BY DEF Moved
  <1>2. job'[p] = j /\ \A q \in Providers \ {p} : job'[q] = job[q]
    BY <1>1 DEF TypeOK, ControlTypeOK
  <1>3. /\ \A q \in Providers \ {p} : stage'[q] = stage[q] /\ work'[q] = work[q]
        /\ (stage'[p] = stage[p] /\ work'[p] = work[p]) \/ stage'[p] = "slots"
    BY DEF Moved, EnterLoops, TypeOK, ControlTypeOK
  <1>4. WorkSound(p) /\ job[p] # Idle
    BY DEF WorkKnown, Busy, Idle
  <1>5. j = Idle \/ (j.rid = job[p].rid /\ j.lease = job[p].lease)
    BY <1>1, OnwardFacts
  <1>6. WorkSound(p)'
    BY <1>2, <1>3, <1>4, <1>5, IdleFacts DEF WorkSound
  <1> QED
    BY <1>2, <1>3, <1>6, WorkApart

\* A job that moves on names nothing new.
LEMMA MovedNames ==
  ASSUME TypeOK, NEW p \in Providers, Moved(p)
  PROVE  \A q \in Providers : job'[q].rid \in Rids => Names(job'[q].rid, job'[q].slot)
  <1>1. PICK j : Onward(p, j) /\ job' = [job EXCEPT ![p] = j]
    BY DEF Moved
  <1>2. job'[p] = j /\ \A q \in Providers \ {p} : job'[q] = job[q]
    BY <1>1 DEF TypeOK, ControlTypeOK
  <1>3. j = Idle \/ (j.rid = job[p].rid /\ j.slot = job[p].slot)
    BY <1>1, OnwardFacts
  <1> QED
    BY <1>2, <1>3, NamesNow, IdleFacts

\* The list that Store writes.
LEMMA StoredList ==
  ASSUME TypeOK, JobsFormed, WorkKnown, NEW p \in Providers, NEW o \in Outcomes, Store(p, o)
  PROVE  \E list \in [Rids -> Leases] :
           /\ leases' \in {leases, list}
           /\ lview' = lview \/ lview' = [lview EXCEPT ![p] = list]
           /\ \A r \in Rids : list[r].status # "none" => Names(r, list[r].slot)
           /\ \A r \in Held(p) : list[r].status # "none"
  <1> DEFINE j == job[p]
             lease == IF j.lease = "active"
                      THEN [slot |-> j.slot, status |-> "active", tree |-> TRUE]
                      ELSE [lview[p][j.rid] EXCEPT !.status = j.lease]
             list == [lview[p] EXCEPT ![j.rid] = lease]
  <1>1. j \in Jobs /\ j.rid \in Rids /\ j.lease \in LeaseStatuses /\ lview[p] \in [Rids -> Leases]
    BY DEF TypeOK, ControlTypeOK, ViewTypeOK, JobsFormed, Store, Jobs
  <1>2. lview[p][j.rid] \in Leases
    BY <1>1
  <1>3. lease \in Leases /\ lease.status # "none"
    BY <1>1, <1>2 DEF Leases, Jobs, LeaseStatuses
  <1>4. Names(j.rid, lease.slot)
    <2>1. CASE j.lease = "active"
      BY <1>1, <2>1, NamesNow
    <2>2. CASE j.lease # "active"
      <3>1. j.rid \in Held(p)
        BY <1>1, <2>2 DEF WorkKnown, WorkSound, LeaseStatuses
      <3>2. lease.slot = lview[p][j.rid].slot
        BY <1>2, <2>2 DEF Leases
      <3> QED
        BY <1>1, <3>1, <3>2, NamesNow DEF Held
    <2> QED
      BY <2>1, <2>2
  <1>5. leases' \in {leases, list} /\ (lview' = lview \/ lview' = [lview EXCEPT ![p] = list])
    BY DEF Store
  <1> HIDE DEF lease
  <1>6. list \in [Rids -> Leases]
    BY <1>1, <1>3
  <1>7. \A r \in Rids : list[r] = IF r = j.rid THEN lease ELSE lview[p][r]
    BY <1>1
  <1>8. \A r \in Rids : list[r].status # "none" => Names(r, list[r].slot)
    BY <1>4, <1>7, NamesNow
  <1>9. \A r \in Held(p) : list[r].status # "none"
    BY <1>3, <1>7 DEF Held
  <1> HIDE DEF list
  <1> QED
    BY <1>5, <1>6, <1>8, <1>9

\* No step of a job breaks what is known of the names and the loops.
LEMMA StepKnown ==
  ASSUME IndInv, OneName, WorkKnown, NEW p \in Providers, Step(p)
  PROVE  OneName' /\ WorkKnown'
  <1>0. TypeOK /\ JobsFormed
    BY DEF IndInv
  <1>1. CASE \/ AppendRead(p) \/ Probe(p) \/ Mark(p) \/ Serialize(p)
             \/ \E o \in Outcomes : Claim(p, o) \/ Write(p, o) \/ Land(p, o)
    <2>1. /\ Moved(p) /\ UNCHANGED <<leases, lview>> /\ journal \subseteq journal'
          /\ \A e \in journal' : Names(e.rid, e.slot)
      BY <1>1, StepNames
    <2>2. Busy(p) /\ Held(p)' = Held(p)
      BY <1>1, <2>1 DEF Busy, AppendRead, Probe, Claim, Write, Mark, Serialize, Land, Held
    <2>3. OneName'
      BY <1>0, <2>1, MovedNames, NamesNow, NamesKeep
    <2> QED
      BY <1>0, <2>1, <2>2, <2>3, MovedWork
  <1>2. CASE \E o \in Outcomes : Store(p, o)
    <2>1. PICK o \in Outcomes : Store(p, o)
      BY <1>2
    <2>2. PICK list \in [Rids -> Leases] :
            /\ leases' \in {leases, list}
            /\ lview' = lview \/ lview' = [lview EXCEPT ![p] = list]
            /\ \A r \in Rids : list[r].status # "none" => Names(r, list[r].slot)
            /\ \A r \in Held(p) : list[r].status # "none"
      BY <1>0, <2>1, StoredList
    <2>3. Moved(p) /\ Busy(p) /\ journal' = journal
      BY <2>1, HelpersMove DEF Store, Busy
    <2>4. /\ \A q \in Providers \ {p} : lview'[q] = lview[q]
          /\ lview'[p] \in {lview[p], list}
      BY <1>0, <2>2 DEF TypeOK, ViewTypeOK
    <2>5. Held(p) \subseteq Held(p)'
      BY <2>2, <2>4 DEF Held
    <2>6. \A r \in Rids : leases'[r].status # "none" => Names(r, leases'[r].slot)
      BY <2>2, NamesNow
    <2>7. \A q \in Providers, r \in Rids : lview'[q][r].status # "none" => Names(r, lview'[q][r].slot)
      BY <2>2, <2>4, NamesNow
    <2>8. \A e \in journal' : Names(e.rid, e.slot)
      BY <2>3, NamesNow
    <2>9. OneName'
      BY <1>0, <2>3, <2>6, <2>7, <2>8, MovedNames, NamesKeep
    <2> QED
      BY <1>0, <2>3, <2>4, <2>5, <2>9, MovedWork
  <1> QED
    BY <1>1, <1>2 DEF Step

\* A job that recovery starts is for a reservation that is named already.
LEMMA VisitFacts ==
  ASSUME IndInv, WorkKnown, NEW p \in Providers, InLoop(p), NEW x \in work[p]
  PROVE  LET j == RecoverJob(p, x) IN
         /\ j.rid \in Rids => Names(j.rid, j.slot)
         /\ j.lease \notin {"none", "active"} => j.rid \in Held(p)
         /\ j.pc \in {"idle", "append", "mark", "store"} /\ j.goal \in {"none", "recover"}
  <1> DEFINE j == RecoverJob(p, x)
  <1>1. j.pc \in {"idle", "append", "mark", "store"} /\ j.goal \in {"none", "recover"}
    BY RecoverJobType DEF IndInv
  <1>2. stage[p] \in {"slots", "orphans", "reconcile", "expired", "treeless"}
    BY DEF InLoop, Loops
  <1>3. CASE stage[p] = "slots"
    <2>1. j = Recover("mark", NoRid, x, "reserved", "none")
      BY <1>3 DEF RecoverJob
    <2> QED
      BY <1>1, <2>1, ProviderAssumption DEF Recover
  <1>4. CASE stage[p] = "orphans"
    <2>1. j = Recover("append", x.rid, x.slot, "burned", "none") /\ x \in journal
      BY <1>4 DEF RecoverJob, WorkKnown, WorkSound
    <2> QED
      BY <1>1, <2>1, NamesNow DEF Recover
  <1>5. CASE stage[p] \in {"reconcile", "expired", "treeless"}
    <2>1. x \in Held(p) /\ x \in Rids
      BY <1>5 DEF WorkKnown, WorkSound, Held
    <2>2. Names(x, lview[p][x].slot)
      BY <2>1, NamesNow DEF Held
    <2>3. j = Idle \/ \E pc, st, ls : j = Recover(pc, x, lview[p][x].slot, st, ls)
      <3>1. CASE stage[p] = "reconcile"
        <4>1. j = ReconcileJob(p, x)
          BY <3>1 DEF RecoverJob
        <4> QED
          BY <4>1 DEF ReconcileJob
      <3>2. CASE stage[p] \in {"expired", "treeless"}
        BY <3>2 DEF RecoverJob
      <3> QED
        BY <1>5, <3>1, <3>2
    <2>4. CASE j = Idle
      BY <1>1, <2>4, IdleFacts
    <2>5. CASE \E pc, st, ls : j = Recover(pc, x, lview[p][x].slot, st, ls)
      <3>1. j.rid = x /\ j.slot = lview[p][x].slot
        BY <2>5 DEF Recover
      <3> QED
        BY <1>1, <2>1, <2>2, <3>1
    <2> QED
      BY <2>3, <2>4, <2>5
  <1> QED
    BY <1>2, <1>3, <1>4, <1>5

\* What the next loop visits.
LEMMA LoopWorkKnown ==
  ASSUME IndInv, NEW p \in Providers
  PROVE  /\ LoopWork(p, "orphans") \subseteq journal
         /\ \A st \in {"reconcile", "expired", "treeless"} : LoopWork(p, st) \subseteq Held(p)
  <1>1. jview[p] \subseteq journal
    BY DEF IndInv, ViewsKnown
  <1>2. LoopWork(p, "orphans") \subseteq jview[p]
    BY DEF LoopWork
  <1>3. LoopWork(p, "reconcile") \subseteq Held(p)
    BY DEF LoopWork
  <1>4. LoopWork(p, "expired") \subseteq Held(p)
    BY DEF LoopWork, Held, Overdue
  <1>5. LoopWork(p, "treeless") \subseteq Held(p)
    BY DEF LoopWork
  <1> QED
    BY <1>1, <1>2, <1>3, <1>4, <1>5

\* Nor does a step of initialize().
LEMMA InitializeKnown ==
  ASSUME IndInv, OneName, WorkKnown, NEW p \in Providers, Open(p) \/ Initialize(p)
  PROVE  OneName' /\ WorkKnown'
  <1>0. TypeOK /\ WorkSound(p)
    BY DEF IndInv, WorkKnown
  <1>1. /\ job \in [Providers -> Jobs] /\ stage \in [Providers -> Stages]
        /\ work = [q \in Providers |-> work[q]]
        /\ lview \in [Providers -> [Rids -> Leases]] /\ leases \in [Rids -> Leases]
    BY <1>0 DEF TypeOK, ControlTypeOK, ViewTypeOK, MediumTypeOK
  <1>2. journal' = journal
    BY DEF Open, Initialize, LoadWatermark, LoadLeases, EndLoop, Visit, Migrate, CleanupExpired, durable
  <1>3. CASE Open(p) \/ LoadWatermark(p) \/ \E o \in Outcomes : Migrate(p, o)
    <2>1. UNCHANGED <<leases, lview, work, job>>
      BY <1>3 DEF Open, LoadWatermark, Migrate, durable
    <2>2. /\ stage'[p] \in {"down", "watermark", "migrate", "leases"} /\ job[p] = Idle
          /\ \A q \in Providers \ {p} : stage'[q] = stage[q]
      BY <1>0, <1>1, <1>3 DEF Open, LoadWatermark, Migrate, WorkSound
    <2>3. WorkSound(p)'
      BY <2>1, <2>2, IdleFacts DEF WorkSound
    <2>4. OneName'
      BY <1>2, <2>1, NamesNow, NamesKeep
    <2> QED
      BY <1>0, <1>2, <2>1, <2>2, <2>3, <2>4, WorkApart
  <1>4. CASE LoadLeases(p)
    <2>1. UNCHANGED <<leases, job>> /\ lview' = [lview EXCEPT ![p] = leases] /\ job[p] = Idle
      BY <1>0, <1>4 DEF LoadLeases, durable, WorkSound
    <2>2. lview'[p] = leases /\ \A q \in Providers \ {p} : lview'[q] = lview[q]
      BY <1>1, <2>1
    <2>3. /\ stage'[p] \in {"cleanup", "slots"}
          /\ \A q \in Providers \ {p} : stage'[q] = stage[q] /\ work'[q] = work[q]
      BY <1>1, <1>4 DEF LoadLeases, EnterLoops
    <2>4. WorkSound(p)'
      BY <2>1, <2>3, IdleFacts DEF WorkSound
    <2>5. OneName'
      BY <1>2, <2>1, <2>2, NamesNow, NamesKeep
    <2> QED
      BY <1>0, <1>2, <2>1, <2>2, <2>3, <2>4, <2>5, WorkApart
  <1>5. CASE \E o \in Outcomes : CleanupExpired(p, o)
    <2>1. PICK o \in Outcomes : CleanupExpired(p, o)
      BY <1>5
    <2> DEFINE list == [r \in Rids |-> IF r \in Overdue(lview[p])
                                       THEN [lview[p][r] EXCEPT !.status = "expired"]
                                       ELSE lview[p][r]]
    <2>2. /\ leases' \in {leases, list} /\ (lview' = lview \/ lview' = [lview EXCEPT ![p] = list])
          /\ UNCHANGED job /\ job[p] = Idle
      BY <1>0, <2>1 DEF CleanupExpired, WorkSound
    <2>3. \A r \in Rids : lview[p][r] \in Leases
      BY <1>1
    <2>4. ASSUME NEW r \in Rids
          PROVE  list[r].slot = lview[p][r].slot /\ (list[r].status # "none" => lview[p][r].status # "none")
      <3>1. CASE r \in Overdue(lview[p])
        BY <2>3, <3>1 DEF Overdue, Leases
      <3>2. CASE r \notin Overdue(lview[p])
        BY <3>2
      <3> QED
        BY <3>1, <3>2
    <2> HIDE DEF list
    <2>5. lview'[p] \in {lview[p], list} /\ \A q \in Providers \ {p} : lview'[q] = lview[q]
      BY <1>1, <2>2
    <2>6. /\ stage'[p] \in {"leases", "slots"}
          /\ \A q \in Providers \ {p} : stage'[q] = stage[q] /\ work'[q] = work[q]
      BY <1>1, <2>1 DEF CleanupExpired, EnterLoops
    <2>7. WorkSound(p)'
      BY <2>2, <2>6, IdleFacts DEF WorkSound
    <2>8. \A r \in Rids : leases'[r].status # "none" => Names(r, leases'[r].slot)
      BY <2>2, <2>4, NamesNow
    <2>9. \A q \in Providers, r \in Rids : lview'[q][r].status # "none" => Names(r, lview'[q][r].slot)
      BY <2>4, <2>5, NamesNow
    <2>a. OneName'
      BY <1>2, <2>2, <2>8, <2>9, NamesNow, NamesKeep
    <2> QED
      BY <1>0, <1>2, <2>2, <2>5, <2>6, <2>7, <2>a, WorkApart
  <1>6. CASE EndLoop(p)
    <2>1. UNCHANGED <<leases, lview, job>>
      BY <1>6 DEF EndLoop, durable
    <2>2. /\ stage'[p] = NextStage(p) /\ work'[p] = LoopWork(p, NextStage(p))
          /\ \A q \in Providers \ {p} : stage'[q] = stage[q] /\ work'[q] = work[q]
      BY <1>1, <1>6 DEF EndLoop
    <2>3. NextStage(p) \in {"ready", "slots", "orphans", "reconcile", "expired", "treeless"}
      BY NextStageLoops
    <2>4. Held(p)' = Held(p)
      BY <2>1 DEF Held
    <2>5. WorkSound(p)'
      BY <1>0, <1>2, <2>1, <2>2, <2>3, <2>4, LoopWorkKnown DEF WorkSound
    <2>6. OneName'
      BY <1>2, <2>1, NamesNow, NamesKeep
    <2> QED
      BY <1>0, <1>2, <2>1, <2>2, <2>5, <2>6, WorkApart
  <1>7. CASE Visit(p)
    <2>1. PICK x \in work[p] : /\ job' = [job EXCEPT ![p] = RecoverJob(p, x)]
                               /\ work' = [work EXCEPT ![p] = @ \ {x}]
      BY <1>7 DEF Visit
    <2>2. UNCHANGED <<leases, lview, stage>> /\ InLoop(p)
      BY <1>7 DEF Visit, durable
    <2> DEFINE j == RecoverJob(p, x)
    <2>3. job'[p] = j /\ \A q \in Providers \ {p} : job'[q] = job[q]
      BY <1>1, <2>1
    <2>4. work'[p] = work[p] \ {x} /\ \A q \in Providers \ {p} : work'[q] = work[q]
      BY <1>1, <2>1
    <2>5. /\ j.rid \in Rids => Names(j.rid, j.slot)
          /\ j.lease \notin {"none", "active"} => j.rid \in Held(p)
      BY <2>2, VisitFacts
    <2>6. stage[p] \notin {"down", "watermark", "migrate", "leases", "cleanup"}
      BY <2>2 DEF InLoop, Loops
    <2> HIDE DEF j
    <2>7. Held(p)' = Held(p)
      BY <2>2 DEF Held
    <2>8. WorkSound(p)'
      BY <1>0, <1>2, <2>2, <2>3, <2>4, <2>5, <2>6, <2>7 DEF WorkSound
    <2>9. OneName'
      BY <1>2, <2>2, <2>3, <2>5, NamesNow, NamesKeep
    <2> QED
      BY <1>0, <1>2, <2>2, <2>3, <2>4, <2>8, <2>9, WorkApart
  <1> QED
    BY <1>3, <1>4, <1>5, <1>6, <1>7 DEF Initialize

\* A new reservation is one that nothing names.
LEMMA ReserveKnown ==
  ASSUME IndInv, OneName, WorkKnown, NEW p \in Providers, NEW range, NEW s,
         reserveSpecificKeyUse(p, s, range)
  PROVE  OneName' /\ WorkKnown'
  <1>1. PICK r \in Rids :
          /\ ~InUse(r)
          /\ Accept(p, [goal |-> "reserve", pc |-> IF Cas THEN "claim" ELSE "append",
                        rid |-> r, slot |-> s, status |-> "reserved", tx |-> NoTx,
                        lease |-> "active"])
    BY DEF reserveSpecificKeyUse
  <1>2. UNCHANGED <<journal, leases, lview, stage, work>>
    BY <1>1 DEF Accept, durable
  <1>3. /\ job'[p].rid = r /\ job'[p].slot = s /\ job'[p].lease = "active"
        /\ \A q \in Providers \ {p} : job'[q] = job[q]
    BY <1>1 DEF Accept, IndInv, TypeOK, ControlTypeOK
  <1>4. \A t : ~Names(r, t)
    BY <1>1 DEF InUse, Names, Of
  <1>5. OneName'
    <2>1. ASSUME NEW x \in Rids, NEW t \in Slots, Names(x, t)'
          PROVE  IF x = r THEN t = s ELSE Names(x, t)
      BY <1>2, <1>3, <1>4, <2>1 DEF Names
    <2> QED
      BY <2>1 DEF OneName
  <1>6. stage[p] = "ready" /\ Held(p)' = Held(p)
    BY <1>2 DEF reserveSpecificKeyUse, Ready, Held
  <1>7. WorkSound(p)'
    BY <1>2, <1>3, <1>6 DEF WorkKnown, WorkSound
  <1> QED
    BY <1>2, <1>3, <1>5, <1>7, WorkApart DEF IndInv

\* A commit or a burn is of a reservation that has a lease.
LEMMA SettleKnown ==
  ASSUME IndInv, OneName, WorkKnown, NEW p \in Providers, NEW r \in Rids, NEW goal, NEW status, NEW tx,
         Settle(p, r, goal, status, tx)
  PROVE  OneName' /\ WorkKnown'
  <1>1. PICK j : Accept(p, j) /\ j.rid = r /\ j.slot = lview[p][r].slot
    BY DEF Settle
  <1>2. UNCHANGED <<journal, leases, lview, stage, work>> /\ lview[p][r].status # "none"
    BY <1>1 DEF Accept, durable, Settle
  <1>3. job'[p] = j /\ \A q \in Providers \ {p} : job'[q] = job[q]
    BY <1>1 DEF Accept, IndInv, TypeOK, ControlTypeOK
  <1>4. stage[p] = "ready" /\ Held(p)' = Held(p) /\ r \in Held(p)
    BY <1>2 DEF Settle, Ready, Held
  <1>5. OneName'
    BY <1>1, <1>2, <1>3, NamesNow, NamesKeep
  <1>6. WorkSound(p)'
    BY <1>1, <1>2, <1>3, <1>4 DEF WorkKnown, WorkSound
  <1> QED
    BY <1>2, <1>3, <1>5, <1>6, WorkApart DEF IndInv

\* A seed names no reservation.
LEMMA SeedKnown ==
  ASSUME IndInv, OneName, WorkKnown, NEW p \in Providers, NEW c, NEW regress,
         seedWatermark(p, c, regress)
  PROVE  OneName' /\ WorkKnown'
  <1>1. UNCHANGED <<journal, leases, lview, stage, work>> /\ stage[p] = "ready"
    BY DEF seedWatermark, durable, Ready
  <1>2. /\ job'[p].rid = NoRid /\ job'[p].lease = "none"
        /\ \A q \in Providers \ {p} : job'[q] = job[q]
    BY DEF seedWatermark, IndInv, TypeOK, ControlTypeOK
  <1>3. OneName'
    BY <1>1, <1>2, NamesNow, NamesKeep, ProviderAssumption
  <1>4. WorkSound(p)'
    BY <1>1, <1>2 DEF WorkSound
  <1> QED
    BY <1>1, <1>2, <1>3, <1>4, WorkApart DEF IndInv

\* The names of the reservations and the work of the loops through any step.
LEMMA NextKnown ==
  ASSUME IndInv, OneName, WorkKnown, [Next]_vars
  PROVE  OneName' /\ WorkKnown'
  <1>1. ASSUME UNCHANGED <<journal, leases, lview, stage, work, job>>
        PROVE  OneName' /\ WorkKnown'
    <2>1. OneName'
      BY <1>1, NamesNow, NamesKeep
    <2>2. \A p \in Providers : Held(p)' = Held(p)
      BY <1>1 DEF Held
    <2> QED
      BY <1>1, <2>1, <2>2 DEF WorkKnown, WorkSound
  <1>2. ASSUME NEW p \in Providers, Call(p) PROVE OneName' /\ WorkKnown'
    <2>1. CASE RefusedCall(p) \/ \E c \in RemoteCursors : advanceToRemoteWatermark(p, c)
      BY <1>1, <2>1 DEF RefusedCall, advanceToRemoteWatermark, durable
    <2>4. CASE \E c \in SeedCursors, regress \in BOOLEAN : seedWatermark(p, c, regress)
      BY <2>4, SeedKnown
    <2>2. CASE \E range \in Ranges : \/ reserveKeyUse(p, range)
                                     \/ \E s \in Slots : reserveSpecificKeyUse(p, s, range)
      BY <2>2, ReserveKnown DEF reserveKeyUse
    <2>3. CASE \E r \in Rids : burnReservation(p, r) \/ \E tx \in Txs : commitKeyUse(p, r, tx)
      BY <2>3, SettleKnown DEF burnReservation, commitKeyUse
    <2> QED
      BY <1>2, <2>1, <2>2, <2>3, <2>4 DEF Call
  <1>3. ASSUME NEW a \in Adapters, Crash(a) PROVE OneName' /\ WorkKnown'
    <2>1. UNCHANGED <<journal, leases>>
      BY <1>3 DEF Crash, durable
    <2>2. ASSUME NEW q \in Providers
          PROVE  \/ job'[q] = job[q] /\ lview'[q] = lview[q] /\ stage'[q] = stage[q] /\ work'[q] = work[q]
                 \/ job'[q] = Idle /\ lview'[q] = [r \in Rids |-> NoLease] /\ stage'[q] = "down"
      BY <1>3 DEF Crash
    <2>3. \A r \in Rids : [x \in Rids |-> NoLease][r].status = "none"
      BY DEF NoLease
    <2>4. OneName'
      BY <2>1, <2>2, <2>3, IdleFacts, NamesNow, NamesKeep
    <2>5. ASSUME NEW q \in Providers PROVE WorkSound(q)'
      <3>1. CASE job'[q] = job[q] /\ lview'[q] = lview[q] /\ stage'[q] = stage[q] /\ work'[q] = work[q]
        <4>1. Held(q)' = Held(q)
          BY <3>1 DEF Held
        <4> QED
          BY <2>1, <3>1, <4>1 DEF WorkKnown, WorkSound
      <3>2. CASE job'[q] = Idle /\ stage'[q] = "down"
        BY <3>2, IdleFacts DEF WorkSound
      <3> QED
        BY <2>2, <3>1, <3>2
    <2> QED
      BY <2>4, <2>5 DEF WorkKnown
  <1>4. CASE \/ \E p \in Providers : Adopt(p)
             \/ \E r \in Expirable : Expire(r)
             \/ UNCHANGED vars
    BY <1>1, <1>4 DEF Adopt, AdoptSerialize, AdoptLand, Expire, vars, durable, volatile
  <1> QED
    BY <1>2, <1>3, <1>4, InitializeKnown, StepKnown DEF Next

------------------------------------------------------------------------------
(* One outcome for each reservation. *)

\* A writer that leaves the journal readable has read all of it.
LEMMA SawAll ==
  ASSUME IndInv, Dense, NEW p \in Providers, job[p].pc = "write",
         ~Forked(journal \cup {RecordOf(p)}), RecordOf(p) \notin journal
  PROVE  jview[p] = journal
  <1> DEFINE k == Cardinality(jview[p])
             n == Cardinality(journal)
  <1>1. jview[p] \subseteq journal /\ IsFiniteSet(journal) /\ RecordOf(p).seq = k
    BY DEF IndInv, ViewsKnown, TypeOK, MediumTypeOK, RecordOf
  <1>2. IsFiniteSet(jview[p]) /\ k \in Nat /\ n \in Nat /\ k <= n /\ (k = n => jview[p] = journal)
    BY <1>1, FS_Subset, FS_CardinalityType
  <1> HIDE DEF k, n
  <1>3. SUFFICES ASSUME k < n PROVE FALSE
    BY <1>2
  <1>4. ~Forked(journal)
    BY DEF Forked
  <1>5. k \in 0 .. n - 1
    BY <1>2, <1>3
  <1>6. PICK r \in journal : r.seq = k
    BY <1>4, <1>5 DEF Dense, n
  <1> QED
    BY <1>1, <1>6 DEF Forked

\* In a readable journal a reservation that is settled says so.
LEMMA SettledLast ==
  ASSUME OneStart, OneOutcome, ~Forked(journal), journal \subseteq Records,
         NEW f \in journal, f.status # "reserved"
  PROVE  LatestStatus(journal, f.rid) = f.status
  <1>1. \A e \in journal : e.seq \in Nat
    BY DEF Records
  <1>2. ASSUME NEW e \in Of(journal, f.rid) PROVE e = f \/ e.seq < f.seq
    BY <1>2 DEF Of, OneStart, OneOutcome
  <1>3. Last(journal, f.rid) = {f}
    <2>1. f \in Of(journal, f.rid) /\ Of(journal, f.rid) \subseteq journal
      BY DEF Of
    <2>2. f \in Last(journal, f.rid)
      BY <1>1, <1>2, <2>1 DEF Last
    <2>3. \A e \in Last(journal, f.rid) : e = f
      BY <1>1, <1>2, <2>1 DEF Last
    <2> QED
      BY <2>2, <2>3
  <1>4. \A st : LatestIs(journal, f.rid, st) <=> st = f.status
    BY <1>3 DEF LatestIs
  <1>5. f.status \in Statuses
    BY DEF Records
  <1> QED
    BY <1>4, <1>5 DEF LatestStatus

\* The record that is written: a reservation nobody recorded, or the first outcome of
\* one, after everything recorded so far.
LEMMA WriteOutcome ==
  ASSUME IndInv, OutcomeInv, NEW p \in Providers, NEW o \in Outcomes, Write(p, o)
  PROVE  Dense' /\ OneStart' /\ OneOutcome'
  <1> DEFINE new == RecordOf(p)
  <1>1. /\ job[p].pc = "write" /\ job[p] \in Jobs /\ job[p].rid \in Rids
        /\ journal \subseteq Records /\ IsFiniteSet(journal) /\ jview[p] \subseteq journal
    BY DEF Write, IndInv, TypeOK, ControlTypeOK, MediumTypeOK, JobsFormed, ViewsKnown
  <1>2. /\ new.seq = Cardinality(jview[p]) /\ new.slot = job[p].slot
        /\ new.status = job[p].status /\ new.rid = job[p].rid
    BY DEF RecordOf
  <1>3. new \in Records
    BY <1>1, RecordType DEF IndInv
  <1>4. journal' = journal \/ journal' = journal \cup {new}
    BY DEF Write
  <1>5. CASE journal' = journal
    BY <1>5 DEF OutcomeInv, Dense, OneStart, OneOutcome
  <1>6. CASE new \notin journal /\ journal' = journal \cup {new}
    <2> DEFINE n == Cardinality(journal)
    <2>1. n \in Nat /\ Cardinality(journal') = n + 1
      BY <1>1, <1>6, FS_CardinalityType, FS_AddElement
    <2>2. new.seq \in Nat /\ new.seq <= n
      BY <1>1, <1>2, FS_Subset, FS_CardinalityType
    <2>3. \A r \in journal : r.seq < n /\ r.seq \in Nat
      BY <1>1 DEF OutcomeInv, Dense, Records
    <2> HIDE DEF n, new
    <2>4. \A r \in journal' : r.seq < Cardinality(journal')
      BY <1>6, <2>1, <2>2, <2>3
    <2>5. CASE Forked(journal')
      BY <2>4, <2>5 DEF Dense, OneStart, OneOutcome
    <2>6. CASE ~Forked(journal')
      <3>1. ~Forked(journal)
        BY <1>6, <2>6 DEF Forked
      <3>2. jview[p] = journal
        BY <1>1, <1>6, <2>6, SawAll DEF new, OutcomeInv
      <3>3. new.seq = n
        BY <1>2, <3>2 DEF n
      <3>4. \A k \in 0 .. n - 1 : \E r \in journal : r.seq = k
        BY <3>1 DEF OutcomeInv, Dense, n
      <3>5. \A k \in 0 .. Cardinality(journal') - 1 : \E r \in journal' : r.seq = k
        <4> SUFFICES ASSUME NEW k \in 0 .. n PROVE \E r \in journal' : r.seq = k
          BY <2>1
        <4>1. CASE k = n
          BY <1>6, <3>3, <4>1
        <4>2. CASE k # n
          <5>1. k \in 0 .. n - 1
            BY <2>1, <4>2
          <5> QED
            BY <1>6, <3>4, <5>1
        <4> QED
          BY <4>1, <4>2
      <3>6. AppendAllowed(journal, job[p])
        BY <1>1, <3>2 DEF OutcomeInv, Decided, Appending
      <3>7. CASE new.status = "reserved"
        <4>1. ~Recorded(journal, job[p].slot)
          BY <1>2, <3>6, <3>7 DEF AppendAllowed
        <4>2. \A e \in journal : e.rid # new.rid
          <5> SUFFICES ASSUME NEW e \in journal, e.rid = new.rid PROVE FALSE
            OBVIOUS
          <5>1. e.slot \in Slots /\ job[p].slot \in Slots /\ e.slot # job[p].slot
            BY <1>1, <4>1 DEF Recorded, Records, Jobs
          <5>2. Names(job[p].rid, e.slot) /\ Names(job[p].rid, job[p].slot)
            BY <1>1, <1>2, NamesNow
          <5> QED
            BY <1>1, <5>1, <5>2 DEF OutcomeInv, OneName
        <4>3. OneStart'
          BY <1>6, <3>1, <3>7, <4>2 DEF OutcomeInv, OneStart
        <4>4. OneOutcome'
          BY <1>6, <3>1, <3>7, <4>2 DEF OutcomeInv, OneOutcome
        <4> QED
          BY <2>4, <3>5, <4>3, <4>4 DEF Dense
      <3>8. CASE new.status # "reserved"
        <4>1. LatestStatus(journal, job[p].rid) \in {"none", "reserved"}
          BY <1>2, <3>6, <3>8 DEF AppendAllowed
        <4>2. \A e \in journal : e.rid = new.rid => e.status = "reserved"
          <5> SUFFICES ASSUME NEW e \in journal, e.rid = new.rid, e.status # "reserved" PROVE FALSE
            OBVIOUS
          <5>1. LatestStatus(journal, job[p].rid) = e.status
            BY <1>1, <1>2, <3>1, SettledLast DEF OutcomeInv
          <5>2. e.status # "none"
            BY <1>1 DEF Records, Statuses
          <5> QED
            BY <4>1, <5>1, <5>2
        <4>3. OneStart'
          BY <1>6, <2>3, <3>1, <3>3, <3>8, <4>2 DEF OutcomeInv, OneStart
        <4>4. OneOutcome'
          BY <1>6, <3>1, <3>8, <4>2 DEF OutcomeInv, OneOutcome
        <4> QED
          BY <2>4, <3>5, <4>3, <4>4 DEF Dense
      <3> QED
        BY <3>7, <3>8
    <2> QED
      BY <2>5, <2>6
  <1> QED
    BY <1>4, <1>5, <1>6

\* A provider that appends after a step appended before it, and read nothing since.
Steady(q) ==
  Appending(q)' => /\ Appending(q) /\ jview'[q] = jview[q]
                   /\ \E pc : job'[q] = [job[q] EXCEPT !.pc = pc]

LEMMA SteadyDecided ==
  ASSUME TypeOK, Decided, \A q \in Providers : Steady(q)
  PROVE  Decided'
  <1> SUFFICES ASSUME NEW q \in Providers, Appending(q)' PROVE AppendAllowed(jview'[q], job'[q])
    BY DEF Decided
  <1>0. Appending(q) /\ jview'[q] = jview[q] /\ job[q] \in Jobs
    BY DEF Steady, TypeOK, ControlTypeOK
  <1>a. PICK pc : job'[q] = [job[q] EXCEPT !.pc = pc]
    BY DEF Steady
  <1>1. /\ job'[q].status = job[q].status /\ job'[q].slot = job[q].slot
        /\ job'[q].rid = job[q].rid
    BY <1>0, <1>a DEF Jobs
  <1>2. AppendAllowed(jview[q], job[q])
    BY <1>0 DEF Decided
  <1> QED
    BY <1>0, <1>1, <1>2 DEF AppendAllowed

\* Nobody else's job or reading changes.
LEMMA SteadyApart ==
  ASSUME TypeOK, NEW q \in Providers, job'[q] = job[q], jview'[q] = jview[q]
  PROVE  Steady(q)
  <1>1. job'[q] = [job[q] EXCEPT !.pc = job[q].pc]
    BY DEF TypeOK, ControlTypeOK, Jobs
  <1> QED
    BY <1>1 DEF Steady, Appending

\* The decision is taken under the lock, on the records just read.
LEMMA StepDecided ==
  ASSUME IndInv, OutcomeInv, NEW p \in Providers, Step(p)
  PROVE  Decided'
  <1>0. TypeOK /\ Decided
    BY DEF IndInv, OutcomeInv
  <1>1. PICK j : Onward(p, j) /\ job' = [job EXCEPT ![p] = j]
    BY <1>0, HelpersMove, SerializeMoves
       DEF Step, AppendRead, Probe, Claim, Write, Mark, Land, Store, Moved
  <1>2. /\ job'[p] = j /\ \A q \in Providers \ {p} : job'[q] = job[q] /\ jview'[q] = jview[q]
    BY <1>0, <1>1 DEF TypeOK, ControlTypeOK, ViewTypeOK, Step, AppendRead, Probe, Claim, Write,
                      Mark, Serialize, Land, Store
  <1>3. \A q \in Providers \ {p} : Steady(q)
    BY <1>0, <1>2, SteadyApart
  <1>4. CASE AppendRead(p) /\ Appending(p)'
    <2>1. /\ AppendAllowed(journal, job[p]) /\ jview' = [jview EXCEPT ![p] = journal]
          /\ job' = [job EXCEPT ![p].pc = "probe"]
      BY <1>0, <1>1, <1>2, <1>4, IdleFacts
         DEF AppendRead, Appending, Abandon, Goto, TypeOK, ControlTypeOK, Jobs
    <2>2. /\ jview'[p] = journal /\ job'[p].status = job[p].status
          /\ job'[p].slot = job[p].slot /\ job'[p].rid = job[p].rid
      BY <1>0, <2>1 DEF TypeOK, ControlTypeOK, ViewTypeOK, Jobs
    <2>3. AppendAllowed(jview'[p], job'[p])
      BY <2>1, <2>2 DEF AppendAllowed
    <2>4. ASSUME NEW q \in Providers \ {p}, Appending(q)' PROVE AppendAllowed(jview'[q], job'[q])
      BY <1>0, <1>2, <2>4 DEF Decided, Appending
    <2> QED
      BY <2>3, <2>4 DEF Decided
  <1>5. CASE AppendRead(p) /\ ~Appending(p)'
    BY <1>0, <1>3, <1>5, SteadyDecided DEF Steady
  <1>6. CASE Probe(p)
    <2>1. Appending(p) /\ jview' = jview
      BY <1>6 DEF Probe, Appending
    <2>2. Steady(p)
      BY <1>1, <1>2, <2>1, IdleFacts DEF Steady, Appending, Onward
    <2> QED
      BY <1>0, <1>3, <2>2, SteadyDecided
  <1>7. CASE \/ Mark(p) \/ Serialize(p)
             \/ \E o \in Outcomes : Claim(p, o) \/ Write(p, o) \/ Land(p, o) \/ Store(p, o)
    <2>1. job'[p].pc \in {"idle", "append", "mark", "persist", "store"}
      BY <1>0, <1>7, IdleFacts
         DEF Claim, Write, Mark, Serialize, Land, Store, Abandon, Goto, Return, TypeOK,
             ControlTypeOK, Jobs
    <2>2. Steady(p)
      BY <2>1 DEF Steady, Appending
    <2> QED
      BY <1>0, <1>3, <2>2, SteadyDecided
  <1> QED
    BY <1>4, <1>5, <1>6, <1>7 DEF Step

\* A step that starts a job, loads a store, or ends a process.
LEMMA OtherDecided ==
  ASSUME IndInv, OutcomeInv,
         \/ \E p \in Providers : Open(p) \/ Initialize(p) \/ Adopt(p) \/ Call(p)
         \/ \E r \in Expirable : Expire(r)
         \/ \E a \in Adapters : Crash(a)
         \/ UNCHANGED vars
  PROVE  Decided' /\ UNCHANGED journal
  <1>0. /\ TypeOK /\ Decided /\ job \in [Providers -> Jobs]
        /\ jview \in [Providers -> SUBSET Records]
    BY DEF IndInv, OutcomeInv, TypeOK, ControlTypeOK, ViewTypeOK
  <1>1. ASSUME UNCHANGED <<journal, job, jview>> PROVE Decided' /\ UNCHANGED journal
    BY <1>0, <1>1, SteadyApart, SteadyDecided
  <1>2. ASSUME NEW p \in Providers, NEW j, job' = [job EXCEPT ![p] = j], j.pc \notin {"probe", "write"},
               UNCHANGED <<journal, jview>>
        PROVE  Decided' /\ UNCHANGED journal
    <2>1. job'[p] = j /\ \A q \in Providers \ {p} : job'[q] = job[q]
      BY <1>0, <1>2
    <2>2. \A q \in Providers : Steady(q)
      BY <1>0, <1>2, <2>1, SteadyApart DEF Steady, Appending
    <2> QED
      BY <1>0, <1>2, <2>2, SteadyDecided
  <1>3. ASSUME NEW p \in Providers, Open(p) PROVE Decided' /\ UNCHANGED journal
    <2>1. job[p].pc = "idle" /\ UNCHANGED <<journal, job>>
      BY <1>3, IdleFacts DEF Open, durable, OutcomeInv, WorkKnown, WorkSound
    <2>2. \A q \in Providers \ {p} : jview'[q] = jview[q]
      BY <1>0, <1>3 DEF Open
    <2>3. \A q \in Providers : Steady(q)
      BY <1>0, <2>1, <2>2, SteadyApart DEF Steady, Appending
    <2> QED
      BY <1>0, <2>1, <2>3, SteadyDecided
  <1>4. ASSUME NEW p \in Providers, Initialize(p) PROVE Decided' /\ UNCHANGED journal
    <2>1. CASE Visit(p)
      <3>1. PICK x \in work[p] : job' = [job EXCEPT ![p] = RecoverJob(p, x)]
        BY <2>1 DEF Visit
      <3>2. RecoverJob(p, x).pc \in {"idle", "append", "mark", "store"}
        BY <2>1, VisitFacts DEF Visit, OutcomeInv
      <3>3. UNCHANGED <<journal, jview>>
        BY <2>1 DEF Visit, durable
      <3> QED
        BY <1>2, <3>1, <3>2, <3>3
    <2>2. CASE ~Visit(p)
      BY <1>1, <1>4, <2>2
         DEF Initialize, LoadWatermark, LoadLeases, EndLoop, Migrate, CleanupExpired, durable
    <2> QED
      BY <2>1, <2>2
  <1>5. ASSUME NEW p \in Providers, Call(p) PROVE Decided' /\ UNCHANGED journal
    <2>1. CASE RefusedCall(p) \/ \E c \in RemoteCursors : advanceToRemoteWatermark(p, c)
      BY <1>1, <2>1 DEF RefusedCall, advanceToRemoteWatermark, durable
    <2>5. CASE \E c \in SeedCursors, regress \in BOOLEAN : seedWatermark(p, c, regress)
      BY <1>2, <2>5 DEF seedWatermark, durable
    <2>2. CASE \E j : Accept(p, j) /\ j.pc \in {"claim", "append", "mark"}
      BY <1>2, <2>2 DEF Accept, durable
    <2>3. ASSUME NEW s, NEW range, reserveSpecificKeyUse(p, s, range)
          PROVE  \E j : Accept(p, j) /\ j.pc \in {"claim", "append", "mark"}
      BY <2>3 DEF reserveSpecificKeyUse
    <2>4. ASSUME NEW r, NEW goal, NEW status, NEW tx, Settle(p, r, goal, status, tx)
          PROVE  \E j : Accept(p, j) /\ j.pc \in {"claim", "append", "mark"}
      BY <2>4 DEF Settle
    <2> QED
      BY <1>5, <2>1, <2>2, <2>3, <2>4, <2>5 DEF Call, reserveKeyUse, burnReservation, commitKeyUse
  <1>6. ASSUME NEW a \in Adapters, Crash(a) PROVE Decided' /\ UNCHANGED journal
    <2>1. \A q \in Providers : \/ job'[q] = Idle
                               \/ job'[q] = job[q] /\ jview'[q] = jview[q]
      BY <1>6 DEF Crash
    <2>2. \A q \in Providers : Steady(q)
      BY <1>0, <2>1, IdleFacts, SteadyApart DEF Steady, Appending
    <2>3. UNCHANGED journal
      BY <1>6 DEF Crash, durable
    <2> QED
      BY <1>0, <2>2, <2>3, SteadyDecided
  <1>7. CASE \/ \E p \in Providers : Adopt(p)
             \/ \E r \in Expirable : Expire(r)
             \/ UNCHANGED vars
    BY <1>1, <1>7 DEF Adopt, AdoptSerialize, AdoptLand, Expire, vars, durable, volatile
  <1> QED
    BY <1>3, <1>4, <1>5, <1>6, <1>7

\* Every step keeps a reservation to one outcome.
LEMMA OutcomeStep == IndInv /\ OutcomeInv /\ [Next]_vars => OutcomeInv'
  <1> SUFFICES ASSUME IndInv, OutcomeInv, [Next]_vars PROVE OutcomeInv'
    OBVIOUS
  <1>1. OneName' /\ WorkKnown'
    BY NextKnown DEF OutcomeInv
  <1>2. ASSUME journal' = journal PROVE Dense' /\ OneStart' /\ OneOutcome'
    BY <1>2 DEF OutcomeInv, Dense, OneStart, OneOutcome
  <1>3. ASSUME NEW p \in Providers, Step(p) PROVE Decided' /\ Dense' /\ OneStart' /\ OneOutcome'
    <2>1. CASE \E o \in Outcomes : Write(p, o)
      BY <1>3, <2>1, WriteOutcome, StepDecided
    <2>2. CASE ~\E o \in Outcomes : Write(p, o)
      <3>1. journal' = journal
        BY <1>3, <2>2 DEF Step, AppendRead, Probe, Claim, Mark, Serialize, Land, Store, durable
      <3> QED
        BY <1>2, <1>3, <3>1, StepDecided
    <2> QED
      BY <2>1, <2>2
  <1>4. ASSUME ~\E p \in Providers : Step(p)
        PROVE  Decided' /\ Dense' /\ OneStart' /\ OneOutcome'
    <2>1. \/ \E p \in Providers : Open(p) \/ Initialize(p) \/ Adopt(p) \/ Call(p)
          \/ \E r \in Expirable : Expire(r)
          \/ \E a \in Adapters : Crash(a)
          \/ UNCHANGED vars
      BY <1>4 DEF Next
    <2>2. Decided' /\ UNCHANGED journal
      BY <2>1, OtherDecided
    <2> QED
      BY <1>2, <2>2
  <1> QED
    BY <1>1, <1>3, <1>4 DEF OutcomeInv

LEMMA OutcomeInit == Init => OutcomeInv
  <1> SUFFICES ASSUME Init PROVE OutcomeInv
    OBVIOUS
  <1>1. /\ journal = {} /\ \A p \in Providers : job[p] = Idle /\ stage[p] = "down"
        /\ \A p \in Providers, r \in Rids : lview[p][r].status = "none"
    BY DEF Init, NoLease
  <1>2. OneName
    BY <1>1, IdleFacts DEF OneName, Names
  <1>3. WorkKnown
    BY <1>1, IdleFacts DEF WorkKnown, WorkSound
  <1>4. Dense
    BY <1>1, FS_EmptySet DEF Dense
  <1>5. Decided
    BY <1>1, IdleFacts DEF Decided, Appending
  <1>6. OneStart /\ OneOutcome
    BY <1>1 DEF OneStart, OneOutcome
  <1> QED
    BY <1>2, <1>3, <1>4, <1>5, <1>6 DEF OutcomeInv

LEMMA OutcomeInvariance == Spec => [](IndInv /\ OutcomeInv)
  BY IndInvInit, IndInvStep, OutcomeInit, OutcomeStep, PTL DEF Spec

\* A commit of one provider and a burn or the recovery of another never both stand:
\* in every journal that can be read a reservation has one outcome, on one adapter
\* object or on many, with claim keys or without.
THEOREM OneFinalStatus == Spec => []OneOutcome
  <1>1. OutcomeInv => OneOutcome
    BY DEF OutcomeInv
  <1> QED
    BY <1>1, OutcomeInvariance, PTL

------------------------------------------------------------------------------
(* Providers on one adapter object implement SlotAllocator. *)

\* What a step tells a caller.
LEMMA Tells ==
  ASSUME IndInv, NEW p \in Providers, Step(p)
  PROVE  \/ UNCHANGED <<granted, acked>>
         \/ /\ Return(p) /\ UNCHANGED <<journal, claims, jview, lock>>
            /\ job[p].pc \in {"persist", "store"}
  BY DEF Step, AppendRead, Probe, Claim, Write, Mark, Serialize, Land, Store, Abandon, Goto, told

LEMMA OthersSilent ==
  ASSUME \/ \E p \in Providers : Open(p) \/ Initialize(p) \/ Adopt(p) \/ Call(p)
         \/ \E r \in Expirable : Expire(r)
         \/ \E a \in Adapters : Crash(a)
         \/ UNCHANGED vars
  PROVE  UNCHANGED <<granted, acked>>
  <1>1. ASSUME NEW p \in Providers, Open(p) \/ Initialize(p) PROVE UNCHANGED <<granted, acked>>
    BY <1>1 DEF Open, Initialize, LoadWatermark, LoadLeases, EndLoop, Visit, Migrate, CleanupExpired,
                InitStep, told
  <1>2. ASSUME NEW p \in Providers, Call(p) PROVE UNCHANGED <<granted, acked>>
    BY <1>2 DEF Call, reserveKeyUse, reserveSpecificKeyUse, commitKeyUse, burnReservation, Settle, Accept,
                RefusedCall, advanceToRemoteWatermark, seedWatermark, told
  <1>3. CASE \/ \E r \in Expirable : Expire(r)
             \/ \E a \in Adapters : Crash(a)
             \/ \E p \in Providers : Adopt(p)
             \/ UNCHANGED vars
    BY <1>3 DEF Expire, Crash, Adopt, AdoptSerialize, AdoptLand, vars, told
  <1> QED
    BY <1>1, <1>2, <1>3

\* A reserving job that a step leaves behind, or one that just began.
LEMMA GrantFreshStep == IndInv /\ GrantFresh /\ [Next]_vars => GrantFresh'
  <1> SUFFICES ASSUME IndInv, GrantFresh, [Next]_vars PROVE GrantFresh'
    OBVIOUS
  <1>0. TypeOK /\ job \in [Providers -> Jobs]
    BY DEF IndInv, TypeOK, ControlTypeOK
  <1>1. ASSUME \A q \in Providers : \/ job'[q].goal # "reserve"
                                    \/ job'[q].goal = job[q].goal /\ job'[q].rid = job[q].rid,
               granted' = granted
        PROVE  GrantFresh'
    BY <1>1 DEF GrantFresh
  <1>2. ASSUME NEW p \in Providers, Step(p) PROVE GrantFresh'
    <2>1. PICK j : Onward(p, j) /\ job' = [job EXCEPT ![p] = j]
      BY <1>0, <1>2, HelpersMove, SerializeMoves
         DEF Step, AppendRead, Probe, Claim, Write, Mark, Land, Store, Moved
    <2>2. job'[p] = j /\ \A q \in Providers \ {p} : job'[q] = job[q]
      BY <1>0, <2>1
    <2>3. j = Idle \/ (j.goal = job[p].goal /\ j.rid = job[p].rid)
      BY <1>0, <2>1, OnwardFacts
    <2>4. CASE UNCHANGED granted
      BY <1>1, <2>2, <2>3, <2>4, IdleFacts
    <2>5. CASE Return(p)
      <3>1. job'[p] = Idle
        BY <1>0, <2>5 DEF Return
      <3>2. granted' = granted \/ (/\ job[p].goal = "reserve"
                                   /\ granted' = granted \cup {[rid |-> job[p].rid, slot |-> job[p].slot]})
        BY <2>5 DEF Return
      <3> QED
        BY <2>2, <3>1, <3>2, IdleFacts DEF GrantFresh
    <2> QED
      BY <1>2, <2>4, <2>5, Tells
  <1>3. ASSUME NEW p \in Providers, NEW s, NEW range, reserveSpecificKeyUse(p, s, range)
        PROVE  GrantFresh'
    <2>1. PICK r \in Rids :
            /\ ~InUse(r)
            /\ Accept(p, [goal |-> "reserve", pc |-> IF Cas THEN "claim" ELSE "append",
                          rid |-> r, slot |-> s, status |-> "reserved", tx |-> NoTx,
                          lease |-> "active"])
      BY <1>3 DEF reserveSpecificKeyUse
    <2>2. /\ job'[p].rid = r /\ \A q \in Providers \ {p} : job'[q] = job[q]
          /\ granted' = granted
      BY <1>0, <2>1 DEF Accept, told
    <2>3. (\A g \in granted : g.rid # r) /\ \A q \in Providers : job[q].rid # r
      BY <2>1 DEF InUse
    <2> QED
      BY <2>2, <2>3 DEF GrantFresh
  <1>4. ASSUME NEW p \in Providers, NEW r, NEW goal \in {"commit", "burn"}, NEW status, NEW tx,
               Settle(p, r, goal, status, tx)
        PROVE  GrantFresh'
    <2>1. PICK j : Accept(p, j) /\ j.goal = goal
      BY <1>4 DEF Settle
    <2>2. job'[p] = j /\ (\A q \in Providers \ {p} : job'[q] = job[q]) /\ granted' = granted
      BY <1>0, <2>1 DEF Accept, told
    <2> QED
      BY <1>1, <2>1, <2>2
  <1>5. ASSUME NEW p \in Providers, Call(p) PROVE GrantFresh'
    <2>1. CASE RefusedCall(p) \/ \E c \in RemoteCursors : advanceToRemoteWatermark(p, c)
      <3>1. UNCHANGED <<job, granted>>
        BY <2>1 DEF RefusedCall, advanceToRemoteWatermark, told
      <3> QED
        BY <1>1, <3>1
    <2>4. CASE \E c \in SeedCursors, regress \in BOOLEAN : seedWatermark(p, c, regress)
      <3>1. job'[p].goal = "seed" /\ (\A q \in Providers \ {p} : job'[q] = job[q]) /\ granted' = granted
        BY <1>0, <2>4 DEF seedWatermark
      <3> QED
        BY <1>1, <3>1
    <2>2. CASE \E range \in Ranges : \/ reserveKeyUse(p, range)
                                     \/ \E s \in Slots : reserveSpecificKeyUse(p, s, range)
      BY <1>3, <2>2 DEF reserveKeyUse
    <2>3. CASE \E r \in Rids : burnReservation(p, r) \/ \E tx \in Txs : commitKeyUse(p, r, tx)
      BY <1>4, <2>3 DEF burnReservation, commitKeyUse
    <2> QED
      BY <1>5, <2>1, <2>2, <2>3, <2>4 DEF Call
  <1>6. ASSUME NEW p \in Providers, Open(p) \/ Initialize(p) PROVE GrantFresh'
    <2>1. granted' = granted
      BY <1>6, OthersSilent
    <2>2. CASE Visit(p)
      <3>1. PICK x \in work[p] : job' = [job EXCEPT ![p] = RecoverJob(p, x)]
        BY <2>2 DEF Visit
      <3>2. RecoverJob(p, x).goal \in {"none", "recover"}
        BY <1>0, <2>2, RecoverJobType DEF Visit
      <3>3. job'[p] = RecoverJob(p, x) /\ \A q \in Providers \ {p} : job'[q] = job[q]
        BY <1>0, <3>1
      <3> QED
        BY <1>1, <2>1, <3>2, <3>3
    <2>3. CASE ~Visit(p)
      <3>1. UNCHANGED job
        BY <1>6, <2>3 DEF Open, Initialize, LoadWatermark, LoadLeases, EndLoop, Migrate, CleanupExpired
      <3> QED
        BY <1>1, <2>1, <3>1
    <2> QED
      BY <2>2, <2>3
  <1>7. ASSUME NEW a \in Adapters, Crash(a) PROVE GrantFresh'
    <2>1. \A q \in Providers : job'[q] = Idle \/ job'[q] = job[q]
      BY <1>7 DEF Crash
    <2>2. granted' = granted
      BY <1>7 DEF Crash, told
    <2> QED
      BY <1>1, <2>1, <2>2, IdleFacts
  <1>8. CASE \/ \E p \in Providers : Adopt(p)
             \/ \E r \in Expirable : Expire(r)
             \/ UNCHANGED vars
    <2>1. UNCHANGED <<job, granted>>
      BY <1>8 DEF Adopt, AdoptSerialize, AdoptLand, Expire, vars, volatile, told
    <2> QED
      BY <1>1, <2>1
  <1> QED
    BY <1>2, <1>5, <1>6, <1>7, <1>8 DEF Next

\* A step of a provider is a step of the allocator, or tells nobody anything.
LEMMA RefinesStep ==
  ASSUME OneLock
  PROVE  IndInv /\ IndInv' /\ OutcomeInv /\ GrantFresh /\ [Next]_vars
           => [Allocator!Next]_<<granted, acked>>
  <1> SUFFICES ASSUME IndInv, IndInv', OutcomeInv, GrantFresh, [Next]_vars
               PROVE  [Allocator!Next]_<<granted, acked>>
    OBVIOUS
  <1>1. ASSUME NEW p \in Providers, Step(p) PROVE [Allocator!Next]_<<granted, acked>>
    <2> DEFINE j == job[p]
    <2>1. CASE UNCHANGED <<granted, acked>>
      BY <2>1
    <2>2. CASE Return(p) /\ UNCHANGED <<journal, claims, jview, lock>> /\ Logged(p)
      <3>1. j \in Jobs
        BY DEF IndInv, TypeOK, ControlTypeOK
      <3>2. CASE j.goal = "reserve"
        <4>1. /\ granted' = granted \cup {[rid |-> j.rid, slot |-> j.slot]} /\ acked' = acked
              /\ j.rid \in Rids /\ j.slot \in Slots
          BY <2>2, <3>1, <3>2 DEF Return, IndInv, JobsFormed, Jobs
        <4>2. ASSUME NEW g \in granted PROVE g.rid # j.rid /\ g.slot # j.slot
          <5>1. g.rid # j.rid
            BY <3>2 DEF GrantFresh
          <5>2. HasRecord(g.rid, g.slot) /\ HasRecord(j.rid, j.slot)
            BY <2>2, <3>2 DEF IndInv, Journalled
          <5> QED
            BY <5>1, <5>2 DEF HasRecord, IndInv, ReservedOnce
        <4>3. Allocator!Grant(j.rid, j.slot)
          BY <4>1, <4>2 DEF Allocator!Grant
        <4> QED
          BY <4>1, <4>3 DEF Allocator!Next
      <3>3. CASE j.goal = "commit"
        <4>1. /\ acked' = acked \cup {[rid |-> j.rid, tx |-> j.tx]} /\ granted' = granted
              /\ j.rid \in Rids /\ j.tx \in Txs
          BY <2>2, <3>1, <3>3 DEF Return, IndInv, JobsFormed
        <4>2. ASSUME NEW c \in acked, c.rid = j.rid PROVE c.tx = j.tx
          <5>1. HasCommit(c.rid, c.tx) /\ HasCommit(j.rid, j.tx)
            BY <2>2, <3>3 DEF IndInv, Journalled, CommitDurable, HasCommit
          <5>2. ~Forked(journal)
            BY DEF IndInv, Linear, JournalLinear
          <5> QED
            BY <4>2, <5>1, <5>2 DEF HasCommit, OutcomeInv, OneOutcome
        <4>3. Allocator!Commit(j.rid, j.tx)
          BY <4>1, <4>2 DEF Allocator!Commit
        <4> QED
          BY <4>1, <4>3 DEF Allocator!Next
      <3>4. CASE j.goal \notin {"reserve", "commit"}
        BY <2>2, <3>4 DEF Return
      <3> QED
        BY <3>2, <3>3, <3>4
    <2> QED
      BY <1>1, <2>1, <2>2, Tells DEF Logged
  <1>2. ASSUME ~\E p \in Providers : Step(p) PROVE [Allocator!Next]_<<granted, acked>>
    <2>1. \/ \E p \in Providers : Open(p) \/ Initialize(p) \/ Adopt(p) \/ Call(p)
          \/ \E r \in Expirable : Expire(r)
          \/ \E a \in Adapters : Crash(a)
          \/ UNCHANGED vars
      BY <1>2 DEF Next
    <2> QED
      BY <2>1, OthersSilent
  <1> QED
    BY <1>1, <1>2

\* Any number of providers on one adapter object behave, to their callers, as the
\* allocator: through crashes, rejected writes and recoveries every slot is handed out
\* once, under an id of its own, and a reservation is committed with one transaction.
THEOREM Implementation ==
  ASSUME OneLock
  PROVE  Spec => ImplementsAllocator
  <1>1. Init => Allocator!Init /\ GrantFresh
    BY IdleFacts DEF Init, Allocator!Init, GrantFresh
  <1>2. Spec => []GrantFresh
    BY <1>1, Invariance, GrantFreshStep, PTL DEF Spec
  <1>3. IndInv /\ IndInv' /\ OutcomeInv /\ GrantFresh /\ [Next]_vars
           => [Allocator!Next]_<<granted, acked>>
    BY RefinesStep
  <1> QED
    BY <1>1, <1>2, <1>3, OutcomeInvariance, PTL DEF Spec, ImplementsAllocator, Allocator!Spec

------------------------------------------------------------------------------
(* What is in memory: marks and adopted cursors. *)

\* A mark, a merge and a seed forget no marked slot, and the first two no cursor.
LEMMA WatermarkGrows ==
  ASSUME NEW w \in Watermarks, NEW v \in Watermarks, NEW s \in Slots
  PROVE  /\ w.cursor \in Int /\ v.cursor \in Int
         /\ markUnavailable(w, s).cursor \in Int /\ w.cursor <= markUnavailable(w, s).cursor
         /\ w.unavailable \subseteq markUnavailable(w, s).unavailable
         /\ s \in markUnavailable(w, s).unavailable
         /\ mergeWatermarkState(w, v).cursor \in Int
         /\ w.cursor <= mergeWatermarkState(w, v).cursor
         /\ w.unavailable \subseteq mergeWatermarkState(w, v).unavailable
         /\ seed(w, s, {}).cursor = s /\ seed(w, s, {}).unavailable = w.unavailable
         /\ saveCursor(w, s).cursor = s /\ saveCursor(w, s).unavailable = w.unavailable
  BY CapacityAssumption DEF Watermarks, Slots, markUnavailable, mergeWatermarkState, seed, saveCursor

\* What one provider knows, marks and has adopted after a step.
Kept(q) ==
  /\ stage'[q] # "down" =>
       IF stage[q] = "down" THEN jview'[q] = journal' /\ ~Loaded(q)'
                            ELSE \A r \in journal : Known(q, r) => Known(q, r)'
  /\ job'[q].goal = "reserve" /\ job'[q].pc \in {"persist", "store"} =>
       job'[q].slot \in wview'[q].unavailable
  /\ floor'[q] > 0 => stage'[q] = "ready" /\ floor'[q] <= wview'[q].cursor

\* A provider that a step leaves alone.
LEMMA KeptApart ==
  ASSUME MemoryInv, NEW q \in Providers, journal \subseteq journal',
         stage'[q] = stage[q], work'[q] = work[q], job'[q] = job[q],
         jview'[q] = jview[q], wview'[q] = wview[q], floor'[q] = floor[q]
  PROVE  Kept(q)
  BY DEF Kept, Known, MarkDue, Loaded, MemoryInv, MarkedFirst, FloorHeld

\* What a provider knows survives as long as its copies grow, also when it starts the
\* loops again.
LEMMA KnownKeeps ==
  ASSUME TypeOK, NEW p \in Providers, NEW r, Known(p, r),
         jview[p] \subseteq jview'[p],
         \/ ~Loaded(p)'
         \/ /\ wview[p].unavailable \subseteq wview'[p].unavailable
            /\ UNCHANGED <<stage, work>>
            /\ \/ stage[p] # "slots" \/ job[p].pc # "mark"
               \/ job[p].slot \in wview'[p].unavailable
         \/ \E J : jview[p] \subseteq J /\ EnterLoops(p, J)
  PROVE  Known(p, r)'
  <1>1. r \in jview'[p]
    BY DEF Known
  <1>2. CASE ~Loaded(p)'
    BY <1>1, <1>2 DEF Known
  <1>3. CASE /\ wview[p].unavailable \subseteq wview'[p].unavailable
             /\ UNCHANGED <<stage, work>>
             /\ \/ stage[p] # "slots" \/ job[p].pc # "mark"
                \/ job[p].slot \in wview'[p].unavailable
    BY <1>1, <1>3 DEF Known, MarkDue, Loaded
  <1>4. CASE \E J : jview[p] \subseteq J /\ EnterLoops(p, J)
    <2>1. PICK J : jview[p] \subseteq J /\ EnterLoops(p, J)
      BY <1>4
    <2>2. stage'[p] = "slots" /\ work'[p] = {e.slot : e \in J}
      BY <2>1 DEF EnterLoops, TypeOK, ControlTypeOK
    <2>3. r.slot \in work'[p]
      BY <2>1, <2>2 DEF Known
    <2> QED
      BY <1>1, <2>2, <2>3 DEF Known, MarkDue
  <1> QED
    BY <1>2, <1>3, <1>4

\* The steps of a job.
LEMMA StepKept ==
  ASSUME IndInv, IndInv', OutcomeInv, MemoryInv, NEW p \in Providers, Step(p)
  PROVE  \A q \in Providers : Kept(q)
  <1>0. /\ TypeOK /\ job[p] \in Jobs /\ wview[p] \in Watermarks /\ jview[p] \subseteq journal
        /\ job \in [Providers -> Jobs] /\ wview \in [Providers -> Watermarks]
        /\ jview \in [Providers -> SUBSET Records] /\ stage \in [Providers -> Stages]
        /\ job[p].slot \in Slots
    BY DEF IndInv, TypeOK, ControlTypeOK, ViewTypeOK, ViewsKnown, Jobs
  <1>1. PICK j : Onward(p, j) /\ job' = [job EXCEPT ![p] = j]
    BY <1>0, HelpersMove, SerializeMoves
       DEF Step, AppendRead, Probe, Claim, Write, Mark, Land, Store, Moved
  <1>2. job'[p] = j /\ \A q \in Providers \ {p} : job'[q] = job[q]
    BY <1>0, <1>1
  <1>3. j = Idle \/ (j.goal = job[p].goal /\ j.slot = job[p].slot)
    BY <1>0, <1>1, OnwardFacts
  <1>4. job[p].pc # "idle" /\ stage[p] # "down" /\ UNCHANGED floor
    <2>1. job[p].pc # "idle"
      BY DEF Step, AppendRead, Probe, Claim, Write, Mark, Serialize, Land, Store
    <2>2. UNCHANGED floor
      BY DEF Step, AppendRead, Probe, Claim, Write, Mark, Serialize, Land, Store, Abandon, Goto, Return, told
    <2> QED
      BY <2>1, <2>2 DEF IndInv, JobsFormed
  <1>5. /\ journal \subseteq journal' /\ jview[p] \subseteq jview'[p]
        /\ \A q \in Providers \ {p} : jview'[q] = jview[q]
    BY <1>0 DEF Step, AppendRead, Probe, Claim, Write, Mark, Serialize, Land, Store, durable
  <1>6. /\ wview[p].unavailable \subseteq wview'[p].unavailable /\ wview[p].cursor <= wview'[p].cursor
        /\ job[p].pc = "mark" => job[p].slot \in wview'[p].unavailable
        /\ \A q \in Providers \ {p} : wview'[q] = wview[q]
    <2>1. CASE Mark(p)
      <3>1. /\ wview'[p] = markUnavailable(wview[p], job[p].slot)
            /\ \A q \in Providers \ {p} : wview'[q] = wview[q]
        BY <1>0, <2>1 DEF Mark
      <3> QED
        BY <1>0, <3>1, WatermarkGrows
    <2>2. CASE ~Mark(p)
      <3>1. UNCHANGED wview /\ job[p].pc # "mark"
        BY <2>2 DEF Step, AppendRead, Probe, Claim, Write, Serialize, Land, Store
      <3> QED
        BY <1>0, <3>1, WatermarkGrows
    <2> QED
      BY <2>1, <2>2
  <1>7. UNCHANGED <<stage, work>> \/ \E J : jview[p] \subseteq J /\ EnterLoops(p, J)
    <2>1. ASSUME NEW J, Abandon(p, J), jview[p] \subseteq J
          PROVE  UNCHANGED <<stage, work>> \/ \E K : jview[p] \subseteq K /\ EnterLoops(p, K)
      BY <2>1 DEF Abandon
    <2>2. (\E pc : Goto(p, pc)) \/ Return(p) => UNCHANGED <<stage, work>>
      BY DEF Goto, Return
    <2>3. \/ (\E pc : Goto(p, pc)) \/ Return(p) \/ Abandon(p, jview[p]) \/ Abandon(p, journal)
          \/ UNCHANGED <<stage, work>>
      BY DEF Step, AppendRead, Probe, Claim, Write, Mark, Serialize, Land, Store
    <2> QED
      BY <1>0, <2>1, <2>2, <2>3
  <1>8. \A q \in Providers \ {p} : stage'[q] = stage[q] /\ work'[q] = work[q]
    BY <1>0, <1>7 DEF EnterLoops, TypeOK, ControlTypeOK
  <1>9. \A r : Known(p, r) => Known(p, r)'
    BY <1>0, <1>5, <1>6, <1>7, KnownKeeps
  <1>a. stage[p] = "ready" => stage'[p] = "ready"
    BY <1>0 DEF Step, AppendRead, Probe, Claim, Write, Mark, Serialize, Land, Store, Goto, Return, Abandon
  <1>b. job'[p].goal = "reserve" /\ job'[p].pc \in {"persist", "store"} =>
          job'[p].slot \in wview'[p].unavailable
    <2> SUFFICES ASSUME job'[p].goal = "reserve", job'[p].pc \in {"persist", "store"}
                 PROVE  job'[p].slot \in wview'[p].unavailable
      OBVIOUS
    <2>1. job[p].goal = "reserve" /\ job'[p].slot = job[p].slot
      BY <1>2, <1>3, IdleFacts
    <2>2. ASSUME AppendRead(p) \/ Probe(p) \/ \E o \in Outcomes : Claim(p, o) \/ Write(p, o)
          PROVE  job'[p].pc \in {"idle", "append", "probe", "write", "mark"}
      <3>1. ASSUME NEW pc, Goto(p, pc) PROVE job'[p].pc = pc
        BY <1>0, <3>1 DEF Goto, Jobs
      <3>2. ASSUME NEW J, Abandon(p, J) PROVE job'[p].pc = "idle"
        BY <1>0, <3>2, IdleFacts DEF Abandon
      <3> QED
        BY <2>2, <3>1, <3>2 DEF AppendRead, Probe, Claim, Write
    <2>3. job[p].pc \in {"mark", "persist", "store"}
      BY <2>2 DEF Step, Mark, Serialize, Land, Store
    <2> QED
      BY <1>6, <2>1, <2>3 DEF MemoryInv, MarkedFirst
  <1>c. floor'[p] > 0 => stage'[p] = "ready" /\ floor'[p] <= wview'[p].cursor
    <2>1. floor[p] \in Int /\ wview[p].cursor \in Int /\ wview'[p].cursor \in Int
      BY <1>0 DEF IndInv, TypeOK, ToldTypeOK, ViewTypeOK, Watermarks, Slots
    <2> QED
      BY <1>4, <1>6, <1>a, <2>1 DEF MemoryInv, FloorHeld
  <1>d. Kept(p)
    BY <1>4, <1>9, <1>b, <1>c DEF Kept
  <1> QED
    BY <1>2, <1>4, <1>5, <1>6, <1>8, <1>d, KeptApart

\* The steps of initialize().
LEMMA InitializeKept ==
  ASSUME IndInv, OutcomeInv, MemoryInv, NEW p \in Providers, Open(p) \/ Initialize(p)
  PROVE  \A q \in Providers : Kept(q)
  <1>0. /\ TypeOK /\ wview \in [Providers -> Watermarks] /\ jview \in [Providers -> SUBSET Records]
        /\ stage \in [Providers -> Stages] /\ job \in [Providers -> Jobs]
        /\ work = [q \in Providers |-> work[q]] /\ floor \in [Providers -> Slots]
        /\ jview[p] \subseteq journal
    BY DEF IndInv, TypeOK, ControlTypeOK, ViewTypeOK, ToldTypeOK, ViewsKnown
  <1>1. UNCHANGED <<journal, floor>>
    BY DEF Open, Initialize, LoadWatermark, LoadLeases, EndLoop, Visit, Migrate, CleanupExpired, InitStep,
           durable, told
  <1>2. stage[p] # "ready" /\ floor[p] = 0
    <2>1. stage[p] # "ready"
      BY DEF Open, Initialize, LoadWatermark, LoadLeases, EndLoop, Visit, Migrate, CleanupExpired,
             InLoop, Loops
    <2> QED
      BY <1>0, <2>1, CapacityAssumption DEF MemoryInv, FloorHeld, Slots
  <1>3. \A q \in Providers \ {p} : /\ stage'[q] = stage[q] /\ work'[q] = work[q] /\ job'[q] = job[q]
                                   /\ jview'[q] = jview[q] /\ wview'[q] = wview[q]
    BY <1>0 DEF Open, Initialize, LoadWatermark, LoadLeases, EndLoop, Visit, Migrate, CleanupExpired,
                EnterLoops
  <1>4. job'[p].goal # "reserve"
    <2>1. job[p].goal # "reserve" \/ job'[p] # job[p]
      <3>1. CASE job[p].pc = "idle"
        BY <3>1 DEF IndInv, JobsFormed
      <3>2. CASE job[p].pc # "idle"
        <4>1. stage[p] \notin {"down", "watermark", "migrate", "leases", "cleanup"}
          BY <3>2, IdleFacts DEF OutcomeInv, WorkKnown, WorkSound
        <4> QED
          BY <3>2, <4>1 DEF Open, Initialize, LoadWatermark, LoadLeases, EndLoop, Visit, Migrate,
                            CleanupExpired, Busy
      <3> QED
        BY <3>1, <3>2
    <2>2. CASE Visit(p)
      <3>1. PICK x \in work[p] : job' = [job EXCEPT ![p] = RecoverJob(p, x)]
        BY <2>2 DEF Visit
      <3>2. RecoverJob(p, x).goal \in {"none", "recover"}
        BY <1>0, <2>2, RecoverJobType DEF Visit
      <3> QED
        BY <1>0, <3>1, <3>2
    <2>3. CASE ~Visit(p)
      <3>1. UNCHANGED job
        BY <2>3 DEF Open, Initialize, LoadWatermark, LoadLeases, EndLoop, Migrate, CleanupExpired
      <3> QED
        BY <2>1, <3>1
    <2> QED
      BY <2>2, <2>3
  <1>5. ASSUME stage[p] = "down" PROVE stage'[p] # "down" => jview'[p] = journal' /\ ~Loaded(p)'
    BY <1>0, <1>1, <1>5 DEF Open, Initialize, LoadWatermark, LoadLeases, EndLoop, Visit, Migrate,
                            CleanupExpired, InLoop, Loops, Loaded
  <1>6. ASSUME stage[p] # "down", NEW r \in journal, Known(p, r) PROVE Known(p, r)'
    <2>1. jview' = jview
      BY <1>6 DEF Open, Initialize, LoadWatermark, LoadLeases, EndLoop, Visit, Migrate, CleanupExpired
    <2>2. CASE LoadWatermark(p) \/ \E o \in Outcomes : Migrate(p, o)
      <3>1. ~Loaded(p)'
        BY <1>0, <2>2 DEF LoadWatermark, Migrate, Loaded
      <3> QED
        BY <1>0, <1>6, <2>1, <3>1, KnownKeeps
    <2>3. CASE LoadLeases(p) \/ \E o \in Outcomes : CleanupExpired(p, o)
      <3>1. ~Loaded(p)' \/ EnterLoops(p, jview[p])
        BY <1>0, <2>3 DEF LoadLeases, CleanupExpired, Loaded
      <3> QED
        BY <1>0, <1>6, <2>1, <3>1, KnownKeeps
    <2>4. CASE EndLoop(p)
      <3>1. Loaded(p) /\ work[p] = {} /\ job[p].pc = "idle" /\ UNCHANGED wview
        BY <2>4 DEF EndLoop, InLoop, Loops, Loaded, Busy
      <3> QED
        BY <1>6, <2>1, <3>1 DEF Known, MarkDue
    <2>5. CASE Visit(p)
      <3>1. PICK x \in work[p] : /\ job' = [job EXCEPT ![p] = RecoverJob(p, x)]
                                 /\ work' = [work EXCEPT ![p] = @ \ {x}]
        BY <2>5 DEF Visit
      <3>2. Loaded(p) /\ job[p].pc = "idle" /\ UNCHANGED <<wview, stage>>
        BY <2>5 DEF Visit, InLoop, Loops, Loaded, Busy
      <3>3. CASE stage[p] = "slots"
        <4>1. RecoverJob(p, x).pc = "mark" /\ RecoverJob(p, x).slot = x
          BY <3>3 DEF RecoverJob, Recover
        <4>2. job'[p].pc = "mark" /\ job'[p].slot = x /\ work'[p] = work[p] \ {x}
          BY <1>0, <3>1, <4>1
        <4> QED
          BY <1>6, <2>1, <3>2, <3>3, <4>2 DEF Known, MarkDue
      <3>4. CASE stage[p] # "slots"
        BY <1>6, <2>1, <3>2, <3>4 DEF Known, MarkDue
      <3> QED
        BY <3>3, <3>4
    <2> QED
      BY <1>6, <2>2, <2>3, <2>4, <2>5 DEF Open, Initialize
  <1>7. floor'[p] > 0 => stage'[p] = "ready" /\ floor'[p] <= wview'[p].cursor
    BY <1>1, <1>2
  <1>8. Kept(p)
    BY <1>4, <1>5, <1>6, <1>7 DEF Kept
  <1>9. \A q \in Providers \ {p} : Kept(q)
    BY <1>1, <1>3, KeptApart
  <1> QED
    BY <1>8, <1>9

\* What a call finds in memory, and leaves there.
LEMMA CallKept ==
  ASSUME IndInv, OutcomeInv, MemoryInv, NEW p \in Providers, Call(p)
  PROVE  \A q \in Providers : Kept(q)
  <1>0. /\ TypeOK /\ wview \in [Providers -> Watermarks] /\ job \in [Providers -> Jobs]
        /\ wview[p] \in Watermarks /\ wm \in Watermarks /\ Refreshed(p) \in Watermarks
        /\ floor \in [Providers -> Slots] /\ floor[p] \in Int
        /\ RemoteCursors \subseteq Slots /\ SeedCursors \subseteq Slots
    BY ParameterAssumption, CapacityAssumption
       DEF IndInv, TypeOK, ControlTypeOK, ViewTypeOK, MediumTypeOK, ToldTypeOK, Refreshed,
           mergeWatermarkState, Watermarks, Slots
  <1>1. /\ Refreshed(p).cursor \in Int /\ wview[p].cursor \in Int
        /\ wview[p].cursor <= Refreshed(p).cursor
        /\ wview[p].unavailable \subseteq Refreshed(p).unavailable
    BY <1>0 DEF Refreshed, mergeWatermarkState, Watermarks, Slots
  <1>2. ASSUME NEW w \in Watermarks, wview[p].unavailable \subseteq w.unavailable,
               wview' = [wview EXCEPT ![p] = w], UNCHANGED <<journal, jview, stage, work>>,
               stage[p] = "ready",
               \A q \in Providers \ {p} : job'[q] = job[q] /\ floor'[q] = floor[q],
               job'[p] = job[p] \/ job'[p].goal # "reserve" \/ job'[p].pc \notin {"persist", "store"},
               floor'[p] <= w.cursor
        PROVE  \A q \in Providers : Kept(q)
    <2>1. wview'[p] = w /\ \A q \in Providers \ {p} : wview'[q] = wview[q]
      BY <1>0, <1>2
    <2>2. \A r : Known(p, r) => Known(p, r)'
      BY <1>0, <1>2, <2>1, KnownKeeps
    <2>3. job'[p].goal = "reserve" /\ job'[p].pc \in {"persist", "store"} =>
            job'[p].slot \in wview'[p].unavailable
      BY <1>2, <2>1 DEF MemoryInv, MarkedFirst
    <2>4. Kept(p)
      BY <1>2, <2>1, <2>2, <2>3 DEF Kept
    <2> QED
      BY <1>2, <2>1, <2>4, KeptApart
  <1>3. floor[p] <= wview[p].cursor
    BY <1>0, <1>1 DEF MemoryInv, FloorHeld, Watermarks, Slots
  <1>4. ASSUME Refresh(p), stage[p] = "ready", UNCHANGED <<journal, jview, stage, work, floor>>,
               \A q \in Providers \ {p} : job'[q] = job[q],
               job'[p] = job[p] \/ job'[p].pc \in {"claim", "append", "mark"}
        PROVE  \A q \in Providers : Kept(q)
    <2>1. wview' = [wview EXCEPT ![p] = Refreshed(p)]
      BY <1>4 DEF Refresh
    <2>2. floor'[p] <= Refreshed(p).cursor
      BY <1>0, <1>1, <1>3, <1>4
    <2> QED
      BY <1>0, <1>1, <1>2, <1>4, <2>1, <2>2
  <1>5. CASE RefusedCall(p)
    BY <1>4, <1>5 DEF RefusedCall, Ready, durable, told
  <1>a. ASSUME NEW j, j.pc \in {"claim", "append", "mark"}, Accept(p, j), Ready(p), Refresh(p)
        PROVE  \A q \in Providers : Kept(q)
    <2>1. job' = [job EXCEPT ![p] = j] /\ UNCHANGED <<journal, jview, stage, work, floor>>
      BY <1>a DEF Accept, durable, told
    <2>2. job'[p] = j /\ \A q \in Providers \ {p} : job'[q] = job[q]
      BY <1>0, <2>1
    <2>3. stage[p] = "ready"
      BY <1>a DEF Ready
    <2> QED
      BY <1>4, <1>a, <2>1, <2>2, <2>3
  <1>6. ASSUME NEW s, NEW range, reserveSpecificKeyUse(p, s, range) PROVE \A q \in Providers : Kept(q)
    <2>1. \E j : j.pc \in {"claim", "append", "mark"} /\ Accept(p, j)
      BY <1>6 DEF reserveSpecificKeyUse
    <2>2. Ready(p) /\ Refresh(p)
      BY <1>6 DEF reserveSpecificKeyUse
    <2> QED
      BY <1>a, <2>1, <2>2
  <1>7. ASSUME NEW r, NEW goal, NEW status, NEW tx, Settle(p, r, goal, status, tx)
        PROVE  \A q \in Providers : Kept(q)
    <2>1. \E j : j.pc \in {"claim", "append", "mark"} /\ Accept(p, j)
      BY <1>7 DEF Settle
    <2>2. Ready(p) /\ Refresh(p)
      BY <1>7 DEF Settle
    <2> QED
      BY <1>a, <2>1, <2>2
  <1>8. ASSUME NEW c \in RemoteCursors, advanceToRemoteWatermark(p, c) PROVE \A q \in Providers : Kept(q)
    <2> DEFINE w == saveCursor(wview[p], c)
    <2>1. /\ wview' = [wview EXCEPT ![p] = w] /\ floor' = [floor EXCEPT ![p] = c] /\ stage[p] = "ready"
          /\ UNCHANGED <<journal, jview, stage, work, job>>
      BY <1>8 DEF advanceToRemoteWatermark, durable
    <2>2. w \in Watermarks /\ w.cursor = c /\ w.unavailable = wview[p].unavailable /\ c \in Int
      BY <1>0 DEF saveCursor, Watermarks, Slots
    <2>3. floor'[p] = c /\ \A q \in Providers \ {p} : floor'[q] = floor[q]
      BY <1>0, <2>1
    <2> HIDE DEF w
    <2>4. /\ wview[p].unavailable \subseteq w.unavailable /\ floor'[p] <= w.cursor
          /\ \A q \in Providers \ {p} : job'[q] = job[q] /\ floor'[q] = floor[q]
          /\ job'[p] = job[p]
      BY <2>1, <2>2, <2>3
    <2> QED
      BY <1>2, <2>1, <2>2, <2>4
  <1>9. ASSUME NEW c \in SeedCursors, NEW regress, seedWatermark(p, c, regress)
        PROVE  \A q \in Providers : Kept(q)
    <2> DEFINE w == seed(Refreshed(p), c, {})
    <2>1. /\ wview' = [wview EXCEPT ![p] = w] /\ floor' = [floor EXCEPT ![p] = c] /\ stage[p] = "ready"
          /\ UNCHANGED <<journal, jview, stage, work>>
      BY <1>9 DEF seedWatermark, Ready, durable
    <2>2. w \in Watermarks /\ w.cursor = c /\ w.unavailable = Refreshed(p).unavailable /\ c \in Int
      BY <1>0 DEF seed, Watermarks, Slots
    <2>3. floor'[p] = c /\ \A q \in Providers \ {p} : floor'[q] = floor[q]
      BY <1>0, <2>1
    <2>4. job'[p].goal = "seed" /\ \A q \in Providers \ {p} : job'[q] = job[q]
      BY <1>0, <1>9 DEF seedWatermark
    <2> HIDE DEF w
    <2>5. /\ wview[p].unavailable \subseteq w.unavailable /\ floor'[p] <= w.cursor
          /\ \A q \in Providers \ {p} : job'[q] = job[q] /\ floor'[q] = floor[q]
          /\ job'[p].goal # "reserve"
      BY <1>1, <2>2, <2>3, <2>4
    <2> QED
      BY <1>2, <2>1, <2>2, <2>5
  <1> QED
    BY <1>5, <1>6, <1>7, <1>8, <1>9 DEF Call, reserveKeyUse, burnReservation, commitKeyUse

\* Every step leaves every provider with what it knows.
LEMMA NextKept ==
  ASSUME IndInv, IndInv', OutcomeInv, MemoryInv, [Next]_vars
  PROVE  \A q \in Providers : Kept(q)
  <1>1. ASSUME UNCHANGED <<journal, stage, work, job, jview, wview, floor>>
        PROVE  \A q \in Providers : Kept(q)
    BY <1>1, KeptApart
  <1>2. ASSUME NEW a \in Adapters, Crash(a) PROVE \A q \in Providers : Kept(q)
    <2> SUFFICES ASSUME NEW q \in Providers PROVE Kept(q)
      OBVIOUS
    <2>1. UNCHANGED journal
      BY <1>2 DEF Crash, durable
    <2>2. CASE AdapterOf[q] = a
      <3>1. stage'[q] = "down" /\ job'[q] = Idle /\ floor'[q] = 0
        BY <1>2, <2>2 DEF Crash
      <3> QED
        BY <3>1, IdleFacts DEF Kept
    <2>3. CASE AdapterOf[q] # a
      <3>1. /\ stage'[q] = stage[q] /\ work'[q] = work[q] /\ job'[q] = job[q]
            /\ jview'[q] = jview[q] /\ wview'[q] = wview[q] /\ floor'[q] = floor[q]
        BY <1>2, <2>3 DEF Crash
      <3> QED
        BY <2>1, <3>1, KeptApart
    <2> QED
      BY <2>2, <2>3
  <1>3. CASE \/ \E p \in Providers : Adopt(p)
             \/ \E r \in Expirable : Expire(r)
             \/ UNCHANGED vars
    BY <1>1, <1>3 DEF Adopt, AdoptSerialize, AdoptLand, Expire, vars, durable, volatile, told
  <1> QED
    BY <1>2, <1>3, StepKept, InitializeKept, CallKept DEF Next

\* A step that starts no reservation leaves the ones being made to their jobs.
LEMMA AloneKeeps ==
  ASSUME MadeAlone, JobsFormed',
         \A p \in Providers : job'[p].goal = "reserve" =>
           /\ job[p].goal = "reserve" /\ job'[p].rid = job[p].rid
           /\ Logged(p) => Logged(p)'
           /\ jview[p] \subseteq jview'[p]
           /\ leases'[job[p].rid].status = "none"
           /\ \A q \in Providers : lview'[q][job[p].rid].status = "none",
         \A q \in Providers : job'[q].status = "reserved" =>
           \/ job'[q].rid \notin Rids
           \/ job[q].status = "reserved" /\ job[q].rid = job'[q].rid
           \/ lview[q][job'[q].rid].status # "none",
         \A r \in journal' : r.status = "reserved" =>
           \/ r \in journal
           \/ \E q \in Providers :
                /\ r.by = q /\ r.rid = job[q].rid /\ job[q].status = "reserved"
                /\ job'[q].goal = "reserve" => Logged(q)' /\ r \in jview'[q]
  PROVE  MadeAlone'
  <1> SUFFICES ASSUME NEW p \in Providers, job'[p].goal = "reserve"
               PROVE  /\ leases'[job'[p].rid].status = "none"
                      /\ \A q \in Providers : lview'[q][job'[p].rid].status = "none"
                      /\ \A q \in Providers \ {p} :
                           job'[q].rid = job'[p].rid => job'[q].status # "reserved"
                      /\ \A r \in journal' : r.rid = job'[p].rid /\ r.status = "reserved" =>
                           Logged(p)' /\ r.by = p /\ r \in jview'[p]
    BY DEF MadeAlone
  <1>1. job[p].goal = "reserve" /\ job'[p].rid = job[p].rid /\ job[p].rid \in Rids
    BY DEF JobsFormed
  <1>2. /\ \A q \in Providers : lview[q][job[p].rid].status = "none"
        /\ \A q \in Providers \ {p} : job[q].rid = job[p].rid => job[q].status # "reserved"
        /\ \A r \in journal : r.rid = job[p].rid /\ r.status = "reserved" =>
             Logged(p) /\ r.by = p /\ r \in jview[p]
    BY <1>1 DEF MadeAlone
  <1>3. \A q \in Providers \ {p} : job'[q].rid = job'[p].rid => job'[q].status # "reserved"
    BY <1>1, <1>2
  <1>4. ASSUME NEW r \in journal', r.rid = job'[p].rid, r.status = "reserved"
        PROVE  Logged(p)' /\ r.by = p /\ r \in jview'[p]
    <2>1. CASE r \in journal
      BY <1>1, <1>2, <1>4, <2>1
    <2>2. CASE r \notin journal
      <3>1. PICK q \in Providers : /\ r.by = q /\ r.rid = job[q].rid /\ job[q].status = "reserved"
                                   /\ job'[q].goal = "reserve" => Logged(q)' /\ r \in jview'[q]
        BY <1>4, <2>2
      <3>2. q = p
        BY <1>1, <1>2, <1>4, <3>1
      <3> QED
        BY <3>1, <3>2
    <2> QED
      BY <2>1, <2>2
  <1> QED
    BY <1>1, <1>3, <1>4

\* What is asked of the jobs after a step, beside MadeAlone.
Formed ==
  /\ ActiveMade'
  /\ \A q \in Providers : Appending(q)' /\ job'[q].status = "reserved" =>
       \A g \in granted' : g.rid # job'[q].rid

\* Most steps change a job only by its pc, or end it, and tell nobody of a grant.
LEMMA FormedKeeps ==
  ASSUME MemoryInv, NEW p \in Providers, granted' = granted,
         \A q \in Providers \ {p} : job'[q] = job[q],
         job'[p].lease = "active" => job'[p].goal = "reserve",
         Appending(p)' => Appending(p) /\ job'[p].status = job[p].status /\ job'[p].rid = job[p].rid
  PROVE  Formed
  BY DEF Formed, MemoryInv, ActiveMade, RecordFresh, Appending

\* The steps of a job.
LEMMA StepAlone ==
  ASSUME IndInv, IndInv', OutcomeInv, MemoryInv, NEW p \in Providers, Step(p)
  PROVE  MadeAlone' /\ Formed
  <1>0. /\ TypeOK /\ job[p] \in Jobs /\ job \in [Providers -> Jobs] /\ jview[p] \subseteq journal
        /\ lview \in [Providers -> [Rids -> Leases]] /\ JobsFormed /\ JobsFormed'
        /\ jview \in [Providers -> SUBSET Records] /\ MadeAlone /\ ActiveMade
    BY DEF IndInv, TypeOK, ControlTypeOK, ViewTypeOK, ViewsKnown, MemoryInv
  <1>1. PICK j : Onward(p, j) /\ job' = [job EXCEPT ![p] = j]
    BY <1>0, HelpersMove, SerializeMoves
       DEF Step, AppendRead, Probe, Claim, Write, Mark, Land, Store, Moved
  <1>2. job'[p] = j /\ \A q \in Providers \ {p} : job'[q] = job[q]
    BY <1>0, <1>1
  <1>3. \/ j = Idle
        \/ /\ j.rid = job[p].rid /\ j.slot = job[p].slot /\ j.lease = job[p].lease
           /\ j.goal = job[p].goal /\ j.status = job[p].status
    BY <1>0, <1>1, OnwardFacts
  <1>4. /\ jview[p] \subseteq jview'[p]
        /\ \A q \in Providers \ {p} : jview'[q] = jview[q]
    BY <1>0 DEF Step, AppendRead, Probe, Claim, Write, Mark, Serialize, Land, Store, durable
  <1>5. j = Idle \/ (Logged(p) => Logged(p)')
    <2>1. ASSUME NEW pc, Goto(p, pc) PROVE job'[p].pc = pc
      BY <1>0, <2>1 DEF Goto, Jobs
    <2>2. ASSUME Return(p) \/ \E J : Abandon(p, J) PROVE j = Idle
      BY <1>0, <1>2, <2>2 DEF Return, Abandon
    <2> QED
      BY <2>1, <2>2 DEF Step, AppendRead, Probe, Claim, Write, Mark, Serialize, Land, Store, Logged
  <1>6. /\ \A q \in Providers \ {p} : Logged(q)' = Logged(q)
        /\ \A q \in Providers : job'[q].status = "reserved" =>
             job'[q].rid \notin Rids \/ (job[q].status = "reserved" /\ job[q].rid = job'[q].rid)
    BY <1>2, <1>3, IdleFacts DEF Logged
  <1>7. ASSUME NEW q \in Providers, job'[q].goal = "reserve"
        PROVE  /\ job[q].goal = "reserve" /\ job'[q].rid = job[q].rid
               /\ Logged(q) => Logged(q)'
               /\ jview[q] \subseteq jview'[q]
    BY <1>2, <1>3, <1>4, <1>5, <1>6, <1>7, IdleFacts
  <1>8. ASSUME NEW q \in Providers, job'[q].goal = "reserve"
        PROVE  /\ leases'[job[q].rid].status = "none"
               /\ \A x \in Providers : lview'[x][job[q].rid].status = "none"
    <2>1. /\ job[q].goal = "reserve" /\ job[q].rid \in Rids
          /\ leases[job[q].rid].status = "none"
          /\ \A x \in Providers : lview[x][job[q].rid].status = "none"
      BY <1>0, <1>7, <1>8 DEF JobsFormed, MadeAlone
    <2>2. CASE \E o \in Outcomes : Store(p, o)
      <3>1. PICK o \in Outcomes : Store(p, o)
        BY <2>2
      <3>2. j = Idle /\ q # p
        BY <1>0, <1>2, <1>8, <3>1, IdleFacts DEF Store, Return, Abandon
      <3>3. job[p].rid # job[q].rid
        <4>1. CASE job[p].lease = "active"
          BY <1>0, <2>1, <3>2, <4>1 DEF ActiveMade, MadeAlone, JobsFormed
        <4>2. CASE job[p].lease # "active"
          <5>1. job[p].lease # "none"
            BY <1>0, <3>1 DEF Store, JobsFormed
          <5>2. job[p].rid \in Held(p)
            BY <4>2, <5>1 DEF OutcomeInv, WorkKnown, WorkSound
          <5> QED
            BY <2>1, <5>2 DEF Held
        <4> QED
          BY <4>1, <4>2
      <3> DEFINE lease == IF job[p].lease = "active"
                          THEN [slot |-> job[p].slot, status |-> "active", tree |-> TRUE]
                          ELSE [lview[p][job[p].rid] EXCEPT !.status = job[p].lease]
                 list == [lview[p] EXCEPT ![job[p].rid] = lease]
      <3>4. leases' \in {leases, list} /\ (lview' = lview \/ lview' = [lview EXCEPT ![p] = list])
        BY <3>1 DEF Store
      <3> HIDE DEF lease
      <3>5. list[job[q].rid] = lview[p][job[q].rid]
        BY <1>0, <2>1, <3>3
      <3> HIDE DEF list
      <3>6. \A x \in Providers : lview'[x] \in {lview[x], list}  /\ (x # p => lview'[x] = lview[x])
        BY <1>0, <3>4
      <3> QED
        BY <2>1, <3>4, <3>5, <3>6
    <2>3. CASE ~\E o \in Outcomes : Store(p, o)
      <3>1. UNCHANGED <<leases, lview>>
        BY <2>3 DEF Step, AppendRead, Probe, Claim, Write, Mark, Serialize, Land, durable
      <3> QED
        BY <2>1, <3>1
    <2> QED
      BY <2>2, <2>3
  <1>9. ASSUME NEW r \in journal', r \notin journal, r.status = "reserved"
        PROVE  \E q \in Providers :
                 /\ r.by = q /\ r.rid = job[q].rid /\ job[q].status = "reserved"
                 /\ job'[q].goal = "reserve" => Logged(q)' /\ r \in jview'[q]
    <2>1. PICK o \in Outcomes : Write(p, o)
      BY <1>9 DEF Step, AppendRead, Probe, Claim, Mark, Serialize, Land, Store, durable
    <2>2. r = RecordOf(p)
      BY <1>9, <2>1 DEF Write
    <2>3. r.by = p /\ r.rid = job[p].rid /\ job[p].status = "reserved"
      BY <1>9, <2>2 DEF RecordOf
    <2>4. CASE o = "ok"
      <3>1. Goto(p, "mark") /\ jview' = [jview EXCEPT ![p] = @ \cup {RecordOf(p)}]
        BY <2>1, <2>4 DEF Write
      <3>2. job'[p].pc = "mark" /\ r \in jview'[p]
        BY <1>0, <2>2, <3>1 DEF Goto, Jobs
      <3> QED
        BY <2>3, <3>2 DEF Logged
    <2>5. CASE o # "ok"
      <3>1. job'[p] = Idle
        BY <1>0, <2>1, <2>5 DEF Write, Abandon
      <3> QED
        BY <2>3, <3>1, IdleFacts
    <2> QED
      BY <2>4, <2>5
  <1>a. MadeAlone'
    BY <1>0, <1>6, <1>7, <1>8, <1>9, AloneKeeps
  <1>b. j.lease = "active" => j.goal = "reserve"
    BY <1>0, <1>3, IdleFacts DEF ActiveMade
  <1>c. ActiveMade'
    BY <1>0, <1>2, <1>b DEF ActiveMade
  <1>d. ASSUME NEW q \in Providers, Appending(q)', job'[q].status = "reserved", NEW g \in granted'
        PROVE  g.rid # job'[q].rid
    <2>1. job'[q].rid = job[q].rid /\ job[q].status = "reserved"
      BY <1>2, <1>3, <1>d, IdleFacts DEF Appending
    <2>2. CASE g \in granted /\ Appending(q)
      BY <2>1, <2>2 DEF MemoryInv, RecordFresh
    <2>3. CASE g \in granted /\ ~Appending(q)
      <3>1. q = p
        BY <1>2, <1>d, <2>3 DEF Appending
      <3>2. AppendRead(p)
        <4>1. ASSUME NEW pc, Goto(p, pc) PROVE job'[p].pc = pc
          BY <1>0, <4>1 DEF Goto, Jobs
        <4>2. ASSUME Return(p) \/ \E J : Abandon(p, J) PROVE job'[p].pc = "idle"
          BY <1>0, <4>2, IdleFacts DEF Return, Abandon
        <4> QED
          BY <1>d, <2>3, <3>1, <4>1, <4>2
             DEF Step, Appending, Probe, Claim, Write, Mark, Serialize, Land, Store
      <3>3. AppendAllowed(journal, job[p])
        <4>1. ASSUME NEW pc, Goto(p, pc) PROVE job'[p].pc = pc
          BY <1>0, <4>1 DEF Goto, Jobs
        <4>2. ASSUME NEW J, Abandon(p, J) PROVE job'[p].pc = "idle"
          BY <1>0, <4>2, IdleFacts DEF Abandon
        <4> QED
          BY <1>d, <3>1, <3>2, <4>1, <4>2 DEF AppendRead, Appending
      <3>4. ~Recorded(journal, job[p].slot)
        BY <2>1, <3>1, <3>3 DEF AppendAllowed
      <3>5. SUFFICES ASSUME g.rid = job[p].rid PROVE FALSE
        BY <2>1, <3>1
      <3>6. PICK r \in journal : r.rid = g.rid /\ r.slot = g.slot
        BY <2>3 DEF IndInv, Journalled, HasRecord
      <3>7. r \in Records /\ job[p].rid \in Rids /\ job[p].slot \in Slots
        BY <1>0, <3>2 DEF IndInv, TypeOK, MediumTypeOK, AppendRead, JobsFormed, Jobs
      <3>8. r.slot = job[p].slot
        BY <3>5, <3>6, <3>7, NamesNow DEF OutcomeInv, OneName, Records
      <3> QED
        BY <3>4, <3>6, <3>8 DEF Recorded
    <2>4. CASE g \notin granted
      <3>1. Return(p) /\ job[p].goal = "reserve" /\ g.rid = job[p].rid
        <4>1. Return(p)
          BY <1>d, <2>4, Tells
        <4> QED
          BY <1>d, <2>4, <4>1 DEF Return
      <3>2. q # p
        BY <1>0, <1>d, <3>1, IdleFacts DEF Return, Appending
      <3> QED
        BY <1>0, <2>1, <3>1, <3>2 DEF MadeAlone
    <2> QED
      BY <2>2, <2>3, <2>4
  <1> QED
    BY <1>a, <1>c, <1>d DEF Formed

\* A job of recovery makes no reservation, and records one only for a lease it holds.
LEMMA RecoverAlone ==
  ASSUME IndInv, WorkKnown, NEW p \in Providers, InLoop(p), NEW x \in work[p]
  PROVE  LET j == RecoverJob(p, x) IN
         /\ j.lease # "active"
         /\ j.status = "reserved" => j.rid \notin Rids \/ lview[p][j.rid].status # "none"
  <1>1. stage[p] \in {"slots", "orphans", "reconcile", "expired", "treeless"}
    BY DEF InLoop, Loops
  <1>2. CASE stage[p] = "slots"
    <2>1. RecoverJob(p, x) = Recover("mark", NoRid, x, "reserved", "none")
      BY <1>2 DEF RecoverJob
    <2> QED
      BY <2>1, ProviderAssumption DEF Recover
  <1>3. CASE stage[p] = "orphans"
    <2>1. RecoverJob(p, x) = Recover("append", x.rid, x.slot, "burned", "none")
      BY <1>3 DEF RecoverJob
    <2> QED
      BY <2>1 DEF Recover
  <1>4. CASE stage[p] = "reconcile"
    <2>1. RecoverJob(p, x) = ReconcileJob(p, x) /\ lview[p][x].status # "none"
      BY <1>4 DEF RecoverJob, WorkKnown, WorkSound, Held
    <2>2. LatestStatus(jview[p], x) \in Statuses \cup {"none"}
      BY LatestStatusType
    <2>3. ASSUME NEW js \in Statuses, js # "reserved" PROVE LeaseStatus(js) # "active"
      BY <2>3 DEF LeaseStatus, Statuses
    <2>4. \/ ReconcileJob(p, x) = Idle
          \/ \E pc, slot, st : ReconcileJob(p, x) = Recover(pc, x, slot, st, "none")
          \/ \E js \in Statuses : /\ js # "reserved"
                                   /\ ReconcileJob(p, x) = Recover("store", x, lview[p][x].slot, js, LeaseStatus(js))
      BY <2>2 DEF ReconcileJob
    <2>5. CASE ReconcileJob(p, x) = Idle
      BY <2>1, <2>5, IdleFacts
    <2>6. CASE \E pc, slot, st : ReconcileJob(p, x) = Recover(pc, x, slot, st, "none")
      BY <2>1, <2>6 DEF Recover
    <2>7. CASE \E js \in Statuses :
                 js # "reserved" /\ ReconcileJob(p, x) = Recover("store", x, lview[p][x].slot, js, LeaseStatus(js))
      BY <2>1, <2>3, <2>7 DEF Recover
    <2> QED
      BY <2>4, <2>5, <2>6, <2>7
  <1>5. CASE stage[p] \in {"expired", "treeless"}
    BY <1>5 DEF RecoverJob, Recover
  <1> QED
    BY <1>1, <1>2, <1>3, <1>4, <1>5

\* The steps of initialize().
LEMMA InitializeAlone ==
  ASSUME IndInv, IndInv', OutcomeInv, MemoryInv, NEW p \in Providers, Open(p) \/ Initialize(p)
  PROVE  MadeAlone' /\ Formed
  <1>0. /\ TypeOK /\ job \in [Providers -> Jobs] /\ jview \in [Providers -> SUBSET Records]
        /\ lview \in [Providers -> [Rids -> Leases]] /\ lview[p] \in [Rids -> Leases]
        /\ JobsFormed /\ JobsFormed' /\ jview[p] \subseteq journal /\ MadeAlone /\ ActiveMade
    BY DEF IndInv, TypeOK, ControlTypeOK, ViewTypeOK, ViewsKnown, MemoryInv
  <1>1. UNCHANGED journal /\ granted' = granted
    BY DEF Open, Initialize, LoadWatermark, LoadLeases, EndLoop, Visit, Migrate, CleanupExpired, InitStep,
           durable, told
  <1>2. /\ jview[p] \subseteq jview'[p] /\ \A q \in Providers \ {p} : jview'[q] = jview[q]
    BY <1>0 DEF Open, Initialize, LoadWatermark, LoadLeases, EndLoop, Visit, Migrate, CleanupExpired
  <1>3. /\ \A q \in Providers \ {p} : job'[q] = job[q]
        /\ \/ job'[p] = job[p]
           \/ /\ job'[p].goal # "reserve" /\ job'[p].lease # "active" /\ ~Appending(p)'
              /\ job'[p].status = "reserved" =>
                   job'[p].rid \notin Rids \/ lview[p][job'[p].rid].status # "none"
    <2>1. CASE Visit(p)
      <3>1. PICK x \in work[p] : job' = [job EXCEPT ![p] = RecoverJob(p, x)]
        BY <2>1 DEF Visit
      <3> DEFINE j == RecoverJob(p, x)
      <3>2. job'[p] = j /\ \A q \in Providers \ {p} : job'[q] = job[q]
        BY <1>0, <3>1
      <3>3. InLoop(p) /\ WorkKnown
        BY <2>1 DEF Visit, OutcomeInv
      <3>4. j.pc \in {"idle", "append", "mark", "store"} /\ j.goal \in {"none", "recover"}
        BY <3>3, VisitFacts
      <3>5. /\ j.lease # "active"
            /\ j.status = "reserved" => j.rid \notin Rids \/ lview[p][j.rid].status # "none"
        BY <3>3, RecoverAlone
      <3> HIDE DEF j
      <3> QED
        BY <3>2, <3>4, <3>5 DEF Appending
    <2>2. CASE ~Visit(p)
      BY <2>2 DEF Open, Initialize, LoadWatermark, LoadLeases, EndLoop, Migrate, CleanupExpired
    <2> QED
      BY <2>1, <2>2
  <1>4. ASSUME NEW r \in Rids, leases[r].status = "none",
               \A q \in Providers : lview[q][r].status = "none"
        PROVE  leases'[r].status = "none" /\ \A q \in Providers : lview'[q][r].status = "none"
    <2>1. CASE LoadLeases(p)
      BY <1>0, <1>4, <2>1 DEF LoadLeases, durable
    <2>2. CASE \E o \in Outcomes : CleanupExpired(p, o)
      <3> DEFINE list == [x \in Rids |-> IF x \in Overdue(lview[p])
                                         THEN [lview[p][x] EXCEPT !.status = "expired"]
                                         ELSE lview[p][x]]
      <3>1. leases' \in {leases, list} /\ (lview' = lview \/ lview' = [lview EXCEPT ![p] = list])
        BY <2>2 DEF CleanupExpired
      <3>2. list[r] = lview[p][r]
        BY <1>4 DEF Overdue
      <3> HIDE DEF list
      <3> QED
        BY <1>0, <1>4, <3>1, <3>2
    <2>3. CASE ~LoadLeases(p) /\ ~\E o \in Outcomes : CleanupExpired(p, o)
      <3>1. UNCHANGED <<leases, lview>>
        BY <2>3 DEF Open, Initialize, LoadWatermark, EndLoop, Visit, Migrate, durable
      <3> QED
        BY <1>4, <3>1
    <2> QED
      BY <2>1, <2>2, <2>3
  <1>5. ASSUME NEW q \in Providers, job'[q].goal = "reserve"
        PROVE  /\ job[q].goal = "reserve" /\ job'[q].rid = job[q].rid
               /\ Logged(q) => Logged(q)'
               /\ jview[q] \subseteq jview'[q]
               /\ leases'[job[q].rid].status = "none"
               /\ \A x \in Providers : lview'[x][job[q].rid].status = "none"
    <2>1. job'[q] = job[q]
      BY <1>3, <1>5
    <2>2. job[q].rid \in Rids
      BY <1>0, <1>5, <2>1 DEF JobsFormed
    <2> QED
      BY <1>0, <1>2, <1>4, <1>5, <2>1, <2>2 DEF MadeAlone, Logged
  <1>6. MadeAlone'
    BY <1>0, <1>1, <1>3, <1>5, AloneKeeps
  <1>7. Formed
    BY <1>0, <1>1, <1>3, FormedKeeps DEF ActiveMade, Appending
  <1> QED
    BY <1>6, <1>7

\* A new reservation is one that nothing knows of.
LEMMA ReserveAlone ==
  ASSUME IndInv, IndInv', OutcomeInv, MemoryInv, NEW p \in Providers, NEW s, NEW range,
         reserveSpecificKeyUse(p, s, range)
  PROVE  MadeAlone' /\ Formed
  <1>0. /\ job \in [Providers -> Jobs] /\ job[p].pc = "idle" /\ job[p].goal # "reserve" /\ MadeAlone
        /\ JobsFormed
    BY DEF IndInv, TypeOK, ControlTypeOK, reserveSpecificKeyUse, Ready, Busy, JobsFormed, MemoryInv
  <1>1. PICK r \in Rids :
          /\ ~InUse(r)
          /\ Accept(p, [goal |-> "reserve", pc |-> IF Cas THEN "claim" ELSE "append",
                        rid |-> r, slot |-> s, status |-> "reserved", tx |-> NoTx,
                        lease |-> "active"])
    BY DEF reserveSpecificKeyUse
  <1>2. UNCHANGED <<journal, leases, lview, jview>> /\ granted' = granted
    BY <1>1 DEF Accept, durable, told
  <1>3. /\ job'[p].rid = r /\ job'[p].goal = "reserve" /\ job'[p].pc \in {"claim", "append"}
        /\ \A q \in Providers \ {p} : job'[q] = job[q]
    BY <1>0, <1>1 DEF Accept
  <1>4. /\ \A e \in journal : e.rid # r
        /\ leases[r].status = "none"
        /\ \A q \in Providers : job[q].rid # r /\ lview[q][r].status = "none"
    BY <1>1 DEF InUse, Of
  <1>5. MadeAlone'
    <2> SUFFICES ASSUME NEW q \in Providers, job'[q].goal = "reserve"
                 PROVE  /\ leases'[job'[q].rid].status = "none"
                        /\ \A x \in Providers : lview'[x][job'[q].rid].status = "none"
                        /\ \A x \in Providers \ {q} :
                             job'[x].rid = job'[q].rid => job'[x].status # "reserved"
                        /\ \A e \in journal' : e.rid = job'[q].rid /\ e.status = "reserved" =>
                             Logged(q)' /\ e.by = q /\ e \in jview'[q]
      BY DEF MadeAlone
    <2>1. CASE q = p
      BY <1>2, <1>3, <1>4, <2>1
    <2>2. CASE q # p
      <3>1. job'[q] = job[q] /\ job[q].rid # r
        BY <1>3, <1>4, <2>2
      <3> QED
        BY <1>0, <1>2, <1>3, <3>1 DEF MadeAlone, Logged
    <2> QED
      BY <2>1, <2>2
  <1>6. Formed
    BY <1>2, <1>3, FormedKeeps DEF Appending
  <1> QED
    BY <1>5, <1>6

\* The other calls.
LEMMA CallAlone ==
  ASSUME IndInv, IndInv', OutcomeInv, MemoryInv, NEW p \in Providers, Call(p)
  PROVE  MadeAlone' /\ Formed
  <1>0. /\ job \in [Providers -> Jobs] /\ MadeAlone /\ ActiveMade /\ JobsFormed'
    BY DEF IndInv, TypeOK, ControlTypeOK, MemoryInv
  <1>1. ASSUME UNCHANGED <<journal, leases, lview, jview>>, granted' = granted,
               \A q \in Providers \ {p} : job'[q] = job[q],
               \/ job'[p] = job[p]
               \/ /\ job'[p].goal # "reserve" /\ job'[p].lease # "active" /\ ~Appending(p)'
                  /\ job'[p].status = "reserved" => job'[p].rid \notin Rids
        PROVE  MadeAlone' /\ Formed
    <2>1. MadeAlone'
      BY <1>0, <1>1, AloneKeeps DEF MadeAlone, Logged
    <2>2. Formed
      BY <1>0, <1>1, FormedKeeps DEF ActiveMade, Appending
    <2> QED
      BY <2>1, <2>2
  <1>2. CASE RefusedCall(p) \/ \E c \in RemoteCursors : advanceToRemoteWatermark(p, c)
    BY <1>1, <1>2 DEF RefusedCall, advanceToRemoteWatermark, durable, told
  <1>3. CASE \E c \in SeedCursors, regress \in BOOLEAN : seedWatermark(p, c, regress)
    <2>1. /\ UNCHANGED <<journal, leases, lview, jview>> /\ granted' = granted
          /\ \A q \in Providers \ {p} : job'[q] = job[q]
          /\ job'[p].goal = "seed" /\ job'[p].lease = "none" /\ job'[p].pc = "persist"
          /\ job'[p].rid = NoRid
      BY <1>0, <1>3 DEF seedWatermark, durable
    <2> QED
      BY <1>1, <2>1, ProviderAssumption DEF Appending
  <1>4. ASSUME NEW r, NEW goal \in {"commit", "burn"}, NEW status \in {"committed", "burned"}, NEW tx,
               Settle(p, r, goal, status, tx)
        PROVE  MadeAlone' /\ Formed
    <2>1. LeaseStatus(status) # "active"
      BY DEF LeaseStatus
    <2>2. PICK j : /\ Accept(p, j) /\ j.goal = goal /\ j.status = status
                   /\ j.pc \in {"append", "mark"} /\ j.lease \in {"none", LeaseStatus(status)}
      BY <1>4 DEF Settle
    <2>3. /\ UNCHANGED <<journal, leases, lview, jview>> /\ granted' = granted
          /\ \A q \in Providers \ {p} : job'[q] = job[q]
          /\ job'[p] = j
      BY <1>0, <2>2 DEF Accept, durable, told
    <2> QED
      BY <1>1, <2>1, <2>2, <2>3 DEF Appending
  <1>5. CASE \E range \in Ranges : \/ reserveKeyUse(p, range)
                                   \/ \E s \in Slots : reserveSpecificKeyUse(p, s, range)
    BY <1>5, ReserveAlone DEF reserveKeyUse
  <1>6. CASE \E r \in Rids : burnReservation(p, r) \/ \E tx \in Txs : commitKeyUse(p, r, tx)
    BY <1>4, <1>6 DEF burnReservation, commitKeyUse
  <1> QED
    BY <1>2, <1>3, <1>5, <1>6 DEF Call

LEMMA NextAlone ==
  ASSUME IndInv, IndInv', OutcomeInv, MemoryInv, [Next]_vars
  PROVE  MadeAlone' /\ Formed
  <1>0. /\ job \in [Providers -> Jobs] /\ MadeAlone /\ ActiveMade /\ JobsFormed' /\ RecordFresh
    BY DEF IndInv, TypeOK, ControlTypeOK, MemoryInv
  <1>1. ASSUME UNCHANGED <<journal, leases, lview, jview, job, granted>> PROVE MadeAlone' /\ Formed
    <2>1. MadeAlone'
      BY <1>0, <1>1, AloneKeeps DEF MadeAlone, Logged
    <2>2. Formed
      BY <1>0, <1>1 DEF Formed, ActiveMade, RecordFresh, Appending
    <2> QED
      BY <2>1, <2>2
  <1>2. ASSUME NEW a \in Adapters, Crash(a) PROVE MadeAlone' /\ Formed
    <2>1. UNCHANGED <<journal, leases, granted>>
      BY <1>2 DEF Crash, durable
    <2>2. ASSUME NEW q \in Providers
          PROVE  /\ \/ job'[q] = Idle
                    \/ job'[q] = job[q] /\ jview'[q] = jview[q]
                 /\ lview'[q] = lview[q] \/ lview'[q] = [r \in Rids |-> NoLease]
      BY <1>2 DEF Crash
    <2>3. \A q \in Providers, r \in Rids : lview[q][r].status = "none" => lview'[q][r].status = "none"
      BY <2>2 DEF NoLease
    <2>4. ASSUME NEW q \in Providers, job'[q].goal = "reserve"
          PROVE  /\ job[q].goal = "reserve" /\ job'[q].rid = job[q].rid
                 /\ Logged(q) => Logged(q)'
                 /\ jview[q] \subseteq jview'[q]
                 /\ leases'[job[q].rid].status = "none"
                 /\ \A x \in Providers : lview'[x][job[q].rid].status = "none"
      <3>1. job'[q] = job[q] /\ jview'[q] = jview[q]
        BY <2>2, <2>4, IdleFacts
      <3>2. job[q].rid \in Rids
        BY <1>0, <2>4, <3>1 DEF JobsFormed
      <3> QED
        BY <1>0, <2>1, <2>3, <2>4, <3>1, <3>2 DEF MadeAlone, Logged
    <2>5. \A q \in Providers : job'[q].status = "reserved" =>
            job'[q].rid \notin Rids \/ (job[q].status = "reserved" /\ job[q].rid = job'[q].rid)
      BY <2>2, IdleFacts
    <2>6. MadeAlone'
      BY <1>0, <2>1, <2>4, <2>5, AloneKeeps
    <2>7. Formed
      BY <1>0, <2>1, <2>2, IdleFacts DEF Formed, ActiveMade, RecordFresh, Appending
    <2> QED
      BY <2>6, <2>7
  <1>3. CASE \/ \E p \in Providers : Adopt(p)
             \/ \E r \in Expirable : Expire(r)
             \/ UNCHANGED vars
    BY <1>1, <1>3 DEF Adopt, AdoptSerialize, AdoptLand, Expire, vars, durable, volatile, told
  <1> QED
    BY <1>2, <1>3, StepAlone, InitializeAlone, CallAlone DEF Next

\* What a step adds to the journal, and whom it tells of a grant.
LEMMA NextAdds ==
  ASSUME IndInv, OutcomeInv, [Next]_vars
  PROVE  /\ \A r \in journal' : \/ r \in journal
                                \/ /\ granted' = granted
                                   /\ \E q \in Providers : job[q].pc = "write" /\ r = RecordOf(q)
         /\ \A g \in granted' : \/ g \in granted
                                \/ /\ journal' = journal
                                   /\ \E q \in Providers :
                                        /\ job[q].goal = "reserve" /\ job[q].pc \in {"persist", "store"}
                                        /\ g = [rid |-> job[q].rid, slot |-> job[q].slot]
  <1>1. ASSUME NEW p \in Providers, Step(p), NEW r \in journal', r \notin journal
        PROVE  granted' = granted /\ job[p].pc = "write" /\ r = RecordOf(p)
    <2>1. PICK o \in Outcomes : Write(p, o)
      BY <1>1 DEF Step, AppendRead, Probe, Claim, Mark, Serialize, Land, Store, durable
    <2>2. UNCHANGED granted
      BY <2>1 DEF Write, Goto, Abandon, told
    <2> QED
      BY <1>1, <2>1, <2>2 DEF Write
  <1>2. ASSUME NEW p \in Providers, Step(p), NEW g \in granted', g \notin granted
        PROVE  /\ journal' = journal /\ job[p].goal = "reserve" /\ job[p].pc \in {"persist", "store"}
               /\ g = [rid |-> job[p].rid, slot |-> job[p].slot]
    <2>1. Return(p) /\ journal' = journal /\ job[p].pc \in {"persist", "store"}
      BY <1>2, Tells
    <2> QED
      BY <1>2, <2>1 DEF Return
  <1>3. ASSUME ~\E p \in Providers : Step(p) PROVE UNCHANGED <<journal, granted>>
    <2>1. \/ \E p \in Providers : Open(p) \/ Initialize(p) \/ Adopt(p) \/ Call(p)
          \/ \E r \in Expirable : Expire(r)
          \/ \E a \in Adapters : Crash(a)
          \/ UNCHANGED vars
      BY <1>3 DEF Next
    <2> QED
      BY <2>1, OthersSilent, OtherDecided
  <1> QED
    BY <1>1, <1>2, <1>3

LEMMA MemoryStep == IndInv /\ IndInv' /\ OutcomeInv /\ MemoryInv /\ [Next]_vars => MemoryInv'
  <1> SUFFICES ASSUME IndInv, IndInv', OutcomeInv, MemoryInv, [Next]_vars PROVE MemoryInv'
    OBVIOUS
  <1>1. \A q \in Providers : Kept(q)
    BY NextKept
  <1>2. MadeAlone' /\ Formed
    BY NextAlone
  <1>3. MarkedFirst' /\ FloorHeld'
    BY <1>1 DEF Kept, MarkedFirst, FloorHeld
  <1>4. ActiveMade' /\ RecordFresh'
    BY <1>2 DEF Formed, RecordFresh
  <1>5. GrantsDue'
    <2> SUFFICES ASSUME NEW p \in Providers, stage'[p] # "down", NEW g \in granted', NEW r \in journal',
                        r.rid = g.rid, r.status = "reserved", r.by = p
                 PROVE  Known(p, r)'
      BY DEF GrantsDue
    <2>1. CASE stage[p] = "down"
      BY <1>1, <2>1 DEF Kept, Known
    <2>2. CASE stage[p] # "down"
      <3>1. r \in journal
        <4>1. SUFFICES ASSUME r \notin journal PROVE FALSE
          OBVIOUS
        <4>2. PICK q \in Providers : granted' = granted /\ job[q].pc = "write" /\ r = RecordOf(q)
          BY <4>1, NextAdds
        <4>3. Appending(q) /\ job[q].status = "reserved" /\ job[q].rid = g.rid
          BY <4>2 DEF Appending, RecordOf
        <4> QED
          BY <4>2, <4>3 DEF MemoryInv, RecordFresh
      <3>2. Known(p, r)
        <4>1. CASE g \in granted
          BY <2>2, <3>1, <4>1 DEF MemoryInv, GrantsDue
        <4>2. CASE g \notin granted
          <5>1. PICK q \in Providers : /\ job[q].goal = "reserve" /\ job[q].pc \in {"persist", "store"}
                                       /\ g = [rid |-> job[q].rid, slot |-> job[q].slot]
            BY <4>2, NextAdds
          <5>2. r.by = q /\ r \in jview[q] /\ q = p
            BY <3>1, <5>1 DEF MemoryInv, MadeAlone
          <5>3. job[q].rid \in Rids /\ job[q].slot \in Slots /\ r \in Records
            BY <3>1, <5>1 DEF IndInv, JobsFormed, TypeOK, ControlTypeOK, MediumTypeOK, Jobs
          <5>4. r.slot = job[q].slot
            BY <3>1, <5>1, <5>3, NamesNow DEF OutcomeInv, OneName, Records
          <5> QED
            BY <5>1, <5>2, <5>4 DEF MemoryInv, MarkedFirst, Known, MarkDue
        <4> QED
          BY <4>1, <4>2
      <3> QED
        BY <1>1, <2>2, <3>1, <3>2 DEF Kept
    <2> QED
      BY <2>1, <2>2
  <1> QED
    BY <1>2, <1>3, <1>4, <1>5 DEF MemoryInv

LEMMA MemoryInvariance == Spec => [](IndInv /\ OutcomeInv /\ MemoryInv)
  <1>1. Init => MemoryInv
    BY IdleFacts, CapacityAssumption
       DEF Init, MemoryInv, GrantsDue, MarkedFirst, MadeAlone, ActiveMade, RecordFresh, FloorHeld,
           Appending
  <1>2. IndInv /\ IndInv' /\ OutcomeInv /\ MemoryInv /\ [Next]_vars => MemoryInv'
    BY MemoryStep
  <1> QED
    BY <1>1, <1>2, OutcomeInvariance, PTL DEF Spec

\* A provider refuses every slot it ever handed out, whatever the medium's watermark says:
\* with any number of providers, persists that overtake each other, rejected and torn
\* writes, crashes, and seeds that go back.
THEOREM GrantsStay == Spec => []GrantsRefused
  <1>1. IndInv /\ OutcomeInv /\ MemoryInv => GrantsRefused
    <2> SUFFICES ASSUME IndInv, OutcomeInv, MemoryInv, NEW p \in Providers, NEW s \in Slots,
                        stage[p] = "ready", HandedOut(p, s)
                 PROVE  isUnavailable(wview[p], s)
      BY DEF GrantsRefused
    <2>1. PICK g \in granted, r \in journal :
            g.slot = s /\ r.rid = g.rid /\ r.status = "reserved" /\ r.by = p
      BY DEF HandedOut
    <2>2. PICK e \in journal : e.rid = g.rid /\ e.slot = g.slot
      BY DEF IndInv, Journalled, HasRecord
    <2>3. r \in Records /\ e \in Records
      BY DEF IndInv, TypeOK, MediumTypeOK
    <2>4. r.slot = s
      BY <2>1, <2>2, <2>3, NamesNow DEF OutcomeInv, OneName, Records
    <2>5. Known(p, r)
      BY <2>1 DEF MemoryInv, GrantsDue
    <2> QED
      BY <2>4, <2>5 DEF Known, Loaded, MarkDue, isUnavailable
  <1> QED
    BY <1>1, MemoryInvariance, PTL

\* Only reserveKeyUse and reserveSpecificKeyUse start a reservation, above the cursor of
\* the memory they have just refreshed.
LEMMA AdoptionStep ==
  ASSUME IndInv, MemoryInv, [Next]_vars, NEW p \in Providers,
         job[p].goal # "reserve", job'[p].goal = "reserve"
  PROVE  job'[p].slot >= floor[p]
  <1>0. /\ TypeOK /\ job \in [Providers -> Jobs] /\ floor[p] \in Int
        /\ wm \in Watermarks /\ wview[p] \in Watermarks
        /\ wview[p].cursor \in Int /\ floor[p] <= wview[p].cursor
    BY CapacityAssumption
       DEF IndInv, TypeOK, ControlTypeOK, MediumTypeOK, ViewTypeOK, ToldTypeOK, Watermarks, Slots,
           MemoryInv, FloorHeld
  <1>1. ASSUME NEW q \in Providers, NEW j, job' = [job EXCEPT ![q] = j], j.goal # "reserve" PROVE FALSE
    BY <1>0, <1>1
  <1>2. UNCHANGED job => FALSE
    OBVIOUS
  <1>3. ASSUME NEW q \in Providers, Step(q) PROVE FALSE
    <2>1. PICK j : Onward(q, j) /\ job' = [job EXCEPT ![q] = j]
      BY <1>0, <1>3, HelpersMove, SerializeMoves
         DEF Step, AppendRead, Probe, Claim, Write, Mark, Land, Store, Moved
    <2>2. j.goal = "none" \/ j.goal = job[q].goal
      BY <1>0, <2>1, OnwardFacts, IdleFacts
    <2> QED
      BY <1>0, <2>1, <2>2
  <1>4. ASSUME NEW q \in Providers, Open(q) \/ Initialize(q) PROVE FALSE
    <2>1. CASE Visit(q)
      <3>1. PICK x \in work[q] : job' = [job EXCEPT ![q] = RecoverJob(q, x)]
        BY <2>1 DEF Visit
      <3>2. RecoverJob(q, x).goal \in {"none", "recover"}
        BY <1>0, <2>1, RecoverJobType DEF Visit
      <3> QED
        BY <1>1, <3>1, <3>2
    <2>2. CASE ~Visit(q)
      BY <1>2, <1>4, <2>2
         DEF Open, Initialize, LoadWatermark, LoadLeases, EndLoop, Migrate, CleanupExpired
    <2> QED
      BY <2>1, <2>2
  <1>5. ASSUME NEW q \in Providers, NEW s, NEW range \in Ranges, reserveSpecificKeyUse(q, s, range)
        PROVE  job'[p].slot >= floor[p]
    <2>1. q = p /\ job'[p].slot = s
      BY <1>0, <1>5 DEF reserveSpecificKeyUse, Accept
    <2>2. s \in Int /\ ~(s < Refreshed(p).cursor)
      BY <1>5, <2>1, ParameterAssumption DEF reserveSpecificKeyUse, isUnavailable, Slots
    <2>3. wview[p].cursor <= Refreshed(p).cursor /\ Refreshed(p).cursor \in Int
      BY <1>0 DEF Refreshed, mergeWatermarkState, Watermarks, Slots
    <2> QED
      BY <1>0, <2>1, <2>2, <2>3
  <1>6. ASSUME NEW q \in Providers, NEW r, NEW goal \in {"commit", "burn"}, NEW status, NEW tx,
               Settle(q, r, goal, status, tx)
        PROVE  FALSE
    <2>1. PICK j : Accept(q, j) /\ j.goal = goal
      BY <1>6 DEF Settle
    <2> QED
      BY <1>1, <2>1 DEF Accept
  <1>7. ASSUME NEW q \in Providers, Call(q) PROVE job'[p].slot >= floor[p]
    <2>1. CASE RefusedCall(q) \/ \E c \in RemoteCursors : advanceToRemoteWatermark(q, c)
      BY <1>2, <2>1 DEF RefusedCall, advanceToRemoteWatermark
    <2>4. CASE \E c \in SeedCursors, regress \in BOOLEAN : seedWatermark(q, c, regress)
      BY <1>1, <2>4 DEF seedWatermark
    <2>2. CASE \E range \in Ranges : \/ reserveKeyUse(q, range)
                                     \/ \E s \in Slots : reserveSpecificKeyUse(q, s, range)
      BY <1>5, <2>2 DEF reserveKeyUse
    <2>3. CASE \E r \in Rids : burnReservation(q, r) \/ \E tx \in Txs : commitKeyUse(q, r, tx)
      BY <1>6, <2>3 DEF burnReservation, commitKeyUse
    <2> QED
      BY <1>7, <2>1, <2>2, <2>3, <2>4 DEF Call
  <1>8. ASSUME NEW a \in Adapters, Crash(a) PROVE FALSE
    BY <1>8, IdleFacts DEF Crash
  <1>9. CASE \/ \E q \in Providers : Adopt(q)
             \/ \E r \in Expirable : Expire(r)
             \/ UNCHANGED vars
    BY <1>2, <1>9 DEF Adopt, AdoptSerialize, AdoptLand, Expire, vars, volatile
  <1> QED
    BY <1>3, <1>4, <1>7, <1>8, <1>9 DEF Next

\* As long as a process lives it starts no reservation below the cursor it adopted last,
\* however its persists and those of other providers overtake each other.
THEOREM AdoptedFloor == Spec => AdoptionKept
  <1>1. IndInv /\ MemoryInv /\ [Next]_vars
          => [\A p \in Providers :
                job[p].goal # "reserve" /\ job'[p].goal = "reserve" => job'[p].slot >= floor[p]]_vars
    BY AdoptionStep
  <1> QED
    BY <1>1, MemoryInvariance, PTL DEF Spec, AdoptionKept

------------------------------------------------------------------------------
(* Recovery by one provider. *)

\* A reader of a journal without a fork learns the status of the last record.
LEMMA LastSays ==
  ASSUME NEW J \in SUBSET Records, ~Forked(J), NEW rid, NEW e \in Last(J, rid)
  PROVE  LatestStatus(J, rid) = e.status
  <1>1. ASSUME NEW f \in Last(J, rid) PROVE f = e
    <2>1. f \in J /\ e \in J /\ f.seq <= e.seq /\ e.seq <= f.seq
      BY <1>1 DEF Last, Of
    <2>2. f.seq \in Nat /\ e.seq \in Nat
      BY <2>1 DEF Records
    <2> QED
      BY <2>1, <2>2 DEF Forked
  <1>2. e.status \in Statuses
    BY DEF Last, Of, Records
  <1>3. \A st \in Statuses : LatestIs(J, rid, st) <=> st = e.status
    BY <1>1 DEF LatestIs
  <1> QED
    BY <1>2, <1>3 DEF LatestStatus

\* What the journal says when the record of a job has been added.
LEMMA RecordSays ==
  ASSUME IndInv, Dense, NEW p \in Providers, job[p].pc = "write", jview[p] = journal, NEW r \in Rids
  PROVE  LatestStatus(journal \cup {RecordOf(p)}, r)
           = IF r = job[p].rid THEN job[p].status ELSE LatestStatus(journal, r)
  <1> DEFINE new == RecordOf(p)
             J == journal \cup {new}
  <1>1. /\ new.seq = Cardinality(journal) /\ new.rid = job[p].rid /\ new.status = job[p].status
        /\ job[p].status \in Statuses
    BY DEF RecordOf, IndInv, TypeOK, ControlTypeOK, Jobs
  <1>2. /\ journal \subseteq Records /\ Cardinality(journal) \in Nat
        /\ \A e \in journal : e.seq < new.seq /\ e.seq \in Nat
    <2>1. journal \subseteq Records /\ IsFiniteSet(journal)
      BY DEF IndInv, TypeOK, MediumTypeOK
    <2> QED
      BY <1>1, <2>1, FS_CardinalityType DEF Dense, Records
  <1> HIDE DEF new
  <1>3. ASSUME r = job[p].rid PROVE LatestStatus(J, r) = job[p].status
    <2>1. Of(J, r) = Of(journal, r) \cup {new}
      BY <1>1, <1>3 DEF Of
    <2>2. Last(J, r) = {new}
      <3>1. new \in Of(J, r) /\ \A e \in Of(J, r) : e = new \/ (e.seq < new.seq /\ e.seq \in Nat)
        BY <1>2, <2>1 DEF Of
      <3>2. new.seq \in Nat
        BY <1>1, <1>2
      <3>3. \A e \in Of(J, r) : e.seq <= new.seq /\ (new.seq <= e.seq => e = new)
        BY <3>1, <3>2
      <3> QED
        BY <3>1, <3>3 DEF Last
    <2>3. \A st \in Statuses : LatestIs(J, r, st) <=> st = job[p].status
      BY <1>1, <2>2 DEF LatestIs
    <2> QED
      BY <1>1, <1>3, <2>3 DEF LatestStatus
  <1>4. ASSUME r # job[p].rid PROVE LatestStatus(J, r) = LatestStatus(journal, r)
    <2>1. Of(J, r) = Of(journal, r)
      BY <1>1, <1>4 DEF Of
    <2> QED
      BY <1>4, <2>1 DEF LatestStatus, LatestIs, Last
  <1> QED
    BY <1>3, <1>4 DEF new

\* The loops begin.
LEMMA LoopsBegin ==
  ASSUME NEW p \in Providers, stage'[p] = "slots", job'[p] = Idle,
         work'[p] = {r.slot : r \in journal'}, jview'[p] = journal', adoption'[p].pc = "idle"
  PROVE  Recovering(p)'
  <1>1. ~Busy(p)' /\ PersistDue(p)'
    BY IdleFacts DEF Busy, PersistDue
  <1>2. MarksDue(p)'
    BY DEF MarksDue
  <1>3. OrphansDue(p)' /\ LeasesDue(p)' /\ JobDue(p)'
    BY <1>1 DEF OrphansDue, LeasesDue, JobDue
  <1> QED
    BY <1>1, <1>2, <1>3, IdleFacts DEF Recovering

LEMMA AbandonRecovers ==
  ASSUME TypeOK, NEW p \in Providers, InLoop(p), NEW J, Abandon(p, J), J = journal', jview'[p] = journal',
         adoption'[p].pc = "idle"
  PROVE  Recovering(p)'
  <1>1. stage[p] # "ready"
    BY DEF InLoop, Loops
  <1>2. stage'[p] = "slots" /\ job'[p] = Idle /\ work'[p] = {r.slot : r \in journal'}
    BY <1>1 DEF Abandon, EnterLoops, TypeOK, ControlTypeOK
  <1> QED
    BY <1>2, LoopsBegin

\* A job that goes on to its next step.
LEMMA GotoRecovers ==
  ASSUME TypeOK, NEW p \in Providers, InLoop(p), Recovering(p), NEW pc, Goto(p, pc),
         UNCHANGED <<journal, wm, wview, lview, adoption>>, jview'[p] = jview[p],
         \/ job[p].pc \in {"append", "probe"} /\ pc \in {"probe", "write"}
         \/ /\ job[p].pc = "append" /\ pc = "mark"
            /\ JournalSays(p, job[p].rid) = job[p].status
  PROVE  Recovering(p)'
  <1>0. MarksDue(p) /\ OrphansDue(p) /\ LeasesDue(p) /\ JobDue(p) /\ Busy(p) /\ adoption[p].pc = "idle"
    BY DEF Recovering, Busy, InLoop, Loops
  <1>1. /\ UNCHANGED <<stage, work>> /\ job[p] \in Jobs
        /\ job'[p] = [job[p] EXCEPT !.pc = pc]
    BY DEF Goto, TypeOK, ControlTypeOK
  <1>2. /\ job'[p].pc = pc /\ job'[p].rid = job[p].rid /\ job'[p].slot = job[p].slot
        /\ job'[p].status = job[p].status /\ job'[p].lease = job[p].lease /\ job'[p].goal = job[p].goal
    BY <1>1 DEF Jobs
  <1>3. Busy(p)' /\ \A r : /\ Visiting(p, r)' <=> Visiting(p, r)
                           /\ JournalSays(p, r)' = JournalSays(p, r)
                           /\ LeaseSays(p, r)' = LeaseSays(p, r)
    BY <1>0, <1>2 DEF Busy, Visiting, JournalSays, LeaseSays
  <1>4. stage[p] # "slots"
    BY <1>0 DEF JobDue
  <1>5. MarksDue(p)'
    BY <1>0, <1>1 DEF MarksDue
  <1>6. OrphansDue(p)'
    <2>1. ASSUME NEW r \in Rids, Visiting(p, r), stage[p] = "orphans", pc = "mark"
          PROVE  JournalSays(p, r) # "reserved"
      BY <1>0, <2>1 DEF JobDue, Visiting
    <2> QED
      BY <1>0, <1>1, <1>2, <1>3, <2>1 DEF OrphansDue
  <1>7. LeasesDue(p)'
    BY <1>0, <1>1, <1>3 DEF LeasesDue
  <1>8. JobDue(p)'
    BY <1>0, <1>1, <1>2, <1>3, <1>4 DEF JobDue
  <1>9. PersistDue(p)'
    BY <1>2 DEF PersistDue
  <1> QED
    BY <1>0, <1>1, <1>2, <1>5, <1>6, <1>7, <1>8, <1>9 DEF Recovering

\* A job that returns when the lease and the journal agree on its reservation.
LEMMA ReturnRecovers ==
  ASSUME TypeOK, NEW p \in Providers, InLoop(p), Recovering(p), Busy(p),
         UNCHANGED <<journal, stage, work, adoption>>, jview'[p] = jview[p], job'[p] = Idle, MarksDue(p)',
         \A r \in Rids : r # job[p].rid => lview'[p][r] = lview[p][r],
         job[p].pc \in {"persist", "store"},
         stage[p] \in {"slots", "orphans"} => lview'[p] = lview[p],
         stage[p] \notin {"slots", "orphans"} =>
           /\ lview'[p][job[p].rid].status # "none"
           /\ lview'[p][job[p].rid].status = LeaseStatus(job[p].status)
  PROVE  Recovering(p)'
  <1>0. /\ OrphansDue(p) /\ LeasesDue(p) /\ JobDue(p) /\ stage[p] \notin {"down", "ready"}
        /\ adoption[p].pc = "idle"
    BY DEF Recovering, InLoop, Loops
  <1>1. ~Busy(p)' /\ \A r : ~Visiting(p, r)'
    BY IdleFacts DEF Busy, Visiting
  <1>2. \A r \in Rids : JournalSays(p, r)' = JournalSays(p, r)
    BY DEF JournalSays
  <1>3. \A r \in Rids : r # job[p].rid => LeaseSays(p, r)' = LeaseSays(p, r)
    BY DEF LeaseSays
  <1>r. PICK rid : rid = job[p].rid
    OBVIOUS
  <1>4. ASSUME stage[p] \notin {"slots", "orphans"}
        PROVE  /\ rid \in Rids /\ LeaseSays(p, rid)' # "none"
               /\ Even(LeaseSays(p, rid)', JournalSays(p, rid)')
    <2>1. job[p].rid \in Rids /\ JournalSays(p, job[p].rid) = job[p].status
      BY <1>0, <1>4 DEF JobDue
    <2>2. job[p].status # "none"
      BY DEF TypeOK, ControlTypeOK, Jobs, Statuses
    <2> QED
      BY <1>2, <1>4, <1>r, <2>1, <2>2 DEF Even, LeaseSays
  <1>5. OrphansDue(p)'
    <2>1. ASSUME stage[p] \in {"slots", "orphans"} PROVE \A r : LeaseSays(p, r)' = LeaseSays(p, r)
      BY <2>1 DEF LeaseSays
    <2>2. CASE stage[p] = "slots"
      BY <2>2 DEF OrphansDue
    <2>3. CASE stage[p] = "orphans"
      BY <1>0, <1>2, <2>1, <2>3 DEF OrphansDue
    <2>4. CASE stage[p] \notin {"slots", "orphans"}
      <3>1. \A r \in Rids : ~(JournalSays(p, r)' = "reserved" /\ LeaseSays(p, r)' = "none")
        BY <1>0, <1>2, <1>3, <1>4, <1>r, <2>4 DEF OrphansDue
      <3> QED
        BY <2>4, <3>1 DEF OrphansDue
    <2> QED
      BY <2>2, <2>3, <2>4
  <1>6. LeasesDue(p)'
    <2> SUFFICES ASSUME NEW r \in Rids, stage[p] \notin {"slots", "orphans"}
                 PROVE  /\ stage[p] = "reconcile" =>
                             r \in work[p] \/ Close(LeaseSays(p, r)', JournalSays(p, r)')
                        /\ stage[p] = "expired" =>
                             /\ Close(LeaseSays(p, r)', JournalSays(p, r)')
                             /\ r \in work[p] \/ Even(LeaseSays(p, r)', JournalSays(p, r)')
                        /\ stage[p] = "treeless" => Even(LeaseSays(p, r)', JournalSays(p, r)')
      BY DEF LeasesDue
    <2>1. CASE r = job[p].rid
      BY <1>4, <1>r, <2>1 DEF Close
    <2>2. CASE r # job[p].rid
      <3>1. ~Visiting(p, r)
        BY <2>2 DEF Visiting
      <3> QED
        BY <1>0, <1>2, <1>3, <2>2, <3>1 DEF LeasesDue
    <2> QED
      BY <2>1, <2>2
  <1>7. JobDue(p)' /\ PersistDue(p)'
    BY <1>1 DEF JobDue, PersistDue, Busy
  <1> QED
    BY <1>0, <1>5, <1>6, <1>7, IdleFacts DEF Recovering

\* A marked slot stays unavailable in a watermark that is marked again.
LEMMA MarkCovers ==
  ASSUME NEW w \in Watermarks, NEW s \in Slots, NEW t \in Slots
  PROVE  /\ isUnavailable(markUnavailable(w, s), s)
         /\ isUnavailable(w, t) => isUnavailable(markUnavailable(w, s), t)
  BY CapacityAssumption DEF Watermarks, Slots, markUnavailable, isUnavailable

\* The steps of a job of recovery.
LEMMA JobRecovers ==
  ASSUME IndInv, OutcomeInv, ~Torn, NEW p \in Providers, InLoop(p), Recovering(p), Step(p)
  PROVE  Recovering(p)'
  <1>0. /\ TypeOK /\ JobsFormed /\ Dense /\ jview[p] = journal /\ job[p] \in Jobs
        /\ MarksDue(p) /\ OrphansDue(p) /\ LeasesDue(p) /\ JobDue(p)
        /\ stage[p] \notin {"ready", "down"} /\ job[p].goal # "reserve"
        /\ jview \in [Providers -> SUBSET Records] /\ journal \in SUBSET Records
        /\ PersistDue(p) /\ adoption[p].pc = "idle" /\ UNCHANGED adoption
    <2>1. UNCHANGED adoption
      BY DEF Step, AppendRead, Probe, Mark, Serialize, Claim, Write, Land, Store, persists
    <2> QED
      BY <2>1 DEF IndInv, OutcomeInv, TypeOK, ControlTypeOK, ViewTypeOK, MediumTypeOK, Recovering, InLoop, Loops
  <1>1. CASE AppendRead(p)
    <2>1. /\ UNCHANGED <<journal, wm, wview, lview>> /\ jview'[p] = journal /\ job[p].pc = "append"
      BY <1>0, <1>1 DEF AppendRead, durable
    <2>2. CASE Goto(p, "probe")
      BY <1>0, <2>1, <2>2, GotoRecovers
    <2>3. CASE ~Forked(journal) /\ AppendIdempotent(journal, job[p]) /\ Goto(p, "mark")
      <3>1. PICK r \in Last(journal, job[p].rid) : r.status = job[p].status
        BY <2>3 DEF AppendIdempotent
      <3>2. JournalSays(p, job[p].rid) = job[p].status
        BY <1>0, <2>3, <3>1, LastSays DEF JournalSays
      <3> QED
        BY <1>0, <2>1, <2>3, <3>2, GotoRecovers
    <2>4. CASE Abandon(p, journal)
      BY <1>0, <2>1, <2>4, AbandonRecovers
    <2> QED
      BY <1>0, <1>1, <2>2, <2>3, <2>4 DEF AppendRead
  <1>2. CASE Probe(p)
    <2>1. UNCHANGED <<journal, wm, wview, lview, jview>> /\ job[p].pc = "probe"
      BY <1>2 DEF Probe, durable
    <2>2. CASE Goto(p, "write")
      BY <1>0, <2>1, <2>2, GotoRecovers
    <2>3. CASE Abandon(p, jview[p])
      BY <1>0, <2>1, <2>3, AbandonRecovers
    <2> QED
      BY <1>2, <2>2, <2>3 DEF Probe
  <1>3. CASE \E o \in Outcomes : Write(p, o)
    <2>1. PICK o \in Outcomes : Write(p, o)
      BY <1>3
    <2>2. o \in {"ok", "lost"} /\ UNCHANGED <<wm, wview, lview>> /\ job[p].pc = "write"
      BY <2>1 DEF Write, Happens, Outcomes
    <2>3. CASE o = "lost"
      <3>1. Abandon(p, jview[p]) /\ UNCHANGED <<journal, jview>>
        BY <2>1, <2>3 DEF Write, Written
      <3> QED
        BY <1>0, <3>1, AbandonRecovers
    <2>4. CASE o = "ok"
      <3>1. /\ journal' = journal \cup {RecordOf(p)} /\ jview'[p] = journal \cup {RecordOf(p)}
            /\ UNCHANGED <<stage, work>> /\ job' = [job EXCEPT ![p].pc = "mark"]
        BY <1>0, <2>1, <2>4 DEF Write, Written, Goto
      <3>2. /\ job'[p].pc = "mark" /\ job'[p].rid = job[p].rid /\ job'[p].slot = job[p].slot
            /\ job'[p].status = job[p].status /\ job'[p].lease = job[p].lease /\ job'[p].goal = job[p].goal
        BY <1>0, <3>1 DEF Jobs, TypeOK, ControlTypeOK
      <3>3. Busy(p) /\ Busy(p)' /\ stage[p] # "slots" /\ job[p].rid \in Rids
        BY <1>0, <2>2, <3>2 DEF Busy, JobDue
      <3>4. \A r \in Rids : /\ JournalSays(p, r)' = IF r = job[p].rid THEN job[p].status
                                                                      ELSE JournalSays(p, r)
                            /\ LeaseSays(p, r)' = LeaseSays(p, r)
                            /\ Visiting(p, r)' <=> Visiting(p, r)
        BY <1>0, <2>2, <3>1, <3>2, <3>3, RecordSays DEF JournalSays, LeaseSays, Visiting
      <3>5. MarksDue(p)'
        <4>1. RecordOf(p).slot = job[p].slot
          BY DEF RecordOf
        <4> QED
          BY <1>0, <2>2, <3>1, <3>2, <3>3, <4>1 DEF MarksDue
      <3>6. OrphansDue(p)'
        <4>1. stage[p] = "orphans" => \A e \in work[p] : LeaseSays(p, e.rid)' = LeaseSays(p, e.rid)
          BY <2>2 DEF LeaseSays
        <4>2. ASSUME NEW r \in Rids, JournalSays(p, r)' = "reserved", LeaseSays(p, r)' = "none"
              PROVE  stage[p] = "orphans" /\ \E e \in work[p] : e.rid = r
          <5>1. r # job[p].rid
            BY <1>0, <3>3, <3>4, <4>2 DEF JobDue
          <5>2. ~Visiting(p, r)
            BY <5>1 DEF Visiting
          <5> QED
            BY <1>0, <3>3, <3>4, <4>2, <5>1, <5>2 DEF OrphansDue
        <4> QED
          BY <1>0, <3>1, <4>1, <4>2 DEF OrphansDue
      <3>7. LeasesDue(p)'
        <4>1. \A r \in Rids : ~Visiting(p, r) => r # job[p].rid
          BY <3>3 DEF Visiting
        <4> QED
          BY <1>0, <3>1, <3>4, <4>1 DEF LeasesDue
      <3>8. JobDue(p)'
        BY <1>0, <3>1, <3>2, <3>3, <3>4 DEF JobDue
      <3>9. PersistDue(p)'
        BY <3>2 DEF PersistDue
      <3> QED
        BY <1>0, <3>1, <3>2, <3>5, <3>6, <3>7, <3>8, <3>9 DEF Recovering
    <2> QED
      BY <2>2, <2>3, <2>4
  <1>w. /\ wview[p] \in Watermarks /\ job[p].slot \in Slots
        /\ \A e \in journal : e.slot \in Slots
    BY <1>0 DEF TypeOK, ViewTypeOK, Jobs, Records
  <1>g. ASSUME NEW pc \in {"persist", "store"}, job' = [job EXCEPT ![p].pc = pc],
               UNCHANGED <<journal, lview, jview, stage, work>>, MarksDue(p)', PersistDue(p)',
               job[p].pc \in {"mark", "persist"},
               pc = "store" => job[p].lease # "none"
        PROVE  Recovering(p)'
    <2>1. /\ job'[p].pc = pc /\ job'[p].rid = job[p].rid
          /\ job'[p].status = job[p].status /\ job'[p].lease = job[p].lease /\ job'[p].goal = job[p].goal
      BY <1>0, <1>g DEF Jobs, TypeOK, ControlTypeOK
    <2>2. Busy(p) /\ Busy(p)' /\ \A r : /\ Visiting(p, r)' <=> Visiting(p, r)
                                        /\ JournalSays(p, r)' = JournalSays(p, r)
                                        /\ LeaseSays(p, r)' = LeaseSays(p, r)
      BY <1>g, <2>1 DEF Busy, Visiting, JournalSays, LeaseSays
    <2>3. /\ stage'[p] = stage[p] /\ work'[p] = work[p] /\ jview'[p] = journal'
          /\ pc \in {"persist", "store"} /\ job[p].pc \in {"mark", "persist"}
          /\ pc = "store" => stage[p] \notin {"slots", "orphans"}
      BY <1>0, <1>g, <2>2 DEF JobDue
    <2>4. OrphansDue(p)'
      <3>1. ASSUME NEW r \in Rids, Visiting(p, r), stage[p] = "orphans" PROVE JournalSays(p, r) # "reserved"
        BY <1>0, <2>3, <3>1 DEF JobDue, Visiting
      <3> QED
        BY <1>0, <2>2, <2>3, <3>1 DEF OrphansDue
    <2>5. LeasesDue(p)'
      BY <1>0, <2>2, <2>3 DEF LeasesDue
    <2>6. JobDue(p)'
      BY <1>0, <2>1, <2>2, <2>3 DEF JobDue
    <2> QED
      BY <1>0, <1>g, <2>1, <2>3, <2>4, <2>5, <2>6 DEF Recovering
  <1>m. CASE Mark(p)
    <2>1. /\ UNCHANGED <<journal, wm, lview, jview, stage, work>> /\ job[p].pc = "mark"
          /\ job' = [job EXCEPT ![p].pc = "persist"]
          /\ wview'[p] = markUnavailable(wview[p], job[p].slot) /\ image'[p] = wview'[p]
      BY <1>m DEF Mark, Goto, durable, IndInv, TypeOK, ViewTypeOK, PersistTypeOK
    <2>2. job'[p].pc = "persist" /\ job'[p].slot = job[p].slot
      BY <1>0, <2>1 DEF Jobs, TypeOK, ControlTypeOK
    <2>3. \A e \in journal : isUnavailable(wview[p], e.slot) => isUnavailable(wview'[p], e.slot)
      BY <1>w, <2>1, MarkCovers
    <2>4. isUnavailable(wview'[p], job[p].slot)
      BY <1>w, <2>1, MarkCovers
    <2>5. MarksDue(p)'
      BY <1>0, <2>1, <2>2, <2>3 DEF MarksDue
    <2>6. PersistDue(p)'
      BY <2>1, <2>2, <2>4 DEF PersistDue
    <2> QED
      BY <1>g, <2>1, <2>5, <2>6
  <1>s. ~Serialize(p)
    BY <1>0 DEF Serialize, PersistDue
  <1>4. CASE \E o \in Outcomes : Land(p, o)
    <2>1. PICK o \in Outcomes : Land(p, o)
      BY <1>4
    <2>2. /\ o \in {"ok", "lost"} /\ UNCHANGED <<journal, lview, jview, wview>> /\ job[p].pc = "persist"
          /\ Busy(p) /\ (o = "ok" => wm' = wview[p])
      BY <1>0, <2>1 DEF Land, Happens, Outcomes, Written, Busy, PersistDue
    <2>3. CASE o = "lost"
      <3>1. Abandon(p, jview[p])
        BY <2>1, <2>3 DEF Land
      <3> QED
        BY <1>0, <2>2, <3>1, AbandonRecovers
    <2>4. ASSUME o = "ok", UNCHANGED <<stage, work>> PROVE MarksDue(p)'
      BY <1>0, <2>2, <2>4 DEF MarksDue, PersistDue
    <2>5. CASE o = "ok" /\ job[p].lease = "none"
      <3>1. Return(p) /\ UNCHANGED <<stage, work>> /\ job'[p] = Idle
        BY <1>0, <2>1, <2>5 DEF Land, Return, TypeOK, ControlTypeOK
      <3>2. stage[p] \notin {"slots", "orphans"} =>
              /\ lview[p][job[p].rid].status # "none"
              /\ lview[p][job[p].rid].status = LeaseStatus(job[p].status)
        BY <1>0, <2>2, <2>5 DEF JobDue, LeaseSays
      <3> QED
        BY <1>0, <2>2, <2>4, <2>5, <3>1, <3>2, ReturnRecovers
    <2>6. CASE o = "ok" /\ job[p].lease # "none"
      <3>1. UNCHANGED <<stage, work>> /\ job' = [job EXCEPT ![p].pc = "store"]
        BY <2>1, <2>6 DEF Land, Goto
      <3>2. job'[p].pc = "store"
        BY <1>0, <3>1 DEF TypeOK, ControlTypeOK
      <3>3. PersistDue(p)'
        BY <3>2 DEF PersistDue
      <3> QED
        BY <1>g, <2>2, <2>4, <2>6, <3>1, <3>3
    <2> QED
      BY <2>2, <2>3, <2>5, <2>6
  <1>5. CASE \E o \in Outcomes : Store(p, o)
    <2>1. PICK o \in Outcomes : Store(p, o)
      BY <1>5
    <2>2. /\ o \in {"ok", "lost"} /\ UNCHANGED <<journal, wm, wview, jview>> /\ job[p].pc = "store" /\ Busy(p)
      BY <2>1 DEF Store, Happens, Outcomes, Busy
    <2>3. CASE o = "lost"
      <3>1. Abandon(p, jview[p])
        BY <2>1, <2>3 DEF Store
      <3> QED
        BY <1>0, <2>2, <3>1, AbandonRecovers
    <2>4. CASE o = "ok"
      <3>1. job[p].lease # "none" /\ stage[p] \notin {"slots", "orphans"} /\ job[p].rid \in Rids
        BY <1>0, <2>2 DEF JobsFormed, JobDue
      <3>2. job[p].lease # "active" /\ job[p].lease = LeaseStatus(job[p].status)
        BY <1>0, <2>2, <3>1 DEF JobDue
      <3>3. Return(p) /\ UNCHANGED <<stage, work>> /\ job'[p] = Idle
        BY <1>0, <2>1, <2>4 DEF Store, Return, TypeOK, ControlTypeOK
      <3>4. lview'[p] = [lview[p] EXCEPT ![job[p].rid] = [lview[p][job[p].rid] EXCEPT !.status = job[p].lease]]
        BY <1>0, <2>1, <2>4, <3>2 DEF Store, TypeOK, ViewTypeOK
      <3>5. lview[p] \in [Rids -> Leases]
        BY <1>0 DEF TypeOK, ViewTypeOK
      <3>6. /\ lview'[p][job[p].rid].status = job[p].lease
            /\ \A r \in Rids : r # job[p].rid => lview'[p][r] = lview[p][r]
        BY <3>1, <3>4, <3>5 DEF Leases
      <3>7. MarksDue(p)'
        BY <1>0, <2>2, <3>3 DEF MarksDue
      <3> QED
        BY <1>0, <2>2, <3>1, <3>2, <3>3, <3>6, <3>7, ReturnRecovers
    <2> QED
      BY <2>2, <2>3, <2>4
  <1>6. ~\E o \in Outcomes : Claim(p, o)
    BY <1>0 DEF Claim, JobsFormed
  <1> QED
    BY <1>1, <1>2, <1>3, <1>m, <1>s, <1>4, <1>5, <1>6 DEF Step

\* A loop visits an item.
LEMMA VisitRecovers ==
  ASSUME IndInv, OutcomeInv, NEW p \in Providers, Recovering(p), Visit(p)
  PROVE  Recovering(p)'
  <1>0. /\ TypeOK /\ jview[p] = journal /\ InLoop(p) /\ ~Busy(p) /\ WorkSound(p)
        /\ MarksDue(p) /\ OrphansDue(p) /\ LeasesDue(p) /\ JobDue(p)
        /\ stage[p] \in {"slots", "orphans", "reconcile", "expired", "treeless"}
        /\ adoption'[p].pc = "idle"
    BY DEF IndInv, OutcomeInv, WorkKnown, Recovering, InLoop, Loops, Visit, InitStep, persists
  <1>1. PICK x \in work[p] : job' = [job EXCEPT ![p] = RecoverJob(p, x)]
                             /\ work' = [work EXCEPT ![p] = @ \ {x}]
    BY DEF Visit
  <1> DEFINE j == RecoverJob(p, x)
             ls == LeaseSays(p, x)
             js == JournalSays(p, x)
  <1>2. job'[p] = j /\ work'[p] = work[p] \ {x} /\ UNCHANGED <<journal, wm, jview, wview, lview, stage>>
    BY <1>0, <1>1 DEF Visit, durable, TypeOK, ControlTypeOK
  <1>3. \A r : JournalSays(p, r)' = JournalSays(p, r) /\ LeaseSays(p, r)' = LeaseSays(p, r)
    BY <1>2 DEF JournalSays, LeaseSays
  <1>4. j.goal \in {"none", "recover"} /\ j.pc # "persist" /\ PersistDue(p)'
    <2>1. j.goal \in {"none", "recover"}
      BY <1>0, RecoverJobType
    <2>2. j.pc # "persist"
      BY <1>0, IdleFacts DEF RecoverJob, ReconcileJob, Recover
    <2> QED
      BY <1>2, <2>1, <2>2 DEF PersistDue
  <1>5. ~Visiting(p, x) /\ \A r : ~Visiting(p, r)
    BY <1>0 DEF Visiting
  <1>6. CASE stage[p] = "slots"
    <2>1. j.pc = "mark" /\ j.lease = "none" /\ j.rid = NoRid /\ j.slot = x
      BY <1>6 DEF RecoverJob, Recover
    <2>2. MarksDue(p)'
      BY <1>0, <1>2, <1>6, <2>1 DEF MarksDue, Busy
    <2>3. OrphansDue(p)' /\ LeasesDue(p)' /\ JobDue(p)'
      BY <1>2, <1>6, <2>1 DEF OrphansDue, LeasesDue, JobDue
    <2> QED
      BY <1>0, <1>2, <1>4, <2>2, <2>3 DEF Recovering
  <1>7. ASSUME stage[p] # "slots", j.pc # "mark" \/ j.rid \in Rids PROVE MarksDue(p)'
    BY <1>0, <1>2, <1>7 DEF MarksDue, Busy
  <1>8. CASE stage[p] = "orphans"
    <2>1. j.pc = "append" /\ j.lease = "none" /\ j.rid = x.rid /\ j.status = "burned"
      BY <1>8 DEF RecoverJob, Recover
    <2>2. x.rid \in Rids /\ LeaseSays(p, x.rid) = "none"
      <3>1. x \in Records
        BY <1>0, <1>8 DEF WorkSound, TypeOK, MediumTypeOK
      <3> QED
        BY <1>0, <1>8, <3>1 DEF Records, OrphansDue
    <2>3. Visiting(p, x.rid)' /\ Busy(p)'
      BY <1>2, <2>1 DEF Visiting, Busy
    <2>4. OrphansDue(p)'
      BY <1>0, <1>2, <1>3, <1>5, <1>8, <2>1, <2>3 DEF OrphansDue
    <2>5. LeasesDue(p)'
      BY <1>2, <1>8 DEF LeasesDue
    <2>6. JobDue(p)'
      BY <1>2, <1>3, <1>8, <2>1, <2>2 DEF JobDue
    <2> QED
      BY <1>0, <1>2, <1>4, <1>7, <1>8, <2>1, <2>4, <2>5, <2>6 DEF Recovering
  <1>9. ASSUME stage[p] \notin {"slots", "orphans"}
        PROVE  x \in Rids /\ ls \in LeaseStatuses /\ js \in Statuses \cup {"none"} /\ OrphansDue(p)'
    <2>1. x \in Held(p)
      BY <1>0, <1>9 DEF WorkSound
    <2>2. x \in Rids /\ ls \in LeaseStatuses
      BY <1>0, <2>1 DEF Held, LeaseSays, TypeOK, ViewTypeOK, Leases
    <2>3. js \in Statuses \cup {"none"}
      BY LatestStatusType DEF JournalSays
    <2>4. OrphansDue(p)'
      BY <1>0, <1>2, <1>3, <1>9 DEF OrphansDue
    <2> QED
      BY <2>2, <2>3, <2>4
  <1>10. ASSUME stage[p] \notin {"slots", "orphans"}, j.pc # "idle", j.rid = x, j.lease # "active",
                j.pc \in {"mark", "store"} => js = j.status,
                LeaseStatus(j.status) = IF j.lease = "none" THEN ls ELSE j.lease
         PROVE  Recovering(p)'
    <2>1. Busy(p)' /\ \A r : Visiting(p, r)' <=> r = x
      BY <1>2, <1>10 DEF Busy, Visiting
    <2>2. ls # "none"
      BY <1>9, <1>10 DEF LeaseStatuses
    <2>3. JobDue(p)'
      BY <1>2, <1>3, <1>4, <1>9, <1>10, <2>2 DEF JobDue
    <2>4. LeasesDue(p)'
      BY <1>0, <1>2, <1>3, <1>5, <2>1 DEF LeasesDue
    <2> QED
      BY <1>0, <1>2, <1>4, <1>7, <1>9, <1>10, <2>3, <2>4 DEF Recovering
  <1>11. CASE stage[p] = "reconcile"
    <2>0. j = ReconcileJob(p, x) /\ ls # "none"
      BY <1>9, <1>11 DEF RecoverJob, LeaseStatuses
    <2>1. CASE \/ js = "none"
               \/ js = "reserved" /\ ls \in {"finalized", "cancelled"}
      <3>1. j = Recover("append", x, lview[p][x].slot, JournalStatus(ls), "none")
        BY <2>0, <2>1 DEF ReconcileJob, JournalSays, LeaseSays
      <3>2. /\ j.pc = "append" /\ j.rid = x /\ j.lease = "none" /\ j.status = JournalStatus(ls)
        BY <3>1 DEF Recover
      <3>3. LeaseStatus(JournalStatus(ls)) = ls
        BY <1>9, <1>11 DEF LeaseStatus, JournalStatus, LeaseStatuses
      <3> QED
        BY <1>10, <1>11, <3>2, <3>3
    <2>2. CASE js \notin {"none", "reserved"} /\ ls # LeaseStatus(js)
      <3>1. j = Recover("store", x, lview[p][x].slot, js, LeaseStatus(js))
        BY <2>0, <2>2 DEF ReconcileJob, JournalSays, LeaseSays
      <3>2. /\ j.pc = "store" /\ j.rid = x /\ j.lease = LeaseStatus(js) /\ j.status = js
        BY <3>1 DEF Recover
      <3>3. LeaseStatus(js) \notin {"none", "active"}
        BY <1>9, <1>11, <2>2 DEF LeaseStatus, Statuses
      <3> QED
        BY <1>10, <1>11, <3>2, <3>3
    <2>3. CASE \/ js \notin {"none", "reserved"} /\ ls = LeaseStatus(js)
               \/ js = "reserved" /\ ls \in {"active", "expired"}
      <3>1. j = Idle
        BY <2>0, <2>3 DEF ReconcileJob, JournalSays, LeaseSays
      <3>2. Close(ls, js)
        BY <2>3 DEF Close, Even, LeaseStatus
      <3>3. ~Busy(p)' /\ \A r : ~Visiting(p, r)'
        BY <1>2, <3>1, IdleFacts DEF Busy, Visiting
      <3>4. LeasesDue(p)'
        BY <1>0, <1>2, <1>3, <1>5, <1>11, <3>2 DEF LeasesDue
      <3>5. JobDue(p)'
        BY <3>3 DEF JobDue
      <3> QED
        BY <1>0, <1>2, <1>4, <1>7, <1>9, <1>11, <3>1, <3>4, <3>5, IdleFacts DEF Recovering
    <2> QED
      BY <1>9, <1>11, <2>1, <2>2, <2>3 DEF LeaseStatuses
  <1>12. CASE stage[p] = "expired"
    <2>1. j = Recover(IF js = "reserved-expired" THEN "mark" ELSE "append", x, lview[p][x].slot,
                      "reserved-expired", IF ls = "expired" THEN "none" ELSE "expired")
      BY <1>12 DEF RecoverJob, JournalSays, LeaseSays
    <2>2. /\ j.pc = (IF js = "reserved-expired" THEN "mark" ELSE "append") /\ j.rid = x
          /\ j.status = "reserved-expired" /\ j.lease = (IF ls = "expired" THEN "none" ELSE "expired")
      BY <2>1 DEF Recover
    <2> QED
      BY <1>10, <1>12, <2>2 DEF LeaseStatus
  <1>13. CASE stage[p] = "treeless"
    <2>1. j = Recover(IF js = "burned" THEN "mark" ELSE "append", x, lview[p][x].slot, "burned", "cancelled")
      BY <1>13 DEF RecoverJob, JournalSays, LeaseSays
    <2>2. /\ j.pc = (IF js = "burned" THEN "mark" ELSE "append") /\ j.rid = x
          /\ j.status = "burned" /\ j.lease = "cancelled"
      BY <2>1 DEF Recover
    <2> QED
      BY <1>10, <1>13, <2>2 DEF LeaseStatus
  <1> QED
    BY <1>0, <1>6, <1>8, <1>11, <1>12, <1>13

\* The loop that follows: the ones between have nothing to visit.
LEMMA NextStageFacts ==
  ASSUME NEW p \in Providers, NEW k \in 1 .. 5, stage[p] = Loops[k]
  PROVE  \E m \in 2 .. 6 :
           /\ k < m
           /\ NextStage(p) = IF m = 6 THEN "ready" ELSE Loops[m]
           /\ \A i \in 1 .. 5 : k < i /\ i < m => LoopWork(p, Loops[i]) = {}
  <1> DEFINE next == {i \in 1 .. 5 : /\ \E j \in 1 .. i - 1 : stage[p] = Loops[j]
                                     /\ LoopWork(p, Loops[i]) # {}}
             first == CHOOSE i \in next : \A j \in next : i <= j
  <1>1. \A i, j \in 1 .. 5 : Loops[i] = Loops[j] => i = j
    BY DEF Loops
  <1>2. \A i \in 1 .. 5 : i \in next <=> k < i /\ LoopWork(p, Loops[i]) # {}
    <2> SUFFICES ASSUME NEW i \in 1 .. 5
                 PROVE  (\E j \in 1 .. i - 1 : stage[p] = Loops[j]) <=> k < i
      OBVIOUS
    <2>1. \A j \in 1 .. i - 1 : j \in 1 .. 5
      OBVIOUS
    <2>2. \A j \in 1 .. i - 1 : stage[p] = Loops[j] => j = k
      BY <1>1, <2>1
    <2>3. k < i <=> k \in 1 .. i - 1
      OBVIOUS
    <2> QED
      BY <2>2, <2>3
  <1>3. next \subseteq 1 .. 5
    OBVIOUS
  <1>4. NextStage(p) = IF next = {} THEN "ready" ELSE Loops[first]
    BY DEF NextStage
  <1> HIDE DEF next
  <1>5. CASE next = {}
    <2>1. \A i \in 1 .. 5 : k < i => LoopWork(p, Loops[i]) = {}
      BY <1>2, <1>5
    <2>2. 6 \in 2 .. 6 /\ k < 6
      OBVIOUS
    <2> QED
      BY <1>4, <1>5, <2>1, <2>2
  <1>6. CASE next # {}
    <2>1. \E i \in next : \A j \in next : i <= j
      <3>1. CASE 1 \in next
        BY <1>3, <3>1
      <3>2. CASE 1 \notin next /\ 2 \in next
        BY <1>3, <3>2
      <3>3. CASE 1 \notin next /\ 2 \notin next /\ 3 \in next
        BY <1>3, <3>3
      <3>4. CASE 1 \notin next /\ 2 \notin next /\ 3 \notin next /\ 4 \in next
        BY <1>3, <3>4
      <3>5. CASE 1 \notin next /\ 2 \notin next /\ 3 \notin next /\ 4 \notin next
        <4>1. \A i \in next : i = 5
          BY <1>3, <3>5
        <4> QED
          BY <4>1, <1>6
      <3> QED
        BY <3>1, <3>2, <3>3, <3>4, <3>5
    <2>2. first \in next /\ \A j \in next : first <= j
      BY <2>1
    <2> HIDE DEF first
    <2>3. first \in 1 .. 5 /\ k < first
      BY <1>2, <1>3, <2>2
    <2>4. first \in 2 .. 6 /\ first # 6
      BY <2>3
    <2>5. \A i \in 1 .. 5 : k < i /\ i < first => i \notin next
      BY <2>2, <2>3
    <2>6. \A i \in 1 .. 5 : k < i /\ i < first => LoopWork(p, Loops[i]) = {}
      BY <1>2, <2>5
    <2> QED
      BY <1>4, <1>6, <2>3, <2>4, <2>6
  <1> QED
    BY <1>5, <1>6

\* What a loop leaves done, and with it the loops after it that visit nothing.
LEMMA LoopsDone ==
  ASSUME IndInv, NEW p \in Providers, Recovering(p), EndLoop(p)
  PROVE  /\ \A e \in journal : isUnavailable(wview[p], e.slot) /\ isUnavailable(wm, e.slot)
         /\ NextStage(p) \in {"orphans", "reconcile", "expired", "treeless", "ready"}
         /\ NextStage(p) # "orphans" =>
              \A r \in Rids : ~(JournalSays(p, r) = "reserved" /\ LeaseSays(p, r) = "none")
         /\ NextStage(p) \in {"expired", "treeless", "ready"} =>
              \A r \in Rids : Close(LeaseSays(p, r), JournalSays(p, r))
         /\ NextStage(p) \in {"treeless", "ready"} =>
              \A r \in Rids : Even(LeaseSays(p, r), JournalSays(p, r))
  <1>0. /\ InLoop(p) /\ ~Busy(p) /\ work[p] = {} /\ \A r : ~Visiting(p, r)
        /\ MarksDue(p) /\ OrphansDue(p) /\ LeasesDue(p) /\ jview[p] = journal
    BY DEF EndLoop, Recovering, Visiting, InLoop, Loops
  <1>1. \A e \in journal : isUnavailable(wview[p], e.slot) /\ isUnavailable(wm, e.slot)
    BY <1>0 DEF MarksDue, Busy
  <1>2. PICK k \in 1 .. 5 : stage[p] = Loops[k]
    BY <1>0 DEF InLoop
  <1>3. PICK m \in 2 .. 6 :
          /\ k < m
          /\ NextStage(p) = IF m = 6 THEN "ready" ELSE Loops[m]
          /\ \A i \in 1 .. 5 : k < i /\ i < m => LoopWork(p, Loops[i]) = {}
    BY <1>2, NextStageFacts
  <1>4. /\ Loops[1] = "slots" /\ Loops[2] = "orphans" /\ Loops[3] = "reconcile"
        /\ Loops[4] = "expired" /\ Loops[5] = "treeless"
    BY DEF Loops
  <1>5. /\ NextStage(p) \in {"orphans", "reconcile", "expired", "treeless", "ready"}
        /\ NextStage(p) # "orphans" => 2 < m
        /\ NextStage(p) \in {"expired", "treeless", "ready"} => 3 < m
        /\ NextStage(p) \in {"treeless", "ready"} => 4 < m
    BY <1>3, <1>4
  <1>6. /\ k < 2 => stage[p] = "slots"
        /\ k < 3 => stage[p] \in {"slots", "orphans"}
        /\ k < 4 => stage[p] \in {"slots", "orphans", "reconcile"}
        /\ ~(k < 2) => stage[p] # "slots"
        /\ ~(k < 3) => stage[p] \in {"reconcile", "expired", "treeless"}
        /\ ~(k < 4) => stage[p] \in {"expired", "treeless"}
    BY <1>2, <1>4
  <1>7. ASSUME 2 < m, NEW r \in Rids, JournalSays(p, r) = "reserved", LeaseSays(p, r) = "none"
        PROVE  FALSE
    <2>1. CASE k < 2
      <3>1. LoopWork(p, "orphans") = {}
        BY <1>3, <1>4, <1>7, <2>1
      <3>2. LatestIs(jview[p], r, "reserved")
        BY <1>7 DEF JournalSays, LatestStatus
      <3>3. PICK e \in Last(jview[p], r) : e.status = "reserved"
        BY <3>2 DEF LatestIs
      <3>4. e \in jview[p] /\ e.rid = r /\ r \notin Held(p)
        BY <1>7, <3>3 DEF Last, Of, Held, LeaseSays
      <3> QED
        BY <3>1, <3>3, <3>4 DEF LoopWork
    <2>2. CASE ~(k < 2)
      BY <1>0, <1>6, <1>7, <2>2 DEF OrphansDue
    <2> QED
      BY <2>1, <2>2
  <1>8. ASSUME 3 < m, NEW r \in Rids PROVE Close(LeaseSays(p, r), JournalSays(p, r))
    <2>1. CASE k < 3
      <3>1. LoopWork(p, "reconcile") = {}
        BY <1>3, <1>4, <1>8, <2>1
      <3>2. Held(p) = {}
        BY <3>1 DEF LoopWork
      <3> QED
        BY <3>2 DEF Held, LeaseSays, Close, Even
    <2>2. CASE ~(k < 3)
      BY <1>0, <1>6, <2>2 DEF LeasesDue, Close
    <2> QED
      BY <2>1, <2>2
  <1>9. ASSUME 4 < m, NEW r \in Rids PROVE Even(LeaseSays(p, r), JournalSays(p, r))
    <2>1. CASE k < 4
      <3>1. LoopWork(p, "expired") = {}
        BY <1>3, <1>4, <1>9, <2>1
      <3>2. LeaseSays(p, r) # "expired"
        BY <3>1 DEF LoopWork, Held, LeaseSays
      <3> QED
        BY <1>8, <1>9, <3>2 DEF Close
    <2>2. CASE ~(k < 4)
      BY <1>0, <1>6, <2>2 DEF LeasesDue
    <2> QED
      BY <2>1, <2>2
  <1> QED
    BY <1>1, <1>5, <1>7, <1>8, <1>9

\* A loop ends, and recovery with the last.
LEMMA EndLoopRecovers ==
  ASSUME IndInv, NEW p \in Providers, Recovering(p), EndLoop(p)
  PROVE  Recovering(p)' /\ (stage'[p] = "ready" => Reconciled(p)')
  <1>0. /\ TypeOK /\ jview[p] = journal /\ ~Busy(p) /\ job[p].goal \in {"none", "recover"}
        /\ UNCHANGED <<journal, wm, jview, wview, lview, job>>
        /\ stage'[p] = NextStage(p) /\ work'[p] = LoopWork(p, NextStage(p))
        /\ adoption'[p].pc = "idle"
    BY DEF IndInv, TypeOK, ControlTypeOK, EndLoop, durable, Recovering, InLoop, Loops, InitStep, persists
  <1> DEFINE next == NextStage(p)
  <1>1. /\ \A e \in journal : isUnavailable(wview[p], e.slot) /\ isUnavailable(wm, e.slot)
        /\ next \in {"orphans", "reconcile", "expired", "treeless", "ready"}
        /\ next # "orphans" =>
             \A r \in Rids : ~(JournalSays(p, r) = "reserved" /\ LeaseSays(p, r) = "none")
        /\ next \in {"expired", "treeless", "ready"} =>
             \A r \in Rids : Close(LeaseSays(p, r), JournalSays(p, r))
        /\ next \in {"treeless", "ready"} =>
             \A r \in Rids : Even(LeaseSays(p, r), JournalSays(p, r))
    BY LoopsDone
  <1> HIDE DEF next
  <1>2. stage'[p] = next /\ work'[p] = LoopWork(p, next)
    BY <1>0 DEF next
  <1>3. ~Busy(p)' /\ \A r : /\ JournalSays(p, r)' = JournalSays(p, r)
                            /\ LeaseSays(p, r)' = LeaseSays(p, r)
    BY <1>0 DEF Busy, JournalSays, LeaseSays
  <1>4. MarksDue(p)' /\ JobDue(p)' /\ PersistDue(p)'
    BY <1>0, <1>1, <1>3 DEF MarksDue, JobDue, PersistDue, Busy
  <1>5. OrphansDue(p)'
    <2>1. CASE next = "orphans"
      <3>1. work'[p] = {e \in jview[p] : /\ e.rid \notin Held(p) /\ e.status = "reserved"
                                         /\ e \in Last(jview[p], e.rid)}
        BY <1>2, <2>1 DEF LoopWork
      <3>2. \A e \in work'[p] : LeaseSays(p, e.rid) = "none"
        <4>1. \A e \in jview[p] : e.rid \in Rids
          BY <1>0 DEF TypeOK, MediumTypeOK, Records
        <4> QED
          BY <3>1, <4>1 DEF Held, LeaseSays
      <3>3. ASSUME NEW r \in Rids, JournalSays(p, r) = "reserved", LeaseSays(p, r) = "none"
            PROVE  \E e \in work'[p] : e.rid = r
        <4>1. LatestIs(jview[p], r, "reserved")
          BY <3>3 DEF JournalSays, LatestStatus
        <4>2. PICK e \in Last(jview[p], r) : e.status = "reserved"
          BY <4>1 DEF LatestIs
        <4>3. e \in jview[p] /\ e.rid = r /\ r \notin Held(p)
          BY <3>3, <4>2 DEF Last, Of, Held, LeaseSays
        <4> QED
          BY <3>1, <4>2, <4>3
      <3> QED
        BY <1>2, <1>3, <2>1, <3>2, <3>3 DEF OrphansDue
    <2>2. CASE next # "orphans"
      BY <1>1, <1>2, <1>3, <2>2 DEF OrphansDue
    <2> QED
      BY <2>1, <2>2
  <1>6. LeasesDue(p)'
    <2>1. ASSUME NEW r \in Rids, next = "reconcile"
          PROVE  r \in work'[p] \/ Close(LeaseSays(p, r), JournalSays(p, r))
      <3>1. work'[p] = Held(p)
        BY <1>2, <2>1 DEF LoopWork
      <3> QED
        BY <3>1 DEF Held, LeaseSays, Close, Even
    <2>2. ASSUME NEW r \in Rids, next = "expired"
          PROVE  r \in work'[p] \/ Even(LeaseSays(p, r), JournalSays(p, r))
      <3>1. {i \in Held(p) : lview[p][i].status = "expired"} \subseteq work'[p]
        BY <1>2, <2>2 DEF LoopWork
      <3>2. LeaseSays(p, r) = "expired" => r \in work'[p]
        BY <3>1 DEF Held, LeaseSays
      <3> QED
        BY <1>1, <2>2, <3>2 DEF Close
    <2> QED
      BY <1>1, <1>2, <1>3, <2>1, <2>2 DEF LeasesDue
  <1>7. Recovering(p)'
    BY <1>0, <1>2, <1>4, <1>5, <1>6 DEF Recovering
  <1>8. ASSUME next = "ready" PROVE Reconciled(p)'
    <2>1. \A r \in Rids : /\ Even(LeaseSays(p, r), JournalSays(p, r))
                          /\ ~(JournalSays(p, r) = "reserved" /\ LeaseSays(p, r) = "none")
      BY <1>1, <1>8
    <2>2. \A r \in Rids :
            /\ JournalSays(p, r) = "none" => LeaseSays(p, r) = "none"
            /\ JournalSays(p, r) = "reserved" => LeaseSays(p, r) = "active"
            /\ JournalSays(p, r) # "none" /\ LeaseSays(p, r) # "none" =>
                 LeaseSays(p, r) = LeaseStatus(JournalSays(p, r))
      BY <2>1 DEF Even, LeaseStatus
    <2> QED
      BY <1>0, <1>1, <2>2 DEF Reconciled, JournalSays, LeaseSays
  <1> QED
    BY <1>2, <1>7, <1>8

\* A step outside the loops, after which the memory of the journal is still right.
LEMMA OutsideRecovers ==
  ASSUME NEW p \in Providers, ~InLoop(p)',
         stage'[p] # "down" => jview'[p] = journal',
         stage'[p] # "ready" => job'[p].goal \in {"none", "recover"} /\ adoption'[p].pc = "idle"
  PROVE  Recovering(p)'
  BY DEF Recovering

\* Loading the stores.
LEMMA LoadRecovers ==
  ASSUME IndInv, OutcomeInv, NEW p \in Providers, Recovering(p),
         \/ Open(p) \/ LoadWatermark(p) \/ LoadLeases(p)
         \/ \E o \in Outcomes : Migrate(p, o) \/ CleanupExpired(p, o)
  PROVE  Recovering(p)' /\ stage'[p] # "ready"
  <1>0. /\ stage[p] \in {"down", "watermark", "migrate", "leases", "cleanup"}
        /\ UNCHANGED <<job, journal>> /\ adoption'[p].pc = "idle"
    BY DEF Open, LoadWatermark, LoadLeases, Migrate, CleanupExpired, durable, Recovering, InitStep, persists
  <1>1. job'[p] = Idle /\ stage \in [Providers -> Stages] /\ work = [q \in Providers |-> work[q]]
        /\ jview \in [Providers -> SUBSET Records]
    BY <1>0 DEF OutcomeInv, WorkKnown, WorkSound, IndInv, TypeOK, ControlTypeOK, ViewTypeOK
  <1>2. stage[p] # "down" => jview[p] = journal
    BY DEF Recovering
  <1>3. CASE EnterLoops(p, jview[p]) /\ UNCHANGED jview /\ stage[p] # "down"
    <2>1. stage'[p] = "slots" /\ work'[p] = {r.slot : r \in journal'} /\ jview'[p] = journal'
      BY <1>0, <1>1, <1>2, <1>3 DEF EnterLoops
    <2> QED
      BY <1>0, <1>1, <2>1, LoopsBegin
  <1>4. CASE /\ stage'[p] \in {"down", "watermark", "migrate", "leases", "cleanup"}
             /\ stage'[p] # "down" => jview'[p] = journal
    <2>1. ~InLoop(p)' /\ stage'[p] # "ready"
      BY <1>4 DEF InLoop, Loops
    <2> QED
      BY <1>0, <1>1, <1>4, <2>1, OutsideRecovers, IdleFacts
  <1> QED
    BY <1>0, <1>1, <1>2, <1>3, <1>4 DEF Open, LoadWatermark, LoadLeases, Migrate, CleanupExpired

\* The steps of an operation keep the memory of the journal.
LEMMA ReadyRecovers ==
  ASSUME IndInv, ~Torn, NEW p \in Providers, Recovering(p), stage[p] = "ready", Step(p) \/ Call(p)
  PROVE  Recovering(p)' /\ stage'[p] = "ready"
  <1>0. jview[p] = journal /\ jview \in [Providers -> SUBSET Records]
    BY DEF Recovering, IndInv, TypeOK, ViewTypeOK
  <1>1. ASSUME Step(p) PROVE stage'[p] = "ready"
    BY <1>1 DEF Step, AppendRead, Probe, Claim, Write, Mark, Serialize, Land, Store, Abandon, Goto, Return
  <1>2. ASSUME Step(p) PROVE jview'[p] = journal'
    <2>1. CASE AppendRead(p)
      BY <1>0, <2>1 DEF AppendRead, durable
    <2>2. CASE Probe(p)
      BY <1>0, <2>2 DEF Probe, durable
    <2>3. CASE \/ Mark(p) \/ Serialize(p)
               \/ \E o \in Outcomes : Claim(p, o) \/ Land(p, o) \/ Store(p, o)
      BY <1>0, <2>3 DEF Claim, Mark, Serialize, Land, Store, durable
    <2>4. CASE \E o \in Outcomes : Write(p, o)
      <3>1. PICK o \in {"ok", "lost"} : Write(p, o)
        BY <2>4 DEF Outcomes, Write, Happens
      <3> QED
        BY <1>0, <3>1 DEF Write, Written
    <2> QED
      BY <1>2, <2>1, <2>2, <2>3, <2>4 DEF Step
  <1>3. ASSUME Call(p) PROVE UNCHANGED <<journal, jview, stage>>
    <2>1. ASSUME NEW s, NEW range, reserveSpecificKeyUse(p, s, range)
          PROVE  UNCHANGED <<journal, jview, stage>>
      BY <2>1 DEF reserveSpecificKeyUse, Accept, durable
    <2>2. ASSUME NEW r, NEW goal, NEW status, NEW tx, Settle(p, r, goal, status, tx)
          PROVE  UNCHANGED <<journal, jview, stage>>
      BY <2>2 DEF Settle, Accept, durable
    <2>3. ASSUME NEW c, \/ advanceToRemoteWatermark(p, c)
                        \/ \E regress \in BOOLEAN : seedWatermark(p, c, regress)
          PROVE  UNCHANGED <<journal, jview, stage>>
      BY <2>3 DEF advanceToRemoteWatermark, seedWatermark, durable
    <2>4. RefusedCall(p) => UNCHANGED <<journal, jview, stage>>
      BY DEF RefusedCall, durable
    <2> QED
      BY <1>3, <2>1, <2>2, <2>3, <2>4 DEF Call, reserveKeyUse, commitKeyUse, burnReservation
  <1>4. stage'[p] = "ready" /\ jview'[p] = journal'
    BY <1>0, <1>1, <1>2, <1>3
  <1>5. ~InLoop(p)'
    BY <1>4 DEF InLoop, Loops
  <1> QED
    BY <1>4, <1>5, OutsideRecovers

\* One provider's memory of the journal is complete, and a recovery that ends has left
\* nothing over.
LEMMA RecoveryStep ==
  ASSUME OneProvider, ~Torn, IndInv, OutcomeInv, RecoveryInv, [Next]_vars
  PROVE  /\ RecoveryInv'
         /\ \A p \in Providers : stage[p] # "ready" /\ stage'[p] = "ready" => Reconciled(p)'
  <1>0. TypeOK /\ OneProvider /\ JobsFormed /\ WorkKnown /\ \A p \in Providers : Recovering(p)
    BY DEF IndInv, OutcomeInv, RecoveryInv
  <1> DEFINE Done(q) == /\ Recovering(q)'
                        /\ stage[q] # "ready" /\ stage'[q] = "ready" => Reconciled(q)'
  <1>1. ASSUME NEW p \in Providers, Open(p) \/ Initialize(p) PROVE Done(p)
    BY <1>0, <1>1, LoadRecovers, VisitRecovers, EndLoopRecovers DEF Initialize, Visit
  <1>2. ASSUME NEW p \in Providers, Step(p) PROVE Done(p)
    <2>1. CASE stage[p] = "ready"
      BY <1>0, <1>2, <2>1, ReadyRecovers
    <2>2. CASE stage[p] # "ready"
      <3>1. Busy(p)
        BY <1>2 DEF Step, AppendRead, Probe, Claim, Write, Mark, Serialize, Land, Store, Busy
      <3>2. stage[p] \notin {"down", "watermark", "migrate", "leases", "cleanup"}
        BY <1>0, <3>1, IdleFacts DEF Busy, WorkKnown, WorkSound
      <3>3. stage[p] \in {"slots", "orphans", "reconcile", "expired", "treeless"}
        BY <1>0, <2>2, <3>2 DEF TypeOK, ControlTypeOK, Stages
      <3>4. InLoop(p)
        BY <3>3 DEF InLoop, Loops
      <3>5. Recovering(p)'
        BY <1>0, <1>2, <3>4, JobRecovers
      <3>6. stage'[p] # "ready"
        <4>1. \/ UNCHANGED stage
              \/ \E J : EnterLoops(p, J)
          BY <1>2, <2>2 DEF Step, AppendRead, Probe, Claim, Write, Mark, Serialize, Land, Store,
                            Abandon, Goto, Return
        <4> QED
          BY <1>0, <2>2, <4>1 DEF EnterLoops, TypeOK, ControlTypeOK
      <3> QED
        BY <3>5, <3>6
    <2> QED
      BY <2>1, <2>2
  <1>3. ASSUME NEW p \in Providers, Call(p) PROVE Done(p)
    <2>1. stage[p] = "ready"
      BY <1>3 DEF Call, reserveKeyUse, reserveSpecificKeyUse, commitKeyUse, burnReservation, Settle,
                  advanceToRemoteWatermark, seedWatermark, RefusedCall, Ready
    <2> QED
      BY <1>0, <1>3, <2>1, ReadyRecovers
  <1>4. ASSUME NEW a \in Adapters, Crash(a), NEW p \in Providers PROVE Done(p)
    <2>1. PICK q \in Providers : AdapterOf[q] = a
      BY <1>4 DEF Crash
    <2>2. AdapterOf[p] = a
      BY <1>0, <2>1 DEF OneProvider
    <2>3. stage'[p] = "down" /\ job'[p] = Idle /\ adoption'[p].pc = "idle"
      BY <1>4, <2>2 DEF Crash, NoAdoption
    <2>4. ~InLoop(p)'
      BY <2>3 DEF InLoop, Loops
    <2> QED
      BY <2>3, <2>4, OutsideRecovers, IdleFacts
  <1>5. ASSUME (\E r \in Expirable : Expire(r)) \/ UNCHANGED vars, NEW p \in Providers PROVE Done(p)
    <2>1. UNCHANGED <<journal, wm, jview, wview, lview, stage, work, job, image, adoption>>
      BY <1>5 DEF Expire, vars, durable, volatile, persists
    <2>2. Recovering(p)' <=> Recovering(p)
      BY <2>1 DEF Recovering, InLoop, MarksDue, OrphansDue, LeasesDue, JobDue, JournalSays, LeaseSays,
                  Visiting, Busy, PersistDue
    <2> QED
      BY <1>0, <2>1, <2>2
  <1>7. ASSUME NEW p \in Providers, Adopt(p) PROVE Done(p)
    <2>1. /\ adoption[p].pc = "persist"
          /\ UNCHANGED <<journal, jview, stage, job>>
      BY <1>7 DEF Adopt, AdoptSerialize, AdoptLand, durable
    <2>2. stage[p] = "ready" /\ jview[p] = journal
      BY <1>0, <2>1 DEF Recovering
    <2>3. ~InLoop(p)'
      BY <2>1, <2>2 DEF InLoop, Loops
    <2> QED
      BY <2>1, <2>2, <2>3, OutsideRecovers
  <1>6. \A p \in Providers : Done(p)
    <2> HIDE DEF Done
    <2>1. \A p, q \in Providers : Done(q) => Done(p)
      BY <1>0 DEF OneProvider
    <2> QED
      BY <1>1, <1>2, <1>3, <1>4, <1>5, <1>7, <2>1 DEF Next
  <1> QED
    BY <1>6 DEF RecoveryInv

LEMMA RecoveryInit == Init => RecoveryInv
  <1> SUFFICES ASSUME Init, NEW p \in Providers PROVE Recovering(p)
    BY DEF RecoveryInv
  <1>1. stage[p] = "down" /\ job[p] = Idle /\ adoption[p].pc = "idle"
    BY DEF Init, NoAdoption
  <1>2. ~InLoop(p)
    BY <1>1 DEF InLoop, Loops
  <1> QED
    BY <1>1, <1>2, IdleFacts DEF Recovering

\* Where a rejected write has no effect, one provider's initialize() ends with every slot
\* the journal names refused, in memory and on the medium, and with leases that say what
\* the journal says, whatever crashes and rejected writes it started from and met.
THEOREM RecoveryCompletes ==
  ASSUME OneProvider, ~Torn
  PROVE  Spec => RecoveryComplete
  <1>1. IndInv /\ OutcomeInv /\ RecoveryInv /\ [Next]_vars => RecoveryInv'
    BY RecoveryStep
  <1>2. IndInv /\ OutcomeInv /\ RecoveryInv /\ [Next]_vars
          => [\A p \in Providers : stage[p] # "ready" /\ stage'[p] = "ready"
                                     => Reconciled(p)']_vars
    BY RecoveryStep
  <1> QED
    BY <1>1, <1>2, OutcomeInvariance, RecoveryInit, PTL DEF Spec, RecoveryComplete
==============================================================================
