-------------------------- MODULE LocalLeaseProofs --------------------------
(****************************************************************************)
(* Proofs about LocalLease for any number of providers, slots, reservations *)
(* and crashes.                                                             *)
(****************************************************************************)
EXTENDS LocalLease, FiniteSetTheorems, TLAPS

\* The operators of WotsWatermarkStore map watermarks to watermarks.
LEMMA WatermarkTypes ==
  ASSUME NEW w \in Watermarks, NEW v \in Watermarks, NEW s \in Slots
  PROVE  /\ emptyTree \in Watermarks
         /\ markUnavailable(w, s) \in Watermarks
         /\ mergeWatermarkState(w, v) \in Watermarks
         /\ saveCursor(w, s) \in Watermarks
         /\ seed(w, s, {}) \in Watermarks
  BY CapacityAssumption
     DEF Watermarks, Slots, emptyTree, markUnavailable, mergeWatermarkState,
         saveCursor, seed

\* What a reader of a journal learns about a reservation is a status.
LEMMA LatestStatusType ==
  ASSUME NEW J, NEW rid
  PROVE  LatestStatus(J, rid) \in Statuses \cup {"none"}
  BY DEF LatestStatus

\* The idle job, and the jobs of recovery, are jobs.
LEMMA RecoverType ==
  ASSUME NEW pc \in {"append", "mark", "store"}, NEW rid \in Rids \cup {NoRid},
         NEW slot \in Slots, NEW status \in Statuses,
         NEW lease \in LeaseStatuses \cup {"none"}
  PROVE  /\ Idle \in Jobs
         /\ Recover(pc, rid, slot, status, lease) \in Jobs
  BY CapacityAssumption
     DEF Idle, Recover, Jobs, Statuses, LeaseStatuses, Slots

\* In its initial state the program is well typed.
LEMMA TypeInit == Init => TypeOK /\ JobsFormed
  <1> SUFFICES ASSUME Init PROVE TypeOK /\ JobsFormed
    OBVIOUS
  <1>1. emptyTree \in Watermarks /\ 0 \in Slots /\ NoLease \in Leases
    BY CapacityAssumption DEF Watermarks, emptyTree, Slots, NoLease, Leases
  <1>2. Idle \in Jobs
    BY <1>1 DEF Idle, Jobs, Statuses
  <1>3. IsFiniteSet({})
    BY FS_EmptySet
  <1>4. MediumTypeOK
    BY <1>1, <1>3, ParameterAssumption DEF Init, MediumTypeOK
  <1>5. ViewTypeOK
    BY <1>1, <1>3 DEF Init, ViewTypeOK
  <1>6. ControlTypeOK
    BY <1>2 DEF Init, ControlTypeOK, Stages
  <1>7. ToldTypeOK /\ BoundsTypeOK
    BY <1>1, ParameterAssumption DEF Init, ToldTypeOK, BoundsTypeOK
  <1>p. PersistTypeOK
    BY <1>1 DEF Init, PersistTypeOK, Adoptions, NoAdoption
  <1>8. JobsFormed
    BY DEF Init, JobsFormed, Idle
  <1> QED
    BY <1>4, <1>5, <1>6, <1>7, <1>8, <1>p DEF TypeOK

------------------------------------------------------------------------------
(* How a job moves on. *)

\* A rejected operation leaves its provider idle, or back at the first loop.
LEMMA AbandonType ==
  ASSUME ControlTypeOK, ToldTypeOK, JobsFormed,
         NEW p \in Providers, NEW J \in SUBSET Records, Abandon(p, J),
         Busy(p)
  PROVE  ControlTypeOK' /\ ToldTypeOK' /\ JobsFormed'
  <1>1. Idle \in Jobs
    BY RecoverType, CapacityAssumption DEF Idle, Jobs, Slots, Statuses
  <1>2. job' = [job EXCEPT ![p] = Idle] /\ job' \in [Providers -> Jobs]
    BY <1>1 DEF Abandon, ControlTypeOK
  <1>3. {r.slot : r \in J} \subseteq Slots
    BY DEF Records
  <1>4. /\ stage' \in [Providers -> Stages]
        /\ work' = [q \in Providers |-> work'[q]]
        /\ \A q \in Providers : work'[q] \subseteq Items(stage'[q])
        /\ \A q \in Providers : stage'[q] = "down" => stage[q] = "down"
    <2>1. CASE stage[p] = "ready"
      BY <2>1 DEF Abandon, ControlTypeOK
    <2>2. CASE stage[p] # "ready"
      BY <2>2, <1>3 DEF Abandon, EnterLoops, ControlTypeOK, Stages, Items
    <2> QED
      BY <2>1, <2>2
  <1>5. ControlTypeOK' /\ ToldTypeOK'
    BY <1>2, <1>4 DEF Abandon, ControlTypeOK, ToldTypeOK, told
  <1>6. JobsFormed'
    BY <1>2, <1>4 DEF JobsFormed, Idle, ControlTypeOK
  <1> QED
    BY <1>5, <1>6

\* A job goes on with its next step.
LEMMA GotoType ==
  ASSUME ControlTypeOK, ToldTypeOK, JobsFormed, NEW p \in Providers, Busy(p),
         NEW pc \in {"append", "probe", "write", "mark", "persist", "store"}, Goto(p, pc),
         pc \notin {"mark", "persist"} => job[p].rid \in Rids,
         pc = "store" => job[p].lease # "none"
  PROVE  ControlTypeOK' /\ ToldTypeOK' /\ JobsFormed'
  <1>1. job' = [job EXCEPT ![p].pc = pc] /\ job' \in [Providers -> Jobs]
    BY DEF Goto, ControlTypeOK, Jobs
  <1>2. UNCHANGED <<stage, work, granted, acked, floor>>
    BY DEF Goto, told
  <1>3. ControlTypeOK' /\ ToldTypeOK'
    BY <1>1, <1>2 DEF ControlTypeOK, ToldTypeOK
  <1>4. JobsFormed'
    BY <1>1, <1>2 DEF JobsFormed, ControlTypeOK, Busy, Jobs
  <1> QED
    BY <1>3, <1>4

\* A job that returns to its caller tells it of a reservation or a commit.
LEMMA ReturnType ==
  ASSUME ControlTypeOK, ToldTypeOK, JobsFormed, NEW p \in Providers, Return(p)
  PROVE  ControlTypeOK' /\ ToldTypeOK' /\ JobsFormed'
  <1>1. Idle \in Jobs
    BY CapacityAssumption DEF Idle, Jobs, Slots, Statuses
  <1>2. job' = [job EXCEPT ![p] = Idle] /\ job' \in [Providers -> Jobs]
    BY <1>1 DEF Return, ControlTypeOK
  <1>3. UNCHANGED <<stage, work, floor>>
    BY DEF Return
  <1>4. ControlTypeOK' /\ JobsFormed'
    BY <1>2, <1>3 DEF ControlTypeOK, JobsFormed, Idle
  <1>5. ToldTypeOK'
    BY <1>3 DEF Return, ToldTypeOK, JobsFormed, ControlTypeOK, Jobs
  <1> QED
    BY <1>4, <1>5

\* What is under way stays well typed in a step that leaves it alone.
LEMMA PersistsKept ==
  ASSUME PersistTypeOK, UNCHANGED persists
  PROVE  PersistTypeOK'
  BY DEF PersistTypeOK, persists

\* Rejected writes stay within their bound.
LEMMA HappensType ==
  ASSUME BoundsTypeOK, NEW o, Happens(o)
  PROVE  faults' \in 0 .. MaxFaults
  BY ParameterAssumption DEF BoundsTypeOK, Happens

\* The record a job writes is a record.
LEMMA RecordType ==
  ASSUME TypeOK, JobsFormed, NEW p \in Providers, job[p].pc = "write"
  PROVE  RecordOf(p) \in Records
  <1>1. Cardinality(jview[p]) \in Nat
    BY FS_CardinalityType DEF TypeOK, ViewTypeOK
  <1> QED
    BY <1>1 DEF RecordOf, Records, TypeOK, ControlTypeOK, JobsFormed, Jobs

------------------------------------------------------------------------------
(* The steps of a job keep the state well typed. *)

\* The compare-and-swap of a claim key keeps every type.
LEMMA ClaimType ==
  ASSUME TypeOK, JobsFormed, NEW p \in Providers, NEW o \in Outcomes, Claim(p, o)
  PROVE  TypeOK' /\ JobsFormed'
  <1>1. Busy(p) /\ job[p].rid \in Rids /\ job[p].slot \in Slots
    BY DEF Claim, Busy, JobsFormed, TypeOK, ControlTypeOK, Jobs
  <1>2. jview[p] \in SUBSET Records
    BY DEF TypeOK, ViewTypeOK
  <1>3. ControlTypeOK' /\ ToldTypeOK' /\ JobsFormed'
    <2>1. CASE Goto(p, "append")
      BY <2>1, <1>1, GotoType DEF TypeOK
    <2>2. CASE Abandon(p, jview[p])
      BY <2>2, <1>1, <1>2, AbandonType DEF TypeOK
    <2> QED
      BY <2>1, <2>2 DEF Claim
  <1>4. MediumTypeOK'
    BY <1>1 DEF Claim, TypeOK, MediumTypeOK
  <1>5. ViewTypeOK'
    BY DEF Claim, TypeOK, ViewTypeOK
  <1>6. BoundsTypeOK'
    BY HappensType DEF Claim, TypeOK, BoundsTypeOK
  <1>p. PersistTypeOK'
    BY PersistsKept DEF Claim, TypeOK
  <1> QED
    BY <1>p, <1>3, <1>4, <1>5, <1>6 DEF TypeOK

\* Reading the journal under the lock keeps every type.
LEMMA AppendReadType ==
  ASSUME TypeOK, JobsFormed, NEW p \in Providers, AppendRead(p)
  PROVE  TypeOK' /\ JobsFormed'
  <1>1. Busy(p) /\ job[p].rid \in Rids /\ AdapterOf[p] \in Adapters
    BY ProviderAssumption DEF AppendRead, Busy, JobsFormed, TypeOK, ControlTypeOK, Jobs
  <1>2. jview[p] \in SUBSET Records /\ journal \in SUBSET Records
    BY DEF TypeOK, ViewTypeOK, MediumTypeOK
  <1>3. ControlTypeOK' /\ ToldTypeOK' /\ JobsFormed'
    <2>1. CASE Goto(p, "probe")
      BY <2>1, <1>1, GotoType DEF TypeOK
    <2>2. CASE Goto(p, "mark")
      BY <2>2, <1>1, GotoType DEF TypeOK
    <2>3. CASE Abandon(p, jview[p]) \/ Abandon(p, journal)
      BY <2>3, <1>1, <1>2, AbandonType DEF TypeOK
    <2> QED
      BY <2>1, <2>2, <2>3 DEF AppendRead
  <1>4. MediumTypeOK' /\ BoundsTypeOK'
    BY DEF AppendRead, TypeOK, MediumTypeOK, BoundsTypeOK, durable
  <1>5. ViewTypeOK'
    BY <1>1, <1>2 DEF AppendRead, TypeOK, ViewTypeOK, MediumTypeOK
  <1>p. PersistTypeOK'
    BY PersistsKept DEF AppendRead, TypeOK
  <1> QED
    BY <1>p, <1>3, <1>4, <1>5 DEF TypeOK

\* Probing for the next sequence number keeps every type.
LEMMA ProbeType ==
  ASSUME TypeOK, JobsFormed, NEW p \in Providers, Probe(p)
  PROVE  TypeOK' /\ JobsFormed'
  <1>1. Busy(p) /\ job[p].rid \in Rids /\ AdapterOf[p] \in Adapters
    BY ProviderAssumption DEF Probe, Busy, JobsFormed, TypeOK, ControlTypeOK, Jobs
  <1>2. jview[p] \in SUBSET Records
    BY DEF TypeOK, ViewTypeOK
  <1>3. ControlTypeOK' /\ ToldTypeOK' /\ JobsFormed'
    <2>1. CASE Goto(p, "write")
      BY <2>1, <1>1, GotoType DEF TypeOK
    <2>2. CASE Abandon(p, jview[p])
      BY <2>2, <1>1, <1>2, AbandonType DEF TypeOK
    <2> QED
      BY <2>1, <2>2 DEF Probe
  <1>4. MediumTypeOK' /\ BoundsTypeOK'
    BY DEF Probe, TypeOK, MediumTypeOK, BoundsTypeOK, durable
  <1>5. ViewTypeOK'
    BY <1>1 DEF Probe, TypeOK, ViewTypeOK
  <1>p. PersistTypeOK'
    BY PersistsKept DEF Probe, TypeOK
  <1> QED
    BY <1>p, <1>3, <1>4, <1>5 DEF TypeOK

\* Writing a record keeps every type.
LEMMA WriteType ==
  ASSUME TypeOK, JobsFormed, NEW p \in Providers, NEW o \in Outcomes, Write(p, o)
  PROVE  TypeOK' /\ JobsFormed'
  <1>1. Busy(p) /\ AdapterOf[p] \in Adapters
    BY ProviderAssumption DEF Write, Busy
  <1>2. jview[p] \in SUBSET Records /\ RecordOf(p) \in Records
    BY RecordType DEF Write, TypeOK, ViewTypeOK
  <1>3. ControlTypeOK' /\ ToldTypeOK' /\ JobsFormed'
    <2>1. CASE Goto(p, "mark")
      BY <2>1, <1>1, GotoType DEF TypeOK
    <2>2. CASE Abandon(p, jview[p])
      BY <2>2, <1>1, <1>2, AbandonType DEF TypeOK
    <2> QED
      BY <2>1, <2>2 DEF Write
  <1>4. IsFiniteSet(journal \cup {RecordOf(p)}) /\ IsFiniteSet(jview[p] \cup {RecordOf(p)})
    BY FS_AddElement DEF TypeOK, ViewTypeOK, MediumTypeOK
  <1>5. MediumTypeOK'
    BY <1>2, <1>4 DEF Write, TypeOK, MediumTypeOK
  <1>6. ViewTypeOK'
    BY <1>1, <1>2, <1>4 DEF Write, TypeOK, ViewTypeOK
  <1>7. BoundsTypeOK'
    BY HappensType DEF Write, TypeOK, BoundsTypeOK
  <1>p. PersistTypeOK'
    BY PersistsKept DEF Write, TypeOK
  <1> QED
    BY <1>p, <1>3, <1>5, <1>6, <1>7 DEF TypeOK

\* Marking a slot in memory keeps every type.
LEMMA MarkType ==
  ASSUME TypeOK, JobsFormed, NEW p \in Providers, Mark(p)
  PROVE  TypeOK' /\ JobsFormed'
  <1>1. Busy(p) /\ job[p].slot \in Slots
    BY DEF Mark, Busy, TypeOK, ControlTypeOK, Jobs
  <1>3. ControlTypeOK' /\ ToldTypeOK' /\ JobsFormed'
    BY <1>1, GotoType DEF Mark, TypeOK
  <1>4. wview[p] \in Watermarks /\ markUnavailable(wview[p], job[p].slot) \in Watermarks
    BY <1>1, WatermarkTypes DEF TypeOK, ViewTypeOK
  <1>5. wview' \in [Providers -> Watermarks] /\ wview'[p] \in Watermarks
    BY <1>4 DEF Mark, TypeOK, ViewTypeOK
  <1>6. MediumTypeOK' /\ BoundsTypeOK'
    BY DEF Mark, TypeOK, MediumTypeOK, BoundsTypeOK, durable
  <1>7. ViewTypeOK' /\ PersistTypeOK'
    BY <1>5 DEF Mark, TypeOK, ViewTypeOK, PersistTypeOK
  <1> QED
    BY <1>3, <1>6, <1>7 DEF TypeOK

\* An image taken late keeps every type.
LEMMA SerializeType ==
  ASSUME TypeOK, JobsFormed, NEW p \in Providers, Serialize(p) \/ AdoptSerialize(p)
  PROVE  TypeOK' /\ JobsFormed'
  <1>1. wview[p] \in Watermarks
    BY DEF TypeOK, ViewTypeOK
  <1>2. MediumTypeOK' /\ BoundsTypeOK' /\ ViewTypeOK'
    BY DEF Serialize, AdoptSerialize, TypeOK, MediumTypeOK, BoundsTypeOK, ViewTypeOK, durable
  <1>3. ControlTypeOK' /\ ToldTypeOK' /\ JobsFormed'
    BY DEF Serialize, AdoptSerialize, TypeOK, ControlTypeOK, ToldTypeOK, JobsFormed, told
  <1>4. PersistTypeOK'
    BY <1>1 DEF Serialize, AdoptSerialize, TypeOK, PersistTypeOK, Adoptions
  <1> QED
    BY <1>2, <1>3, <1>4 DEF TypeOK

\* An image that lands keeps every type.
LEMMA LandType ==
  ASSUME TypeOK, JobsFormed, NEW p \in Providers, NEW o \in Outcomes, Land(p, o)
  PROVE  TypeOK' /\ JobsFormed'
  <1>1. Busy(p)
    BY DEF Land, Busy
  <1>2. jview[p] \in SUBSET Records
    BY DEF TypeOK, ViewTypeOK
  <1>3. ControlTypeOK' /\ ToldTypeOK' /\ JobsFormed'
    <2>1. CASE job[p].lease # "none" /\ Goto(p, "store")
      <3>1. job[p].rid \in Rids
        BY <2>1 DEF JobsFormed
      <3> QED
        BY <2>1, <3>1, <1>1, GotoType DEF TypeOK
    <2>2. CASE Abandon(p, jview[p])
      BY <2>2, <1>1, <1>2, AbandonType DEF TypeOK
    <2>3. CASE Return(p)
      BY <2>3, ReturnType DEF TypeOK
    <2> QED
      BY <2>1, <2>2, <2>3 DEF Land
  <1>4. image[p] \in Watermarks /\ emptyTree \in Watermarks
    BY CapacityAssumption DEF TypeOK, PersistTypeOK, Watermarks, emptyTree, Slots
  <1>6. MediumTypeOK'
    BY <1>4 DEF Land, TypeOK, MediumTypeOK
  <1>7. ViewTypeOK' /\ PersistTypeOK'
    BY <1>4 DEF Land, TypeOK, ViewTypeOK, PersistTypeOK
  <1>8. BoundsTypeOK'
    BY HappensType DEF Land, TypeOK, BoundsTypeOK
  <1> QED
    BY <1>3, <1>6, <1>7, <1>8 DEF TypeOK

\* So does the image of an adoption.
LEMMA AdoptLandType ==
  ASSUME TypeOK, JobsFormed, NEW p \in Providers, NEW o \in Outcomes, AdoptLand(p, o)
  PROVE  TypeOK' /\ JobsFormed'
  <1>1. adoption[p].image \in Watermarks /\ NoAdoption \in Adoptions
    BY CapacityAssumption
       DEF TypeOK, PersistTypeOK, Adoptions, NoAdoption, Watermarks, emptyTree, Slots
  <1>2. MediumTypeOK'
    BY <1>1 DEF AdoptLand, TypeOK, MediumTypeOK
  <1>3. ViewTypeOK' /\ ControlTypeOK' /\ ToldTypeOK' /\ JobsFormed'
    BY DEF AdoptLand, TypeOK, ViewTypeOK, ControlTypeOK, ToldTypeOK, JobsFormed, told
  <1>4. PersistTypeOK'
    BY <1>1 DEF AdoptLand, TypeOK, PersistTypeOK
  <1>5. BoundsTypeOK'
    BY HappensType DEF AdoptLand, TypeOK, BoundsTypeOK
  <1> QED
    BY <1>2, <1>3, <1>4, <1>5 DEF TypeOK

\* Saving a lease, or its new status, keeps every type.
LEMMA StoreType ==
  ASSUME TypeOK, JobsFormed, NEW p \in Providers, NEW o \in Outcomes, Store(p, o)
  PROVE  TypeOK' /\ JobsFormed'
  <1>1. Busy(p) /\ job[p].rid \in Rids /\ job[p].slot \in Slots
        /\ job[p].lease \in LeaseStatuses
    BY DEF Store, Busy, JobsFormed, TypeOK, ControlTypeOK, Jobs
  <1>2. jview[p] \in SUBSET Records /\ lview[p] \in [Rids -> Leases]
    BY DEF TypeOK, ViewTypeOK
  <1>3. ControlTypeOK' /\ ToldTypeOK' /\ JobsFormed'
    <2>1. CASE Abandon(p, jview[p])
      BY <2>1, <1>1, <1>2, AbandonType DEF TypeOK
    <2>2. CASE Return(p)
      BY <2>2, ReturnType DEF TypeOK
    <2> QED
      BY <2>1, <2>2 DEF Store
  <1> DEFINE lease == IF job[p].lease = "active"
                      THEN [slot |-> job[p].slot, status |-> "active", tree |-> TRUE]
                      ELSE [lview[p][job[p].rid] EXCEPT !.status = job[p].lease]
             list == [lview[p] EXCEPT ![job[p].rid] = lease]
  <1>4. lease \in Leases
    BY <1>1, <1>2 DEF Leases
  <1>5. list \in [Rids -> Leases]
    BY <1>2, <1>4
  <1>6. MediumTypeOK'
    BY <1>5 DEF Store, TypeOK, MediumTypeOK
  <1>7. ViewTypeOK'
    BY <1>5 DEF Store, TypeOK, ViewTypeOK
  <1>8. BoundsTypeOK'
    BY HappensType DEF Store, TypeOK, BoundsTypeOK
  <1>p. PersistTypeOK'
    BY PersistsKept DEF Store, TypeOK
  <1> QED
    BY <1>p, <1>3, <1>6, <1>7, <1>8 DEF TypeOK

------------------------------------------------------------------------------
(* initialize(), calls and the environment keep the state well typed. *)

\* What the loops visit fits the loop.
LEMMA LoopWorkType ==
  ASSUME TypeOK, NEW p \in Providers, NEW st \in Stages
  PROVE  LoopWork(p, st) \subseteq Items(st)
  <1>1. CASE st = "orphans"
    BY <1>1 DEF LoopWork, Items, TypeOK, ViewTypeOK
  <1>2. CASE st = "reconcile"
    BY <1>2 DEF LoopWork, Items, Held
  <1>3. CASE st = "expired"
    BY <1>3 DEF LoopWork, Items, Held, Overdue
  <1>4. CASE st = "treeless"
    BY <1>4 DEF LoopWork, Items, Held
  <1>5. CASE st \notin {"orphans", "reconcile", "expired", "treeless"}
    BY <1>5 DEF LoopWork
  <1> QED
    BY <1>1, <1>2, <1>3, <1>4, <1>5

\* The next stage is a loop or the end of initialize().
LEMMA NextStageLoops ==
  ASSUME NEW p \in Providers
  PROVE  NextStage(p) \in {"ready", "slots", "orphans", "reconcile", "expired", "treeless"}
  <1> DEFINE next == {i \in 1 .. 5 : /\ \E j \in 1 .. i - 1 : stage[p] = Loops[j]
                                     /\ LoopWork(p, Loops[i]) # {}}
  <1>1. CASE next = {}
    BY <1>1 DEF NextStage
  <1>2. CASE next # {}
    <2>1. \E i \in next : \A j \in next : i <= j
      <3> HIDE DEF next
      <3>1. next \subseteq 1 .. 5
        BY DEF next
      <3>2. CASE 1 \in next
        BY <3>1, <3>2
      <3>3. CASE 1 \notin next /\ 2 \in next
        BY <3>1, <3>3
      <3>4. CASE 1 \notin next /\ 2 \notin next /\ 3 \in next
        BY <3>1, <3>4
      <3>5. CASE 1 \notin next /\ 2 \notin next /\ 3 \notin next /\ 4 \in next
        BY <3>1, <3>5
      <3>6. CASE 1 \notin next /\ 2 \notin next /\ 3 \notin next /\ 4 \notin next
        <4>1. \A i \in next : i = 5
          BY <3>1, <3>6
        <4> QED
          BY <4>1, <1>2
      <3> QED
        BY <3>2, <3>3, <3>4, <3>5, <3>6
    <2>2. (CHOOSE i \in next : \A j \in next : i <= j) \in 1 .. 5
      BY <2>1
    <2>3. \A i \in 1 .. 5 : Loops[i] \in {"slots", "orphans", "reconcile", "expired", "treeless"}
      BY DEF Loops
    <2> QED
      BY <2>2, <2>3, <1>2 DEF NextStage
  <1> QED
    BY <1>1, <1>2

LEMMA NextStageType ==
  ASSUME NEW p \in Providers
  PROVE  NextStage(p) \in Stages \ {"down"}
  BY NextStageLoops DEF Stages

\* A job that recovery starts is idle or well formed.
LEMMA RecoverJobType ==
  ASSUME TypeOK, NEW p \in Providers, InLoop(p), NEW x \in work[p]
  PROVE  LET j == RecoverJob(p, x) IN
         /\ j \in Jobs
         /\ j.goal \in {"none", "recover"}
         /\ j.pc \notin {"idle", "mark"} \/ j.lease # "none" => j.rid \in Rids
         /\ j.lease = "none" => j.pc # "store"
         /\ j.pc # "claim" /\ j.pc \in {"idle", "append", "mark", "store"}
         /\ j.pc = "idle" => j.goal = "none"
  <1> DEFINE j == RecoverJob(p, x)
  <1>a. Idle \in Jobs
    BY CapacityAssumption DEF Idle, Jobs, Slots, Statuses
  <1>b. x \in Items(stage[p])
    BY DEF TypeOK, ControlTypeOK
  <1>c. stage[p] \in {"slots", "orphans", "reconcile", "expired", "treeless"}
    BY DEF InLoop, Loops
  <1>1. CASE stage[p] = "slots"
    <2>1. j = Recover("mark", NoRid, x, "reserved", "none") /\ x \in Slots
      BY <1>1, <1>b DEF RecoverJob, Items
    <2> QED
      BY <2>1, RecoverType DEF Recover, Statuses
  <1>2. CASE stage[p] = "orphans"
    <2>1. j = Recover("append", x.rid, x.slot, "burned", "none") /\ x \in Records
      BY <1>2, <1>b DEF RecoverJob, Items
    <2> QED
      BY <2>1, RecoverType DEF Recover, Statuses, Records
  <1>3. CASE stage[p] = "reconcile"
    <2>1. j = ReconcileJob(p, x) /\ x \in Rids /\ lview[p][x] \in Leases
      BY <1>3, <1>b DEF RecoverJob, Items, TypeOK, ViewTypeOK
    <2>2. lview[p][x].slot \in Slots
      BY <2>1 DEF Leases
    <2>3. LatestStatus(jview[p], x) \in Statuses \cup {"none"}
      BY LatestStatusType
    <2>4. \/ j = Idle
          \/ \E st \in Statuses : j = Recover("append", x, lview[p][x].slot, st, "none")
          \/ \E st \in Statuses, ls \in LeaseStatuses :
               j = Recover("store", x, lview[p][x].slot, st, ls)
      BY <2>1, <2>3 DEF ReconcileJob, JournalStatus, LeaseStatus, Statuses, LeaseStatuses
    <2>5. CASE j = Idle
      BY <2>5, <1>a DEF Idle
    <2>6. CASE \E st \in Statuses : j = Recover("append", x, lview[p][x].slot, st, "none")
      <3>1. PICK st \in Statuses : j = Recover("append", x, lview[p][x].slot, st, "none")
        BY <2>6
      <3> QED
        BY <3>1, <2>1, <2>2, RecoverType DEF Recover
    <2>7. CASE \E st \in Statuses, ls \in LeaseStatuses :
                 j = Recover("store", x, lview[p][x].slot, st, ls)
      <3>1. PICK st \in Statuses, ls \in LeaseStatuses :
                   j = Recover("store", x, lview[p][x].slot, st, ls)
        BY <2>7
      <3>2. ls \in LeaseStatuses \cup {"none"} /\ ls # "none"
        BY DEF LeaseStatuses
      <3>3. j \in Jobs
        BY <3>1, <3>2, <2>1, <2>2, RecoverType
      <3> QED
        BY <3>1, <3>2, <3>3, <2>1 DEF Recover
    <2> QED
      BY <2>4, <2>5, <2>6, <2>7
  <1>4. CASE stage[p] \in {"expired", "treeless"}
    <2>1. x \in Rids /\ lview[p][x] \in Leases
      BY <1>4, <1>b DEF Items, TypeOK, ViewTypeOK
    <2>2. \E pc \in {"append", "mark"}, st \in Statuses,
             ls \in {"none", "expired", "cancelled"} :
               j = Recover(pc, x, lview[p][x].slot, st, ls)
      BY <1>4, <2>1 DEF RecoverJob, Statuses
    <2>3. PICK pc \in {"append", "mark"}, st \in Statuses,
               ls \in {"none", "expired", "cancelled"} :
                 j = Recover(pc, x, lview[p][x].slot, st, ls)
      BY <2>2
    <2>4. lview[p][x].slot \in Slots /\ ls \in LeaseStatuses \cup {"none"}
      BY <2>1 DEF Leases, LeaseStatuses
    <2> QED
      BY <2>1, <2>3, <2>4, RecoverType DEF Recover
  <1> QED
    BY <1>c, <1>1, <1>2, <1>3, <1>4

\* The steps of initialize() keep every type.
LEMMA InitializeType ==
  ASSUME TypeOK, JobsFormed, NEW p \in Providers, Open(p) \/ Initialize(p)
  PROVE  TypeOK' /\ JobsFormed'
  <1> USE DEF InitStep, durable, told
  <1>0. /\ jview[p] \in SUBSET Records /\ journal \in SUBSET Records
        /\ lview[p] \in [Rids -> Leases] /\ leases \in [Rids -> Leases]
        /\ wview[p] \in Watermarks /\ wm \in Watermarks
    BY DEF TypeOK, ViewTypeOK, MediumTypeOK
  <1>p. PersistTypeOK'
    <2>1. UNCHANGED persists
      BY DEF Open, Initialize, LoadWatermark, LoadLeases, EndLoop, Visit, Migrate, CleanupExpired
    <2> QED
      BY <2>1, PersistsKept DEF TypeOK
  <1>a. {r.slot : r \in jview[p]} \subseteq Slots
    BY <1>0 DEF Records
  <1>1. CASE Open(p)
    <2>1. MediumTypeOK' /\ ToldTypeOK' /\ BoundsTypeOK'
      BY <1>1 DEF Open, TypeOK, MediumTypeOK, ToldTypeOK, BoundsTypeOK
    <2>2. ViewTypeOK'
      BY <1>1, <1>0 DEF Open, TypeOK, ViewTypeOK, MediumTypeOK
    <2>3. ControlTypeOK'
      BY <1>1 DEF Open, TypeOK, ControlTypeOK, Stages, Items
    <2>4. JobsFormed'
      BY <1>1 DEF Open, JobsFormed, TypeOK, ControlTypeOK
    <2> QED
      BY <1>p, <2>1, <2>2, <2>3, <2>4 DEF TypeOK
  <1>2. CASE LoadWatermark(p)
    <2>1. MediumTypeOK' /\ ToldTypeOK' /\ BoundsTypeOK'
      BY <1>2 DEF LoadWatermark, TypeOK, MediumTypeOK, ToldTypeOK, BoundsTypeOK
    <2>2. ViewTypeOK'
      BY <1>2, <1>0 DEF LoadWatermark, TypeOK, ViewTypeOK
    <2>3. ControlTypeOK'
      BY <1>2 DEF LoadWatermark, TypeOK, ControlTypeOK, Stages, Items
    <2>4. JobsFormed'
      BY <1>2 DEF LoadWatermark, JobsFormed, TypeOK, ControlTypeOK
    <2> QED
      BY <1>p, <2>1, <2>2, <2>3, <2>4 DEF TypeOK
  <1>3. ASSUME NEW o \in Outcomes, Migrate(p, o) PROVE TypeOK' /\ JobsFormed'
    <2>1. MediumTypeOK' /\ ToldTypeOK'
      BY <1>3, <1>0 DEF Migrate, TypeOK, MediumTypeOK, ToldTypeOK
    <2>2. ViewTypeOK'
      BY <1>3 DEF Migrate, TypeOK, ViewTypeOK
    <2>3. ControlTypeOK'
      BY <1>3 DEF Migrate, TypeOK, ControlTypeOK, Stages, Items
    <2>4. JobsFormed'
      BY <1>3 DEF Migrate, JobsFormed, TypeOK, ControlTypeOK
    <2>5. BoundsTypeOK'
      BY <1>3, HappensType DEF Migrate, TypeOK, BoundsTypeOK
    <2> QED
      BY <1>p, <2>1, <2>2, <2>3, <2>4, <2>5 DEF TypeOK
  <1>4. CASE LoadLeases(p)
    <2>1. MediumTypeOK' /\ ToldTypeOK' /\ BoundsTypeOK'
      BY <1>4 DEF LoadLeases, TypeOK, MediumTypeOK, ToldTypeOK, BoundsTypeOK
    <2>2. ViewTypeOK'
      BY <1>4, <1>0 DEF LoadLeases, TypeOK, ViewTypeOK
    <2>3. ControlTypeOK'
      BY <1>4, <1>a DEF LoadLeases, EnterLoops, TypeOK, ControlTypeOK, Stages, Items
    <2>4. JobsFormed'
      BY <1>4 DEF LoadLeases, EnterLoops, JobsFormed, TypeOK, ControlTypeOK
    <2> QED
      BY <1>p, <2>1, <2>2, <2>3, <2>4 DEF TypeOK
  <1>5. ASSUME NEW o \in Outcomes, CleanupExpired(p, o) PROVE TypeOK' /\ JobsFormed'
    <2> DEFINE late == Overdue(lview[p])
               list == [r \in Rids |-> IF r \in late
                                       THEN [lview[p][r] EXCEPT !.status = "expired"]
                                       ELSE lview[p][r]]
    <2>0. list \in [Rids -> Leases]
      BY <1>0 DEF Leases, LeaseStatuses
    <2>1. MediumTypeOK' /\ ToldTypeOK'
      BY <1>5, <2>0 DEF CleanupExpired, TypeOK, MediumTypeOK, ToldTypeOK
    <2>2. ViewTypeOK'
      BY <1>5, <2>0 DEF CleanupExpired, TypeOK, ViewTypeOK
    <2>3. ControlTypeOK'
      BY <1>5, <1>a DEF CleanupExpired, EnterLoops, TypeOK, ControlTypeOK, Stages, Items
    <2>4. JobsFormed'
      BY <1>5 DEF CleanupExpired, EnterLoops, JobsFormed, TypeOK, ControlTypeOK
    <2>5. BoundsTypeOK'
      BY <1>5, HappensType DEF CleanupExpired, TypeOK, BoundsTypeOK
    <2> QED
      BY <1>p, <2>1, <2>2, <2>3, <2>4, <2>5 DEF TypeOK
  <1>6. CASE EndLoop(p)
    <2>0. NextStage(p) \in Stages \ {"down"} /\ LoopWork(p, NextStage(p)) \subseteq Items(NextStage(p))
      BY NextStageType, LoopWorkType
    <2>1. MediumTypeOK' /\ ToldTypeOK' /\ BoundsTypeOK' /\ ViewTypeOK'
      BY <1>6 DEF EndLoop, TypeOK, MediumTypeOK, ToldTypeOK, BoundsTypeOK, ViewTypeOK
    <2>2. ControlTypeOK'
      BY <1>6, <2>0 DEF EndLoop, TypeOK, ControlTypeOK
    <2>3. JobsFormed'
      BY <1>6, <2>0 DEF EndLoop, JobsFormed, TypeOK, ControlTypeOK
    <2> QED
      BY <1>p, <2>1, <2>2, <2>3 DEF TypeOK
  <1>7. CASE Visit(p)
    <2>0. PICK x \in work[p] : /\ job' = [job EXCEPT ![p] = RecoverJob(p, x)]
                              /\ work' = [work EXCEPT ![p] = @ \ {x}]
      BY <1>7 DEF Visit
    <2> DEFINE j == RecoverJob(p, x)
    <2>a. /\ j \in Jobs
          /\ j.goal \in {"none", "recover"}
          /\ j.pc \notin {"idle", "mark", "persist"} \/ j.lease # "none" => j.rid \in Rids
          /\ j.lease = "none" => j.pc # "store"
          /\ j.pc # "claim"
          /\ j.pc = "idle" => j.goal = "none"
      BY <1>7, RecoverJobType DEF Visit
    <2> HIDE DEF j
    <2>b. job' = [job EXCEPT ![p] = j]
      BY <2>0 DEF j
    <2>c. stage[p] # "down" /\ stage' = stage
      BY <1>7 DEF Visit, InLoop, Loops
    <2>1. MediumTypeOK' /\ ToldTypeOK' /\ BoundsTypeOK' /\ ViewTypeOK'
      BY <1>7 DEF Visit, TypeOK, MediumTypeOK, ToldTypeOK, BoundsTypeOK, ViewTypeOK
    <2>2. ControlTypeOK'
      BY <2>0, <2>a, <2>b, <2>c DEF TypeOK, ControlTypeOK
    <2>3. JobsFormed'
      BY <2>a, <2>b, <2>c DEF JobsFormed, TypeOK, ControlTypeOK
    <2> QED
      BY <1>p, <2>1, <2>2, <2>3 DEF TypeOK
  <1> QED
    BY <1>1, <1>2, <1>3, <1>4, <1>5, <1>6, <1>7 DEF Initialize

\* An operation that is accepted starts a well-formed job.
LEMMA AcceptType ==
  ASSUME TypeOK, JobsFormed, NEW p \in Providers, Ready(p), Refresh(p),
         NEW j \in Jobs, Accept(p, j), elapsed' \subseteq elapsed,
         j.goal = "reserve" => j.status = "reserved",
         j.goal = "commit" => j.status = "committed" /\ j.tx \in Txs,
         j.rid \in Rids,
         j.pc \in {"claim", "append", "mark"},
         j.pc = "claim" => j.goal = "reserve"
  PROVE  TypeOK' /\ JobsFormed'
  <1>1. Refreshed(p) \in Watermarks
    BY WatermarkTypes, CapacityAssumption DEF Refreshed, TypeOK, ViewTypeOK, MediumTypeOK, Slots
  <1>2. MediumTypeOK' /\ ToldTypeOK' /\ BoundsTypeOK'
    BY DEF Accept, durable, told, TypeOK, MediumTypeOK, ToldTypeOK, BoundsTypeOK
  <1>3. ViewTypeOK'
    BY <1>1 DEF Accept, Refresh, TypeOK, ViewTypeOK
  <1>4. ControlTypeOK'
    BY DEF Accept, TypeOK, ControlTypeOK
  <1>5. JobsFormed'
    BY DEF Accept, Ready, JobsFormed, TypeOK, ControlTypeOK
  <1>p. PersistTypeOK'
    BY PersistsKept DEF Accept, TypeOK
  <1> QED
    BY <1>p, <1>2, <1>3, <1>4, <1>5 DEF TypeOK

\* Reserving keeps every type.
LEMMA ReserveType ==
  ASSUME TypeOK, JobsFormed, NEW p \in Providers, NEW range \in Ranges, NEW s,
         reserveSpecificKeyUse(p, s, range)
  PROVE  TypeOK' /\ JobsFormed'
  <1>1. s \in Slots
    BY ParameterAssumption DEF reserveSpecificKeyUse
  <1>2. PICK r \in Rids :
          /\ elapsed' = elapsed \ {r}
          /\ Accept(p, [goal |-> "reserve", pc |-> IF Cas THEN "claim" ELSE "append",
                        rid |-> r, slot |-> s, status |-> "reserved", tx |-> NoTx,
                        lease |-> "active"])
    BY DEF reserveSpecificKeyUse
  <1> DEFINE j == [goal |-> "reserve", pc |-> IF Cas THEN "claim" ELSE "append",
                   rid |-> r, slot |-> s, status |-> "reserved", tx |-> NoTx,
                   lease |-> "active"]
  <1>3. j \in Jobs
    BY <1>1 DEF Jobs, Statuses, LeaseStatuses
  <1>4. /\ j.goal = "reserve" /\ j.status = "reserved" /\ j.rid \in Rids
        /\ j.pc \in {"claim", "append"}
    OBVIOUS
  <1>5. Accept(p, j) /\ elapsed' \subseteq elapsed
    BY <1>2
  <1>6. Ready(p) /\ Refresh(p)
    BY DEF reserveSpecificKeyUse
  <1> HIDE DEF j
  <1> QED
    BY <1>3, <1>4, <1>5, <1>6, AcceptType

\* Committing and burning keep every type.
LEMMA SettleType ==
  ASSUME TypeOK, JobsFormed, NEW p \in Providers, NEW r \in Rids,
         NEW goal \in {"commit", "burn"}, NEW status \in {"committed", "burned"},
         NEW tx \in Txs \cup {NoTx}, Settle(p, r, goal, status, tx),
         goal = "commit" => status = "committed" /\ tx \in Txs
  PROVE  TypeOK' /\ JobsFormed'
  <1> DEFINE l == lview[p][r]
             done == LatestStatus(jview[p], r) = status
             final == LeaseStatus(status)
             j == [goal |-> goal, pc |-> IF done THEN "mark" ELSE "append",
                   rid |-> r, slot |-> l.slot, status |-> status, tx |-> tx,
                   lease |-> IF done /\ l.status = final THEN "none" ELSE final]
  <1>1. l \in Leases
    BY DEF TypeOK, ViewTypeOK
  <1>2. j \in Jobs
    BY <1>1 DEF Jobs, Leases, LeaseStatus, Statuses, LeaseStatuses
  <1>3. /\ j.goal = goal /\ j.status = status /\ j.tx = tx /\ j.rid = r
        /\ j.pc \in {"append", "mark"}
    OBVIOUS
  <1>4. Accept(p, j) /\ elapsed' \subseteq elapsed /\ Ready(p) /\ Refresh(p)
    BY DEF Settle
  <1> HIDE DEF j
  <1> QED
    BY <1>2, <1>3, <1>4, AcceptType

\* Every call keeps every type.
LEMMA CallType ==
  ASSUME TypeOK, JobsFormed, NEW p \in Providers, Call(p)
  PROVE  TypeOK' /\ JobsFormed'
  <1>0. Refreshed(p) \in Watermarks /\ wview[p] \in Watermarks /\ wm \in Watermarks
    BY WatermarkTypes, CapacityAssumption DEF Refreshed, TypeOK, ViewTypeOK, MediumTypeOK, Slots
  <1>1. ASSUME NEW range \in Ranges, reserveKeyUse(p, range) PROVE TypeOK' /\ JobsFormed'
    BY <1>1, ReserveType DEF reserveKeyUse
  <1>2. ASSUME NEW range \in Ranges, NEW s \in Slots, reserveSpecificKeyUse(p, s, range)
        PROVE TypeOK' /\ JobsFormed'
    BY <1>2, ReserveType
  <1>3. ASSUME NEW r \in Rids, NEW tx \in Txs, commitKeyUse(p, r, tx)
        PROVE TypeOK' /\ JobsFormed'
    BY <1>3, SettleType DEF commitKeyUse
  <1>4. ASSUME NEW r \in Rids, burnReservation(p, r) PROVE TypeOK' /\ JobsFormed'
    BY <1>4, SettleType DEF burnReservation
  <1>5. ASSUME NEW w \in Watermarks, wview' = [wview EXCEPT ![p] = w], PersistTypeOK',
               floor' \in [Providers -> Slots],
               UNCHANGED <<durable, jview, lview, stage, work, lock, elapsed, crashes, faults,
                           granted, acked>>
        PROVE MediumTypeOK' /\ ViewTypeOK' /\ ToldTypeOK' /\ BoundsTypeOK'
    <2>1. wview' \in [Providers -> Watermarks]
      BY <1>0, <1>5 DEF TypeOK, ViewTypeOK
    <2>2. MediumTypeOK' /\ ViewTypeOK'
      BY <2>1, <1>5 DEF TypeOK, MediumTypeOK, ViewTypeOK, durable
    <2> QED
      BY <2>2, <1>5 DEF TypeOK, ToldTypeOK, BoundsTypeOK
  <1>6. ASSUME NEW c \in RemoteCursors, advanceToRemoteWatermark(p, c)
        PROVE TypeOK' /\ JobsFormed'
    <2>1. c \in Slots /\ saveCursor(wview[p], c) \in Watermarks
      BY <1>0, WatermarkTypes, ParameterAssumption
    <2>2. wview' = [wview EXCEPT ![p] = saveCursor(wview[p], c)]
          /\ wview'[p] = saveCursor(wview[p], c)
      BY <1>6 DEF advanceToRemoteWatermark, TypeOK, ViewTypeOK
    <2>3. PersistTypeOK' /\ floor' \in [Providers -> Slots]
      BY <1>6, <2>1, <2>2
         DEF advanceToRemoteWatermark, TypeOK, PersistTypeOK, ToldTypeOK, Adoptions
    <2>4. ControlTypeOK' /\ JobsFormed'
      BY <1>6 DEF advanceToRemoteWatermark, TypeOK, ControlTypeOK, JobsFormed
    <2>5. UNCHANGED <<durable, jview, lview, stage, work, lock, elapsed, crashes, faults,
                      granted, acked>>
      BY <1>6 DEF advanceToRemoteWatermark
    <2> QED
      BY <1>5, <2>1, <2>2, <2>3, <2>4, <2>5 DEF TypeOK
  <1>7. ASSUME NEW c \in SeedCursors, NEW regress \in BOOLEAN, seedWatermark(p, c, regress)
        PROVE TypeOK' /\ JobsFormed'
    <2>1. c \in Slots /\ seed(Refreshed(p), c, {}) \in Watermarks
      BY <1>0, WatermarkTypes, ParameterAssumption
    <2>2. wview' = [wview EXCEPT ![p] = seed(Refreshed(p), c, {})]
          /\ wview'[p] = seed(Refreshed(p), c, {})
      BY <1>7 DEF seedWatermark, TypeOK, ViewTypeOK
    <2>3. PersistTypeOK' /\ floor' \in [Providers -> Slots]
      BY <1>7, <2>1, <2>2 DEF seedWatermark, TypeOK, PersistTypeOK, ToldTypeOK
    <2> DEFINE j == [goal |-> "seed", pc |-> "persist", rid |-> NoRid, slot |-> c,
                     status |-> "reserved", tx |-> NoTx, lease |-> "none"]
    <2>4. j \in Jobs
      BY <2>1 DEF Jobs, Statuses
    <2>5. job' = [job EXCEPT ![p] = j] /\ stage[p] = "ready" /\ UNCHANGED <<stage, work>>
      BY <1>7 DEF seedWatermark, Ready
    <2>6. ControlTypeOK'
      BY <2>4, <2>5 DEF TypeOK, ControlTypeOK
    <2>7. JobsFormed'
      BY <2>5 DEF TypeOK, ControlTypeOK, JobsFormed
    <2>8. UNCHANGED <<durable, jview, lview, stage, work, lock, elapsed, crashes, faults,
                      granted, acked>>
      BY <1>7 DEF seedWatermark
    <2> QED
      BY <1>5, <2>1, <2>2, <2>3, <2>6, <2>7, <2>8 DEF TypeOK
  <1>8. CASE RefusedCall(p)
    <2>1. PersistTypeOK' /\ floor' \in [Providers -> Slots]
      BY <1>8, PersistsKept DEF RefusedCall, TypeOK, ToldTypeOK, told
    <2>2. ControlTypeOK' /\ JobsFormed'
      BY <1>8 DEF RefusedCall, TypeOK, ControlTypeOK, JobsFormed
    <2> QED
      BY <1>0, <1>5, <1>8, <2>1, <2>2 DEF RefusedCall, Refresh, told, TypeOK
  <1> QED
    BY <1>1, <1>2, <1>3, <1>4, <1>6, <1>7, <1>8 DEF Call

\* A crash leaves the provider as it was before it was constructed.
LEMMA CrashType ==
  ASSUME TypeOK, JobsFormed, NEW a \in Adapters, Crash(a)
  PROVE  TypeOK' /\ JobsFormed'
  <1>1. /\ Idle \in Jobs /\ emptyTree \in Watermarks
        /\ [r \in Rids |-> NoLease] \in [Rids -> Leases]
    BY CapacityAssumption
       DEF Idle, Jobs, Slots, Statuses, emptyTree, Watermarks, NoLease, Leases
  <1>2. IsFiniteSet({})
    BY FS_EmptySet
  <1>3. MediumTypeOK' /\ ToldTypeOK'
    BY CapacityAssumption DEF Crash, durable, TypeOK, MediumTypeOK, ToldTypeOK, Slots
  <1>p. PersistTypeOK'
    BY <1>1 DEF Crash, TypeOK, PersistTypeOK, Adoptions, NoAdoption
  <1>4. BoundsTypeOK'
    BY ParameterAssumption DEF Crash, TypeOK, BoundsTypeOK
  <1>5. ViewTypeOK'
    BY <1>1, <1>2 DEF Crash, TypeOK, ViewTypeOK
  <1>6. ControlTypeOK'
    BY <1>1 DEF Crash, TypeOK, ControlTypeOK, Stages
  <1>7. JobsFormed'
    BY DEF Crash, JobsFormed, TypeOK, ControlTypeOK, Idle
  <1> QED
    BY <1>p, <1>3, <1>4, <1>5, <1>6, <1>7 DEF TypeOK

\* Every step keeps every type and every job well formed.
LEMMA TypeStep == TypeOK /\ JobsFormed /\ [Next]_vars => TypeOK' /\ JobsFormed'
  <1> SUFFICES ASSUME TypeOK, JobsFormed, [Next]_vars PROVE TypeOK' /\ JobsFormed'
    OBVIOUS
  <1>1. ASSUME NEW p \in Providers, Open(p) \/ Initialize(p) PROVE TypeOK' /\ JobsFormed'
    BY <1>1, InitializeType
  <1>2. ASSUME NEW p \in Providers, Step(p) PROVE TypeOK' /\ JobsFormed'
    BY <1>2, ClaimType, AppendReadType, ProbeType, WriteType, MarkType, SerializeType,
       LandType, StoreType DEF Step
  <1>a. ASSUME NEW p \in Providers, Adopt(p) PROVE TypeOK' /\ JobsFormed'
    BY <1>a, SerializeType, AdoptLandType DEF Adopt
  <1>3. ASSUME NEW p \in Providers, Call(p) PROVE TypeOK' /\ JobsFormed'
    BY <1>3, CallType
  <1>4. ASSUME NEW r \in Expirable, Expire(r) PROVE TypeOK' /\ JobsFormed'
    BY <1>4, ParameterAssumption
       DEF Expire, TypeOK, MediumTypeOK, ViewTypeOK, ControlTypeOK, ToldTypeOK,
           PersistTypeOK, BoundsTypeOK, JobsFormed, durable, volatile, persists, told
  <1>5. ASSUME NEW a \in Adapters, Crash(a) PROVE TypeOK' /\ JobsFormed'
    BY <1>5, CrashType
  <1>6. CASE UNCHANGED vars
    BY <1>6 DEF TypeOK, MediumTypeOK, ViewTypeOK, ControlTypeOK, ToldTypeOK,
                PersistTypeOK, BoundsTypeOK, JobsFormed, vars, durable, volatile, persists,
                told
  <1> QED
    BY <1>1, <1>2, <1>a, <1>3, <1>4, <1>5, <1>6 DEF Next

\* Type correctness: in every behaviour every variable has its type.
THEOREM TypeCorrect == Spec => []TypeOK
  <1>1. Spec => [](TypeOK /\ JobsFormed)
    BY TypeInit, TypeStep, PTL DEF Spec
  <1> QED
    BY <1>1, PTL

------------------------------------------------------------------------------
(* Safety.  A step that writes neither a record nor a claim, and tells no   *)
(* caller anything, preserves the invariant if each provider either keeps   *)
(* its job, or ends up with one that holds no lock and promises nothing new.*)

Keeps(q) ==
  /\ job'[q] = job[q] /\ jview'[q] = jview[q]
  /\ Appending(q) => lock'[AdapterOf[q]] = lock[AdapterOf[q]]

Restarts(q) ==
  LET j == job'[q] IN
  /\ j.pc \notin {"probe", "write"}
  /\ jview'[q] \subseteq journal
  /\ j.goal = "reserve" => j.pc = "claim" \/ (~Cas /\ j.pc = "append")
  /\ j.goal = "commit" /\ j.pc \in {"mark", "persist", "store"} => HasCommit(j.rid, j.tx)

\* Such a quiet step preserves the invariant.
LEMMA QuietStep ==
  ASSUME IndInv, TypeOK', JobsFormed',
         journal' = journal, claims' = claims, granted' = granted, acked' = acked,
         \A q \in Providers : Keeps(q) \/ Restarts(q)
  PROVE  IndInv'
  <1> USE DEF Keeps, Restarts, Appending, Logged
  <1>1. LockHeld'
    BY DEF IndInv, LockHeld
  <1>2. ViewsKnown'
    BY DEF IndInv, ViewsKnown
  <1>3. ViewsFresh'
    BY DEF IndInv, ViewsFresh, OneLock
  <1>4. SeqBound' /\ Linear' /\ ReservedOnce'
    BY DEF IndInv, SeqBound, Linear, JournalLinear, ReservedOnce, OneLock
  <1>5. Unrecorded'
    BY DEF IndInv, Unrecorded, OneLock
  <1>6. Journalled'
    BY DEF IndInv, Journalled, HasRecord, HasCommit, CommitDurable
  <1>7. Claimed'
    BY DEF IndInv, Claimed
  <1> QED
    BY <1>1, <1>2, <1>3, <1>4, <1>5, <1>6, <1>7 DEF IndInv

\* The job of one provider changes; the other providers keep theirs.
LEMMA OthersKeep ==
  ASSUME IndInv, NEW p \in Providers, NEW j,
         job' = [job EXCEPT ![p] = j],
         \A q \in Providers \ {p} : jview'[q] = jview[q],
         \/ lock' = lock
         \/ /\ lock[AdapterOf[p]] \in {p, NoProvider}
            /\ \E h : lock' = [lock EXCEPT ![AdapterOf[p]] = h]
  PROVE  \A q \in Providers \ {p} : Keeps(q)
  <1> SUFFICES ASSUME NEW q \in Providers \ {p} PROVE Keeps(q)
    OBVIOUS
  <1>1. job'[q] = job[q] /\ jview'[q] = jview[q]
    BY DEF IndInv, TypeOK, ControlTypeOK
  <1>2. ASSUME Appending(q) PROVE lock'[AdapterOf[q]] = lock[AdapterOf[q]]
    <2>1. lock[AdapterOf[q]] = q /\ q # NoProvider /\ AdapterOf[q] \in Adapters
      BY <1>2, ProviderAssumption DEF IndInv, LockHeld
    <2>2. CASE lock' = lock
      BY <2>2
    <2>3. CASE /\ lock[AdapterOf[p]] \in {p, NoProvider}
               /\ \E h : lock' = [lock EXCEPT ![AdapterOf[p]] = h]
      <3>1. AdapterOf[q] # AdapterOf[p]
        BY <2>1, <2>3
      <3>2. PICK h : lock' = [lock EXCEPT ![AdapterOf[p]] = h]
        BY <2>3
      <3> QED
        BY <2>1, <3>1, <3>2 DEF IndInv, TypeOK, ViewTypeOK
    <2> QED
      BY <2>2, <2>3
  <1> QED
    BY <1>1, <1>2 DEF Keeps

\* The invariant holds initially.
LEMMA IndInvInit == Init => IndInv
  <1> SUFFICES ASSUME Init PROVE IndInv
    OBVIOUS
  <1>1. TypeOK /\ JobsFormed
    BY TypeInit
  <1>2. journal = {} /\ granted = {} /\ acked = {}
    BY DEF Init
  <1>3. \A p \in Providers : jview[p] = {} /\ job[p].pc = "idle" /\ job[p].goal = "none"
    BY DEF Init, Idle
  <1>4. LockHeld /\ ViewsKnown /\ ViewsFresh /\ Unrecorded
    BY <1>3 DEF LockHeld, ViewsKnown, ViewsFresh, Unrecorded, Appending
  <1>5. SeqBound /\ Linear /\ ReservedOnce
    BY <1>2 DEF SeqBound, Linear, JournalLinear, Forked, ReservedOnce
  <1>6. Journalled /\ Claimed
    BY <1>2, <1>3 DEF Journalled, CommitDurable, Claimed, Logged
  <1> QED
    BY <1>1, <1>4, <1>5, <1>6 DEF IndInv

\* Claiming a slot preserves the invariant: a claim is never overwritten.
LEMMA ClaimSafe ==
  ASSUME IndInv, TypeOK', JobsFormed',
         NEW p \in Providers, NEW o \in Outcomes, Claim(p, o)
  PROVE  IndInv'
  <1> USE DEF Appending, Logged
  <1>0. /\ job[p].goal = "reserve" /\ job[p].rid \in Rids /\ job[p].slot \in Slots
        /\ job[p].pc = "claim"
    BY DEF Claim, IndInv, JobsFormed, TypeOK, ControlTypeOK, Jobs
  <1>1. PICK j : /\ job' = [job EXCEPT ![p] = j]
                 /\ j = Idle \/ (/\ j = [job[p] EXCEPT !.pc = "append"]
                                 /\ claims[job[p].slot] = NoRid /\ o = "ok")
    BY DEF Claim, Goto, Abandon
  <1>2. UNCHANGED <<journal, jview, lock, granted, acked>>
    BY DEF Claim, Goto, Abandon, told
  <1>3. job'[p] = j /\ \A q \in Providers \ {p} : job'[q] = job[q]
    BY <1>1 DEF IndInv, TypeOK, ControlTypeOK
  <1>4. j.pc \in {"idle", "append"} /\ (j.pc = "idle" => j.goal = "none")
    BY <1>0, <1>1 DEF Idle, IndInv, TypeOK, ControlTypeOK, Jobs
  <1>5. LockHeld' /\ ViewsKnown' /\ ViewsFresh'
    BY <1>2, <1>3, <1>4 DEF IndInv, LockHeld, ViewsKnown, ViewsFresh, OneLock
  <1>6. SeqBound' /\ Linear' /\ ReservedOnce'
    BY <1>2 DEF IndInv, SeqBound, Linear, JournalLinear, ReservedOnce, OneLock
  <1>7. Unrecorded'
    BY <1>2, <1>3, <1>4 DEF IndInv, Unrecorded, OneLock
  <1>8. Journalled'
    BY <1>2, <1>3, <1>4 DEF IndInv, Journalled, HasRecord, HasCommit, CommitDurable
  <1>9. Claimed'
    <2> SUFFICES ASSUME Cas PROVE Claimed'
      BY DEF Claimed
    <2>1. \A s \in Slots : claims[s] # NoRid => claims'[s] = claims[s]
      BY <1>0 DEF Claim, IndInv, TypeOK, MediumTypeOK
    <2>2. \A g \in granted : claims'[g.slot] = g.rid
      BY <2>1, ProviderAssumption DEF IndInv, Claimed, TypeOK, ToldTypeOK
    <2>3. ASSUME NEW q \in Providers \ {p}, job'[q].goal = "reserve", job'[q].pc # "claim"
          PROVE  claims'[job'[q].slot] = job'[q].rid
      BY <2>1, <2>3, <1>3, ProviderAssumption
         DEF IndInv, Claimed, TypeOK, ControlTypeOK, Jobs, JobsFormed
    <2>4. ASSUME job'[p].goal = "reserve" PROVE claims'[job'[p].slot] = job'[p].rid
      <3>1. j = [job[p] EXCEPT !.pc = "append"] /\ claims[job[p].slot] = NoRid /\ o = "ok"
        BY <2>4, <1>1, <1>3 DEF Idle
      <3>2. claims' = [claims EXCEPT ![job[p].slot] = job[p].rid]
        BY <3>1 DEF Claim, Written
      <3>3. j.slot = job[p].slot /\ j.rid = job[p].rid
        BY <3>1 DEF IndInv, TypeOK, ControlTypeOK, Jobs
      <3> QED
        BY <3>2, <3>3, <1>0, <1>3 DEF IndInv, TypeOK, MediumTypeOK
    <2> QED
      BY <2>2, <2>3, <2>4, <1>2 DEF Claimed
  <1> QED
    BY <1>5, <1>6, <1>7, <1>8, <1>9 DEF IndInv

\* Reading the journal preserves the invariant: whoever goes on to write holds
\* the lock, has read every record, and reserves an unrecorded slot.
LEMMA AppendReadSafe ==
  ASSUME IndInv, TypeOK', JobsFormed', NEW p \in Providers, AppendRead(p)
  PROVE  IndInv'
  <1> USE DEF Appending, Logged
  <1>0. /\ job[p].pc = "append" /\ job[p] \in Jobs /\ lock[AdapterOf[p]] = NoProvider
        /\ AdapterOf[p] \in Adapters /\ jview[p] \subseteq journal
    BY ProviderAssumption DEF AppendRead, IndInv, TypeOK, ControlTypeOK, ViewsKnown
  <1>1. UNCHANGED <<journal, claims, granted, acked>>
    BY DEF AppendRead, Goto, Abandon, durable, told
  <1>2. \A q \in Providers \ {p} : jview'[q] = jview[q]
    BY DEF AppendRead, IndInv, TypeOK, ViewTypeOK
  <1>3. jview'[p] \subseteq journal
    BY <1>0 DEF AppendRead, IndInv, TypeOK, ViewTypeOK
  <1>4. CASE \E J : Abandon(p, J) /\ lock' = lock
    <2>1. job' = [job EXCEPT ![p] = Idle]
      BY <1>4 DEF Abandon
    <2>2. \A q \in Providers \ {p} : Keeps(q)
      BY <2>1, <1>2, <1>4, OthersKeep
    <2>3. Restarts(p)
      BY <2>1, <1>3 DEF Restarts, Idle, IndInv, TypeOK, ControlTypeOK
    <2> QED
      BY <2>2, <2>3, <1>1, QuietStep
  <1>5. CASE Goto(p, "mark") /\ AppendIdempotent(journal, job[p]) /\ lock' = lock
    <2> DEFINE j == [job[p] EXCEPT !.pc = "mark"]
    <2>1. job' = [job EXCEPT ![p] = j]
      BY <1>5 DEF Goto
    <2>2. \A q \in Providers \ {p} : Keeps(q)
      BY <2>1, <1>2, <1>5, OthersKeep
    <2>3. job'[p] = j /\ j.pc = "mark" /\ j.goal = job[p].goal /\ j.rid = job[p].rid
          /\ j.tx = job[p].tx
      BY <2>1, <1>0 DEF IndInv, TypeOK, ControlTypeOK, Jobs
    <2>4. job[p].goal # "reserve"
      BY <1>5 DEF AppendIdempotent, IndInv, JobsFormed
    <2>5. job[p].goal = "commit" => HasCommit(job[p].rid, job[p].tx)
      BY <1>5 DEF AppendIdempotent, Last, Of, HasCommit, IndInv, JobsFormed
    <2>6. Restarts(p)
      BY <2>3, <2>4, <2>5, <1>3 DEF Restarts
    <2> QED
      BY <2>2, <2>6, <1>1, QuietStep
  <1>6. CASE /\ Goto(p, "probe") /\ AppendAllowed(journal, job[p])
             /\ lock' = [lock EXCEPT ![AdapterOf[p]] = p]
             /\ jview' = [jview EXCEPT ![p] = journal]
    <2>1. job' = [job EXCEPT ![p] = [job[p] EXCEPT !.pc = "probe"]]
      BY <1>6 DEF Goto
    <2>2. \A q \in Providers \ {p} : Keeps(q)
      BY <2>1, <1>0, <1>2, <1>6, OthersKeep
    <2>3. /\ job'[p].pc = "probe" /\ job'[p].goal = job[p].goal /\ job'[p].rid = job[p].rid
          /\ job'[p].slot = job[p].slot /\ job'[p].status = job[p].status
      BY <2>1, <1>0 DEF IndInv, TypeOK, ControlTypeOK, Jobs
    <2>4. jview'[p] = journal /\ lock'[AdapterOf[p]] = p
      BY <1>0, <1>6 DEF IndInv, TypeOK, ViewTypeOK
    <2> USE DEF Keeps
    <2>5. LockHeld' /\ ViewsKnown' /\ ViewsFresh'
      BY <2>2, <2>4, <1>1 DEF IndInv, LockHeld, ViewsKnown, ViewsFresh, OneLock
    <2>6. SeqBound' /\ Linear' /\ ReservedOnce'
      BY <1>1 DEF IndInv, SeqBound, Linear, JournalLinear, ReservedOnce, OneLock
    <2>7. Unrecorded'
      BY <2>2, <2>3, <1>1, <1>6 DEF IndInv, Unrecorded, OneLock, AppendAllowed
    <2>8. Journalled'
      BY <2>2, <2>3, <1>1 DEF IndInv, Journalled, HasRecord, HasCommit, CommitDurable
    <2>9. Claimed'
      BY <2>2, <2>3, <1>0, <1>1 DEF IndInv, Claimed
    <2> QED
      BY <2>5, <2>6, <2>7, <2>8, <2>9 DEF IndInv
  <1> QED
    BY <1>4, <1>5, <1>6 DEF AppendRead

\* Probing preserves the invariant.
LEMMA ProbeSafe ==
  ASSUME IndInv, TypeOK', JobsFormed', NEW p \in Providers, Probe(p)
  PROVE  IndInv'
  <1> USE DEF Appending, Logged
  <1>0. /\ job[p].pc = "probe" /\ job[p] \in Jobs /\ lock[AdapterOf[p]] = p
        /\ AdapterOf[p] \in Adapters /\ jview[p] \subseteq journal
    BY ProviderAssumption DEF Probe, IndInv, TypeOK, ControlTypeOK, ViewsKnown, LockHeld
  <1>1. UNCHANGED <<journal, claims, granted, acked, jview>>
    BY DEF Probe, Goto, Abandon, durable, told
  <1>2. CASE /\ Abandon(p, jview[p])
             /\ lock' = [lock EXCEPT ![AdapterOf[p]] = NoProvider]
    <2>1. job' = [job EXCEPT ![p] = Idle]
      BY <1>2 DEF Abandon
    <2>2. \A q \in Providers \ {p} : Keeps(q)
      BY <2>1, <1>0, <1>1, <1>2, OthersKeep
    <2>3. Restarts(p)
      BY <2>1, <1>0, <1>1 DEF Restarts, Idle, IndInv, TypeOK, ControlTypeOK
    <2> QED
      BY <2>2, <2>3, <1>1, QuietStep
  <1>3. CASE Goto(p, "write") /\ lock' = lock
    <2>1. job' = [job EXCEPT ![p] = [job[p] EXCEPT !.pc = "write"]]
      BY <1>3 DEF Goto
    <2>2. \A q \in Providers \ {p} : job'[q] = job[q]
      BY <2>1 DEF IndInv, TypeOK, ControlTypeOK
    <2>3. /\ job'[p].pc = "write" /\ job'[p].goal = job[p].goal /\ job'[p].rid = job[p].rid
          /\ job'[p].slot = job[p].slot /\ job'[p].status = job[p].status
      BY <2>1, <1>0 DEF IndInv, TypeOK, ControlTypeOK, Jobs
    <2>5. LockHeld' /\ ViewsKnown' /\ ViewsFresh'
      BY <2>2, <1>0, <1>1, <1>3 DEF IndInv, LockHeld, ViewsKnown, ViewsFresh, OneLock
    <2>6. SeqBound' /\ Linear' /\ ReservedOnce'
      BY <1>1 DEF IndInv, SeqBound, Linear, JournalLinear, ReservedOnce, OneLock
    <2>7. Unrecorded'
      BY <2>2, <2>3, <1>0, <1>1 DEF IndInv, Unrecorded, OneLock
    <2>8. Journalled'
      BY <2>2, <2>3, <1>1 DEF IndInv, Journalled, HasRecord, HasCommit, CommitDurable
    <2>9. Claimed'
      BY <2>2, <2>3, <1>0, <1>1 DEF IndInv, Claimed
    <2> QED
      BY <2>5, <2>6, <2>7, <2>8, <2>9 DEF IndInv
  <1> QED
    BY <1>2, <1>3 DEF Probe

\* Writing a record preserves the invariant: under one lock the writer has read
\* the whole journal, so its sequence number and its slot are new.
LEMMA WriteSafe ==
  ASSUME IndInv, TypeOK', JobsFormed',
         NEW p \in Providers, NEW o \in Outcomes, Write(p, o)
  PROVE  IndInv'
  <1> USE DEF Appending, Logged
  <1> DEFINE new == RecordOf(p)
  <1>0. /\ job[p].pc = "write" /\ job[p] \in Jobs /\ lock[AdapterOf[p]] = p
        /\ AdapterOf[p] \in Adapters /\ jview[p] \subseteq journal
        /\ IsFiniteSet(journal)
    BY ProviderAssumption
       DEF Write, IndInv, TypeOK, ControlTypeOK, MediumTypeOK, ViewsKnown, LockHeld
  <1>1. /\ new.seq = Cardinality(jview[p]) /\ new.slot = job[p].slot
        /\ new.status = job[p].status /\ new.rid = job[p].rid /\ new.tx = job[p].tx
    BY DEF RecordOf
  <1> HIDE DEF new
  <1>2. /\ journal' = IF Written(o) THEN journal \cup {new} ELSE journal
        /\ UNCHANGED <<claims, granted, acked>>
        /\ lock' = [lock EXCEPT ![AdapterOf[p]] = NoProvider]
    BY DEF Write, Goto, Abandon, told, new
  <1>3. /\ jview' = IF o = "ok" THEN [jview EXCEPT ![p] = jview[p] \cup {new}] ELSE jview
        /\ o = "ok" => Written(o)
    BY DEF Write, new, Written
  <1>4. \A q \in Providers \ {p} : jview'[q] = jview[q]
    BY <1>3 DEF IndInv, TypeOK, ViewTypeOK
  <1>5. PICK j : /\ job' = [job EXCEPT ![p] = j]
                 /\ j = Idle \/ (o = "ok" /\ j = [job[p] EXCEPT !.pc = "mark"])
    BY DEF Write, Goto, Abandon
  <1>6. \A q \in Providers \ {p} : Keeps(q)
    BY <1>0, <1>2, <1>4, <1>5, OthersKeep
  <1>7. job'[p] = j /\ j.pc \in {"idle", "mark"} /\ (j.goal # "none" => j # Idle)
    BY <1>0, <1>5 DEF Idle, IndInv, TypeOK, ControlTypeOK, Jobs
  <1>8. j # Idle => /\ j.goal = job[p].goal /\ j.rid = job[p].rid /\ j.tx = job[p].tx
                    /\ j.slot = job[p].slot /\ o = "ok" /\ new \in journal'
    BY <1>0, <1>2, <1>3, <1>5 DEF Jobs
  <1>9. OneLock => \A q \in Providers : ~Appending(q)'
    BY <1>0, <1>6, <1>7 DEF OneLock, Keeps, IndInv, LockHeld
  <1>a. LockHeld'
    BY <1>6, <1>7 DEF IndInv, LockHeld, Keeps
  <1>b. ViewsKnown'
    <2>1. jview'[p] \subseteq journal'
      BY <1>0, <1>2, <1>3 DEF IndInv, TypeOK, ViewTypeOK
    <2> QED
      BY <2>1, <1>2, <1>4 DEF IndInv, ViewsKnown
  <1>c. ViewsFresh' /\ Unrecorded'
    BY <1>9 DEF ViewsFresh, Unrecorded, OneLock
  <1>d. SeqBound' /\ Linear'
    <2> SUFFICES ASSUME OneLock PROVE SeqBound' /\ Linear'
      BY DEF SeqBound, Linear, OneLock
    <2>1. /\ new.seq = Cardinality(journal) /\ Cardinality(journal) \in Nat
          /\ \A r \in journal : r.seq < Cardinality(journal) /\ r.seq \in Nat
          /\ ~Forked(journal)
      BY <1>0, <1>1, FS_CardinalityType
         DEF IndInv, ViewsFresh, SeqBound, Linear, JournalLinear, TypeOK, MediumTypeOK, Records
    <2>2. new \notin journal
      BY <2>1
    <2>3. Cardinality(journal \cup {new}) = Cardinality(journal) + 1
      BY <2>2, <1>0, FS_AddElement
    <2>4. CASE Written(o)
      <3>1. \A r \in journal' : r.seq < Cardinality(journal')
        BY <2>1, <2>3, <2>4, <1>2
      <3>2. ~Forked(journal')
        BY <2>1, <2>4, <1>2 DEF Forked
      <3> QED
        BY <3>1, <3>2 DEF SeqBound, Linear, JournalLinear
    <2>5. CASE ~Written(o)
      BY <2>1, <2>5, <1>2 DEF SeqBound, Linear, JournalLinear
    <2> QED
      BY <2>4, <2>5
  <1>e. ReservedOnce'
    <2>1. OneLock /\ new.status = "reserved" => ~Recorded(journal, new.slot)
      BY <1>0, <1>1 DEF IndInv, Unrecorded
    <2> QED
      BY <2>1, <1>2 DEF IndInv, ReservedOnce, Recorded, OneLock
  <1>f. Journalled'
    <2>1. \A rid, slot : HasRecord(rid, slot) => HasRecord(rid, slot)'
      BY <1>2 DEF HasRecord
    <2>2. \A rid, tx : HasCommit(rid, tx) => HasCommit(rid, tx)'
      BY <1>2 DEF HasCommit
    <2>3. job'[p].goal = "reserve" => HasRecord(job[p].rid, job[p].slot)'
      BY <1>1, <1>7, <1>8 DEF HasRecord, IndInv, JobsFormed, Idle
    <2>4. job'[p].goal = "commit" => HasCommit(job[p].rid, job[p].tx)'
      BY <1>1, <1>7, <1>8 DEF HasCommit, IndInv, JobsFormed, Idle
    <2>5. CommitDurable'
      BY <1>2 DEF IndInv, Journalled, CommitDurable
    <2>6. \A g \in granted' : HasRecord(g.rid, g.slot)'
      BY <2>1, <1>2 DEF IndInv, Journalled
    <2>7. ASSUME NEW q \in Providers, Logged(q)'
          PROVE  /\ job'[q].goal = "reserve" => HasRecord(job[q].rid, job[q].slot)'
                 /\ job'[q].goal = "commit" => HasCommit(job[q].rid, job[q].tx)'
      BY <2>1, <2>2, <2>3, <2>4, <2>7, <1>6 DEF IndInv, Journalled, Keeps
    <2> QED
      BY <2>5, <2>6, <2>7 DEF Journalled
  <1>g. Claimed'
    BY <1>0, <1>2, <1>6, <1>7, <1>8 DEF IndInv, Claimed, Keeps, Idle
  <1> QED
    BY <1>a, <1>b, <1>c, <1>d, <1>e, <1>f, <1>g DEF IndInv

\* Returning to the caller preserves the invariant: what it is told is recorded,
\* and claimed where there are claims.
LEMMA ReturnSafe ==
  ASSUME IndInv, TypeOK', JobsFormed', NEW p \in Providers, Logged(p), Return(p),
         UNCHANGED <<journal, claims, jview, lock>>
  PROVE  IndInv'
  <1> USE DEF Appending, Logged
  <1>1. job'[p] = Idle /\ \A q \in Providers \ {p} : job'[q] = job[q]
    BY DEF Return, IndInv, TypeOK, ControlTypeOK
  <1>2. Idle.pc = "idle" /\ Idle.goal = "none"
    BY DEF Idle
  <1>3. LockHeld' /\ ViewsKnown' /\ ViewsFresh' /\ Unrecorded'
    BY <1>1, <1>2 DEF IndInv, LockHeld, ViewsKnown, ViewsFresh, Unrecorded, OneLock
  <1>4. SeqBound' /\ Linear' /\ ReservedOnce'
    BY DEF IndInv, SeqBound, Linear, JournalLinear, ReservedOnce, OneLock
  <1>5. ASSUME NEW g \in granted'
        PROVE  HasRecord(g.rid, g.slot)' /\ (Cas => claims'[g.slot] = g.rid)
    <2>1. CASE g \in granted
      BY <2>1 DEF IndInv, Journalled, Claimed, HasRecord
    <2>2. CASE job[p].goal = "reserve" /\ g = [rid |-> job[p].rid, slot |-> job[p].slot]
      <3>1. HasRecord(job[p].rid, job[p].slot) /\ (Cas => claims[job[p].slot] = job[p].rid)
        BY <2>2 DEF IndInv, Journalled, Claimed
      <3>2. g.rid = job[p].rid /\ g.slot = job[p].slot
        BY <2>2
      <3> QED
        BY <3>1, <3>2 DEF HasRecord
    <2> QED
      BY <2>1, <2>2, <1>5 DEF Return
  <1>6. ASSUME NEW c \in acked' PROVE HasCommit(c.rid, c.tx)'
    <2>1. CASE c \in acked
      BY <2>1 DEF IndInv, Journalled, CommitDurable, HasCommit
    <2>2. CASE job[p].goal = "commit" /\ c = [rid |-> job[p].rid, tx |-> job[p].tx]
      <3>1. HasCommit(job[p].rid, job[p].tx)
        BY <2>2 DEF IndInv, Journalled
      <3>2. c.rid = job[p].rid /\ c.tx = job[p].tx
        BY <2>2
      <3> QED
        BY <3>1, <3>2 DEF HasCommit
    <2> QED
      BY <2>1, <2>2, <1>6 DEF Return
  <1>7. CommitDurable'
    BY <1>6 DEF CommitDurable, HasCommit
  <1>8. Journalled'
    BY <1>1, <1>2, <1>5, <1>7 DEF IndInv, Journalled, HasRecord, HasCommit
  <1>9. Claimed'
    BY <1>1, <1>2, <1>5 DEF IndInv, Claimed
  <1> QED
    BY <1>3, <1>4, <1>8, <1>9 DEF IndInv

\* Marking a slot, an image that lands and storing a lease preserve the invariant.
LEMMA MarkStoreSafe ==
  ASSUME IndInv, TypeOK', JobsFormed',
         NEW p \in Providers, NEW o \in Outcomes, Mark(p) \/ Land(p, o) \/ Store(p, o)
  PROVE  IndInv'
  <1> USE DEF Appending, Logged
  <1>0. Logged(p) /\ job[p] \in Jobs /\ UNCHANGED <<journal, claims, jview, lock>>
    BY DEF Mark, Land, Store, IndInv, TypeOK, ControlTypeOK, durable
  <1>1. CASE Return(p)
    BY <1>0, <1>1, ReturnSafe
  <1>2. CASE Abandon(p, jview[p])
    <2>1. job' = [job EXCEPT ![p] = Idle] /\ granted' = granted /\ acked' = acked
      BY <1>2 DEF Abandon, told
    <2>2. \A q \in Providers \ {p} : Keeps(q)
      BY <2>1, <1>0, OthersKeep
    <2>3. Restarts(p)
      BY <2>1, <1>0 DEF Restarts, Idle, IndInv, TypeOK, ControlTypeOK, ViewsKnown
    <2> QED
      BY <2>1, <2>2, <2>3, <1>0, QuietStep
  <1>3. ASSUME NEW pc \in {"persist", "store"}, Goto(p, pc) PROVE IndInv'
    <2>1. job' = [job EXCEPT ![p] = [job[p] EXCEPT !.pc = pc]]
          /\ granted' = granted /\ acked' = acked
      BY <1>3 DEF Goto, told
    <2>2. /\ \A q \in Providers \ {p} : job'[q] = job[q]
          /\ job'[p].pc = pc /\ job'[p].goal = job[p].goal
          /\ job'[p].rid = job[p].rid /\ job'[p].slot = job[p].slot
          /\ job'[p].tx = job[p].tx
      BY <2>1, <1>0 DEF IndInv, TypeOK, ControlTypeOK, Jobs
    <2>3. LockHeld' /\ ViewsKnown' /\ ViewsFresh' /\ Unrecorded'
      BY <2>2, <1>0 DEF IndInv, LockHeld, ViewsKnown, ViewsFresh, Unrecorded, OneLock
    <2>4. SeqBound' /\ Linear' /\ ReservedOnce'
      BY <1>0 DEF IndInv, SeqBound, Linear, JournalLinear, ReservedOnce, OneLock
    <2>5. Journalled'
      BY <2>1, <2>2, <1>0 DEF IndInv, Journalled, HasRecord, HasCommit, CommitDurable
    <2>6. Claimed'
      BY <2>1, <2>2, <1>0 DEF IndInv, Claimed
    <2> QED
      BY <2>3, <2>4, <2>5, <2>6 DEF IndInv
  <1> QED
    BY <1>1, <1>2, <1>3 DEF Mark, Land, Store

\* The steps of initialize() and the calls preserve the invariant: they start
\* jobs, and read the journal, but write neither records nor claims.
LEMMA StartSafe ==
  ASSUME IndInv, TypeOK', JobsFormed', NEW p \in Providers,
         Open(p) \/ Initialize(p) \/ Call(p)
  PROVE  IndInv'
  <1> USE DEF durable, told
  <1>0. jview[p] \subseteq journal /\ job \in [Providers -> Jobs]
        /\ jview \in [Providers -> SUBSET Records]
    BY DEF IndInv, ViewsKnown, TypeOK, ControlTypeOK, ViewTypeOK
  <1>1. ASSUME UNCHANGED <<journal, claims, granted, acked, job, jview, lock>> PROVE IndInv'
    BY <1>1, QuietStep DEF Keeps
  <1>2. CASE Open(p)
    <2>1. CASE Forked(journal)
      BY <2>1, <1>1, <1>2 DEF Open, InitStep
    <2>2. CASE ~Forked(journal)
      <3>1. UNCHANGED <<journal, claims, granted, acked, job, lock>>
            /\ jview' = [jview EXCEPT ![p] = journal]
        BY <2>2, <1>2 DEF Open, InitStep
      <3>2. job[p].goal = "none" /\ job[p].pc = "idle"
        BY <1>2, <1>0 DEF Open, IndInv, JobsFormed, Jobs
      <3>3. \A q \in Providers \ {p} : Keeps(q)
        BY <3>1, <1>0 DEF Keeps
      <3>4. Restarts(p)
        BY <3>1, <3>2, <1>0 DEF Restarts
      <3> QED
        BY <3>1, <3>3, <3>4, QuietStep
    <2> QED
      BY <2>1, <2>2
  <1>3. CASE \/ LoadWatermark(p) \/ LoadLeases(p) \/ EndLoop(p)
             \/ \E o \in Outcomes : Migrate(p, o) \/ CleanupExpired(p, o)
    BY <1>1, <1>3 DEF LoadWatermark, LoadLeases, EndLoop, Migrate, CleanupExpired, InitStep
  <1>4. CASE Visit(p)
    <2>1. PICK x \in work[p] : job' = [job EXCEPT ![p] = RecoverJob(p, x)]
      BY <1>4 DEF Visit
    <2>2. UNCHANGED <<journal, claims, granted, acked, jview, lock>> /\ InLoop(p)
      BY <1>4 DEF Visit, InitStep
    <2>3. /\ RecoverJob(p, x).goal \in {"none", "recover"}
          /\ RecoverJob(p, x).pc \in {"idle", "append", "mark", "store"}
      BY <2>2, RecoverJobType DEF IndInv
    <2>4. \A q \in Providers \ {p} : Keeps(q)
      BY <2>1, <2>2, OthersKeep
    <2>5. job'[p] = RecoverJob(p, x)
      BY <2>1, <1>0
    <2>6. Restarts(p)
      BY <2>2, <2>3, <2>5, <1>0 DEF Restarts
    <2> QED
      BY <2>2, <2>4, <2>6, QuietStep
  <1>5. ASSUME NEW j, Accept(p, j),
               j.pc \in {"claim", "append", "mark"},
               j.goal = "reserve" => j.pc = "claim" \/ (~Cas /\ j.pc = "append"),
               j.goal = "commit" /\ j.pc = "mark" => HasCommit(j.rid, j.tx)
        PROVE  IndInv'
    <2>1. job' = [job EXCEPT ![p] = j]
          /\ UNCHANGED <<journal, claims, granted, acked, jview, lock>>
      BY <1>5 DEF Accept
    <2>2. \A q \in Providers \ {p} : Keeps(q)
      BY <2>1, OthersKeep
    <2>3. Restarts(p)
      BY <2>1, <1>0, <1>5 DEF Restarts
    <2> QED
      BY <2>1, <2>2, <2>3, QuietStep
  <1>6. ASSUME NEW range \in Ranges, NEW s, reserveSpecificKeyUse(p, s, range)
        PROVE  IndInv'
    <2>1. PICK r \in Rids :
            Accept(p, [goal |-> "reserve", pc |-> IF Cas THEN "claim" ELSE "append",
                       rid |-> r, slot |-> s, status |-> "reserved", tx |-> NoTx,
                       lease |-> "active"])
      BY <1>6 DEF reserveSpecificKeyUse
    <2> DEFINE j == [goal |-> "reserve", pc |-> IF Cas THEN "claim" ELSE "append",
                     rid |-> r, slot |-> s, status |-> "reserved", tx |-> NoTx,
                     lease |-> "active"]
    <2>2. /\ j.pc \in {"claim", "append"} /\ j.goal = "reserve"
          /\ j.pc = "claim" \/ (~Cas /\ j.pc = "append")
      BY ParameterAssumption
    <2>3. Accept(p, j)
      BY <2>1
    <2> HIDE DEF j
    <2> QED
      BY <2>2, <2>3, <1>5
  <1>7. ASSUME NEW r \in Rids, NEW goal \in {"commit", "burn"},
               NEW status \in {"committed", "burned"}, NEW tx,
               Settle(p, r, goal, status, tx), goal = "commit" => status = "committed"
        PROVE  IndInv'
    <2> DEFINE done == LatestStatus(jview[p], r) = status
               final == LeaseStatus(status)
               j == [goal |-> goal, pc |-> IF done THEN "mark" ELSE "append",
                     rid |-> r, slot |-> lview[p][r].slot, status |-> status, tx |-> tx,
                     lease |-> IF done /\ lview[p][r].status = final THEN "none" ELSE final]
    <2>1. Accept(p, j)
      BY <1>7 DEF Settle
    <2>2. /\ j.goal = goal /\ j.pc \in {"append", "mark"} /\ j.rid = r /\ j.tx = tx
          /\ j.pc = "mark" => done
      OBVIOUS
    <2>3. goal = "commit" /\ done => HasCommit(r, tx)
      <3> SUFFICES ASSUME goal = "commit", done PROVE HasCommit(r, tx)
        OBVIOUS
      <3>1. PICK e \in Last(jview[p], r) : e.status = "committed" /\ e.tx = tx
        BY <1>7 DEF Settle
      <3> QED
        BY <3>1, <1>0 DEF Last, Of, HasCommit
    <2> HIDE DEF j
    <2> QED
      BY <2>1, <2>2, <2>3, <1>5
  <1>8. CASE RefusedCall(p) \/ \E c \in RemoteCursors : advanceToRemoteWatermark(p, c)
    BY <1>1, <1>8 DEF RefusedCall, advanceToRemoteWatermark
  <1>b. CASE \E c \in SeedCursors, regress \in BOOLEAN : seedWatermark(p, c, regress)
    <2>1. PICK c \in SeedCursors : \E regress \in BOOLEAN : seedWatermark(p, c, regress)
      BY <1>b
    <2> DEFINE j == [goal |-> "seed", pc |-> "persist", rid |-> NoRid, slot |-> c,
                     status |-> "reserved", tx |-> NoTx, lease |-> "none"]
    <2>2. job' = [job EXCEPT ![p] = j]
          /\ UNCHANGED <<journal, claims, granted, acked, jview, lock>>
      BY <2>1 DEF seedWatermark
    <2>3. \A q \in Providers \ {p} : Keeps(q)
      BY <2>2, OthersKeep
    <2>4. Restarts(p)
      BY <2>2, <1>0 DEF Restarts
    <2> QED
      BY <2>2, <2>3, <2>4, QuietStep
  <1>9. CASE \E range \in Ranges : \/ reserveKeyUse(p, range)
                                   \/ \E s \in Slots : reserveSpecificKeyUse(p, s, range)
    BY <1>6, <1>9 DEF reserveKeyUse
  <1>a. CASE \E r \in Rids : burnReservation(p, r) \/ \E tx \in Txs : commitKeyUse(p, r, tx)
    BY <1>7, <1>a DEF burnReservation, commitKeyUse
  <1> QED
    BY <1>2, <1>3, <1>4, <1>8, <1>9, <1>a, <1>b DEF Initialize, Call

\* A crash preserves the invariant: it drops jobs and locks, never records.
LEMMA CrashSafe ==
  ASSUME IndInv, TypeOK', JobsFormed', NEW a \in Adapters, Crash(a)
  PROVE  IndInv'
  <1>1. UNCHANGED <<journal, claims, granted, acked>>
    BY DEF Crash, durable
  <1>2. ASSUME NEW q \in Providers, AdapterOf[q] = a PROVE Restarts(q)
    BY <1>2 DEF Crash, Restarts, Idle
  <1>3. ASSUME NEW q \in Providers, AdapterOf[q] # a PROVE Keeps(q)
    BY <1>3, ProviderAssumption DEF Crash, Keeps, IndInv, TypeOK, ViewTypeOK
  <1> QED
    BY <1>1, <1>2, <1>3, QuietStep

\* Every step preserves the invariant.
LEMMA IndInvStep == IndInv /\ [Next]_vars => IndInv'
  <1> SUFFICES ASSUME IndInv, [Next]_vars PROVE IndInv'
    OBVIOUS
  <1>0. TypeOK' /\ JobsFormed'
    BY TypeStep DEF IndInv
  <1>1. ASSUME NEW p \in Providers, Open(p) \/ Initialize(p) \/ Call(p) PROVE IndInv'
    BY <1>0, <1>1, StartSafe
  <1>2. ASSUME NEW p \in Providers, Step(p) PROVE IndInv'
    <2>1. CASE Serialize(p)
      BY <1>0, <2>1, QuietStep DEF Serialize, Keeps, durable, told
    <2>2. CASE Mark(p)
      <3>1. "ok" \in Outcomes
        BY DEF Outcomes
      <3> QED
        BY <1>0, <2>2, <3>1, MarkStoreSafe
    <2> QED
      BY <1>0, <1>2, <2>1, <2>2, ClaimSafe, AppendReadSafe, ProbeSafe, WriteSafe,
         MarkStoreSafe DEF Step
  <1>a. ASSUME NEW p \in Providers, Adopt(p) PROVE IndInv'
    BY <1>0, <1>a, QuietStep DEF Adopt, AdoptSerialize, AdoptLand, Keeps, durable, told
  <1>3. CASE (\E r \in Expirable : Expire(r)) \/ UNCHANGED vars
    BY <1>0, <1>3, QuietStep DEF Expire, Keeps, vars, durable, volatile, told
  <1>4. ASSUME NEW a \in Adapters, Crash(a) PROVE IndInv'
    BY <1>0, <1>4, CrashSafe
  <1> QED
    BY <1>1, <1>2, <1>a, <1>3, <1>4 DEF Next

\* The invariant holds in every state of every behaviour.
LEMMA Invariance == Spec => []IndInv
  BY IndInvInit, IndInvStep, PTL DEF Spec

\* No slot is handed out twice, for any number of providers, slots, crashes and
\* rejected writes, as long as the providers share one adapter object or the
\* adapters offer compare-and-swap.
THEOREM SlotSafety == Exclusive => (Spec => []NoSlotReuse)
  <1> SUFFICES ASSUME Exclusive PROVE Spec => []NoSlotReuse
    OBVIOUS
  <1>1. ASSUME IndInv PROVE NoSlotReuse
    <2> SUFFICES ASSUME NEW g \in granted, NEW h \in granted, g.slot = h.slot PROVE g = h
      BY DEF NoSlotReuse
    <2>1. /\ g \in [rid : Rids, slot : Slots] /\ h \in [rid : Rids, slot : Slots]
          /\ HasRecord(g.rid, g.slot) /\ HasRecord(h.rid, h.slot)
      BY <1>1 DEF IndInv, TypeOK, ToldTypeOK, Journalled
    <2>2. g.rid = h.rid
      <3>1. CASE Cas
        BY <3>1, <1>1 DEF IndInv, Claimed
      <3>2. CASE OneLock
        BY <2>1, <3>2, <1>1 DEF IndInv, ReservedOnce, HasRecord
      <3> QED
        BY <3>1, <3>2 DEF Exclusive
    <2> QED
      BY <2>1, <2>2
  <1> QED
    BY <1>1, Invariance, PTL

\* Providers on one adapter object never fork the journal.
THEOREM LinearJournal == OneLock => (Spec => []JournalLinear)
  <1> SUFFICES ASSUME OneLock PROVE Spec => []JournalLinear
    OBVIOUS
  <1>1. IndInv => JournalLinear
    BY DEF IndInv, Linear
  <1> QED
    BY <1>1, Invariance, PTL

\* A commit that returned is recorded for ever, on any adapters.
THEOREM CommitDurability == Spec => []CommitDurable
  <1>1. IndInv => CommitDurable
    BY DEF IndInv, Journalled
  <1> QED
    BY <1>1, Invariance, PTL
==============================================================================
