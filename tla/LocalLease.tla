----------------------------- MODULE LocalLease -----------------------------
(****************************************************************************)
(* LocalLeaseProvider (packages/wots-lease/src/local.ts): hands out one-    *)
(* time WOTS key slots so that no slot is ever used for two signatures.     *)
(*                                                                          *)
(* Several providers may be opened over the same durable medium.  Each      *)
(* keeps in memory the journal, the watermark and the leases as it last     *)
(* read or wrote them; the medium holds the journal records (one key per    *)
(* record), the watermark and the lease list (one key each, always          *)
(* overwritten whole), and, on adapters with compare-and-swap, one claim    *)
(* key per slot.  One step here is the code between two awaits; every       *)
(* awaited write may be rejected, with or without its effect on the medium, *)
(* and the process that holds an adapter may crash at any point.            *)
(*                                                                          *)
(* An operation under the provider's mutation lock is a job: it claims the  *)
(* slot, appends a journal record (read, probe, write), marks the slot and  *)
(* stores the lease, skipping the steps that do not apply to it.  The       *)
(* adoption of a remote cursor runs beside it.  Both change the memory      *)
(* first; an image of it, taken then or later, lands on the medium in       *)
(* another step, and nothing orders two images that are under way           *)
(* (FileStore.set).                                                         *)
(****************************************************************************)
EXTENDS Watermark

CONSTANTS
  Providers,       \* LocalLeaseProvider instances over the medium
  Adapters,        \* StorageAdapter objects: one per process that opens it
  AdapterOf,       \* the adapter each provider was built on
  Cas,             \* TRUE iff the adapters expose conditionalUpdate
  Rids,            \* reservation ids (bound on the reservations made)
  Txs,             \* transaction ids a caller may commit with
  Ranges,          \* the slot ranges callers' device ids confine them to
  Calls,           \* the operations callers use in an instance
  Expirable,       \* the reservations whose TTL may pass in an instance
  Settled,         \* reservations that callers commit or burn
  RemoteCursors,   \* cursors learned from peers
  SeedCursors,     \* cursors of the seeds an operator restores
  LegacyLeases,    \* lease lists an older release may have left
  LegacyMarks,     \* what migrateToV3 makes of the watermarks it may have left
  MaxCrashes,      \* bound on process crashes
  MaxFaults,       \* bound on rejected writes
  Torn,            \* TRUE iff a rejected write may have taken effect
  NoRid, NoTx, NoProvider

Statuses == {"reserved", "committed", "burned", "reserved-expired"}
LeaseStatuses == {"active", "finalized", "cancelled", "expired"}
Leases == [slot : Slots, status : LeaseStatuses \cup {"none"}, tree : BOOLEAN]
NoLease == [slot |-> 0, status |-> "none", tree |-> FALSE]

ASSUME ProviderAssumption ==
  /\ AdapterOf \in [Providers -> Adapters]
  /\ NoProvider \notin Providers
  /\ NoRid \notin Rids
  /\ NoTx \notin Txs

ASSUME ParameterAssumption ==
  /\ Cas \in BOOLEAN
  /\ Torn \in BOOLEAN
  /\ Ranges \subseteq SUBSET Slots
  /\ RemoteCursors \subseteq Slots /\ SeedCursors \subseteq Slots
  /\ Calls \subseteq {"reserve", "specific", "commit", "burn", "advance", "seed"}
  /\ Expirable \subseteq Rids /\ Settled \subseteq Rids
  /\ LegacyLeases \subseteq [Rids -> Leases]
  /\ LegacyMarks \subseteq Watermarks
  /\ MaxCrashes \in Nat
  /\ MaxFaults \in Nat

VARIABLES
  \* the durable medium
  journal,    \* records of LeaseJournal, a set because the keys are one per record
  wm,         \* totem_wots_watermark, as migrateToV3 reads it
  migrated,   \* TRUE iff wm was stored in format v3
  leases,     \* the stored lease list of LeaseStore
  claims,     \* totem_wots_claim:<tree>:<slot>
  \* one provider's memory
  jview,      \* LeaseJournal.entries
  wview,      \* WotsWatermarkStore.state
  lview,      \* LeaseStore.leases
  stage,      \* how far initialize() has come, "ready" when it is done
  work,       \* what the running loop of initialize() still has to visit
  job,        \* the operation running under the mutation lock
  image,      \* the watermark that the job's persist has serialized
  adoption,   \* advanceToRemoteWatermark under way: one at a time, and its image
  \* one process
  lock,       \* holder of the journal lock of an adapter object
  \* time, and bounds
  elapsed,    \* reservations whose TTL has passed
  crashes, faults,
  \* what callers were told
  granted,    \* reservations returned by reserveKeyUse
  acked,      \* commits that returned
  floor       \* the cursor each process adopted last, 0 after its start

durable  == <<journal, wm, migrated, leases, claims>>
persists == <<image, adoption>>
volatile == <<jview, wview, lview, stage, work, job, persists, lock>>
told     == <<granted, acked, floor>>
vars     == <<durable, volatile, elapsed, crashes, faults, told>>

Records == [seq : Nat, slot : Slots, status : Statuses, rid : Rids,
            tx : Txs \cup {NoTx}, by : Providers]

Stages == {"down", "watermark", "migrate", "leases", "cleanup",
           "slots", "orphans", "reconcile", "expired", "treeless", "ready"}

Jobs == [goal : {"none", "recover", "reserve", "commit", "burn", "seed"},
         pc : {"idle", "claim", "append", "probe", "write", "mark", "persist", "store"},
         rid : Rids \cup {NoRid}, slot : Slots, status : Statuses,
         tx : Txs \cup {NoTx}, lease : LeaseStatuses \cup {"none"}]

Idle == [goal |-> "none", pc |-> "idle", rid |-> NoRid, slot |-> 0,
         status |-> "reserved", tx |-> NoTx, lease |-> "none"]

Adoptions == [pc : {"idle", "persist"}, image : Watermarks]
NoAdoption == [pc |-> "idle", image |-> emptyTree]

------------------------------------------------------------------------------
(* LeaseJournal: what a reader sees. *)

\* readPhysicalRecords throws on two records with one sequence number.
Forked(J) == \E r, s \in J : r # s /\ r.seq = s.seq

Recorded(J, s) == \E r \in J : r.slot = s
Of(J, rid) == {r \in J : r.rid = rid}

\* getByReservation: the last record of a reservation.
Last(J, rid) == {r \in Of(J, rid) : \A s \in Of(J, rid) : s.seq <= r.seq}
LatestIs(J, rid, st) == \E r \in Last(J, rid) : r.status = st
LatestStatus(J, rid) ==
  IF \E st \in Statuses : LatestIs(J, rid, st)
  THEN CHOOSE st \in Statuses : LatestIs(J, rid, st)
  ELSE "none"

BugAnySlot(J, e) ==
  e.status = "reserved" \/ LatestStatus(J, e.rid) \in {"none", "reserved"}
BugAfterFinal(J, e) == e.status = "reserved" => ~Recorded(J, e.slot)

\* appendOne: the slot of a new reservation must be unrecorded; a reservation
\* moves once, from reserved to one final status.
AppendAllowed(J, e) ==
  IF e.status = "reserved"
  THEN ~Recorded(J, e.slot)
  ELSE LatestStatus(J, e.rid) \in {"none", "reserved"}

BugAnyTransaction(J, e) ==
  /\ e.status # "reserved"
  /\ \E r \in Last(J, e.rid) : r.status = e.status /\ r.slot = e.slot

\* appendOne: the same final status again, for the same use, is a no-op.
AppendIdempotent(J, e) ==
  /\ e.status # "reserved"
  /\ \E r \in Last(J, e.rid) : /\ r.status = e.status /\ r.slot = e.slot
                               /\ e.status = "committed" => r.tx = e.tx

------------------------------------------------------------------------------
(* Jobs. *)

Busy(p) == job[p].pc # "idle"
Ready(p) == stage[p] = "ready" /\ ~Busy(p)

\* A rejected write: at most MaxFaults of them, torn only where allowed.
Outcomes == {"ok", "lost", "torn"}
Happens(o) ==
  /\ o = "torn" => Torn
  /\ o # "ok" => faults < MaxFaults
  /\ faults' = IF o = "ok" THEN faults ELSE faults + 1
Written(o) == o # "lost"

BugTrustsWatermark(p, J) ==
  /\ stage' = [stage EXCEPT ![p] = "slots"]
  /\ work' = [work EXCEPT ![p] = {}]

\* The loops of initialize() begin with the slots the journal records.
EnterLoops(p, J) ==
  /\ stage' = [stage EXCEPT ![p] = "slots"]
  /\ work' = [work EXCEPT ![p] = {r.slot : r \in J}]

\* Loops of initialize() restart from the top when one of their steps throws:
\* initialize() is called again, and the stores that are loaded stay loaded.
Abandon(p, J) ==
  /\ job' = [job EXCEPT ![p] = Idle]
  /\ IF stage[p] = "ready"
     THEN UNCHANGED <<stage, work>>
     ELSE EnterLoops(p, J)
  /\ UNCHANGED told

\* The operation returns to its caller.
Return(p) ==
  LET j == job[p] IN
  /\ job' = [job EXCEPT ![p] = Idle]
  /\ granted' = IF j.goal = "reserve"
                THEN granted \cup {[rid |-> j.rid, slot |-> j.slot]} ELSE granted
  /\ acked' = IF j.goal = "commit"
              THEN acked \cup {[rid |-> j.rid, tx |-> j.tx]} ELSE acked
  /\ UNCHANGED <<stage, work, floor>>

Goto(p, pc) ==
  /\ job' = [job EXCEPT ![p].pc = pc]
  /\ UNCHANGED <<stage, work, told>>

BugClaimsTaken(p, o) ==
  LET j == job[p] IN
  /\ j.pc = "claim" /\ Happens(o)
  /\ claims' = IF Written(o) THEN [claims EXCEPT ![j.slot] = j.rid] ELSE claims
  /\ UNCHANGED jview
  /\ IF o = "ok" THEN Goto(p, "append") ELSE Abandon(p, jview[p])
  /\ UNCHANGED <<journal, wm, migrated, leases, wview, lview, persists, lock, elapsed,
                 crashes>>

\* conditionalUpdate on the claim key: applied only when the slot is unclaimed.
Claim(p, o) ==
  LET j == job[p]
      free == claims[j.slot] = NoRid
  IN /\ j.pc = "claim" /\ Happens(o)
     /\ ~free => o = "ok"
     /\ claims' = IF free /\ Written(o) THEN [claims EXCEPT ![j.slot] = j.rid]
                                        ELSE claims
     /\ UNCHANGED jview
     /\ IF free /\ o = "ok" THEN Goto(p, "append") ELSE Abandon(p, jview[p])
     /\ UNCHANGED <<journal, wm, migrated, leases, wview, lview, persists, lock,
                    elapsed, crashes>>

BugNoLock(p) ==
  /\ job[p].pc = "append"
  /\ jview' = [jview EXCEPT ![p] = journal]
  /\ IF AppendAllowed(journal, job[p]) THEN Goto(p, "probe") ELSE Abandon(p, journal)
  /\ UNCHANGED <<durable, lock, wview, lview, persists, elapsed, crashes, faults>>

BugKeepsStaleView(p) ==
  LET j == job[p]
      a == AdapterOf[p]
  IN /\ j.pc = "append" /\ lock[a] = NoProvider
     /\ IF ~Forked(journal) /\ AppendAllowed(journal, j)
        THEN /\ jview' = [jview EXCEPT ![p] = journal]
             /\ lock' = [lock EXCEPT ![a] = p] /\ Goto(p, "probe")
        ELSE UNCHANGED <<jview, lock>> /\ Abandon(p, jview[p])
     /\ UNCHANGED <<durable, wview, lview, persists, elapsed, crashes, faults>>

\* appendOne takes the adapter's lock, re-reads the records and decides.
AppendRead(p) ==
  LET j == job[p]
      a == AdapterOf[p]
  IN /\ j.pc = "append" /\ lock[a] = NoProvider
     /\ IF Forked(journal)
        THEN UNCHANGED <<jview, lock>> /\ Abandon(p, jview[p])
        ELSE /\ jview' = [jview EXCEPT ![p] = journal]
             /\ IF AppendAllowed(journal, j)
                THEN lock' = [lock EXCEPT ![a] = p] /\ Goto(p, "probe")
                ELSE /\ UNCHANGED lock
                     /\ IF AppendIdempotent(journal, j) THEN Goto(p, "mark")
                                                        ELSE Abandon(p, journal)
     /\ UNCHANGED <<durable, wview, lview, persists, elapsed, crashes, faults>>

\* appendOne: the next sequence number must not have been written meanwhile.
Probe(p) ==
  /\ job[p].pc = "probe"
  /\ IF \E r \in journal : r.seq = Cardinality(jview[p])
     THEN /\ lock' = [lock EXCEPT ![AdapterOf[p]] = NoProvider]
          /\ UNCHANGED jview
          /\ Abandon(p, jview[p])
     ELSE UNCHANGED <<jview, lock>> /\ Goto(p, "write")
  /\ UNCHANGED <<durable, wview, lview, persists, elapsed, crashes, faults>>

RecordOf(p) ==
  [seq |-> Cardinality(jview[p]), slot |-> job[p].slot, status |-> job[p].status,
   rid |-> job[p].rid, tx |-> job[p].tx, by |-> p]

BugIgnoresReject(p, o) ==
  /\ job[p].pc = "write" /\ Happens(o)
  /\ journal' = IF Written(o) THEN journal \cup {RecordOf(p)} ELSE journal
  /\ jview' = [jview EXCEPT ![p] = @ \cup {RecordOf(p)}]
  /\ lock' = [lock EXCEPT ![AdapterOf[p]] = NoProvider]
  /\ Goto(p, "mark")
  /\ UNCHANGED <<wm, migrated, leases, claims, wview, lview, persists, elapsed, crashes>>

\* writeRecord, and the release of the lock.
Write(p, o) ==
  /\ job[p].pc = "write" /\ Happens(o)
  /\ journal' = IF Written(o) THEN journal \cup {RecordOf(p)} ELSE journal
  /\ jview' = IF o = "ok" THEN [jview EXCEPT ![p] = @ \cup {RecordOf(p)}] ELSE jview
  /\ lock' = [lock EXCEPT ![AdapterOf[p]] = NoProvider]
  /\ IF o = "ok" THEN Goto(p, "mark") ELSE Abandon(p, jview[p])
  /\ UNCHANGED <<wm, migrated, leases, claims, wview, lview, persists, elapsed, crashes>>

\* markUnavailable changes the memory first and then persists all of it.
Mark(p) ==
  /\ job[p].pc = "mark"
  /\ wview' = [wview EXCEPT ![p] = markUnavailable(@, job[p].slot)]
  /\ image' = [image EXCEPT ![p] = wview'[p]]
  /\ Goto(p, "persist")
  /\ UNCHANGED <<durable, jview, lview, adoption, lock, elapsed, crashes, faults>>

\* An adapter may serialize the state it was handed late: FileStore.set does so after
\* mkdir and open, and writes what an adoption has changed meanwhile.
Serialize(p) ==
  /\ job[p].pc = "persist" /\ image[p] # wview[p]
  /\ image' = [image EXCEPT ![p] = wview[p]]
  /\ UNCHANGED <<durable, jview, wview, lview, stage, work, job, adoption, lock, elapsed,
                 crashes, faults, told>>

\* The rename: the image replaces what is on the medium, older or newer.
Land(p, o) ==
  /\ job[p].pc = "persist" /\ Happens(o)
  /\ wm' = IF Written(o) THEN image[p] ELSE wm
  /\ image' = [image EXCEPT ![p] = emptyTree]
  /\ CASE o # "ok" -> Abandon(p, jview[p])
       [] o = "ok" /\ job[p].lease = "none" -> Return(p)
       [] o = "ok" /\ job[p].lease # "none" -> Goto(p, "store")
  /\ UNCHANGED <<journal, migrated, leases, claims, jview, wview, lview, adoption, lock,
                 elapsed, crashes>>

\* LeaseStore.save and updateStatus: the whole list is written, and the memory
\* is rolled back when that fails.
Store(p, o) ==
  LET j == job[p]
      lease == IF j.lease = "active"
               THEN [slot |-> j.slot, status |-> "active", tree |-> TRUE]
               ELSE [lview[p][j.rid] EXCEPT !.status = j.lease]
      list == [lview[p] EXCEPT ![j.rid] = lease]
  IN /\ j.pc = "store" /\ Happens(o)
     /\ leases' = IF Written(o) THEN list ELSE leases
     /\ lview' = IF o = "ok" THEN [lview EXCEPT ![p] = list] ELSE lview
     /\ UNCHANGED jview
     /\ IF o = "ok" THEN Return(p) ELSE Abandon(p, jview[p])
     /\ UNCHANGED <<journal, wm, migrated, claims, wview, persists, lock, elapsed,
                    crashes>>

Step(p) ==
  \/ AppendRead(p)
  \/ Probe(p)
  \/ Mark(p)
  \/ Serialize(p)
  \/ \E o \in Outcomes : Claim(p, o) \/ Write(p, o) \/ Land(p, o) \/ Store(p, o)

------------------------------------------------------------------------------
(* initialize(): load the three stores, then rebuild the no-reuse state. *)

InitStep(p) == UNCHANGED <<elapsed, crashes, told, persists, lock>>

\* A provider is constructed and its first operation calls initialize().
\* LeaseJournal.initialize reads the records under the adapter's lock; on a
\* fork it throws, and so does every later call.
Open(p) ==
  /\ stage[p] = "down" /\ lock[AdapterOf[p]] = NoProvider
  /\ IF Forked(journal)
     THEN UNCHANGED <<jview, stage>>
     ELSE /\ jview' = [jview EXCEPT ![p] = journal]
          /\ stage' = [stage EXCEPT ![p] = "watermark"]
  /\ InitStep(p)
  /\ UNCHANGED <<durable, wview, lview, work, job, faults>>

\* WotsWatermarkStore.initialize: a state in an older format, or none, is
\* written back as v3 in a second step.
LoadWatermark(p) ==
  /\ stage[p] = "watermark"
  /\ wview' = [wview EXCEPT ![p] = wm]
  /\ stage' = [stage EXCEPT ![p] = IF migrated THEN "leases" ELSE "migrate"]
  /\ InitStep(p)
  /\ UNCHANGED <<durable, jview, lview, work, job, faults>>

Migrate(p, o) ==
  /\ stage[p] = "migrate" /\ Happens(o)
  /\ IF Written(o) THEN wm' = wview[p] /\ migrated' = TRUE
                   ELSE UNCHANGED <<wm, migrated>>
  /\ stage' = [stage EXCEPT ![p] = IF o = "ok" THEN "leases" ELSE "watermark"]
  /\ InitStep(p)
  /\ UNCHANGED <<journal, leases, claims, jview, wview, lview, work, job>>

\* LeaseStore.initialize loads the list; active leases past their TTL become
\* expired in a second write (cleanupExpired).
Overdue(L) == {r \in Rids : L[r].status = "active" /\ r \in elapsed}

LoadLeases(p) ==
  /\ stage[p] = "leases"
  /\ lview' = [lview EXCEPT ![p] = leases]
  /\ IF Overdue(leases) # {}
     THEN stage' = [stage EXCEPT ![p] = "cleanup"] /\ UNCHANGED work
     ELSE EnterLoops(p, jview[p])
  /\ InitStep(p)
  /\ UNCHANGED <<durable, jview, wview, job, faults>>

CleanupExpired(p, o) ==
  LET late == Overdue(lview[p])
      list == [r \in Rids |-> IF r \in late THEN [lview[p][r] EXCEPT !.status = "expired"]
                                            ELSE lview[p][r]]
  IN /\ stage[p] = "cleanup" /\ Happens(o)
     /\ leases' = IF Written(o) THEN list ELSE leases
     /\ lview' = IF o = "ok" THEN [lview EXCEPT ![p] = list] ELSE lview
     /\ IF o = "ok" THEN EnterLoops(p, jview[p])
                    ELSE stage' = [stage EXCEPT ![p] = "leases"] /\ UNCHANGED work
     /\ InitStep(p)
     /\ UNCHANGED <<journal, wm, migrated, claims, jview, wview, job>>

\* What a loop visits: the recorded slots, reservations without a lease, every
\* lease, leases past their TTL, active leases of releases without tree ids.
Held(p) == {r \in Rids : lview[p][r].status # "none"}

LoopWork(p, st) ==
  CASE st = "orphans" ->
         {e \in jview[p] : /\ e.rid \notin Held(p) /\ e.status = "reserved"
                           /\ e \in Last(jview[p], e.rid)}
    [] st = "reconcile" -> Held(p)
    [] st = "expired" ->
         {r \in Held(p) : lview[p][r].status = "expired"} \cup Overdue(lview[p])
    [] st = "treeless" ->
         {r \in Held(p) \ elapsed : lview[p][r].status = "active" /\ ~lview[p][r].tree}
    [] OTHER -> {}

Loops == [i \in 1 .. 5 |-> CASE i = 1 -> "slots" [] i = 2 -> "orphans" [] i = 3 -> "reconcile"
                            [] i = 4 -> "expired" [] i = 5 -> "treeless"]
Items(st) == IF st = "slots" THEN Slots ELSE IF st = "orphans" THEN Records ELSE Rids
InLoop(p) == \E i \in 1 .. 5 : stage[p] = Loops[i]

\* The loops run in order; one with nothing to visit awaits nothing.
NextStage(p) ==
  LET next == {i \in 1 .. 5 : /\ \E j \in 1 .. i - 1 : stage[p] = Loops[j]
                             /\ LoopWork(p, Loops[i]) # {}}
  IN IF next = {} THEN "ready"
     ELSE Loops[CHOOSE i \in next : \A j \in next : i <= j]

EndLoop(p) ==
  /\ InLoop(p) /\ ~Busy(p) /\ work[p] = {}
  /\ stage' = [stage EXCEPT ![p] = NextStage(p)]
  /\ work' = [work EXCEPT ![p] = LoopWork(p, NextStage(p))]
  /\ InitStep(p)
  /\ UNCHANGED <<durable, jview, wview, lview, job, faults>>

Recover(pc, rid, slot, status, lease) ==
  [goal |-> "recover", pc |-> pc, rid |-> rid, slot |-> slot, status |-> status,
   tx |-> NoTx, lease |-> lease]

JournalStatus(ls) ==
  CASE ls = "finalized" -> "committed"
    [] ls = "cancelled" -> "burned"
    [] ls = "expired" -> "reserved-expired"
    [] OTHER -> "reserved"

LeaseStatus(js) ==
  CASE js = "committed" -> "finalized"
    [] js = "burned" -> "cancelled"
    [] js = "reserved-expired" -> "expired"
    [] OTHER -> "active"

BugTrustsLease(p, r) ==
  LET l == lview[p][r]
      js == LatestStatus(jview[p], r)
  IN IF js \notin {"none", "reserved"} /\ l.status = "active"
     THEN Recover("store", r, l.slot, js, LeaseStatus(js)) ELSE Idle

\* The job for one item of a loop; Idle when there is nothing to do for it.
\* A lease is brought in line with a journal that is ahead of it, and the
\* journal with a lease that is ahead of the journal.
ReconcileJob(p, r) ==
  LET l == lview[p][r]
      js == LatestStatus(jview[p], r)
  IN CASE js = "none" -> Recover("append", r, l.slot, JournalStatus(l.status), "none")
       [] js \notin {"none", "reserved"} /\ l.status # LeaseStatus(js) ->
            Recover("store", r, l.slot, js, LeaseStatus(js))
       [] js = "reserved" /\ l.status \in {"finalized", "cancelled"} ->
            Recover("append", r, l.slot, JournalStatus(l.status), "none")
       [] OTHER -> Idle

RecoverJob(p, x) ==
  LET L == lview[p]
      js == LatestStatus(jview[p], x)
  IN CASE stage[p] = "slots" -> Recover("mark", NoRid, x, "reserved", "none")
       [] stage[p] = "orphans" ->
            Recover("append", x.rid, x.slot, "burned", "none")
       [] stage[p] = "reconcile" -> ReconcileJob(p, x)
       [] stage[p] = "expired" ->
            Recover(IF js = "reserved-expired" THEN "mark" ELSE "append", x, L[x].slot,
                    "reserved-expired", IF L[x].status = "expired" THEN "none" ELSE "expired")
       [] OTHER ->  \* "treeless"
            Recover(IF js = "burned" THEN "mark" ELSE "append", x, L[x].slot,
                    "burned", "cancelled")

\* A loop visits its items one by one, here in any order (the code's loops follow
\* the order of the records and of the lease list).
Visit(p) ==
  /\ InLoop(p) /\ ~Busy(p)
  /\ \E x \in work[p] :
       /\ job' = [job EXCEPT ![p] = RecoverJob(p, x)]
       /\ work' = [work EXCEPT ![p] = @ \ {x}]
  /\ InitStep(p)
  /\ UNCHANGED <<durable, jview, wview, lview, stage, faults>>

Initialize(p) ==
  \/ LoadWatermark(p)
  \/ LoadLeases(p)
  \/ EndLoop(p)
  \/ Visit(p)
  \/ \E o \in Outcomes : Migrate(p, o) \/ CleanupExpired(p, o)

------------------------------------------------------------------------------
(* The operations a caller invokes on an initialized provider. *)

\* A new reservation id is one that nothing has ever stored or returned.
InUse(r) ==
  \/ Of(journal, r) # {}
  \/ leases[r].status # "none"
  \/ \E s \in Slots : claims[s] = r
  \/ \E g \in granted : g.rid = r
  \/ \E p \in Providers : job[p].rid = r \/ lview[p][r].status # "none"

\* refresh(): the provider merges the stored watermark into its own.
Refreshed(p) == mergeWatermarkState(wview[p], wm)
Refresh(p) == wview' = [wview EXCEPT ![p] = Refreshed(p)]

Accept(p, j) ==
  /\ job' = [job EXCEPT ![p] = j]
  /\ UNCHANGED <<durable, jview, lview, stage, work, persists, lock, crashes, faults, told>>

\* reserveSpecificKeyUseUnlocked up to its first await.
reserveSpecificKeyUse(p, s, range) ==
  /\ Ready(p) /\ Refresh(p)
  /\ ~isUnavailable(Refreshed(p), s)
  /\ s \in range
  /\ \E r \in Rids :
       /\ ~InUse(r)
       /\ elapsed' = elapsed \ {r}
       /\ Accept(p, [goal |-> "reserve", pc |-> IF Cas THEN "claim" ELSE "append",
                     rid |-> r, slot |-> s, status |-> "reserved", tx |-> NoTx,
                     lease |-> "active"])

reserveKeyUse(p, range) ==
  /\ ~Exhausted(Refreshed(p))
  /\ reserveSpecificKeyUse(p, getNextIndices(Refreshed(p)), range)

\* commitKeyUse and burnReservation: repeating a finished one re-marks the slot
\* and repairs the lease; a final status never changes into the other.
Settle(p, r, goal, status, tx) ==
  LET l == lview[p][r]
      js == LatestStatus(jview[p], r)
      done == js = status
      final == LeaseStatus(status)
  IN /\ Ready(p) /\ Refresh(p)
     /\ l.status # "none"
     /\ IF done
        THEN status = "committed" =>
               \E e \in Last(jview[p], r) : e.status = "committed" /\ e.tx = tx
        ELSE /\ js \in {"none", "reserved"}
             /\ l.status \in {"active", final}
     /\ UNCHANGED elapsed
     /\ Accept(p, [goal |-> goal, pc |-> IF done THEN "mark" ELSE "append",
                   rid |-> r, slot |-> l.slot, status |-> status, tx |-> tx,
                   lease |-> IF done /\ l.status = final THEN "none" ELSE final])

commitKeyUse(p, r, tx) == Settle(p, r, "commit", "committed", tx)
burnReservation(p, r) == Settle(p, r, "burn", "burned", NoTx)

\* Any call that is refused has still refreshed the watermark.
RefusedCall(p) ==
  /\ Ready(p) /\ Refresh(p)
  /\ UNCHANGED <<durable, jview, lview, stage, work, job, persists, lock, elapsed,
                 crashes, faults, told>>

\* advanceToRemoteWatermark runs outside the mutation lock: it compares with the
\* provider's memory, changes it and persists all of it.
advanceToRemoteWatermark(p, c) ==
  /\ stage[p] = "ready" /\ adoption[p].pc = "idle"
  /\ c > wview[p].cursor
  /\ wview' = [wview EXCEPT ![p] = saveCursor(@, c)]
  /\ floor' = [floor EXCEPT ![p] = c]
  /\ adoption' = [adoption EXCEPT ![p] = [pc |-> "persist", image |-> wview'[p]]]
  /\ UNCHANGED <<durable, jview, lview, stage, work, job, image, lock, elapsed, crashes,
                 faults, granted, acked>>

AdoptSerialize(p) ==
  /\ adoption[p].pc = "persist" /\ adoption[p].image # wview[p]
  /\ adoption' = [adoption EXCEPT ![p].image = wview[p]]
  /\ UNCHANGED <<durable, jview, wview, lview, stage, work, job, image, lock, elapsed,
                 crashes, faults, told>>

AdoptLand(p, o) ==
  /\ adoption[p].pc = "persist" /\ Happens(o)
  /\ wm' = IF Written(o) THEN adoption[p].image ELSE wm
  /\ adoption' = [adoption EXCEPT ![p] = NoAdoption]
  /\ UNCHANGED <<journal, migrated, leases, claims, jview, wview, lview, stage, work, job,
                 image, lock, elapsed, crashes, told>>

\* seedWatermark, under the mutation lock.  Allowing regression is the
\* operator's decision to go back to the seed's cursor.
seedWatermark(p, c, regress) ==
  /\ Ready(p)
  /\ seedAllowed(Refreshed(p), c, regress)
  /\ wview' = [wview EXCEPT ![p] = seed(Refreshed(p), c, {})]
  /\ floor' = [floor EXCEPT ![p] = c]
  /\ job' = [job EXCEPT ![p] = [goal |-> "seed", pc |-> "persist", rid |-> NoRid, slot |-> c,
                               status |-> "reserved", tx |-> NoTx, lease |-> "none"]]
  /\ image' = [image EXCEPT ![p] = wview'[p]]
  /\ UNCHANGED <<durable, jview, lview, stage, work, adoption, lock, elapsed, crashes,
                 faults, granted, acked>>

------------------------------------------------------------------------------
(* The environment. *)

\* The TTL of a reservation passes.
Expire(r) ==
  /\ InUse(r) /\ r \notin elapsed
  /\ elapsed' = elapsed \cup {r}
  /\ UNCHANGED <<durable, volatile, crashes, faults, told>>

\* The process that holds adapter a dies with every provider built on it.
Crash(a) ==
  LET dead == {p \in Providers : AdapterOf[p] = a}
      Lose(f, empty) == [p \in Providers |-> IF p \in dead THEN empty ELSE f[p]]
  IN /\ crashes < MaxCrashes
     /\ \E p \in dead : stage[p] # "down"
     /\ crashes' = crashes + 1
     /\ jview' = Lose(jview, {})
     /\ wview' = Lose(wview, emptyTree)
     /\ lview' = Lose(lview, [r \in Rids |-> NoLease])
     /\ stage' = Lose(stage, "down")
     /\ work' = Lose(work, {})
     /\ job' = Lose(job, Idle)
     /\ image' = Lose(image, emptyTree)
     /\ adoption' = Lose(adoption, NoAdoption)
     /\ floor' = Lose(floor, 0)
     /\ lock' = [lock EXCEPT ![a] = NoProvider]
     /\ UNCHANGED <<durable, elapsed, faults, granted, acked>>

Init ==
  /\ journal = {} /\ migrated = FALSE
  /\ wm \in LegacyMarks
  /\ leases \in LegacyLeases
  /\ claims = [s \in Slots |-> NoRid]
  /\ jview = [p \in Providers |-> {}]
  /\ wview = [p \in Providers |-> emptyTree]
  /\ lview = [p \in Providers |-> [r \in Rids |-> NoLease]]
  /\ stage = [p \in Providers |-> "down"]
  /\ work = [p \in Providers |-> {}]
  /\ job = [p \in Providers |-> Idle]
  /\ image = [p \in Providers |-> emptyTree]
  /\ adoption = [p \in Providers |-> NoAdoption]
  /\ lock = [a \in Adapters |-> NoProvider]
  /\ elapsed = {} /\ crashes = 0 /\ faults = 0
  /\ granted = {} /\ acked = {} /\ floor = [p \in Providers |-> 0]

Call(p) ==
  \/ \E range \in Ranges :
       \/ "reserve" \in Calls /\ reserveKeyUse(p, range)
       \/ "specific" \in Calls /\ \E s \in Slots : reserveSpecificKeyUse(p, s, range)
  \/ \E r \in Rids :
       /\ r \in Settled
       /\ \/ "commit" \in Calls /\ \E tx \in Txs : commitKeyUse(p, r, tx)
          \/ "burn" \in Calls /\ burnReservation(p, r)
  \/ "advance" \in Calls /\ \E c \in RemoteCursors : advanceToRemoteWatermark(p, c)
  \/ "seed" \in Calls /\ \E c \in SeedCursors, regress \in BOOLEAN :
                            seedWatermark(p, c, regress)
  \/ RefusedCall(p)

Adopt(p) == AdoptSerialize(p) \/ \E o \in Outcomes : AdoptLand(p, o)

Next ==
  \/ \E p \in Providers : Open(p) \/ Initialize(p) \/ Step(p) \/ Adopt(p) \/ Call(p)
  \/ \E r \in Expirable : Expire(r)
  \/ \E a \in Adapters : Crash(a)

Spec == Init /\ [][Next]_vars

\* Promises of one provider resolve, the journal lock is granted in FIFO order,
\* a dead provider is opened again and its caller keeps asking for slots.
Fairness ==
  \A p \in Providers :
    /\ WF_vars(Open(p) \/ Initialize(p))
    /\ WF_vars(Step(p))
    /\ SF_vars(AppendRead(p))
    /\ SF_vars(\E range \in Ranges : reserveKeyUse(p, range))

FairSpec == Spec /\ Fairness

------------------------------------------------------------------------------
(* Correctness. *)

MediumTypeOK ==
  /\ journal \subseteq Records /\ IsFiniteSet(journal)
  /\ wm \in Watermarks
  /\ migrated \in BOOLEAN
  /\ leases \in [Rids -> Leases]
  /\ claims \in [Slots -> Rids \cup {NoRid}]

ViewTypeOK ==
  /\ jview \in [Providers -> SUBSET Records]
  /\ \A p \in Providers : IsFiniteSet(jview[p])
  /\ wview \in [Providers -> Watermarks]
  /\ lview \in [Providers -> [Rids -> Leases]]
  /\ lock \in [Adapters -> Providers \cup {NoProvider}]

ControlTypeOK ==
  /\ stage \in [Providers -> Stages]
  /\ work = [p \in Providers |-> work[p]]
  /\ \A p \in Providers : work[p] \subseteq Items(stage[p])
  /\ job \in [Providers -> Jobs]

PersistTypeOK ==
  /\ image \in [Providers -> Watermarks]
  /\ adoption \in [Providers -> Adoptions]

ToldTypeOK ==
  /\ granted \subseteq [rid : Rids, slot : Slots]
  /\ acked \subseteq [rid : Rids, tx : Txs]
  /\ floor \in [Providers -> Slots]

BoundsTypeOK ==
  /\ elapsed \subseteq Rids
  /\ crashes \in 0 .. MaxCrashes
  /\ faults \in 0 .. MaxFaults

\* Every variable has its type; what a recovery loop visits fits its stage.
TypeOK ==
  /\ MediumTypeOK /\ ViewTypeOK /\ ControlTypeOK /\ PersistTypeOK
  /\ ToldTypeOK /\ BoundsTypeOK

\* Providers exclude each other in the journal (one adapter object, hence one
\* lock) or by the claim keys.
OneLock == \A p, q \in Providers : AdapterOf[p] = AdapterOf[q]
Exclusive == Cas \/ OneLock

\* No two reservations handed to callers name the same WOTS slot, whatever
\* providers, crashes and rejected writes are involved (reserveKeyUse,
\* reserveSpecificKeyUse; a second signature under one slot reveals the key).
NoSlotReuse == \A g, h \in granted : g.slot = h.slot => g = h

\* A reservation reaches at most one final status in a readable journal: the
\* recovery of one provider and a commit or burn of another never both win
\* (LeaseJournal.appendOne under the adapter's lock).
OneOutcome ==
  ~Forked(journal) =>
    \A r, s \in journal :
      /\ r.rid = s.rid
      /\ r.status # "reserved" /\ s.status # "reserved"
      => r = s

\* A commit that returned stays recorded, with the transaction it was given,
\* through every crash and recovery (commitKeyUse).
CommitDurable ==
  \A c \in acked : \E r \in journal :
    r.rid = c.rid /\ r.tx = c.tx /\ r.status = "committed"

\* Providers that share one adapter object never write two records with the
\* same sequence number (withStorageLock, appendOne).
JournalLinear == ~Forked(journal)

Allocator == INSTANCE SlotAllocator

\* Providers on one adapter object implement the allocator callers rely on: a step
\* of a provider hands out a fresh slot under a fresh id, acknowledges the one
\* transaction of a reservation, or tells no caller anything.
ImplementsAllocator == Allocator!Spec

\* A provider's memory and the medium agree with the journal.
Reconciled(p) ==
  /\ \A r \in journal : /\ isUnavailable(wview[p], r.slot)
                         /\ isUnavailable(wm, r.slot)
  /\ \A r \in Rids :
       LET js == LatestStatus(jview[p], r)
           ls == lview[p][r].status
       IN /\ js = "none" => ls = "none"
          /\ js = "reserved" => ls = "active"
          /\ js # "none" /\ ls # "none" => ls = LeaseStatus(js)

\* When initialize() is done, the provider refuses every slot the journal
\* names, in memory and on the medium, and its leases say what the journal
\* says (reconcileDurableSafetyState, recoverExpiredReservations).
RecoveryComplete ==
  [][\A p \in Providers : stage[p] # "ready" /\ stage'[p] = "ready"
                            => Reconciled(p)']_vars

\* A slot that a provider handed out is refused by that provider for ever, through
\* crashes, persists that land in the wrong order or are rejected, regressing seeds and
\* other providers that overwrite the watermark: its memory is rebuilt from the journal
\* and from then on only gains marks (markSlots of initialize, refresh, save, seed).
HandedOut(p, s) ==
  \E g \in granted, r \in journal :
    g.slot = s /\ r.rid = g.rid /\ r.status = "reserved" /\ r.by = p
GrantsRefused ==
  \A p \in Providers, s \in Slots :
    stage[p] = "ready" /\ HandedOut(p, s) => isUnavailable(wview[p], s)

\* A process that adopted a cursor, from a peer or from a seed, starts no reservation
\* below it as long as it lives, although persists under way may take the stored cursor
\* back and every call merges what is stored (advanceToRemoteWatermark, refresh).
AdoptionKept ==
  [][\A p \in Providers :
       job[p].goal # "reserve" /\ job'[p].goal = "reserve" => job'[p].slot >= floor[p]]_vars

\* A provider that is not refused by a fork always gets through initialize():
\* no state that crashes and rejected writes leave behind bricks it.
InitializeCompletes == \A p \in Providers : []<>(stage[p] = "ready")

\* "a crash between claim and journal write leaks a slot (safe direction)"
\* (docs/audits/sdk-audit-remediation-2026-09.md): as long as a caller keeps asking, the
\* other slots of the tree are used up (reserveKeyUse, getNextIndices).
TreeDrains == <>(\A s \in Slots : Recorded(journal, s) \/ claims[s] # NoRid
                                    \/ \A p \in Providers : s < wview[p].cursor)

------------------------------------------------------------------------------
(* The inductive invariant behind the safety properties. *)

Appending(p) == job[p].pc \in {"probe", "write"}
Logged(p) == job[p].pc \in {"mark", "persist", "store"}
HasRecord(rid, slot) ==
  \E r \in journal : r.status = "reserved" /\ r.rid = rid /\ r.slot = slot
HasCommit(rid, tx) ==
  \E r \in journal : r.status = "committed" /\ r.rid = rid /\ r.tx = tx

\* What a job of each operation looks like.
JobsFormed ==
  \A p \in Providers :
    LET j == job[p] IN
    /\ j.goal = "reserve" => j.status = "reserved"
    /\ j.goal = "commit" => j.status = "committed" /\ j.tx \in Txs
    /\ j.goal \in {"reserve", "commit", "burn"} => j.rid \in Rids
    /\ j.pc \notin {"idle", "mark", "persist"} => j.rid \in Rids
    /\ j.lease # "none" => j.rid \in Rids
    /\ j.lease = "none" => j.pc # "store"
    /\ j.pc = "claim" => j.goal = "reserve"
    /\ j.pc = "idle" => j.goal = "none"
    /\ j.pc # "idle" => stage[p] # "down"

\* The lock, and what its holder knows.
LockHeld == \A p \in Providers : Appending(p) => lock[AdapterOf[p]] = p
ViewsKnown == \A p \in Providers : jview[p] \subseteq journal
ViewsFresh == OneLock => \A p \in Providers : Appending(p) => jview[p] = journal
SeqBound == OneLock => \A r \in journal : r.seq < Cardinality(journal)
Linear == OneLock => JournalLinear

\* A slot is recorded as reserved for one reservation only.
Unrecorded ==
  OneLock => \A p \in Providers :
    Appending(p) /\ job[p].status = "reserved" => ~Recorded(journal, job[p].slot)
ReservedOnce ==
  OneLock => \A r, s \in journal :
    r.status = "reserved" /\ s.status = "reserved" /\ r.slot = s.slot => r.rid = s.rid

\* What a caller is told, or is about to be told, is on the medium.
Journalled ==
  /\ \A p \in Providers :
       /\ Logged(p) /\ job[p].goal = "reserve" => HasRecord(job[p].rid, job[p].slot)
       /\ Logged(p) /\ job[p].goal = "commit" => HasCommit(job[p].rid, job[p].tx)
  /\ \A g \in granted : HasRecord(g.rid, g.slot)
  /\ CommitDurable
Claimed ==
  Cas => /\ \A p \in Providers :
              job[p].goal = "reserve" /\ job[p].pc # "claim"
                => claims[job[p].slot] = job[p].rid
         /\ \A g \in granted : claims[g.slot] = g.rid

\* The conjunction that every step preserves; each part is about the journal
\* lock, the claim keys or the order of the writes of one operation.
IndInv ==
  /\ TypeOK /\ JobsFormed
  /\ LockHeld /\ ViewsKnown /\ ViewsFresh /\ SeqBound /\ Linear
  /\ Unrecorded /\ ReservedOnce /\ Journalled /\ Claimed

------------------------------------------------------------------------------
(* The inductive invariant behind OneOutcome and ImplementsAllocator, beside  *)
(* IndInv.                                                                    *)

\* Whatever names a reservation names the same slot.
Names(r, s) ==
  \/ \E e \in journal : e.rid = r /\ e.slot = s
  \/ leases[r].status # "none" /\ leases[r].slot = s
  \/ \E p \in Providers :
       \/ lview[p][r].status # "none" /\ lview[p][r].slot = s
       \/ job[p].rid = r /\ job[p].slot = s
OneName == \A r \in Rids : \A s, t \in Slots : Names(r, s) /\ Names(r, t) => s = t

\* A loop visits records that are on the medium and leases that are held, a job that
\* changes a lease has one to change, and nothing runs before the stores are loaded.
WorkSound(p) ==
  /\ stage[p] = "orphans" => work[p] \subseteq journal
  /\ stage[p] \in {"reconcile", "expired", "treeless"} => work[p] \subseteq Held(p)
  /\ job[p].lease \notin {"none", "active"} => job[p].rid \in Held(p)
  /\ stage[p] \in {"down", "watermark", "migrate", "leases", "cleanup"} => job[p] = Idle
WorkKnown == \A p \in Providers : WorkSound(p)

\* A readable journal has no gap, so a writer that did not see all of it forks it.
Dense ==
  /\ \A r \in journal : r.seq < Cardinality(journal)
  /\ ~Forked(journal) => \A k \in 0 .. Cardinality(journal) - 1 : \E r \in journal : r.seq = k

\* What appendOne decided on the records it read.
Decided == \A p \in Providers : Appending(p) => AppendAllowed(jview[p], job[p])

\* In a readable journal a reservation is recorded once, and settled once after that.
OneStart ==
  ~Forked(journal) =>
    \A r, s \in journal : r.rid = s.rid /\ r.status = "reserved" =>
      (IF s.status = "reserved" THEN r = s ELSE r.seq < s.seq)

OutcomeInv == OneName /\ WorkKnown /\ Dense /\ Decided /\ OneStart /\ OneOutcome

\* A reservation is being made by one job, and was not handed out yet.
GrantFresh ==
  \A p \in Providers : job[p].goal = "reserve" =>
    /\ \A g \in granted : g.rid # job[p].rid
    /\ \A q \in Providers \ {p} : job[q].goal = "reserve" => job[q].rid # job[p].rid

------------------------------------------------------------------------------
(* The inductive invariant behind GrantsRefused and AdoptionKept: what is in   *)
(* memory, whatever the medium holds.                                         *)

Loaded(p) == stage[p] \notin {"down", "watermark", "migrate", "leases", "cleanup"}

\* A record a provider has read, and whose slot it has marked or is about to mark.
MarkDue(p, s) ==
  \/ s \in wview[p].unavailable
  \/ stage[p] = "slots" /\ (s \in work[p] \/ (job[p].pc = "mark" /\ job[p].slot = s))
Known(p, r) == r \in jview[p] /\ (Loaded(p) => MarkDue(p, r.slot))

\* What a provider handed out it knows.
GrantsDue ==
  \A p \in Providers : stage[p] # "down" =>
    \A g \in granted, r \in journal :
      r.rid = g.rid /\ r.status = "reserved" /\ r.by = p => Known(p, r)

\* A reservation that is about to be handed out is marked.
MarkedFirst ==
  \A p \in Providers :
    job[p].goal = "reserve" /\ job[p].pc \in {"persist", "store"} =>
      job[p].slot \in wview[p].unavailable

\* Until then only the job that makes it writes it, and has read what it wrote.
MadeAlone ==
  \A p \in Providers : job[p].goal = "reserve" =>
    /\ leases[job[p].rid].status = "none"
    /\ \A q \in Providers : lview[q][job[p].rid].status = "none"
    /\ \A q \in Providers \ {p} : job[q].rid = job[p].rid => job[q].status # "reserved"
    /\ \A r \in journal : r.rid = job[p].rid /\ r.status = "reserved" =>
         Logged(p) /\ r.by = p /\ r \in jview[p]
ActiveMade == \A p \in Providers : job[p].lease = "active" => job[p].goal = "reserve"

\* A record that says reserved is not written for a reservation already handed out.
RecordFresh ==
  \A p \in Providers : Appending(p) /\ job[p].status = "reserved" =>
    \A g \in granted : g.rid # job[p].rid

FloorHeld == \A p \in Providers : floor[p] > 0 => stage[p] = "ready" /\ floor[p] <= wview[p].cursor

MemoryInv == GrantsDue /\ MarkedFirst /\ MadeAlone /\ ActiveMade /\ RecordFresh /\ FloorHeld

------------------------------------------------------------------------------
(* The inductive invariant behind RecoveryComplete: how far the loops of      *)
(* initialize() have brought the stores into line.  It is about one provider  *)
(* and writes that take effect exactly when they are acknowledged (~Torn).    *)

JournalSays(p, r) == LatestStatus(jview[p], r)
LeaseSays(p, r) == lview[p][r].status

\* A lease and the journal tell the same; or all that is missing is the record of an
\* expiry, which recoverExpiredReservations appends.
Even(ls, js) == ls # "none" => js # "none" /\ ls = LeaseStatus(js)
Close(ls, js) == Even(ls, js) \/ (ls = "expired" /\ js = "reserved")

\* A job of recovery that has not ended.
Visiting(p, r) == Busy(p) /\ job[p].rid = r

\* The first loop marks what the journal names, and every later append marks its slot.
MarksDue(p) ==
  \A e \in journal :
    \/ isUnavailable(wview[p], e.slot) /\ isUnavailable(wm, e.slot)
    \/ stage[p] = "slots" /\ e.slot \in work[p]
    \/ job[p].pc \in {"mark", "persist"} /\ job[p].slot = e.slot

\* The second ends the reservations without a lease.
OrphansDue(p) ==
  /\ stage[p] = "orphans" => \A e \in work[p] : LeaseSays(p, e.rid) = "none"
  /\ \A r \in Rids :
       stage[p] # "slots" /\ JournalSays(p, r) = "reserved" /\ LeaseSays(p, r) = "none" =>
         /\ stage[p] = "orphans"
         /\ \/ \E e \in work[p] : e.rid = r
            \/ Visiting(p, r) /\ job[p].pc \in {"append", "probe", "write"}

\* The third brings a lease and the journal together, the fourth records expiries.
LeasesDue(p) ==
  \A r \in Rids : ~Visiting(p, r) =>
    LET ls == LeaseSays(p, r)
        js == JournalSays(p, r)
    IN /\ stage[p] = "reconcile" => r \in work[p] \/ Close(ls, js)
       /\ stage[p] = "expired" => Close(ls, js) /\ (r \in work[p] \/ Even(ls, js))
       /\ stage[p] = "treeless" => Even(ls, js)

\* A job of a loop ends with the lease and the journal in agreement.
JobDue(p) ==
  LET j == job[p] IN
  Busy(p) =>
    IF stage[p] = "slots"
    THEN j.pc \in {"mark", "persist"} /\ j.lease = "none" /\ j.rid = NoRid
    ELSE /\ j.rid \in Rids /\ j.lease # "active"
         /\ j.pc \in {"mark", "persist", "store"} => JournalSays(p, j.rid) = j.status
         /\ IF stage[p] = "orphans"
            THEN LeaseSays(p, j.rid) = "none" /\ j.status = "burned" /\ j.lease = "none"
            ELSE LeaseSays(p, j.rid) # "none"
                 /\ LeaseStatus(j.status) = IF j.lease = "none" THEN LeaseSays(p, j.rid)
                                                                ELSE j.lease

\* What a job of a loop persists is all the memory, the slot it marked included.
PersistDue(p) ==
  job[p].pc = "persist" => image[p] = wview[p] /\ isUnavailable(wview[p], job[p].slot)

Recovering(p) ==
  /\ stage[p] # "down" => jview[p] = journal
  /\ stage[p] # "ready" => job[p].goal \in {"none", "recover"} /\ adoption[p].pc = "idle"
  /\ InLoop(p) => MarksDue(p) /\ OrphansDue(p) /\ LeasesDue(p) /\ JobDue(p) /\ PersistDue(p)

OneProvider == \A p, q \in Providers : p = q
RecoveryInv == \A p \in Providers : Recovering(p)
==============================================================================
