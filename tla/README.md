# A verification of the Totem SDK

TLA+ models, TLC runs and TLAPS proofs for the parts of the Totem SDK
(`src/packages/*`) whose correctness depends on the order in which things
happen: the lease system for one-time WOTS keys, through which everything else
signs; the statechain entity; the off-chain updates of a payment channel; the
negotiation of a purchase and the payment and resource that follow it; and
governed device actions. `PROJECT.json` lists the
components, the lines each definition models, the runs, their mutants, the
findings, the hazards and the theorems.

## 1. The system

The SDK is a TypeScript monorepo around the Minima chain. A WOTS key reveals
itself when it signs twice, so every signature takes a fresh *slot*
`(addressIndex, l1, l2)`, one of 64^3 of a tree, and the SDK has to remember
which slots are spent over crashes, several processes and several devices.

| component | state | operations | interacts with |
|---|---|---|---|
| `wots-lease/watermark.ts` | cursor and unavailable slots per tree, one storage key | allocate, mark, refresh (merge), save, seed, migrate | storage; called by the local provider |
| `wots-lease/journal.ts` | append-only hash-chained records, one key each | initialize, append (lock, re-read, check, probe, write) | storage, a lock per adapter *object* |
| `core/lease/LeaseStore.ts` | list of leases, one key, rewritten whole | load, cleanupExpired, save, updateStatus | storage |
| `wots-lease/local.ts` | the three stores, a mutation lock, claim keys on adapters with compare-and-swap | initialize (recover), reserve, commit, burn, adopt a remote cursor, seed | all of the above |
| `wots-lease/quorum.ts`, `hybrid.ts` | the peers' reservation ids, in memory | reserve + attest, commit/burn + broadcast, sync; routing by value | local provider; peers by message |
| `lookup-node/lease.ts` | a local provider; tree and reservation owners in memory | handleReserve, handleCommit, handleBurn | devices by message |
| `wots-lease/onchain.ts` | a coin whose state is the cursor; its id in storage | publish, sync | chain provider |
| `se-server` | record, revocations and nonces in Postgres; the identity's use counts | register, challenge, blind-sign, revoke-key, claim, confirm, reclaim-tx; create, signLeased | HTTP clients, wots-lease, storage |
| `statechain` | none of its own | transfer, claim, reclaim | se-server, chain |
| `omnia`, `omnia-host` | channel snapshots, double-sign guards, operations | pay, HTLC, co-sign, settle | wots-lease, the peer host, chain |
| `omnia-router`, `-splice`, `-factory`, `-vtxo`, `-pool`, `-relay` | routes, splices, virtual channels | forward, splice, ... | omnia |
| `edge/purchasing` | negotiation records, admission slots, replay ledger, outbox | propose, counter, accept, reject, cancel, drain, recover | transports, omnia |
| `edge/purchasing/buyer.ts`, `edge-adapters` | purchase records, payment claims, sessions | buy, pay, start, close, recover | the stores, a payment port, resource adapters |
| `edge/agent-runtime`, `agent-policy` | run totals, reservations, nonces | authorize and reserve, execute, settle, recover, reconcile | act-core |
| `act-core` | device operations, resource locks, approvals | claim, run under policy, reconcile, cancel | storage snapshots with revision CAS, devices |
| `storage` | adapters, journal, snapshots | get, set, conditionalUpdate, mutate | everything |
| `core`, `core-wasm`, `kissvm`, `tx-builder`, `txpow`, `identity`, `authority`, ... | mostly none | cryptography, encoding, evaluation | everything |

What is hard here: recovery after a crash between any two writes; writes that
are rejected although they took effect; several providers over one storage;
requests that are handled after their sender gave up; peers that restart;
handlers and methods that read state before an `await` and use it after; messages
that are replayed; time limits that pass while the call they limit still runs.
What makes the components correct:

- local provider: a slot is handed out once; a reservation has one outcome; a
  commit that returned is never lost; recovery always finishes and agrees with
  the journal; a slot handed out stays refused; a cursor adopted from another
  instance is honoured; a tree can be used up;
- quorum: two devices of one seed never get the same slot; peers and device
  agree on outcomes; an acknowledged commit is held by a quorum;
- statechain entity: no leaf signs twice; ownership passes along one line; a
  challenge pays for one effect; a claim freezes the owner;
- channel: no two payloads signed at one sequence, no two complete states of one
  sequence, a stored channel can be read back;
- negotiation: an agreement is backed by the other side; an end is final;
  admission slots are neither leaked nor missing;
- purchases: an agreement is paid once; nothing is started unpaid; two callers do not
  hold two running resources of one agreement;
- governed actions: one call commands the device; budget is settled once, counted
  right, and charged only for what was sent or is reported as done.

## 2. The modules

`Watermark` - the watermark of one tree as a record `[cursor, unavailable]` and
the store's operations as operators on it. A slot is the flat index of its
triple; reasons and timestamps, which no decision reads, are left out.

`SlotAllocator` - what the lease system promises its callers, with nothing of how:
a slot is granted to one reservation, and a granted reservation is acknowledged
for one transaction.

`LocalLease` (extends `Watermark`) - `LocalLeaseProvider` with its three stores.
*Durable* variables (`journal`, `wm`, `migrated`, `leases`, `claims`) are storage
keys; `jview`, `wview`, `lview` are what each provider holds of them in memory;
`stage` and `work` are where `initialize()` stands; `job` is the operation under
the mutation lock; `lock` is the journal's lock per adapter object. A step is
the code between two awaits. A job goes through `claim`, `append` (lock, re-read,
decide), `probe` (sequence free?), `write`, `mark`, `persist`, `store`; reserve, commit,
burn and the items of the recovery loops differ in where they enter and what they
write. Each awaited write is `ok`, `lost` or `torn` (rejected, but done). A change of the
watermark is a change of memory (`Mark`, `advanceToRemoteWatermark`, `seedWatermark`) and a
later write of an *image* of it: `FileStore.set` serializes some time after the call
(`Serialize`) and renames later still (`Land`), and queues nothing, so that the image of a
mark and that of an adoption, which runs outside the mutation lock (`adoption`), land in
either order, the older one last. `migrateToV3` gives the watermarks that older releases
leave. `Crash`
kills a process with all its providers; `Expire` lets a TTL pass at any moment.
`granted`, `acked` and `floor` record what callers were told. The operations have
the code's names; `Open` to `Visit` are `initialize()`, in its order. A refused
call only refreshes the watermark (`RefusedCall`).

`LeaseQuorum` (extends `Watermark`) - several devices of one seed with
`P2PQuorumLeaseProvider` or `HybridLeaseProvider`, and peers with a
`LeaseCoordinator`. The local provider inside each is replaced by what
`LocalLease` shows of it: its operations are atomic, durable, and never return a
slot twice. Requests are a set, handled in any order, late or never; a device may
stop waiting for any peer at any time. Handling a request and its answer are one
step, which loses nothing: an answer after the timeout is ignored, and the peer
does not know of the timeout. A device that restarts loses its rounds and the
peers' ids, a peer its owners; either may expire reservations then.

`LocalLease` implements `SlotAllocator`: `Allocator` is its instance with what callers were
told, `ImplementsAllocator` its specification.

`StatechainEntity` - the handlers of `se-server` for one chain. `req[r]` is a
running handler at one of its awaits with what it read of the record before;
`register`, `blindSign`, ... let a request arrive, `ConsumeNonce` to `Release` are
what follows each await. `uses`, `lease`, `stored` are the wallet's use counts in
memory, the lease provider's next leaf and the counts on storage; `Create` and
`Publish` are `SeIdentity.create` with the ownership proof made at every start,
which takes a root leaf the lease provider does not know of. The counts a request
stores are written in any order, as `FileStore` writes them; `rewound` remembers the runs in
which an older count of root leaves replaced a newer one. `revoke-key` records as revoked
whatever party the request names (`router.ts:329`).
`/create` does what `/register` does to this state. A party
stands for its id and key.

`OmniaChannel` - two hosts and one channel. `store` is each host's snapshot;
`mark` and `sealed` are the guards of `guards.ts`, in memory; `task[p][t]` is a
running method or handler with the channel it read (`chan`). `updateState`,
`addHTLC`, `resolveHTLC`/`TipRead`, `handleStateUpdate` end where the code awaits its
leases; `Sign`, `Commit`, `Send`, `Ack`, `StoreMerged` are the steps after that, in
the code's order: a proposal is stored before it is sent, a co-signature is sent
before the channel is stored. `Fail` is a lease or signer call that fails, of a proposal or
of a co-signature; a failed proposal releases its guard (`Releases`), and `lapsed` remembers
the sequences that the process had attempted under the watermark it gave up so. The block
height a timeout reads is any (`TipRead`). The
initiator does not attach the co-signature it gets by ACK, so ACK changes nothing
here.

`Negotiation` - a buyer and a seller over their stores. Every engine operation is a
task that reads, then replaces the record by compare-and-set, then releases the
admission slot; tasks interleave there. Terms are reduced to the round of a
proposal. The outbox, the replay ledger with its leases, the buyer's loop, the
drainer, expiry, cancellation by the application, crash and `recoverPurchases`
are actions.

`Purchase` - calls of `buy()` for one intent, made at one time or as retries, some of
them as the governed action `purchase:buy`. The purchase record, the claims of the
payment adapter and the budget reservations are durable; a call is in memory, and of
its copy of the record only `fresh` is kept: whether its next compare-and-set finds
the revision it holds. What the world did, payments and resources, is `paid` and `res`.
An agreement stands for the idempotency keys derived from it; calls on standing
terms share the agreement `Direct`, a call that negotiates gets one of its own. The
operations are those of the code in its order: `prepareBuy` to `Agree`, `Barrier` to
`Active` for `executeAgreement`, `close` to `Receipt` for the session. What the payment
port (`Port`), a resource adapter (`start`, `Answers`, `Ended`) and the resource itself
(`Finish`) do is external.

`GovernedAction` - calls of `executeAction` for the operations of one run, from
`getRun` to the settlement of the reservation, with the operation record of
`act-core`, a device, and the host that recovers, reconciles, cancels and settles
beside them. An action is awaited step by step: limits are evaluated on the copy
`getRun` returned, the nonce is consumed before they refuse, the command goes to
the device before its outcome is recorded. `reconcile` gets any answer (`Progress`):
adapters answer from the state of the device, sent or not (`act-mavlink/adapter.ts:343`);
`reported` holds the operations that were recorded as ended on such an answer.

`MC*` give the constants of the runs, `*Proofs` and `LocalLeaseRefinement` hold the
theorems; the inductive invariants they are about stand at the end of the module they
are invariants of, where TLC can evaluate them. Definitions
called `Bug...` are faulty variants of the definition after them; each property of
a passing run is violated when one of them takes its place.

## 3. The runs

| run | instance | checks |
|---|---|---|
| `local_shared` | two providers, one adapter object, a crash | `NoSlotReuse`, `OneOutcome`, `JournalLinear`, `ImplementsAllocator`, types |
| `local_cas` | two processes, an adapter each, claim keys, a crash, a rejected or torn write | `NoSlotReuse`, `OneOutcome`, `CommitDurable` |
| `local_single` | one provider, all operations but burn, regressing seeds, TTLs, legacy leases and watermarks, overtaking persists, two crashes, a rejected or torn write | `GrantsRefused`, `RecoveryComplete`, `AdoptionKept`, `InitializeCompletes` (liveness) |
| `quorum_pair` | two devices, two peers that must both attest, quorum on commit, a restart | `NoDoubleGrant`, `OutcomeAgrees`, `CommitsHeld`, types |
| `se_server` | two parties, two requests at a time, four challenges, three leaves per tree, a restart, counts stored in any order | `LeafOneTime`, `TransferChain`, `NonceOnce`, `FrozenByClaim`, types |
| `omnia` | two hosts with two tasks each, one HTLC, two sequences, lost messages, a restart of one host, one failed proposal or co-signature | `OnePayloadPerSequence`, `NoForkWhileOneGuards`, types |
| `negotiation` | the buyer's loop and a handler, two handlers of the seller, two rounds, an application call, a crash | `AgreementBacked`, `TerminalFinal`, `LiveHoldsSlot`, `SlotAccounted`, types |
| `governed` | a request, its retry and another request for one operation, a host job, limits of 2, 2 and 1, a crash | `ActuatedByOne`, `TotalsAccounted`, `BudgetFollowsDevice`, `SettledFinal`, types |
| `purchase` | three calls for one intent, one of them governed and one whose negotiated agreement is free, a crash | `PaidOnce`, `StartedPaid`, `OneLiveSession`, types |
| `local_drain` | one provider, claim keys, a crash, a caller that keeps asking | violates `TreeDrains` (liveness) |
| `omnia_snapshot` | one payment and one update by the other host | violates `SnapshotRecoverable` |
| `purchase_budget` | two calls, one governed, no crash | violates `SpentNotReleased` |

The last three contradict a sentence of the repository; the findings in
`PROJECT.json` quote it:

1. A crash between the claim of a slot and its journal record does not "leak a slot (safe
   direction)" (`src/docs/audits/sdk-audit-remediation-2026-09.md:109`). Nothing marks the
   claimed slot, so `getNextIndices` chooses it again, the claim is refused, and every later
   `reserveKeyUse` of the tree throws.
2. A payment leaves `pendingProposal` in the snapshot, nothing advances it, and after
   the next HTLC or co-signed update `assertChannelShape` refuses the snapshot.
3. A governed purchase gets its budget back although its money is gone:
   `PAYMENT_FAILED` and `STALE_REVISION` count as "provably did not spend", but a port
   that throws may have paid, and the write of `PAID` may lose to another call.

Two more show with other constants of the same modules. With the default
`MinAttestations = 1` and two peers `NoDoubleGrant` fails: each device hears from another
peer. With `Hybrid = {d1}` it fails as well: `HybridLeaseProvider` treats a refused slot
like an unreachable quorum and returns the local reservation (`hybrid.ts:93`).

What the checked properties had to leave out, because the code does not have it:

- *Leases.* The stored watermark goes back, against "Watermarks are monotonic and never
  decrease" (`src/docs/security/crypto-policy.md:14`): `persist()` writes one provider's
  memory over what another stored, and with one provider the image of a mark may land after
  that of an adoption. No slot is reused for that, the journal decides, and a provider
  refuses what it handed out (`GrantsRefused`). An adopted cursor is lost, though, when the
  process dies after the older image landed: the next one reserves below the cursor that
  `advanceToRemoteWatermark` had acknowledged (`local.ts:464`), and `AdoptionKept` is about
  the life of a process. Without claim keys a torn journal record stops `reserveKeyUse` until the
  next restart.
- *Statechain.* The count of root leaves on storage goes back when two requests' writes land
  in the other order (`seIdentity.ts:204`). The lease provider still keeps requests apart,
  but the ownership proof of the next start counts for itself: two claims sign leaves 1
  and 2, the newer count is stored first and the older last, the process dies, and
  the proof takes leaf 2 again, against `seIdentity.ts:13-18`. `LeafOneTime` excepts that one
  kind of pair (`ProofRepeats`). `blind-sign` checks status and revocation before it awaits the signature,
  so one signature may leave for an owner who was revoked in between (`router.ts:286`).
  `claim` sets `claiming` whatever the record is by then (`router.ts:384`). A challenge is
  refused while the chain is `claiming`, so a confirmation needs a nonce from
  before. After each start the proof's leaf and the provider's next leaf
  coincide: the first claim burns its leaf and its nonce. A party that owned
  the coin before stays revoked (`router.ts:278`).
- *Channel.* Over a restart a host may sign a second payload of a sequence, unless the
  first was a payment; when both hosts restarted, two complete states of one
  sequence exist. A failed proposal releases the one watermark of the channel, also when
  another attempt of the same payload is still signing or when earlier sequences rest on it
  (`guards.ts:115`). A host starts the same payment twice at one time, one of the two
  fails, and an HTLC offered from the old copy is signed at the sequence at which the other
  payment is signed: two payloads of one sequence from one process, against
  `guards.ts:8-12` and "only for the matching failed attempt"
  (`src/docs/OMNIA_TEST_RESULTS.md:446-447`). With a restart of the other host between the two
  co-signatures both states are complete. `OnePayloadPerSequence` and `NoForkWhileOneGuards`
  except the sequences that lapsed in this way, and no others. An HTLC may be fulfilled and timed
  out at the timeout block itself.
- *Negotiation.* The two sides need not both reach `AGREED` (`engine.ts:567` says they
  converge): one may cancel, expire or exhaust first. The seller's rejection is
  not sent (`seller.ts:358`). A buyer whose loop gives up stays `NEGOTIATING` and
  keeps its slot until expiry or recovery. A counter-proposal is recorded before it is enqueued,
  so that a crash between the two loses it (`buyer.ts:770`).
- *Purchases.* `adapter.start` is given no key: after a crash, or a write of `ACTIVE` that
  lost, its resource runs on unknown to the record, and the retry starts another
  (`buyer.ts:944`); hence `OneLiveSession` is about what callers hold. A retry that
  negotiates has a new agreement and pays again: `PaidOnce` is per agreement. The
  record names one resource while its keys are per agreement, hence the last condition
  of `OneLiveSession`. A failed payment is replayed as failed for ever, also one
  whose money moved. A governed call never writes `record.agreement`, so that
  `recoverResource` finds nothing for it, and `recoverPurchases` drops the session it gets.
- *Governed actions.* The run's limits are checked on the copy `getRun` returned, several
  awaits before the reservation, which does not check them
  (`grant-bound-autonomy.ts:206`, against `agent-policy/README.md:111`): with a limit of
  one step two calls both reserve. A crash after the claim leaves the record `in-flight`, which
  `reconcile` refuses until `cancel` was tried; then an adapter that sees the device in the wanted state
  has it recorded as confirmed, and a duplicate call is charged for a command nobody sent
  (`operation-lifecycle.ts:71-98`): `BudgetFollowsDevice` names the report as the second
  reason for a charge. A duplicate of a finished operation is charged again.
  A command that timed out may still run when its retry is sent (both by one call:
  `ActuatedByOne` counts calls). A synchronous failure releases its budget although
  the device may act.

**Bounds.** Two slots: one in use and the last one, which has no successor. Two
reservations compete for a slot. Two providers, devices, hosts, parties: the
hazards are between two. Two peers that must both attest is the
least quorum in which peers can disagree; larger ones are left to the theorem,
which holds for any number. Two requests or tasks at a time in a server or host: each
hazard is a pair of handlers that read the same state. Three calls of an action: two that share an
idempotency key and one that does not; of `buy`: two that overtake each other and a
retry. `MaxCrashes`, `MaxFaults`, `MaxRestarts` are
1, or 2 where the second must hit the recovery from the first. `Calls`, `Expirable`,
`Ranges`, `RemoteCursors`, `SeedCursors`, `LegacyLeases`, `LegacyMarks`, `Settlers`, `Offerers`
choose which inputs an instance uses. A provider has one adoption under way at a time, since
a second one would be a third image beside two that already overtake each other; in the
channel `MaxCrashes` counts the restarts of both hosts together. The runs have between 10^5 and 5*10^6 distinct states.
Symmetry is used where the cfg says so and in no liveness run. The runs with
`CHECK_DEADLOCK FALSE` stop when the calls, challenges or sequences of the instance are
used up.

**Fairness** (`LocalLease!Fairness`). Promises of a provider resolve, so its own
steps are weakly fair. `withStorageLock` is a FIFO chain of promises, so a
waiting append gets the lock: strong fairness of `AppendRead`. A provider that
died is opened again, and its caller keeps asking for slots: assumptions about
the environment without which neither liveness property says anything; `TreeDrains` is
violated under all of it. Crashes
and faults are bounded, never fair.

**Assumptions about the surroundings.** Signatures cannot be forged, Postgres
transactions and SQLite transactions are atomic. In `Negotiation`, only
`strategy.evaluate` outlasts the 30 s lease of the replay ledger, `recoverPurchases` runs before
the transport starts, and work admission is disabled. In `GovernedAction`, the host tells
`reconcileReservation` *definitely-not-executed*, and settles with *release-nonexecution*,
only of a call that is over and sent nothing, and says *completed* only of a final record;
what a device adapter answers to `reconcile` is not restricted. In `Purchase`, the stores are the
durable ones, whose updates are compare-and-set, and `recover()` of a resource adapter
says `MISSING` or `COMPLETED` only of a resource that does not run.

## 4. The proofs

For every number of providers, adapters, reservations, slots, devices, peers, calls, agreements,
operations, jobs, tasks, rounds, sequences, crashes and faults:

| theorem | says | assumes |
|---|---|---|
| `LocalLeaseProofs!TypeCorrect` | `[]TypeOK` | the named assumptions on constants |
| `LocalLeaseProofs!SlotSafety` | `[]NoSlotReuse` | one adapter object for all providers, or claim keys |
| `LocalLeaseProofs!LinearJournal` | `[]JournalLinear` | one adapter object |
| `LocalLeaseProofs!CommitDurability` | `[]CommitDurable` | nothing more |
| `LocalLeaseRefinement!OneFinalStatus` | `[]OneOutcome` | nothing more |
| `LocalLeaseRefinement!Implementation` | `ImplementsAllocator` | one adapter object |
| `LocalLeaseRefinement!GrantsStay` | `[]GrantsRefused` | nothing more |
| `LocalLeaseRefinement!AdoptedFloor` | `AdoptionKept` | nothing more |
| `LocalLeaseRefinement!RecoveryCompletes` | `RecoveryComplete` | one provider, `~Torn`: a rejected write has no effect |
| `LeaseQuorumProofs!TypeCorrect` | `[]TypeOK` | the named assumptions |
| `LeaseQuorumProofs!QuorumSafety` | `[]NoDoubleGrant` | `Intersecting`, no hybrid device |
| `LeaseQuorumProofs!OutcomeAgreement` | `[]OutcomeAgrees` | nothing more |
| `LeaseQuorumProofs!CommitQuorum` | `[]CommitsHeld` | nothing more |
| `GovernedActionProofs!TypeCorrect` | `[]TypeOK` | `GovernedAssumption` |
| `GovernedActionProofs!AtMostOnce` | `[]ActuatedByOne` | nothing more |
| `GovernedActionProofs!Accounting` | `[]TotalsAccounted` | nothing more |
| `GovernedActionProofs!BudgetSafety` | `[]BudgetFollowsDevice` | nothing more |
| `GovernedActionProofs!Finality` | `SettledFinal` | nothing more |
| `PurchaseProofs!TypeCorrect` | `[]TypeOK` | `PurchaseAssumption` |
| `PurchaseProofs!NoDoublePayment` | `[]PaidOnce` | nothing more |
| `PurchaseProofs!NothingUnpaid` | `[]StartedPaid` | nothing more |
| `PurchaseProofs!OneSession` | `[]OneLiveSession`, which speaks of intents all of whose started resources are of one agreement | nothing more |
| `StatechainEntityProofs!TypeCorrect` | `[]TypeOK` | `EntityAssumption` |
| `StatechainEntityProofs!OneEffect` | `[]NonceOnce` | nothing more |
| `StatechainEntityProofs!OneLine` | `[]TransferChain` | nothing more |
| `StatechainEntityProofs!ClaimFreezes` | `FrozenByClaim` | nothing more |
| `StatechainEntityProofs!LeafSafety` | `[]LeafOneTime`, with its exception for ownership proofs | nothing more |
| `OmniaChannelProofs!TypeCorrect` | `[]TypeOK` | `ChannelAssumption` |
| `OmniaChannelProofs!Conservation` | `[]ValueConserved` | nothing more |
| `OmniaChannelProofs!OnePayload` | `[]OnePayloadPerSequence`, with its exception for lapsed sequences | nothing more |
| `OmniaChannelProofs!NoFork` | `[]NoForkWhileOneGuards`, with the same exception | nothing more |
| `NegotiationProofs!TypeCorrect` | `[]TypeOK` | `NegotiationAssumption` |
| `NegotiationProofs!Backing` | `[]AgreementBacked` | nothing more |
| `NegotiationProofs!SlotsHeld` | `[]LiveHoldsSlot` | nothing more |
| `NegotiationProofs!NoSlotLeak` | `[]SlotAccounted` | nothing more |
| `NegotiationProofs!Finality` | `TerminalFinal` | nothing more |

*Local.* `NoSlotReuse` is not inductive: it says nothing of reservations about to
be returned. `LocalLease!IndInv` adds, with one lock, that an appending provider
holds the lock (`LockHeld`) and has seen the whole journal (`ViewsFresh`), so the
slot it is about to record is unrecorded (`Unrecorded`) and each slot is reserved
for one reservation (`ReservedOnce`); sequence numbers stay below the length
(`SeqBound`), hence no fork. With claim keys, a reservation past `claim` owns the
claim of its slot, and claims never change hands (`Claimed`). Either way, what a
caller is told is first on the medium (`Journalled`), from which `CommitDurable`
follows as records are never removed.

*One outcome, and the allocator.* `OneOutcome` holds with any number of processes and
locks, of every journal that can be read. Such a journal has the sequence numbers 0,
1, ... with no gap (`Dense`); a writer numbers its record by the records it read, so either
it read all of them and what `appendOne` decided is true of the whole journal
(`Decided`), or its record forks the journal, which nobody can read then. That
a slot nobody recorded means a reservation nobody recorded needs one slot for each
reservation wherever it is named: in records, leases, memories and jobs (`OneName`).
The refinement adds that a reservation under way was not handed out yet and is made by one
job (`GrantFresh`): a `Return` of a reservation is then a step of `SlotAllocator`, by
`SlotSafety`, and that of a commit is one by `OneOutcome` and `CommitDurable`.

*Watermark.* Nothing useful holds of the stored watermark, which any persist may take back,
so the two theorems rest on memory and journal alone. `MemoryInv` says that a provider knows
the record of every reservation it handed out (`GrantsDue`): it has read the record, and has
marked the slot, or will in the first loop of `initialize()`, which takes its slots from the
journal and not from the watermark. A reservation is marked before it is handed out
(`MarkedFirst`), and until then its job alone writes it (`MadeAlone`, `RecordFresh`).
`AdoptedFloor` needs that the cursor in memory never falls below the last adopted one
(`FloorHeld`): `refresh` takes the larger of the two cursors. Neither theorem limits the
number of providers or the order of persists.

*Recovery.* `RecoveryInv` says loop by loop what `initialize()` has brought into line.
Recorded slots are marked or still to be visited (`MarksDue`). After the second loop no
reservation is recorded without a lease (`OrphansDue`). After the third, lease and
journal agree but for expiries without a record, after the fourth altogether (`LeasesDue`,
`Close`, `Even`). A job under way ends in agreement (`JobDue`). A loop with
nothing to visit is skipped, and then what it would have established holds already
(`LoopsDone`). The invariant needs the provider's memory of the journal to be complete, which a
torn append breaks until the next one. `local_single` checks torn writes with one
legacy lease. With two, TLC finds executions of the model that end recovery with a lease
and the journal, or a slot and the watermark, out of line. An unmarked slot takes a
loop that visits leases in another order after it was restarted, which the code never
does. The other does not depend on that: the record that
burns a lease without a tree id is torn, `initialize()` is called again, another lease's
append shows the record to the provider after the reconciliation of the first lease is over,
and that lease's TTL passes before the last loop, which then skips it. The slot stays refused; the lease
says `active` until the next start.

*Quorum.* `LeaseQuorum!IndInv` ties each attestation to an entry in a peer's book
(`Backed`), an entry to an unavailable slot (`Taken`), so that no later request
overwrites it, and each device's slots to one reservation (`LocalOnce`). Two
reservations handed out for one slot would come from two devices; two sets of
`MinAttestations` peers out of fewer than twice as many share one
(by counting: `FS_Union`), whose book has one entry for the
slot. For the outcomes, a request to settle is sent only after the local outcome
(`Announced`), and that outcome is final.

*Governed actions.* `ActuatedByOne` says nothing of calls about to send.
`GovernedAction!IndInv` calls a call *engaged* from its claim on, and says that an
operation has at most one engaged call and, once it has one, a record
(`OneEngaged`): no record ever returns to `none`, so no second claim succeeds. Every
trace of an execution (a terminal record, a host's answer, a call about to charge)
follows a sent command or a report (`FollowsDevice`, `Backed`), and a released reservation belongs to a
synchronous call or to one that is over and sent nothing (`ReleasedUnsent`), from which
`BudgetFollowsDevice` follows. `TotalsAccounted` is proved by counting: a
reservation that changes kind moves one unit from one counter to another
(`CountEnters`, `CountLeaves`), and a call reserves once (`ReservesOnce`).

*Purchases.* `Purchase!Inv` says that a claim precedes every payment (`ClaimFirst`), that
one call at a time is between its claim and the record of the outcome (`OneHolder`) and
that the call about to pay is the first for its agreement (`PortUnpaid`), so that there
is one payer (`SinglePayer`); a claim is never taken back, whatever the outcome. The
record's key, the claim and the call say that money moved only when it did (`KeyPaid`,
`ClaimPaid`, `CallPaid`), which is what lets a call skip the payment and start.
`OneLiveSession` needs `SessionInv`: the record names a resource only with the key of its
start (`RefKeyed`); a call whose copy of the record is current starts a resource only when
the one named does not run, and a running resource in a caller's hands is the one
named, as long as all resources are of its agreement (`SessionSound`). Two in two
callers' hands are then the same one.

*Channel.* `StateInv`: every copy of the channel, stored, in use or in a message, holds the
total in balances and open HTLCs (`ValueConserved`), which is what keeps balances in
range when an HTLC is resolved on a copy that is not the stored one; it needs that a side
offers its HTLC once. `SignInv`: within one life of a process, the guard's watermark is ahead
of every state the process signed or is about to sign, and equal in payload at its own
sequence (`Marked`), so one sequence has one payload (`OneAttempt`). When `releaseUpdateGuard`
removes the watermark (`guards.ts:115`), the sequences attempted under it are lapsed, and the
two are about the others; sealed sequences keep their watermark, which is what the
seal is for. `NoFork` follows by
taking the host with `boot = 0` for which the sequence did not lapse: its signature is under
both complete states.

*Negotiation.* `Inv` is about what a message or a call proves of the other side's record:
a proposal was recorded by its author, an acceptance was agreed to by its sender
(`Backed`, `TasksSupported`). Neither is ever lost, since a record only grows, as the
compare-and-set on revisions gives (`Grows`, with the revision tied to the head by
`RecordsFormed`). A side's head is at most one round ahead of the other's, and only by its
own proposal (`HeadsClose`), so two agreements are on one proposal. For the
admission slots, a side opens a negotiation once: the ledger gives the opening proposal to
one handler (`OpenersAlone`).

*Statechain.* `StatechainEntity!ChainInv` says that a challenge that paid for
something (a request past its check, a signature that left, a transfer) is consumed and
paid for that alone (`ChallengesSpent`), and that transfers carry versions below
the record's (`Numbered`), with which `TransferChain` is inductive. `LeafInv` is about the
leaves. Every leaf that signed for a request is below the lease provider's cursor, whatever
the counts say (`LeasesKnown`). The ownership proof that each start makes takes its leaf from
the counts: these are above every leaf of an earlier proof, on storage, in memory and in the
writes under way (`ProofsKnown`), and above every leaf a claim signed in a run that did not
store its counts out of order (`ClaimsKnown`); the exception of `LeafOneTime` is what is left.
`LeavesApart` keeps the leaves of unfinished requests apart from each other and from those
released.

TLC checks the inductive invariants on the instances of the runs too, those of the channel with
one sequence, `RecoveryInv` without torn writes.

Only model-checked: the liveness property `InitializeCompletes` (fairness
and `ENABLED` are out of the prover's reach), and recovery with torn writes. The
violation runs are counterexamples, not proofs.

## 5. Not modelled

- *Leases.* The journal's hash chain and format checks (corruption of
  the medium), the import of the legacy journal array, seeds with marks of their
  own (they only remove slots), the certificates, `publishWatermark` to peers (the
  lookup node does not handle `LEASE_WATERMARK`; `syncLeaseJournal` is modelled with
  a peer that answers with its cursor), `_reservationOwners` and
  `_burnedReservations` (never stricter than the provider's own checks for ids a
  device was given), a second controller that asks a restarted peer for a tree
  (`lease.ts:73`), `LEASE_RESERVE` without indices, peers without configured storage, the personal node and the
  on-chain sync in the hybrid provider, device ids at peers. The on-chain watermark: a
  crash between the broadcast of its spend and the write of the rolled coin id leaves
  an id that is spent (`onchain.ts:287`).
- *Statechain.* Several chains (they share only the identity's leaves), rate limits, the
  reclaim transaction and its lock block, the sign log; the client, which broadcasts a
  transfer before it tells the server (`transfer.ts:128`).
- *Channel.* Opening, settlement on the chain and disputes, splices, the operation store of
  `omnia-host` (`withOperation` runs a failed operation again), the wallet-coordinated
  path of a payment (`methods.ts:775`).
- *Negotiation.* `NegotiationRequest`, cooldowns and windows of the admission, work
  admission, a drainer that overlaps itself (`outbox-drainer.ts:101`), the signatures (the agreement
  carries the acceptance's signature as the buyer's, whoever accepted:
  `engine.ts:553`).
- *Purchases.* Usage metering, the seller's side, `purchase:negotiate`, the expiry of a
  reservation, the stores in memory (whose `get` shares the key array with the caller),
  the payment lock as a lock (a call at its claim waits for it).
- *Governed actions.* Spends and mandates (their limit ignores reservations that are
  `unknown`: `sqlite-run-state-store.ts:662`), receipts, approvals and resource locks,
  which `execute()` does not use, `policy.maxAttempts`, the renewal of a reservation
  (`Expire` is then not taken).
- The components with status `not_modelled` in `PROJECT.json`, with the reason. The
  hazards found there while reading are listed with the line where they bite.

## 6. Plan

1. Proofs: recovery with torn writes, for loops that visit in the code's order.
2. The statechain client composed with `StatechainEntity` and a chain: chain and
   server agree on the owner after a crash of the client.
3. `OnchainWatermark`: publish and sync with a coin that rolls.
4. On top of `OmniaChannel`: settlement and disputes, splices, routes.
5. The operation store of `omnia-host`, and the seller's side of a purchase.
