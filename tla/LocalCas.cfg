SPECIFICATION Spec
CONSTANTS
  Calls = {"reserve", "commit"}
  Expirable = {}
  Settled = {r1}
  Providers = {p1, p2}
  Adapters = {p1, p2}
  AdapterOf <- OwnAdapter
  Cas = TRUE
  Rids = {r1, r2}
  Txs = {t1}
  Ranges <- Anywhere
  RemoteCursors = {}
  SeedCursors = {}
  LegacyMarks <- NoMarks
  LegacyLeases <- NoLegacy
  MaxCrashes = 1
  MaxFaults = 1
  Torn = TRUE
  NoRid = NoRid
  NoTx = NoTx
  NoProvider = NoProvider
  Capacity = 2
SYMMETRY ProvidersAlike
INVARIANTS
  NoSlotReuse
  OneOutcome
  CommitDurable
