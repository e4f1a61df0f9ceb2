SPECIFICATION Spec
CONSTANTS
  Calls = {"reserve", "commit", "burn"}
  Expirable = {}
  Settled = {r1, r2}
  Providers = {p1, p2}
  Adapters = {a1}
  AdapterOf <- OneAdapter
  Cas = FALSE
  Rids = {r1, r2}
  Txs = {t1, t2}
  Ranges <- Anywhere
  RemoteCursors = {}
  SeedCursors = {}
  LegacyMarks <- NoMarks
  LegacyLeases <- NoLegacy
  MaxCrashes = 1
  MaxFaults = 0
  Torn = TRUE
  NoRid = NoRid
  NoTx = NoTx
  NoProvider = NoProvider
  Capacity = 2
SYMMETRY Symmetry
INVARIANTS
  TypeOK
  NoSlotReuse
  OneOutcome
  JournalLinear
PROPERTIES
  ImplementsAllocator
