SPECIFICATION FairSpec
CONSTANTS
  Calls = {"reserve"}
  Expirable = {}
  Settled = {}
  Providers = {p1}
  Adapters = {a1}
  AdapterOf <- OneAdapter
  Cas = TRUE
  Rids = {r1, r2, r3}
  Txs = {t1}
  Ranges <- Anywhere
  RemoteCursors = {}
  SeedCursors = {}
  LegacyMarks <- NoMarks
  LegacyLeases <- NoLegacy
  MaxCrashes = 1
  MaxFaults = 0
  Torn = FALSE
  NoRid = NoRid
  NoTx = NoTx
  NoProvider = NoProvider
  Capacity = 2
PROPERTIES
  TreeDrains
