SPECIFICATION FairSpec
CONSTANTS
  Calls = {"reserve", "specific", "commit", "advance", "seed"}
  Expirable = {r1}
  Settled = {r1, r2}
  Providers = {p1}
  Adapters = {a1}
  AdapterOf <- OneAdapter
  Cas = FALSE
  Rids = {r1, r2}
  Txs = {t1}
  Ranges <- LowerHalf
  RemoteCursors = {1}
  SeedCursors = {0}
  LegacyMarks <- SomeMarks
  LegacyLeases <- SomeLegacy
  MaxCrashes = 2
  MaxFaults = 1
  Torn = TRUE
  NoRid = NoRid
  NoTx = NoTx
  NoProvider = NoProvider
  Capacity = 2
INVARIANTS
  GrantsRefused
PROPERTIES
  RecoveryComplete
  AdoptionKept
  InitializeCompletes
