SPECIFICATION Spec
CONSTANTS
  Parties = {a, b}
  Tasks = {t1, t2}
  Total = 2
  MaxSeq = 2
  Offerers = {a}
  Timeout = 1
  MaxTip = 2
  MaxCrashes = 0
  MaxFails = 0
SYMMETRY Symmetry
INVARIANTS
  SnapshotRecoverable
CHECK_DEADLOCK FALSE
