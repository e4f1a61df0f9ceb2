SPECIFICATION Spec
CONSTANTS
  Parties = {a, b}
  Tasks = {t1, t2}
  Total = 2
  MaxSeq = 2
  Offerers = {a}
  Timeout = 1
  MaxTip = 2
  MaxCrashes = 1
  MaxFails = 1
SYMMETRY Symmetry
INVARIANTS
  TypeOK
  OnePayloadPerSequence
  NoForkWhileOneGuards
CHECK_DEADLOCK FALSE
