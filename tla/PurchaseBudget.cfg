SPECIFICATION Spec
CONSTANTS
  c1 = c1
  c2 = c2
  Calls = {c1, c2}
  Governed = {c1}
  Direct = Direct
  Free = {}
  MaxCrashes = 0
  NoAgreement = NoAgreement
  NoResource = NoResource
INVARIANTS
  SpentNotReleased
CHECK_DEADLOCK FALSE
