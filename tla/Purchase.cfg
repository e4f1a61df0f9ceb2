SPECIFICATION Spec
CONSTANTS
  c1 = c1
  c2 = c2
  c3 = c3
  Calls = {c1, c2, c3}
  Governed = {c1}
  Direct = Direct
  Free = {c2}
  MaxCrashes = 1
  NoAgreement = NoAgreement
  NoResource = NoResource
INVARIANTS
  TypeOK PaidOnce StartedPaid OneLiveSession
CHECK_DEADLOCK FALSE
