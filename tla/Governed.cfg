SPECIFICATION Spec
CONSTANTS
  c1 = c1
  c2 = c2
  c3 = c3
  o1 = o1
  k1 = k1
  Calls = {c1, c2, c3}
  Ops = {o1}
  OpOf <- SomeOps
  KeyOf <- SomeKeys
  NoKey = NoKey
  Jobs = {j1}
  MaxSteps = 2
  MaxParallel = 2
  MaxFailures = 1
  MaxCrashes = 1
INVARIANTS
  TypeOK ActuatedByOne TotalsAccounted BudgetFollowsDevice
PROPERTIES
  SettledFinal
CHECK_DEADLOCK FALSE
