SPECIFICATION Spec
CONSTANTS
  Parties = {a, b}
  Reqs = {r1, r2}
  Nonces = {n1, n2, n3, n4}
  MaxRestarts = 1
  MaxLeaf = 3
  NoParty = NoParty
  NoNonce = NoNonce
SYMMETRY Symmetry
INVARIANTS
  TypeOK
  LeafOneTime
  TransferChain
  NonceOnce
PROPERTIES
  FrozenByClaim
CHECK_DEADLOCK FALSE
