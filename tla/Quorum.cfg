\* Two devices of one seed, two peers, both of which must attest.
SPECIFICATION Spec
CONSTANTS
  Capacity = 2
  Devices = {d1, d2}
  Peers = {q1, q2}
  PeersOf <- AllPeers
  ControllerOf <- OneController
  NoController = NoController
  Hybrid = {}
  MinAttestations = 2
  RequireQuorumOnCommit = TRUE
  Rids = {r1, r2}
  NoRid = NoRid
  Settlers = {r1, r2}
  MaxRestarts = 1
SYMMETRY Symmetry
INVARIANTS OutcomeAgrees CommitsHeld TypeOK NoDoubleGrant
CHECK_DEADLOCK FALSE
