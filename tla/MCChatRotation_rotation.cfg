CONSTANTS
  Models = {m1}
  Accounts = {u1, u2}
  Requests = {r1, r2}
  Sessions = {s1}
  None = None
  SoftBase = 1
  SoftMax = 1
  NotFoundCool = 1
  HardCool = 1
  BreakerBase = 1
  BreakerMax = 2
  BreakerThreshold = 2
  BlockBase = 1
  BlockMax = 2
  SessionDeadThreshold = 2
  CountBound = 2
  MaxInFlight = 1
  MaxRotate = 2
  Resets = {2}
  Outcomes = {"ok", "rate", "hardCredit", "rejected", "abandoned"}
  RefreshFaults = {}
  Maintenance = {"expiry"}
SPECIFICATION Spec
SYMMETRY Interchangeable
INVARIANTS
  LeaseConservation
  LeaseWithinLimit
  NoLeaseBetweenRounds
  RotationIsFresh
PROPERTIES
  SelectionContract
