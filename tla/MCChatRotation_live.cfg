CONSTANTS
  Models = {m1}
  Accounts = {u1, u2}
  Requests = {r1, r2}
  Sessions = {s1}
  None = None
  SoftBase = 2
  SoftMax = 2
  NotFoundCool = 1
  HardCool = 2
  BreakerBase = 1
  BreakerMax = 2
  BreakerThreshold = 2
  BlockBase = 1
  BlockMax = 2
  SessionDeadThreshold = 2
  CountBound = 1
  MaxInFlight = 1
  MaxRotate = 2
  Resets = {2}
  Outcomes = {"rate"}
  RefreshFaults = {}
  Maintenance = {}
SPECIFICATION FairSpec
PROPERTIES
  RequestEnds
  SoftCooldownEnds
