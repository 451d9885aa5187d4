CONSTANTS
  Models = {m1, m2}
  Accounts = {u1}
  Requests = {r1, r2}
  Sessions = {}
  None = None
  SoftBase = 1
  SoftMax = 2
  NotFoundCool = 1
  HardCool = 2
  BreakerBase = 1
  BreakerMax = 2
  BreakerThreshold = 1
  BlockBase = 1
  BlockMax = 2
  SessionDeadThreshold = 2
  CountBound = 2
  MaxInFlight = 2
  MaxRotate = 1
  Resets = {2}
  Outcomes = {"ok", "transport", "hardCredit", "rate", "rateReset", "modelRate", "notFound", "banned", "fault", "dead", "server", "blocked"}
  RefreshFaults = {"dead", "error"}
  Maintenance = {"checkin", "keepalive"}
SPECIFICATION Spec
SYMMETRY Interchangeable
PROPERTIES
  DisableIsFinal
  OnlySuccessClosesBreaker
  ModelLimitSurvives
