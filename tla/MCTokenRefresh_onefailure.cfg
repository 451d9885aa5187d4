CONSTANTS
  Models = {m1}
  Chats = {c1, c2, c3}
  Scheduler = scheduler
  None = None
  Lifetime = 2
  Skew = 1
  MaxIssued = 1
  SoftBase = 1
  SoftMax = 1
  NotFoundCool = 1
  HardCool = 1
  BreakerBase = 1
  BreakerMax = 1
  BreakerThreshold = 3
  BlockBase = 1
  BlockMax = 1
  SessionDeadThreshold = 3
  CountBound = 1
SPECIFICATION Spec
SYMMETRY Interchangeable
INVARIANTS
  OneFailureNeverDisables
