CONSTANTS
  Models = {m1}
  Chats = {c1}
  Scheduler = scheduler
  None = None
  Lifetime = 2
  Skew = 1
  MaxIssued = 2
  SoftBase = 1
  SoftMax = 1
  NotFoundCool = 1
  HardCool = 1
  BreakerBase = 1
  BreakerMax = 1
  BreakerThreshold = 1
  BlockBase = 1
  BlockMax = 1
  SessionDeadThreshold = 2
  CountBound = 1
SPECIFICATION FairSpec
INVARIANTS
  RefreshUsesCurrent
  RefreshReachesDisk
PROPERTIES
  DiskNeverGoesBack
  CallerReturns
