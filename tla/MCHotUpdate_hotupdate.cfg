CONSTANTS
  Last = 3
SPECIFICATION Spec
INVARIANTS
  ServedThroughout
  DrainLosesNothing
  ContainerOutlivesHandover
CHECK_DEADLOCK FALSE
