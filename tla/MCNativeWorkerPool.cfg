SPECIFICATION Spec
CONSTANTS
  Threads = 3
  MaxItems = 4
  MaxBatches = 2
  MaxFailures = 2
INVARIANTS
  BarrierJoinsAll
  RangesExclusive
PROPERTIES
  ImplementsExecutor
  DestructorEnds
CHECK_DEADLOCK FALSE
