SPECIFICATION FairSpec
CONSTANTS
  d1 = d1
  DU <- MCOneDU
  Capacity = 1
  MaxTags = 3
INVARIANTS
  TriggersAccounted
  QuietBeforeBuilderStops
PROPERTIES
  AlwaysDispatched
  StopReturns
CHECK_DEADLOCK FALSE
