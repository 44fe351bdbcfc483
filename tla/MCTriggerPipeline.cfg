SPECIFICATION PipeFairSpec
CONSTANTS
  d1 = d1
  d2 = d2
  s1 = s1
  TmId <- MCTmId
  DU <- MCDU
  Stamp <- MCStamp
  Timeout = 1
  TimeoutCap = 1
  IdleGap = 0
  GuardRetention = 1
  DeadlineMode = "FirstArrivalBoundedSliding"
  ExtendOnProgressOnly = TRUE
  ExpectedDU = {}
  ShadowOnly = TRUE
  MaxBuckets = 1
  MaxTime = 2
  MaxOpened = 4
  MaxBatches = 2
INVARIANTS
  BucketsAccounted
CHECK_DEADLOCK FALSE
PROPERTIES
  HandledUnlessOverslept
