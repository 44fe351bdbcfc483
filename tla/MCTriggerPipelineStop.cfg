SPECIFICATION PipeFairSpec
CONSTANTS
  d1 = d1
  d2 = d2
  s1 = s1
  TmId <- MCTmId
  DU <- MCOneDU
  Stamp <- MCStamp
  Timeout = 1
  TimeoutCap = 1
  IdleGap = 0
  GuardRetention = 1
  DeadlineMode = "FirstArrivalBoundedSliding"
  ExtendOnProgressOnly = TRUE
  ExpectedDU = {}
  ShadowOnly = FALSE
  MaxBuckets = 1
  MaxTime = 3
  MaxOpened = 4
  MaxBatches = 2
CHECK_DEADLOCK FALSE
PROPERTIES
  StopDrains
