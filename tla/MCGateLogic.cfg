SPECIFICATION Spec
CONSTANTS
  d1 = d1
  d2 = d2
  s1 = s1
  s2 = s2
  TmId <- MCTmId
  DU <- MCDU
  Stamp <- MCStamp
  Timeout = 1
  TimeoutCap = 2
  IdleGap = 2
  GuardRetention = 1
  DeadlineMode = "FirstArrivalBoundedSliding"
  ExtendOnProgressOnly = TRUE
  ExpectedDU <- MCExpectedDU
  ShadowOnly = TRUE
  MaxBuckets = 1
  MaxTime = 4
  MaxOpened = 2
SYMMETRY Symm
INVARIANTS
  ReadyIsDue
  OpenIsUnguarded
  CloseWithinCap
PROPERTIES
  ClosedIsFrozen
  TimedOutStaysClosed
CHECK_DEADLOCK FALSE
