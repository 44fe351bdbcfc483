SPECIFICATION FairSpec
CONSTANTS
  f1 = f1
  f2 = f2
  Frontends <- MCFrontends
  Events <- MCEvents
  EventKey <- MCEventKey
  Fragments <- MCFragments
  RecordSize <- MCRecordSize
  Matching <- MCStreams
  RawSize = 4
  HeadSize = 1
  MaxFileSize = 5
  MaxEventNumberSaved = 1
  DaqMode = 3
  Capacity = 1
  MaxOpened = 2
  MaxRaws = 2
  MaxFaults = 1
INVARIANTS
  NothingOwedWhenClosed
  NoMissedWakeup
  SavedInOneShard
  ShardsWithinLimits
PROPERTIES
  RunNumberFresh
  StopReturns
CHECK_DEADLOCK FALSE
