SPECIFICATION FairSpec
CONSTANTS
  d1 = d1
  d2 = d2
  stray = stray
  e1 = e1
  e2 = e2
  DU <- MCDU
  ChannelTags <- MCChannelTags
  Tags <- MCTags
  EventTimeout = 2
  MaxPending = 2
  RecentLimit = 1
  BucketLen = 1
  Retention = 2
  MaxTime = 5
  MaxRegistered = 2
  MaxUnmatched = 1
INVARIANTS
  TypeOK
  DeadlineCovered
  OutputExact
  EmittedOnce
  Balanced
  LossMatchesTimeouts
PROPERTIES
  NoEarlyTimeout
  ImplementsAssembly
  EventLeaves
