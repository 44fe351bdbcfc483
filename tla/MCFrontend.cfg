SPECIFICATION FairSpec
CONSTANTS
  Capacity = 4
  Lengths = {1, 2, 3}
  MaxChunks = 5
  MaxRuns = 3
INVARIANTS
  EachPacketOnce
  RingStaysForItsUsers
PROPERTIES
  StopReturns
CHECK_DEADLOCK FALSE
