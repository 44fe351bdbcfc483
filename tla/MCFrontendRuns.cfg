SPECIFICATION Spec
CONSTANTS
  Capacity = 4
  Lengths = {1, 2, 3}
  MaxChunks = 5
  MaxRuns = 3
INVARIANTS
  NoPacketOfEarlierRun
CHECK_DEADLOCK FALSE
