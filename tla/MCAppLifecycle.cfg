SPECIFICATION FairSpec
CONSTANTS
  DU <- MCDU
  MaxStarts = 2
  MaxLag = 2
  MaxMisses = 2
  MaxPowerCycles = 1
INVARIANTS
  StatusTells
  StartedAsConfigured
  DiesOnlyUnstopped
PROPERTIES
  StopsWhenTold
CHECK_DEADLOCK FALSE
