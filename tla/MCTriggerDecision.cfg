SPECIFICATION Spec
CHECK_DEADLOCK FALSE
CONSTANTS
  Delay <- MCDelay
  Tolerance = 0
  Configs <- MCConfigs
  Buckets <- MCBuckets
  Nhit = 3
  Window = 2
  Bypass = 5
  MinPair = 2
  DiffLimit = 2
  HistorySize = 1
  MaxBuckets = 3
INVARIANTS
  FindsEveryCoincidence
  SelectsLargestCompatible
PROPERTIES
  RepeatsAreRejected
