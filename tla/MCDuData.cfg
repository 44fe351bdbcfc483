SPECIFICATION FairSpec
CONSTANTS
  RingSize = 5
  Sizes = {2}
  Slots = 3
  Times <- MCTimes
  Second = 2
  T2Capacity = 3
  OutCapacity = 2
  T3Capacity = 2
  Modes = {2, 3}
  Requests <- MCRequests
  MaxEvents = 4
  MaxRuns = 2
  MaxTriggers = 2
  MaxBack = 1
INVARIANTS
  AnswersAreTheTrace
  RecentIsFound
  HitsToldBySecond
PROPERTIES
  TriggersAreTaken
CHECK_DEADLOCK FALSE
