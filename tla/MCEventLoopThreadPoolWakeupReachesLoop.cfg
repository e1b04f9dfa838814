CONSTANTS
  MaxThreads = 2
  MaxShare = 1

SPECIFICATION FairSpec

INVARIANTS
  WakeupReachesLoop

CHECK_DEADLOCK FALSE
