CONSTANTS
  MaxThreads = 2
  MaxShare = 1

SPECIFICATION FairSpec

PROPERTIES
  DestructorReturns

CHECK_DEADLOCK FALSE
