CONSTANTS
  MaxThreads = 3
  MaxShare = 3

SPECIFICATION FairSpec

INVARIANTS
  TypeOK
  LoopsAreReady
  FairShare
  DestroyedMeansFinished

PROPERTIES
  StartReturns
  QuitInTimeEndsThread

\* Once the pool is destroyed and the threads have ended, nothing is left to run.
CHECK_DEADLOCK FALSE
