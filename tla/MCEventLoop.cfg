CONSTANTS
  t1 = t1
  t2 = t2
  owner = owner
  early = early
  f1 = f1
  f2 = f2
  Threads <- MCThreads
  LoopThread = owner
  Functors <- MCFunctors
  EarlyFunctors <- MCEarlyFunctors

SPECIFICATION FairSpec

INVARIANTS
  TypeOK
  NoLostWakeup
  ExactlyOnce

PROPERTIES
  ImplementsQueue
  QueuedFunctorRuns
  QuitStopsLoop
