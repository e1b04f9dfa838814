CONSTANTS
  u1 = u1
  io = io
  Users <- OneUser
  IoLoop = io
  MaxCalls = 2
  MaxLoopCalls = 1
  Lengths <- EmptyAndTwo
  MaxUnread = 1
  MaxRemovals = 2

SPECIFICATION FairSpec

INVARIANTS
  TypeOK
  WireIsPrefix
  DownBeforeFree
  MappedIsWatched
  OwnSendsBeforeShutdown

PROPERTIES
  PeerCloseFrees

\* Once the connection is destroyed nothing is left to happen to it.
CHECK_DEADLOCK FALSE
