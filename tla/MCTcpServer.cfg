CONSTANTS
  NoChannel = NoChannel
  kInitEventListSize = 1
  MaxThreads = 1
  MaxConns = 2
  MaxRemovals = 1
  MaxSends = 1
  TalkFds = {1}
  base = base
  other = other
  Callers <- MCCallers
  BaseThread <- base
  Fds <- MCFds
  FreeSets = {{0, 1}, {2, 3}}
  ListenFd = 9
SPECIFICATION FairSpec
INVARIANT TypeOK
INVARIANT TablesAgree
INVARIANT ListensWhenReady
INVARIANT SilentOnlyWhenStopped
INVARIANT NothingCallsDestroyedServer
PROPERTY ImplementsLife
PROPERTY ClosedIsFreed
PROPERTY WaitingIsAccepted
CHECK_DEADLOCK FALSE
