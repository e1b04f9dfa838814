CONSTANTS
  u1 = u1
  io = io
  Users <- OneUser
  IoLoop = io
  MaxCalls = 1
  MaxLoopCalls = 1
  Lengths <- EmptyAndTwo
  MaxUnread = 1
  MaxRemovals = 2

SPECIFICATION Spec

INVARIANTS
  WaitsForWritable

CHECK_DEADLOCK FALSE
