CONSTANTS
  kCheapPrepend = 2
  kInitialSize = 2
  ExtraSize = 3
  SizeModulus = 64
  MaxBytes = 9

SPECIFICATION Spec

INVARIANTS
  FailedReadKeepsData

CHECK_DEADLOCK FALSE
