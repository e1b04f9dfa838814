CONSTANTS
  kCheapPrepend = 2
  kInitialSize = 2
  ExtraSize = 3
  SizeModulus = 64
  MaxBytes = 9

SPECIFICATION Spec

INVARIANTS
  TypeOK
  ContentsAreFifo
  SizeBounded

\* A buffer through which the last byte has gone, or a read that failed.
CHECK_DEADLOCK FALSE
