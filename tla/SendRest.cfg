CONSTANTS
  kCheapPrepend = 2
  kInitialSize = 4
  ExtraSize = 5
  NoByte = NoByte
  Room = 3
  MaxLen = 4
  MaxSent = 6
SPECIFICATION Spec
INVARIANT RestIsKept
CHECK_DEADLOCK FALSE
