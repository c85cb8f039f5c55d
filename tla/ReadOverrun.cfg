CONSTANTS
  kCheapPrepend = 1
  kInitialSize = 2
  ExtraSize = 3
  NoByte = NoByte
  MaxRead = 5
  MaxStream = 6
  Room = 3
  MaxLen = 1
  MaxSent = 2
  Usages <- EchoOnly
SPECIFICATION Spec
INVARIANT IndicesAlwaysInOrder
CHECK_DEADLOCK FALSE
