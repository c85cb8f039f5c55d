CONSTANTS
  numThreads_ = 3
  MaxGiven = 2
  QuitByUsers = {3}
SPECIFICATION FairSpec
INVARIANTS
  TypeOK
  LoopsInUseAreAlive
  ThreadEndsFirst
  DealtEvenly
PROPERTIES
  StartReturns
  RunningLoopIsJoined
CHECK_DEADLOCK FALSE
