CONSTANTS
  numThreads_ = 2
  MaxGiven = 2
  QuitByUsers = {}
SPECIFICATION FairSpec
PROPERTY DestructionEnds
CHECK_DEADLOCK FALSE
