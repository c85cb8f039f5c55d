CONSTANTS
  c1 = c1
  c2 = c2
  f1 = f1
  f2 = f2
  io = io
  Callers <- MCCallers
  LoopThread = owner
  Functor <- MCFunctor
  IoChannel <- MCIoChannel
  WakeupChannel = wakeupChannel
  EventfdMax = 2
  MaxPending = 2
  MaxDepth = 2
  QueueBeforeLoop = FALSE
SPECIFICATION FairSpec
INVARIANTS
  TypeOK
  NoLostWakeup
  NoLostQuit
  WakeupReadSucceeds
PROPERTIES
  TasksInOrder
  QueuedIsCalled
  BatchEnds
  QuitEndsRunningLoop
CHECK_DEADLOCK FALSE
