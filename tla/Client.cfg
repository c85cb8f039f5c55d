CONSTANTS
  MaxAttempts = 2
  MaxConnects = 1
  User = {u1, u2}
  Usages <- DisconnectsOrForces
  MaxTasks = 1
SPECIFICATION FairSpec
INVARIANTS
  TypeOK
  PollerIsConsistent
  NoDanglingChannel
  OnlyFailedAttemptsCrash
  NoTaskOfDestroyed
  UpThenDownOnce
  StoppedAttemptEnds
PROPERTIES
  OneAtATime
  ClosedIsDestroyed
  DisconnectShutsDown
CHECK_DEADLOCK FALSE
