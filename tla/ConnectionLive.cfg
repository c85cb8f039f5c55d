CONSTANTS
  Conn = {k1}
  NoConn = NoConn
  User = {u1, u2}
  Usages <- ForceClosing
  MaxTasks = 1
SPECIFICATION FairSpec
PROPERTIES
  GoneIsDestroyed
  ForceCloseCloses
CHECK_DEADLOCK FALSE
