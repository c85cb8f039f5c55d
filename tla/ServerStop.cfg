CONSTANTS
  Conn = {k1}
  NoConn = NoConn
  User = {u1}
  Usages <- Stopping
  MaxTasks = 2
SPECIFICATION Spec
INVARIANT StopDestroysConnections
CHECK_DEADLOCK FALSE
