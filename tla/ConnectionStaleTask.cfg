CONSTANTS
  Conn = {k1}
  NoConn = NoConn
  User = {u1}
  Usages <- Shutting
  MaxTasks = 2
SPECIFICATION Spec
INVARIANT NoTaskOfDestroyed
CHECK_DEADLOCK FALSE
