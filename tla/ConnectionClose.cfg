CONSTANTS
  Conn = {k1, k2}
  NoConn = NoConn
  User = {u1}
  Usages <- OneLoopOrTwo
  MaxTasks = 2
SPECIFICATION Spec
SYMMETRY Symmetric
INVARIANTS
  TypeOK
  NoDanglingChannel
  ConnectedIsListed
  OneLoopStopsAll
PROPERTIES
  RemovedStaysOut
  OneLifeEach
CHECK_DEADLOCK FALSE
