SPECIFICATION Spec
CONSTANTS
  NSess = 2
  Hdrs = 2
  NBuckets = 2
  MaxConns = 2
  MaxPdus = 1
INVARIANTS Accounted SockIsMine PoolsRefilled HashIsAtLun
PROPERTY ShutdownFinishes
CHECK_DEADLOCK FALSE
