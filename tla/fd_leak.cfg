SPECIFICATION Spec
CONSTANTS
  NetThreadNum = 1
  a1 = a1
  k1 = k1
  Conns <- Accepted
  Connectors = {}
  Fds <- Fds1
  DeleteDelay = 0
  MaxTime = 1
  Faults = {}
  NoConn = NoConn
  NoFd = NoFd
INVARIANTS
  SweptReleasesFds
