SPECIFICATION FairSpec
CONSTANTS
  NetThreadNum = 2
  a1 = a1
  k1 = k1
  Conns <- Mixed
  Connectors <- Dialled
  Fds <- Fds4
  DeleteDelay = 0
  MaxTime = 0
  Faults = {}
  NoConn = NoConn
  NoFd = NoFd
INVARIANTS
  SingleOwner
  MapNamesOpenFd
  OwnsDescriptors
PROPERTIES
  AcceptedServed
  GoneIsSwept
  ConnectorAnswered
