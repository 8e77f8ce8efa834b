SPECIFICATION Spec
CONSTANTS
  NetThreadNum = 1
  a1 = a1
  k1 = k1
  Conns <- Mixed
  Connectors <- Dialled
  Fds <- Fds3
  DeleteDelay = 1
  MaxTime = 2
  Faults = {"event_add", "notify", "fcntl", "rearm"}
  NoConn = NoConn
  NoFd = NoFd
INVARIANTS
  NotifiedHasConn
  OneVerdict
  GraceKept
  NoStaleEvent
  LeakOnlyOnSameSecond
