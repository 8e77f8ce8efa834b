SPECIFICATION FairSpec
CONSTANTS
  NetThreadNum = 3
  MaxConns = 3
  MaxDials = 2
INVARIANTS
  AcceptAfterReady
PROPERTIES
  AcceptLoopEntered
  SpinEnds
CHECK_DEADLOCK FALSE
