SPECIFICATION Spec
CONSTANTS
  NetThreadNum = 2
  MaxConns = 0
  MaxDials = 1
INVARIANTS
  ThreadDataThere
CHECK_DEADLOCK FALSE
