SPECIFICATION Spec
CONSTANTS
  HeaderSize = 2
  MaxBody = 1
  MaxFrames = 2
INVARIANTS
  UnknownDisconnects
CHECK_DEADLOCK FALSE
