SPECIFICATION FairSpec
CONSTANTS
  HeaderSize = 2
  MaxBody = 2
  MaxFrames = 3
INVARIANTS
  InStep
  NothingLeftBehind
  QueuedInOrder
PROPERTIES
  FramesCut
CHECK_DEADLOCK FALSE
