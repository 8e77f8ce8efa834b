SPECIFICATION FairSpec
CONSTANTS
  NetThreadNum = 1
  Conns = {c1}
  MaxFrames = 3
  MaxSends = 3
  SndBuf = 1
  MayReject = TRUE
  PeerEnds = {"eof", "reset"}
  Faults = {"update_event", "dup"}
INVARIANTS
  TypeOK
  EofLosesNothing
  SendsInOrder
  NeverDeaf
PROPERTIES
  FeedSpec
  FramesHandled
  ShutdownTold
  SendsArrive
