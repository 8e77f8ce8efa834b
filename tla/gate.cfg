SPECIFICATION FairSystem
CONSTANTS
  c1 = c1
  g1 = g1
  g2 = g2
  Clients <- OneClient
  Links <- TwoLinks
  MaxFrames = 2
  MaxReplies = 1
  Faults = {"fcntl", "register"}
  Null = Null
  MinusOne = MinusOne
INVARIANTS
  CrashOnlyAfterLoss
  RegistOnItsLink
  RelayedInOrder
  RefusedOnlyAfterLoss
  NothingEchoed
PROPERTIES
  EndHeard
  GateKnown
CHECK_DEADLOCK FALSE
