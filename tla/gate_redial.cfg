SPECIFICATION SystemSpec
CONSTANTS
  c1 = c1
  g1 = g1
  g2 = g2
  Clients <- OneClient
  Links <- TwoLinks
  MaxFrames = 1
  MaxReplies = 0
  Faults = {}
  Null = Null
  MinusOne = MinusOne
INVARIANTS
  TdSetBeforeUse
CHECK_DEADLOCK FALSE
