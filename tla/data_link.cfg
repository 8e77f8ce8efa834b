SPECIFICATION FairSpec
CONSTANTS
  Links = {g1, g2, g3}
  Addresses = {a1, a2}
  Null = Null
  MinusOne = MinusOne
INVARIANTS
  RegistOnDataLink
  OneDataLink
PROPERTIES
  DataRegistered
CHECK_DEADLOCK FALSE
