SPECIFICATION FairSpec
CONSTANTS
  Roles = {r1, r2}
  MaxRecords = 3
  Nothing = Nothing
  ErrorText = ErrorText
INVARIANTS
  TypeOK
  SavedOrOnItsWay
PROPERTIES
  NoGoingBack
  WorkedOff
