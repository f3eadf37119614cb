SPECIFICATION FairSpec
CONSTANTS
  u1 = u1
  u2 = u2
  u3 = u3
  Missing = Missing
  Torn = Torn
  Updates = {u1, u2, u3}
  Throwing = {u3}
  MaxCrashes = 2
CHECK_DEADLOCK FALSE
INVARIANTS
  FileWhole
PROPERTIES
  ImplementsLog
  UpdatesSettle
