SPECIFICATION FairSpec
CONSTANTS
  a1 = a1
  a2 = a2
  s1 = s1
  k1 = k1
  k2 = k2
  NoRow = NoRow
  Calls = {a1, a2}
  Saves = {s1}
  Creations = {k1, k2}
  PoolSize = 2
  MaxLosses = 1
CHECK_DEADLOCK FALSE
INVARIANTS
  DecisionsSerial
PROPERTIES
  ImplementsLog
  CallsSettle
