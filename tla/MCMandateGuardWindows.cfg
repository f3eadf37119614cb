SPECIFICATION Spec
CONSTANTS
  c1 = c1
  c2 = c2
  a1 = a1
  a2 = a2
  a3 = a3
  a4 = a4
  Empty = Empty
  None = None
  Mandates = {m1}
  Accounts = {c1, c2}
  Actions = {a1, a2, a3, a4}
  Services = {s1}
  Hashes = {Empty}
  Policies <- WindowPolicies
  MaxU64 = 7
  Day = 3
SYMMETRY WindowSymmetry
INVARIANTS
  LedgerAccounts
  WindowsADayApart
  RollingDayBound
PROPERTIES
  ImplementsAuthority
