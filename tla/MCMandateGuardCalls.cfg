SPECIFICATION Spec
CONSTANTS
  c1 = c1
  c2 = c2
  a1 = a1
  a2 = a2
  a3 = a3
  a4 = a4
  Empty = Empty
  None = None
  Mandates = {m1, m2}
  Accounts = {c1, c2}
  Actions = {a1, Empty}
  Services = {s1, s2, Empty}
  Hashes = {h1, h2, Empty}
  Policies <- CallPolicies
  MaxU64 = 2
  Day = 1
SYMMETRY CallSymmetry
INVARIANTS
  TypeOK
  AuthorizedUnderTerms
  OneEventPerAction
PROPERTIES
  RevocationFinal
  EvidenceImmutable
