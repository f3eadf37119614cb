SPECIFICATION FairSessionSpec
CONSTANTS
  k1 = k1
  k2 = k2
  None = None
  Keys = {k1, k2}
  Stored = {k2}
  MaxAdmitted = 1
  Challenges = {ch1, ch2}
  Logins = {l1, l2}
  ChallengeTtl = 1
  SessionTtl = 1
  MaxTime = 1
  MaxRestarts = 1
CHECK_DEADLOCK FALSE
INVARIANTS
  SessionTypeOK
  OneSessionPerChallenge
  SessionProven
  ConsumedByOwner
  ListedIsProven
PROPERTIES
  OwnershipAuthorized
  SignInsEnd
