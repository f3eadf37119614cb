SPECIFICATION Spec
CONSTANTS
  NoKey = NoKey
  None = None
  NaN = NaN
  Agents = {"a1", "a2", "a3"}
  Services = {"s1", "s2", "s3"}
  Keys = {"k1", "k2", "k3"}
  Approvals = {"p1"}
  Amounts <- AnyAmounts
  Policies <- TwoPolicies
  Catalog <- TwoServices
  MaxTime = 2
  MaxU64 = 3
CHECK_DEADLOCK FALSE
INVARIANTS
  OneReceiptPerKey
  SpentAccounts
PROPERTIES
  StepsOfCore
