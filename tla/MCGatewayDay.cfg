SPECIFICATION Spec
CONSTANTS
  m1 = m1
  c1 = c1
  c2 = c2
  c3 = c3
  k1 = k1
  k2 = k2
  k3 = k3
  NoKey = NoKey
  None = None
  Mandates = {m1}
  Policy <- OnePolicy
  Rows <- ActiveOrRevoked
  Calls = {c1, c2, c3}
  Proposals <- BudgetProposals
  Ttl = 1
  MaxTime = 2
SYMMETRY Symmetry
INVARIANTS
  PaidAndReservedWithinBudget
