SPECIFICATION Spec
CONSTANTS
  m1 = m1
  c1 = c1
  c2 = c2
  c3 = c3
  k1 = k1
  k2 = k2
  k3 = k3
  NoKey = NoKey
  None = None
  Mandates = {m1}
  Policy <- AgentPolicy
  Rows <- AnyRow
  Calls = {c1, c2, c3}
  Proposals <- DecisionProposals
  Ttl = 1
  MaxTime = 2
SYMMETRY KeySymmetry
INVARIANTS
  TypeOK
  OneGrantPerKey
  GrantsWithinPolicy
  TrailInOrder
  ReservationsWithinBudget
PROPERTIES
  GrantOnlyInForce
  ImplementsBook
