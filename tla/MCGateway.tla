----------------------------- MODULE MCGateway -----------------------------
(***************************************************************************)
(* Gateway with one mandate of budget 2 and three concurrent calls: of     *)
(* amounts 2, 1 and 1 without approvals, and of every kind of proposal     *)
(* under a threshold of 1 while the mandate expires.                       *)
(***************************************************************************)
EXTENDS Gateway, TLC

CONSTANTS m1, c1, c2, c3, k1, k2, k3

PolicyOf(wellFormed, services, max, budget, threshold, from, until) ==
  [wellFormed |-> wellFormed, services |-> services, maxAmount |-> max,
   dailyBudget |-> budget, approvalThreshold |-> threshold,
   validFrom |-> from, expiresAt |-> until]

Propose(service, amount, key) == [service |-> service, amount |-> amount, key |-> key]

OnePolicy == (m1 :> PolicyOf(TRUE, {"s1"}, 2, 2, 2, 0, 4))

BudgetProposals == {Propose("s1", 2, k1), Propose("s1", 1, k2), Propose("s1", 1, k3)}

AgentPolicy == (m1 :> PolicyOf(TRUE, {"s1"}, 2, 2, 1, 0, 2))

DecisionProposals == {Propose("s1", 1, k) : k \in {k1, k2, k3, NoKey}} \cup
  {Propose("s1", 2, k2), Propose("s1", -1, k2), Propose("s2", 3, k2)}

Sound(status) == [status |-> status, hashMatches |-> TRUE]

ActiveOrRevoked == {Sound("active"), Sound("revoked")}

\* An active mandate may have been handed over.
AnyRow == {Sound("pending"), Sound("active"), Sound("revoked"),
           [status |-> "active", hashMatches |-> FALSE]}

Symmetry == Permutations({c1, c2, c3})

\* k1 and k3 name the same proposals.
KeySymmetry == Symmetry \cup Permutations({k1, k3})
=============================================================================
