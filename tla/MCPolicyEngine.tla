--------------------------- MODULE MCPolicyEngine ---------------------------
(***************************************************************************)
(* Two agents with a policy and one without, one service that both may     *)
(* buy, one that is inactive and one that is unknown.                      *)
(***************************************************************************)
EXTENDS PolicyEngine

PolicyOf(max, budget, threshold, services, until) ==
  [active |-> TRUE, maxAmount |-> max, dailyBudget |-> budget, usedBudget |-> 0,
   approvalThreshold |-> threshold, services |-> services, expiresAt |-> until]

TwoPolicies ==
  [g \in {"a1", "a2"} |-> IF g = "a1" THEN PolicyOf(2, 3, 1, {"s1", "s2", "s3"}, 1)
                                      ELSE PolicyOf(3, 3, 3, {"s1"}, 2)]

TwoServices == [s \in {"s1", "s2"} |-> s = "s1"]

AnyAmounts == (-1..3) \cup {NaN}
=============================================================================
