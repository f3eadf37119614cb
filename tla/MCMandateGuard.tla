--------------------------- MODULE MCMandateGuard ---------------------------
(***************************************************************************)
(* Two small instances of MandateGuard.                                    *)
(*   MCMandateGuardWindows: one mandate, four actions, a three-tick day and *)
(*   a u64 of seven, so windows open, fill up, elapse and saturate; under   *)
(*   the last policy what was spent and the next amount pass the u64.       *)
(*   MCMandateGuardCalls: two mandates side by side, two services, owners, *)
(*   agents and strangers, settlements, and little time.                   *)
(* With two accounts either may own a mandate and either may be its agent: *)
(* where one is both, the other is a stranger.                             *)
(***************************************************************************)
EXTENDS MandateGuard, TLC

CONSTANTS c1, c2, a1, a2, a3, a4

Policy(max, budget, threshold, from, until) ==
  [maxAmount |-> max, dailyBudget |-> budget, approvalThreshold |-> threshold,
   validFrom |-> from, expiresAt |-> until]

WindowPolicies ==
  {Policy(2, 3, 1, 1, MaxU64), Policy(2, 2, 2, 0, 6), Policy(5, MaxU64, 5, 0, 2)}

\* One acceptable policy and four that create_mandate refuses.
CallPolicies == {Policy(2, 2, 1, 0, 2), Policy(0, 2, 0, 0, 2), Policy(2, 1, 1, 0, 2),
                 Policy(1, 2, 2, 0, 2), Policy(1, 2, 1, 2, 2)}

WindowSymmetry == Permutations({c1, c2}) \cup Permutations({a1, a2, a3, a4})
CallSymmetry == Permutations({c1, c2})
=============================================================================
