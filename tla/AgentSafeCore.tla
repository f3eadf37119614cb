---------------------------- MODULE AgentSafeCore ----------------------------
(***************************************************************************)
(* The contract prototype AgentSafeState                                   *)
(* (contracts/agent-safe-core/src/lib.rs): agents, their policies, services *)
(* and the receipts of what was spent.  It is also what the JavaScript      *)
(* policy engine is shown to implement.                                     *)
(*                                                                         *)
(* The budget sum is an unchecked u64 addition: a build with overflow      *)
(* checks panics before anything is written, a release build wraps.  Only  *)
(* the latter changes state, so the sum wraps here.                        *)
(***************************************************************************)
EXTENDS Integers, Sequences

CONSTANTS
  Agents,
  Services,
  Keys,     \* idempotency keys
  MaxU64,   \* the largest u64
  None      \* a missing map entry

U64 == 0..MaxU64

Policy == [maxAmount: U64, dailyBudget: U64, usedBudget: U64,
           services: SUBSET Services, active: BOOLEAN]

Receipt == [agent: Agents, service: Services, amount: U64, key: Keys]

VARIABLES
  agents,    \* agents[g]: None, "active" or "revoked"
  policies,  \* policies[g]: None or a policy
  services,  \* services[s]: None, or whether s is active
  keys,      \* idempotency_keys
  receipts   \* oldest first

vars == <<agents, policies, services, keys, receipts>>

Init ==
  /\ agents = [g \in Agents |-> None]
  /\ policies = [g \in Agents |-> None]
  /\ services = [s \in Services |-> None]
  /\ keys = {}
  /\ receipts = <<>>

\* Registering again makes a revoked agent active.
RegisterAgent(g) ==
  /\ agents' = [agents EXCEPT ![g] = "active"]
  /\ UNCHANGED <<policies, services, keys, receipts>>

RevokeAgent(g) ==
  /\ agents[g] # None
  /\ agents' = [agents EXCEPT ![g] = "revoked"]
  /\ UNCHANGED <<policies, services, keys, receipts>>

\* The caller's policy is stored as it is, usedBudget included.
SetPolicy(g, p) ==
  /\ policies' = [policies EXCEPT ![g] = p]
  /\ UNCHANGED <<agents, services, keys, receipts>>

RegisterService(s, isActive) ==
  /\ services' = [services EXCEPT ![s] = isActive]
  /\ UNCHANGED <<agents, policies, keys, receipts>>

WrappingSum(x, y) == (x + y) % (MaxU64 + 1)

\* evaluate; every check refuses, so their order does not matter here.
Allowed(g, s, amount, key) ==
  /\ agents[g] = "active"
  /\ policies[g] # None /\ policies[g].active
  /\ services[s] = TRUE
  /\ s \in policies[g].services
  /\ key \notin keys
  /\ amount <= policies[g].maxAmount
  /\ WrappingSum(policies[g].usedBudget, amount) <= policies[g].dailyBudget

WriteReceipt(g, s, amount, key) ==
  /\ Allowed(g, s, amount, key)
  /\ policies' = [policies EXCEPT ![g].usedBudget = WrappingSum(@, amount)]
  /\ keys' = keys \cup {key}
  /\ receipts' = Append(receipts, [agent |-> g, service |-> s, amount |-> amount, key |-> key])
  /\ UNCHANGED <<agents, services>>

Next ==
  \/ \E g \in Agents : RegisterAgent(g) \/ RevokeAgent(g)
  \/ \E s \in Services, isActive \in BOOLEAN : RegisterService(s, isActive)
  \/ \E g \in Agents, s \in Services, amount \in U64, key \in Keys :
       WriteReceipt(g, s, amount, key)
  \/ \E g \in Agents, p \in Policy : SetPolicy(g, p)

Spec == Init /\ [][Next]_vars
=============================================================================
