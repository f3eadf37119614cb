---------------------------- MODULE PolicyEngine ----------------------------
(***************************************************************************)
(* The demo policy engine (packages/policy-engine/index.js) behind the     *)
(* tools of apps/mcp-server/tools.js: one in-memory state, and a call that *)
(* evaluates an action and, when it is allowed, writes its receipt.        *)
(*                                                                         *)
(* JavaScript is single-threaded and the call awaits nothing: it is one    *)
(* step.  A call that is refused, and a simulation, change nothing.        *)
(* Amounts are numbers of either sign, or NaN, which Number makes of a      *)
(* string that is none.  Agents are revoked, approvals given and time       *)
(* passes outside.                                                          *)
(***************************************************************************)
EXTENDS Integers, Sequences, SequencesExt

CONSTANTS
  Agents,     \* agent ids, known or not
  Services,   \* service ids, known or not
  Keys,       \* idempotency keys
  NoKey,      \* the empty idempotency key
  Approvals,  \* approval ids
  Amounts,    \* the amounts agents propose
  Policies,   \* state.policies: one policy for each agent that has one
  Catalog,    \* state.services: whether each known service is active
  MaxTime,    \* bound on the clock
  MaxU64,     \* the range of the prototype's amounts
  NaN,        \* Number("x")
  None

ASSUME DomainAssumption ==
  /\ DOMAIN Policies \subseteq Agents /\ DOMAIN Catalog \subseteq Services
  /\ NoKey \notin Keys /\ MaxTime \in Nat
  /\ NaN \notin Int /\ Amounts \subseteq Int \cup {NaN}
  /\ Catalog \in [DOMAIN Catalog -> BOOLEAN]

\* The policies of createDemoState; the prototype's amounts can hold them.
ASSUME PolicyAssumption ==
  /\ MaxU64 \in Nat
  /\ \A g \in DOMAIN Policies :
       /\ Policies[g].usedBudget = 0
       /\ Policies[g].maxAmount \in 0..MaxU64 /\ Policies[g].dailyBudget \in 0..MaxU64
       /\ Policies[g].services \subseteq Services /\ Policies[g].active \in BOOLEAN

VARIABLES
  agents,     \* agents[g]: "active" or "revoked", for the known agents
  approvals,  \* state.approvals
  spent,      \* spentByAgent[g]
  keys,       \* seenIdempotencyKeys
  receipts,   \* newest first
  now

vars == <<agents, approvals, spent, keys, receipts, now>>

\* createDemoState.
Init ==
  /\ agents = [g \in DOMAIN Policies |-> "active"]
  /\ approvals = {}
  /\ spent = [g \in DOMAIN Policies |-> 0]
  /\ keys = {}
  /\ receipts = <<>>
  /\ now = 0

\* The checks of evaluatePolicy; every one of them refuses the action.
KnownAgent(g) == g \in DOMAIN Policies
ActiveAgent(g) == g \in DOMAIN Policies /\ agents[g] = "active"

InForce(g) == Policies[g].active /\ Policies[g].expiresAt >= now

Purchasable(g, s) ==
  /\ s \in DOMAIN Catalog /\ Catalog[s]
  /\ s \in Policies[g].services

AnyKey(key) == key # NoKey
Fresh(key) == key # NoKey /\ key \notin keys

\* JavaScript's x + y, x > limit and x || y on numbers: NaN is absorbing,
\* exceeds nothing, and is as false as zero.
Sum(x, y) == IF NaN \in {x, y} THEN NaN ELSE x + y
Exceeds(x, limit) == x # NaN /\ x > limit
OrElse(x, y) == IF x \in {0, NaN} THEN y ELSE x

\* spentByAgent counts, unless it is zero or NaN: then the policy's usedBudget
\* does.
UsedBudget(g) == Policies[g].usedBudget
Spent(g) == OrElse(spent[g], Policies[g].usedBudget)

WithinLimits(g, amount, approval) ==
  /\ ~Exceeds(amount, Policies[g].maxAmount)
  /\ ~Exceeds(Sum(Spent(g), amount), Policies[g].dailyBudget)
  /\ Exceeds(amount, Policies[g].approvalThreshold) => approval \in approvals

\* applyAllowedAction on an action that evaluatePolicy allows.
Execute(g, s, amount, key, approval) ==
  /\ ActiveAgent(g) /\ InForce(g)
  /\ Purchasable(g, s)
  /\ Fresh(key)
  /\ WithinLimits(g, amount, approval)
  /\ keys' = keys \cup {key}
  /\ spent' = [spent EXCEPT ![g] = Sum(OrElse(@, 0), amount)]
  /\ receipts' = <<[agent |-> g, service |-> s, amount |-> amount, key |-> key]>> \o receipts
  /\ UNCHANGED <<agents, approvals, now>>

Revoke(g) ==
  /\ agents[g] = "active"
  /\ agents' = [agents EXCEPT ![g] = "revoked"]
  /\ UNCHANGED <<approvals, spent, keys, receipts, now>>

Approve(approval) ==
  /\ approval \notin approvals
  /\ approvals' = approvals \cup {approval}
  /\ UNCHANGED <<agents, spent, keys, receipts, now>>

Tick ==
  /\ now < MaxTime
  /\ now' = now + 1
  /\ UNCHANGED <<agents, approvals, spent, keys, receipts>>

Next ==
  \/ \E g \in Agents, s \in Services, amount \in Amounts,
        key \in Keys \cup {NoKey}, approval \in Approvals :
       Execute(g, s, amount, key, approval)
  \/ \E g \in DOMAIN Policies : Revoke(g)
  \/ \E approval \in Approvals : Approve(approval)
  \/ Tick

Spec == Init /\ [][Next]_vars

-----------------------------------------------------------------------------
(* Safety *)

\* README.md: idempotency keys protect against replay.  Whichever agents and
\* services use a key, it pays for one receipt;
\* no receipt lacks a key.
OneReceiptPerKey ==
  /\ \A i, j \in DOMAIN receipts : receipts[i].key = receipts[j].key => i = j
  /\ keys = {receipts[i].key : i \in DOMAIN receipts}
  /\ NoKey \notin keys

\* An agent's receipts, and those of them since its last one for no number.
Bought(g) == {i \in DOMAIN receipts : receipts[i].agent = g}
Counted(g) ==
  {i \in Bought(g) : \A j \in Bought(g) : j <= i => receipts[j].amount # NaN}
Paid(g) == SumFunction([i \in Counted(g) |-> receipts[i].amount])

\* The running sum the daily budget is checked against: it is that of the
\* agent's receipts and within the budget, of all of them as long as every
\* amount was a number.  A receipt for NaN makes the sum NaN and passes every
\* limit (docs/security.md:64 asks for an amount that is positive and within
\* limit), and the next receipt starts the sum again from zero: what was
\* spent before it counts no more.
SpentAccounts ==
  \A g \in DOMAIN Policies :
    IF Bought(g) # {} /\ Counted(g) = {}
    THEN spent[g] = NaN
    ELSE spent[g] = Paid(g) /\ spent[g] <= Policies[g].dailyBudget

-----------------------------------------------------------------------------
(* The engine and the contract prototype agree *)

ASSUME NoneAssumption ==
  /\ None \notin {"active", "revoked"}
  /\ None \notin [maxAmount: Int, dailyBudget: Int, usedBudget: Int,
                  services: SUBSET Services, active: BOOLEAN]

CorePolicy(g) ==
  [maxAmount |-> Policies[g].maxAmount, dailyBudget |-> Policies[g].dailyBudget,
   usedBudget |-> spent[g], services |-> Policies[g].services, active |-> Policies[g].active]

Core == INSTANCE AgentSafeCore WITH
  agents <- [g \in Agents |-> IF g \in DOMAIN Policies THEN agents[g] ELSE None],
  policies <- [g \in Agents |-> IF g \in DOMAIN Policies THEN CorePolicy(g) ELSE None],
  services <- [s \in Services |-> IF s \in DOMAIN Catalog THEN Catalog[s] ELSE None],
  receipts <- Reverse(receipts)

\* What the JavaScript engine does, the Rust prototype would do in the same
\* state: as long as every amount was one the prototype can be given, a number
\* and not negative, every step is a step of AgentSafeCore.
Proper(amount) == amount # NaN /\ amount >= 0

StepsOfCore ==
  [][(\A i \in DOMAIN receipts' : Proper(receipts'[i].amount)) =>
       UNCHANGED Core!vars \/ Core!Next]_vars
=============================================================================
