------------------------------ MODULE Gateway ------------------------------
(***************************************************************************)
(* The paid-action gateway (packages/gateway/index.js), the decision of    *)
(* the mandate engine it calls (packages/mandate-engine/index.js) and the  *)
(* per-mandate lock of the store it runs under.                            *)
(*                                                                         *)
(* A call of POST /api/mandates/:id/requests takes its timestamp when      *)
(* authorizeGatewayRequest is entered and then waits for the lock; holding *)
(* it, the callback reads the mandate and all its executions, decides and  *)
(* writes one execution.  The callback never awaits, so everything under   *)
(* the lock is one step.  Nothing is assumed of the order in which waiting *)
(* calls get the lock: FIFO in the JSON and memory stores, unspecified in  *)
(* Postgres.                                                               *)
(***************************************************************************)
EXTENDS Integers, Sequences, FiniteSets, Functions

CONSTANTS
  Mandates,    \* mandate ids in the store
  Policy,      \* Policy[m]: the policy fields of m but its owner, fixed at its creation
  Calls,       \* gateway calls; each has the request id the gateway mints
  Proposals,   \* the actions an agent proposes: [service, amount, key]
  NoKey,       \* a missing idempotency key
  None,
  Rows,        \* what mandate rows hold and are given besides: [status, hashMatches]
  Ttl,         \* RESERVATION_TTL_MS
  MaxTime      \* bound on the clock

ASSUME TimeAssumption == Ttl \in Nat \ {0} /\ MaxTime \in Nat
ASSUME PolicyAssumption ==
  \A m \in Mandates :
    /\ {Policy[m].maxAmount, Policy[m].dailyBudget, Policy[m].approvalThreshold,
        Policy[m].validFrom, Policy[m].expiresAt} \subseteq Nat
ASSUME ProposalAssumption == \A a \in Proposals : a.amount \in Int

\* hashMatches: the policy hash is still that of the row's fields, which it is
\* as long as the mandate belongs to the wallet it was drafted for.
ASSUME RowAssumption ==
  Rows \subseteq [status: {"draft", "pending", "active", "revoked"}, hashMatches: BOOLEAN]

ReasonCode == {"MANDATE_INVALID", "MANDATE_DISABLED", "MANDATE_NOT_ACTIVE",
               "MANDATE_NOT_YET_VALID", "MANDATE_EXPIRED", "SERVICE_NOT_ALLOWED",
               "DUPLICATE_ACTION", "INVALID_AMOUNT", "AMOUNT_OVER_LIMIT",
               "BUDGET_EXCEEDED", "APPROVAL_REQUIRED", "ALLOWED"}

RequestStatus == {"proposed", "validated", "authorized", "approval_required", "blocked",
                  "settlement_pending", "settled", "delivered", "proven", "failed"}

Call == [stage: {"waiting", "answered", "failed"}, mandate: Mandates,
         action: Proposals, at: 0..MaxTime]

Execution == [mandate: Mandates, key: {a.key : a \in Proposals}, amount: Nat,
              reason: ReasonCode, status: RequestStatus, at: 0..MaxTime,
              reservedUntil: 0..(MaxTime + Ttl), trail: Seq(RequestStatus)]

ASSUME NoneAssumption == None \notin Call \cup Execution

VARIABLES
  mandates,    \* mandates[m]: the stored row of m, in Rows
  calls,       \* calls[c]: None, or [stage, mandate, action, at]
  executions,  \* executions[c]: None, or the execution row the call wrote
  now

vars == <<mandates, calls, executions, now>>

Init ==
  /\ mandates \in [Mandates -> Rows]
  /\ calls = [c \in Calls |-> None]
  /\ executions = [c \in Calls |-> None]
  /\ now = 0

-----------------------------------------------------------------------------
(* The mandate engine *)

\* validateMandate.  wellFormed stands for its checks of the owner, agent,
\* account hash, network and asset.
ValidMandate(m, t) ==
  LET p == Policy[m] IN
  /\ p.wellFormed /\ mandates[m].hashMatches
  /\ p.services # {}
  /\ p.maxAmount > 0
  /\ p.dailyBudget >= p.maxAmount
  /\ p.approvalThreshold <= p.maxAmount
  /\ p.validFrom < p.expiresAt /\ p.expiresAt > t

Executed(m) == {c \in Calls : executions[c] # None /\ executions[c].mandate = m}

\* Every execution of the mandate uses up its key, blocked ones included.
SeenGranted(m) ==
  {executions[c].key : c \in {d \in Executed(m) : executions[d].status = "authorized"}}
SeenKeys(m) == {executions[c].key : c \in Executed(m)}

\* activeReservationMotes at time t.
StillReservedBriefly(e, t) == e.status = "authorized" /\ e.reservedUntil > t
StillReserved(e, t) ==
  e.status \in {"authorized", "settlement_pending"} /\ e.reservedUntil > t
Motes(S) == SumFunction([c \in S |-> executions[c].amount])
ReservedMotes(m, t) == Motes({c \in Executed(m) : StillReserved(executions[c], t)})

FitsAlone(m, a, t) == a.amount <= Policy[m].dailyBudget
FitsBudget(m, a, t) == ReservedMotes(m, t) + a.amount <= Policy[m].dailyBudget

InForceUnlessRevoked(m) == mandates[m].status # "revoked"
InForce(m) == mandates[m].status = "active"

\* evaluateMandate: the first check that fails names the decision.  The
\* expiry check comes after ValidMandate has already refused an expired
\* mandate.  spentTodayMotes is zero: no code path of the server raises it.
Decision(m, a, t) ==
  LET p == Policy[m] IN
  IF ~ValidMandate(m, t) THEN "MANDATE_INVALID"
  ELSE IF mandates[m].status = "revoked" THEN "MANDATE_DISABLED"
  ELSE IF ~InForce(m) THEN "MANDATE_NOT_ACTIVE"
  ELSE IF p.validFrom > t THEN "MANDATE_NOT_YET_VALID"
  ELSE IF p.expiresAt <= t THEN "MANDATE_EXPIRED"
  ELSE IF a.service \notin p.services THEN "SERVICE_NOT_ALLOWED"
  ELSE IF a.key = NoKey \/ a.key \in SeenKeys(m) THEN "DUPLICATE_ACTION"
  ELSE IF a.amount <= 0 THEN "INVALID_AMOUNT"
  ELSE IF a.amount > p.maxAmount THEN "AMOUNT_OVER_LIMIT"
  ELSE IF ~FitsBudget(m, a, t) THEN "BUDGET_EXCEEDED"
  ELSE IF a.amount > p.approvalThreshold THEN "APPROVAL_REQUIRED"
  ELSE "ALLOWED"

StatusAfter(reason) ==
  IF reason = "ALLOWED" THEN "authorized"
  ELSE IF reason = "APPROVAL_REQUIRED" THEN "approval_required"
  ELSE "blocked"

-----------------------------------------------------------------------------
(* Gateway calls *)

\* The handler has checked the owner and taken the timestamp of the request.
Receive(c, m, a) ==
  /\ calls[c] = None
  /\ calls' = [calls EXCEPT ![c] =
       [stage |-> "waiting", mandate |-> m, action |-> a, at |-> now]]
  /\ UNCHANGED <<mandates, executions, now>>

\* agentpay_authorize_paid_tool, the MCP entry to the same gateway: requireMandate
\* instead of the owner's session, and a schema that lets through neither a
\* missing key nor a signed amount.
PassesSchema(a) == a.key # NoKey /\ a.amount >= 0
ReceiveFromMcp(c, m, a) == PassesSchema(a) /\ Receive(c, m, a)

\* normalizeMandateAction throws on a negative amount.
AnyAmount(a) == TRUE
Normalizable(a) == a.amount >= 0

\* A reservation is dated from the timestamp of the request.
EndFromCommit(c) == now + Ttl
ReservationEnd(c) == calls[c].at + Ttl

\* createGatewayRequest and the write of its result, holding the lock.
Authorize(c) ==
  /\ calls[c] # None /\ calls[c].stage = "waiting"
  /\ LET m == calls[c].mandate
         a == calls[c].action
         reason == Decision(m, a, calls[c].at)
         status == StatusAfter(reason) IN
       /\ Normalizable(a)
       /\ executions' = [executions EXCEPT ![c] =
            [mandate |-> m, key |-> a.key, amount |-> a.amount, reason |-> reason,
             status |-> status, at |-> calls[c].at,
             reservedUntil |-> IF status = "authorized" THEN ReservationEnd(c) ELSE 0,
             trail |-> <<"proposed", "validated", status>>]]
  /\ calls' = [calls EXCEPT ![c].stage = "answered"]
  /\ UNCHANGED <<mandates, now>>

\* The callback throws (a negative amount always does), the store fails or the
\* process dies before the commit: nothing is written, the lock is released.
Fail(c) ==
  /\ calls[c] # None /\ calls[c].stage = "waiting"
  /\ calls' = [calls EXCEPT ![c].stage = "failed"]
  /\ UNCHANGED <<mandates, executions, now>>

SkippingTransitions(status) ==
  CASE status = "authorized" -> {"settlement_pending", "settled", "failed"}
    [] status = "settlement_pending" -> {"settled", "failed"}
    [] status = "settled" -> {"delivered", "failed"}
    [] status = "delivered" -> {"proven", "failed"}
    [] OTHER -> {}
AllowedTransitions(status) ==
  CASE status = "authorized" -> {"settlement_pending", "failed"}
    [] status = "settlement_pending" -> {"settled", "failed"}
    [] status = "settled" -> {"delivered", "failed"}
    [] status = "delivered" -> {"proven", "failed"}
    [] OTHER -> {}

\* transitionGatewayRequest on a decided request.  It looks at neither the
\* mandate nor the clock.
Transition(c, next) ==
  /\ executions[c] # None
  /\ next \in AllowedTransitions(executions[c].status)
  /\ executions' = [executions EXCEPT ![c].status = next,
                                      ![c].trail = Append(@, next)]
  /\ UNCHANGED <<mandates, calls, now>>

\* A lifecycle handler saves the mandate row, with another status or owner.
SaveMandate(m, r) ==
  /\ mandates[m] # r
  /\ mandates' = [mandates EXCEPT ![m] = r]
  /\ UNCHANGED <<calls, executions, now>>

Tick ==
  /\ now < MaxTime
  /\ now' = now + 1
  /\ UNCHANGED <<mandates, calls, executions>>

Next ==
  \/ \E c \in Calls :
       \/ \E m \in Mandates, a \in Proposals : ReceiveFromMcp(c, m, a) \/ Receive(c, m, a)
       \/ Authorize(c)
       \/ Fail(c)
       \/ \E next \in RequestStatus : Transition(c, next)
  \/ \E m \in Mandates, r \in Rows : SaveMandate(m, r)
  \/ Tick

Spec == Init /\ [][Next]_vars

-----------------------------------------------------------------------------
(* Safety *)

\* Rows have their shape, and a call has a row exactly when it was answered.
TypeOK ==
  /\ mandates \in [Mandates -> Rows]
  /\ calls \in [Calls -> Call \cup {None}]
  /\ executions \in [Calls -> Execution \cup {None}]
  /\ \A c \in Calls :
       executions[c] # None <=> calls[c] # None /\ calls[c].stage = "answered"
  /\ now \in 0..MaxTime

Granted(c) == executions[c] # None /\ executions[c].reason = "ALLOWED"

\* At every moment the reservations of a mandate fit its daily budget, though
\* each was decided against a timestamp taken before the lock was granted.
ReservationsWithinBudget ==
  \A m \in Mandates : ReservedMotes(m, now) <= Policy[m].dailyBudget

\* Of all the calls that carry one idempotency key for one mandate - retries,
\* duplicates, concurrent senders - at most one is ever granted.
OneGrantPerKey ==
  \A c, d \in Calls :
    /\ Granted(c) /\ Granted(d)
    /\ executions[c].mandate = executions[d].mandate
    /\ executions[c].key = executions[d].key
    => c = d

\* A grant was decided inside the validity of its mandate, for an allowed
\* service and an amount the agent may spend unapproved, and its reservation
\* runs from the request, not from the moment the lock was obtained.
GrantsWithinPolicy ==
  \A c \in Calls : Granted(c) =>
    LET e == executions[c]  p == Policy[e.mandate] IN
    /\ e.at \in p.validFrom..(p.expiresAt - 1)
    /\ calls[c].action.service \in p.services
    /\ e.key # NoKey
    /\ e.amount \in 1..p.approvalThreshold
    /\ e.reservedUntil = e.at + Ttl

\* A call that was waiting while the mandate was revoked, not yet confirmed or
\* handed to another wallet is not granted when it gets the lock.
GrantOnlyInForce ==
  [][\A c \in Calls : Granted(c)' /\ ~Granted(c) =>
       mandates[calls[c].mandate] = [status |-> "active", hashMatches |-> TRUE]]_vars

\* Only a grant is ever settled, and a proof comes only after settlement and
\* delivery, in that order.
Lifecycle == <<"proposed", "validated", "authorized", "settlement_pending",
               "settled", "delivered", "proven">>

TrailInOrder ==
  \A c \in Calls : executions[c] # None =>
    LET e == executions[c]
        n == Len(e.trail) IN
    /\ e.trail[n] = e.status
    /\ e.status \in {"settlement_pending", "settled", "delivered", "proven"} => Granted(c)
    /\ \A i \in 1..n :
         \/ e.trail[i] = Lifecycle[i]
         \/ i = n /\ e.status \in {"failed", "blocked", "approval_required"}

\* README.md speaks of a daily limit.  The whole clock of the model is one day:
\* what was settled in it, together with what is still reserved, would stay
\* within the daily budget.  It does not: a settled request leaves the
\* reservations and spentTodayMotes is not raised in exchange.
Paid(e) == e.status \in {"settled", "delivered", "proven"}

PaidAndReservedWithinBudget ==
  \A m \in Mandates :
    Motes({c \in Executed(m) : \/ Paid(executions[c])
                               \/ StillReserved(executions[c], now)})
      <= Policy[m].dailyBudget

-----------------------------------------------------------------------------
(* The gateway keeps a reservation book *)

Hold(c) == [mandate |-> executions[c].mandate, amount |-> executions[c].amount,
            until |-> executions[c].reservedUntil,
            open |-> executions[c].status \in {"authorized", "settlement_pending"}]

\* None is the empty place of the book too.
ASSUME HoldAssumption ==
  None \notin [mandate: Mandates, amount: Nat, until: Nat, open: BOOLEAN]

Book == INSTANCE ReservationBook WITH
  Ids <- Calls, Budget <- [m \in Mandates |-> Policy[m].dailyBudget], NoHold <- None,
  book <- [c \in Calls |-> IF Granted(c) THEN Hold(c) ELSE None],
  clock <- now

\* Every step of the gateway is a step of the book, or none: taking the
\* timestamp before the lock never lets a hold in that the book would refuse.
ImplementsBook == Book!Spec
=============================================================================
