---------------------------- MODULE MandateGuard ----------------------------
(***************************************************************************)
(* The Odra contract MandateGuard (contracts/agent-safe-odra/src/lib.rs). *)
(*                                                                         *)
(* Storage maps keyed by mandate id are functions on Mandates.  The terms *)
(* written once by create_mandate (owners, agents, max_amounts, ...) are  *)
(* one record, None when owners.get(id) is none.  A contract call is one  *)
(* atomic action; a call that reverts changes nothing and is a stuttering *)
(* step.  events[m] is the ActionAuthorized event log of m, each entry    *)
(* carrying the caller and the window it was charged to as well.          *)
(***************************************************************************)
EXTENDS Integers, Sequences, FiniteSets, Functions

CONSTANTS
  Mandates,   \* mandate ids
  Accounts,   \* account addresses: owners, agents and strangers
  Actions,    \* action hashes, Empty possibly among them
  Services,   \* service ids, Empty possibly among them
  Hashes,     \* settlement and result hashes, Empty possibly among them
  Policies,   \* the numeric terms callers pass to create_mandate
  Empty,      \* the empty string
  None,       \* Mapping::get on a missing key
  MaxU64,     \* the largest u64: 2^64 - 1 in the contract
  Day         \* DAY_MS

U64 == 0..MaxU64

Limits == [maxAmount: U64, dailyBudget: U64, approvalThreshold: U64,
           validFrom: U64, expiresAt: U64]

Terms == [owner: Accounts, agent: Accounts, limits: Limits]

ASSUME WidthAssumption == MaxU64 \in Nat /\ Day \in 1..MaxU64
ASSUME PolicyAssumption == Policies \subseteq Limits
ASSUME NoneAssumption == None \notin Terms \cup Hashes \cup Actions
ASSUME MandatesAssumption == IsFiniteSet(Mandates)

VARIABLES
  terms,          \* terms[m]: what create_mandate wrote, or None
  active,         \* active[m]
  spent,          \* spent_in_window[m]
  windowStart,    \* window_started_at[m]
  services,       \* services[m]: the s with allowed_services[(m, s)]
  authorized,     \* authorized[m]: the a with authorized_actions[(m, a)]
  settlements,    \* settlements[m][a]: a hash or None
  lastAction,     \* last_action_hashes[m]
  mandateCount,   \* mandate_count
  events,         \* events[m]: the ActionAuthorized events, oldest first
  now             \* get_block_time()

vars == <<terms, active, spent, windowStart, services, authorized,
          settlements, lastAction, mandateCount, events, now>>

Exists(m) == terms[m] # None
Existing == {m \in Mandates : Exists(m)}
IsOwner(c, m) == c = terms[m].owner
IsParty(c, m) == c \in {terms[m].owner, terms[m].agent}

\* u64 addition: the machine's sum, saturating_add, and when checked_add is
\* not None.
WrappingAdd(x, y) == (x + y) % (MaxU64 + 1)
SaturatingAdd(x, y) == IF x + y > MaxU64 THEN MaxU64 ELSE x + y
AddUnchecked(x, y) == TRUE
AddFits(x, y) == x + y <= MaxU64

Init ==
  /\ terms = [m \in Mandates |-> None]
  /\ active = [m \in Mandates |-> FALSE]
  /\ spent = [m \in Mandates |-> 0]
  /\ windowStart = [m \in Mandates |-> 0]
  /\ services = [m \in Mandates |-> {}]
  /\ authorized = [m \in Mandates |-> {}]
  /\ settlements = [m \in Mandates |-> [a \in Actions |-> None]]
  /\ lastAction = [m \in Mandates |-> None]
  /\ mandateCount = 0
  /\ events = [m \in Mandates |-> <<>>]
  /\ now = 0

ValidConfiguration(p) ==
  /\ p.maxAmount # 0
  /\ p.dailyBudget >= p.maxAmount
  /\ p.approvalThreshold <= p.maxAmount
  /\ p.expiresAt > p.validFrom

\* Empty mandate ids, agent ids and policy hashes revert too; no input here
\* is one of them.
MayRecreate(m, s, p) == s # Empty /\ ValidConfiguration(p)
MayCreate(m, s, p) == ~Exists(m) /\ s # Empty /\ ValidConfiguration(p)

CreateMandate(c, m, agent, s, p) ==
  /\ MayCreate(m, s, p)
  /\ terms' = [terms EXCEPT ![m] = [owner |-> c, agent |-> agent, limits |-> p]]
  /\ spent' = [spent EXCEPT ![m] = 0]
  /\ windowStart' = [windowStart EXCEPT ![m] = now]
  /\ active' = [active EXCEPT ![m] = TRUE]
  /\ services' = [services EXCEPT ![m] = @ \cup {s}]
  /\ mandateCount' = mandateCount + 1
  /\ UNCHANGED <<authorized, settlements, lastAction, events, now>>

AddAllowedService(c, m, s) ==
  /\ Exists(m) /\ IsOwner(c, m)
  /\ s # Empty
  /\ services' = [services EXCEPT ![m] = @ \cup {s}]
  /\ UNCHANGED <<terms, active, spent, windowStart, authorized, settlements,
                 lastAction, mandateCount, events, now>>

\* What authorize_action checks before the budget window.
ValidNow(m) ==
  terms[m].limits.validFrom <= now /\ now < terms[m].limits.expiresAt

WithinLimitsUnapproved(c, m, amount) ==
  0 < amount /\ amount <= terms[m].limits.maxAmount
WithinLimits(c, m, amount) ==
  /\ 0 < amount /\ amount <= terms[m].limits.maxAmount
  /\ IsOwner(c, m) \/ amount <= terms[m].limits.approvalThreshold

SeenOrFresh(m, a) == a # Empty
Fresh(m, a) == a # Empty /\ a \notin authorized[m]

\* The window the call is charged to and what was spent in it already.
WindowElapsed(m) == now >= SaturatingAdd(windowStart[m], Day)
WindowKept(m) == windowStart[m]
CurrentWindow(m) == IF WindowElapsed(m) THEN now ELSE windowStart[m]
SpentForgotten(m) == 0
SpentBefore(m) == IF WindowElapsed(m) THEN 0 ELSE spent[m]

\* updated_spent: the machine's sum, which did not wrap when AddFits.
UpdatedSpent(m, amount) == WrappingAdd(SpentBefore(m), amount)

AuthorizeAction(c, m, a, s, amount) ==
  /\ Exists(m) /\ IsParty(c, m)
  /\ active[m] /\ ValidNow(m)
  /\ s \in services[m]
  /\ WithinLimits(c, m, amount)
  /\ Fresh(m, a)
  /\ AddFits(SpentBefore(m), amount)
  /\ UpdatedSpent(m, amount) <= terms[m].limits.dailyBudget
  /\ windowStart' = [windowStart EXCEPT ![m] = CurrentWindow(m)]
  /\ spent' = [spent EXCEPT ![m] = UpdatedSpent(m, amount)]
  /\ authorized' = [authorized EXCEPT ![m] = @ \cup {a}]
  /\ lastAction' = [lastAction EXCEPT ![m] = a]
  /\ events' = [events EXCEPT ![m] = Append(@,
       [action |-> a, service |-> s, amount |-> amount, caller |-> c, at |-> now,
        window |-> CurrentWindow(m), spentInWindow |-> UpdatedSpent(m, amount)])]
  /\ UNCHANGED <<terms, active, services, settlements, mandateCount, now>>

MayResettle(c, m, a) == Exists(m) /\ IsParty(c, m) /\ a \in authorized[m]
MaySettle(c, m, a) ==
  /\ Exists(m) /\ IsParty(c, m)
  /\ a \in authorized[m]
  /\ settlements[m][a] = None

RecordSettlement(c, m, a, settlement, result) ==
  /\ MaySettle(c, m, a)
  /\ settlement # Empty /\ result # Empty
  /\ settlements' = [settlements EXCEPT ![m][a] = settlement]
  /\ UNCHANGED <<terms, active, spent, windowStart, services, authorized,
                 lastAction, mandateCount, events, now>>

RevokeMandate(c, m) ==
  /\ Exists(m) /\ IsOwner(c, m)
  /\ active' = [active EXCEPT ![m] = FALSE]
  /\ UNCHANGED <<terms, spent, windowStart, services, authorized, settlements,
                 lastAction, mandateCount, events, now>>

\* Block time never goes back and, being a u64, never passes MaxU64.
Tick ==
  /\ now < MaxU64
  /\ now' = now + 1
  /\ UNCHANGED <<terms, active, spent, windowStart, services, authorized,
                 settlements, lastAction, mandateCount, events>>

Next ==
  \/ \E c \in Accounts, m \in Mandates :
       \/ \E agent \in Accounts, s \in Services, p \in Policies :
            CreateMandate(c, m, agent, s, p)
       \/ \E s \in Services : AddAllowedService(c, m, s)
       \/ \E a \in Actions, s \in Services, amount \in U64 :
            AuthorizeAction(c, m, a, s, amount)
       \/ \E a \in Actions, settlement, result \in Hashes :
            RecordSettlement(c, m, a, settlement, result)
       \/ RevokeMandate(c, m)
  \/ Tick

Spec == Init /\ [][Next]_vars

-----------------------------------------------------------------------------
(* Safety *)

Event == [action: Actions, service: Services, amount: U64, caller: Accounts,
          at: U64, window: U64, spentInWindow: U64]

\* Every storage slot keeps a value of its type; all u64 slots stay in range.
TypeOK ==
  /\ terms \in [Mandates -> Terms \cup {None}]
  /\ active \in [Mandates -> BOOLEAN]
  /\ spent \in [Mandates -> U64]
  /\ windowStart \in [Mandates -> U64]
  /\ services \in [Mandates -> SUBSET Services]
  /\ authorized \in [Mandates -> SUBSET Actions]
  /\ settlements \in [Mandates -> [Actions -> Hashes \cup {None}]]
  /\ lastAction \in [Mandates -> Actions \cup {None}]
  /\ mandateCount = Cardinality(Existing)
  /\ events \in [Mandates -> Seq(Event)]
  /\ now \in U64

\* The event log accounts for spent_in_window: an event opens a new window
\* and is charged alone to it, or stays in the window of the event before it
\* and adds to what that one left; no entry passes the daily budget, so the
\* events of one window spend no more than it, and the last entry is what the
\* contract will charge the next call against.
LedgerStep(log, i) ==
  \/ /\ i = 1 \/ log[i].window # log[i - 1].window
     /\ log[i].spentInWindow = log[i].amount
  \/ /\ i > 1
     /\ log[i].window = log[i - 1].window
     /\ log[i].spentInWindow = log[i - 1].spentInWindow + log[i].amount

LedgerAccounts ==
  \A m \in Existing :
    /\ \A i \in DOMAIN events[m] : LedgerStep(events[m], i)
    /\ \A i \in DOMAIN events[m] :
         events[m][i].spentInWindow <= terms[m].limits.dailyBudget
    /\ IF events[m] = <<>>
       THEN spent[m] = 0
       ELSE LET last == events[m][Len(events[m])] IN
            last.spentInWindow = spent[m] /\ last.window = windowStart[m]

\* Two events charged to different windows are charged to windows at least a
\* day apart, the saturating addition notwithstanding, and an event falls
\* inside the day of its own window.
WindowsADayApart ==
  \A m \in Existing : \A i, j \in DOMAIN events[m] :
    LET e == events[m][i]  f == events[m][j] IN
    /\ e.window <= e.at /\ e.at < e.window + Day
    /\ i < j => e.window = f.window \/ f.window >= e.window + Day

\* The limit is per window, not per rolling day: any day-long stretch of
\* block time authorizes at most twice the daily budget.
SpentDuring(m, from) ==
  SumFunctionOnSet([i \in DOMAIN events[m] |-> events[m][i].amount],
                   {i \in DOMAIN events[m] : events[m][i].at \in from..(from + Day - 1)})

RollingDayBound ==
  \A m \in Existing, from \in U64 :
    SpentDuring(m, from) <= 2 * terms[m].limits.dailyBudget

\* Whatever was authorized was authorized under the terms the mandate still
\* has: to a party of it, inside its validity, for a service it allows,
\* within the per-action limit, and beyond the approval threshold only when
\* the owner called.
AuthorizedUnderTerms ==
  \A m \in Mandates : \A i \in DOMAIN events[m] :
    LET e == events[m][i]  limits == terms[m].limits IN
    /\ Exists(m)
    /\ IsParty(e.caller, m)
    /\ e.at \in limits.validFrom..(limits.expiresAt - 1)
    /\ e.service \in services[m]
    /\ e.amount \in 1..limits.maxAmount
    /\ e.caller # terms[m].owner => e.amount <= limits.approvalThreshold

\* One event per authorized action hash, and a settlement only for one.
OneEventPerAction ==
  \A m \in Mandates :
    /\ \A i, j \in DOMAIN events[m] :
         events[m][i].action = events[m][j].action => i = j
    /\ authorized[m] = {events[m][i].action : i \in DOMAIN events[m]}
    /\ \A a \in Actions : settlements[m][a] # None => a \in authorized[m]

\* A revoked mandate stays revoked: nothing is authorized under it and it is
\* not created again, whoever calls.
RevocationFinal ==
  [][\A m \in Existing : ~active[m] => ~active'[m] /\ events'[m] = events[m]]_vars

\* Terms, the event log and settlement evidence are never rewritten.
EvidenceImmutable ==
  [][\A m \in Existing :
       /\ terms'[m] = terms[m]
       /\ SubSeq(events'[m], 1, Len(events[m])) = events[m]
       /\ \A a \in Actions :
            settlements[m][a] # None => settlements'[m][a] = settlements[m][a]]_vars

-----------------------------------------------------------------------------
(* The contract implements the abstract authority *)

Phase == [m \in Mandates |-> IF ~Exists(m) THEN "absent"
                            ELSE IF active[m] THEN "live" ELSE "revoked"]
Budget == [m \in Mandates |-> IF Exists(m) THEN terms[m].limits.dailyBudget ELSE 0]
Remaining == [m \in Mandates |-> Budget[m] - spent[m]]
Settled == [m \in Mandates |-> {a \in Actions : settlements[m][a] # None}]

Authority == INSTANCE SpendingAuthority WITH
  MaxAllowance <- MaxU64, phase <- Phase, daily <- Budget, allowance <- Remaining,
  refilledAt <- windowStart, granted <- authorized, settled <- Settled, clock <- now

\* Every contract call is a step of the abstract authority, or none.
ImplementsAuthority == Authority!Spec
=============================================================================
