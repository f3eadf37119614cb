------------------------- MODULE SpendingAuthority -------------------------
(***************************************************************************)
(* What a mandate promises its owner, with no contract storage in sight:  *)
(* an authority is opened once, grants each action at most once out of an *)
(* allowance that is refilled at most once a day, and grants nothing once *)
(* it has been revoked.  Only granted actions are settled, each once.     *)
(* MandateGuard implements this specification.                            *)
(***************************************************************************)
EXTENDS Integers

CONSTANTS
  Mandates,     \* the mandate ids
  Actions,      \* the action hashes
  Day,          \* the least time between two refills
  MaxAllowance  \* the largest daily allowance an authority can have

VARIABLES
  phase,        \* phase[m]: "absent", then "live", then "revoked"
  daily,        \* daily[m]: the allowance m is refilled to
  allowance,    \* allowance[m]: what m may still grant before the next refill
  refilledAt,   \* refilledAt[m]: when the allowance was last full
  granted,      \* granted[m]: the actions granted under m
  settled,      \* settled[m]: the granted actions with settlement evidence
  clock

vars == <<phase, daily, allowance, refilledAt, granted, settled, clock>>

Init ==
  /\ phase = [m \in Mandates |-> "absent"]
  /\ daily = [m \in Mandates |-> 0]
  /\ allowance = [m \in Mandates |-> 0]
  /\ refilledAt = [m \in Mandates |-> 0]
  /\ granted = [m \in Mandates |-> {}]
  /\ settled = [m \in Mandates |-> {}]
  /\ clock = 0

Open(m) ==
  /\ phase[m] = "absent"
  /\ phase' = [phase EXCEPT ![m] = "live"]
  /\ \E budget \in 1..MaxAllowance :
       /\ daily' = [daily EXCEPT ![m] = budget]
       /\ allowance' = [allowance EXCEPT ![m] = budget]
  /\ refilledAt' = [refilledAt EXCEPT ![m] = clock]
  /\ UNCHANGED <<granted, settled, clock>>

\* A grant out of what is left, or out of a full allowance a day after the
\* last refill.
Grant(m, a) ==
  /\ phase[m] = "live"
  /\ a \notin granted[m]
  /\ granted' = [granted EXCEPT ![m] = @ \cup {a}]
  /\ \/ /\ \E amount \in 1..allowance[m] :
             allowance' = [allowance EXCEPT ![m] = @ - amount]
        /\ UNCHANGED refilledAt
     \/ /\ clock >= refilledAt[m] + Day
        /\ \E amount \in 1..daily[m] :
             allowance' = [allowance EXCEPT ![m] = daily[m] - amount]
        /\ refilledAt' = [refilledAt EXCEPT ![m] = clock]
  /\ UNCHANGED <<phase, daily, settled, clock>>

Settle(m, a) ==
  /\ a \in granted[m] \ settled[m]
  /\ settled' = [settled EXCEPT ![m] = @ \cup {a}]
  /\ UNCHANGED <<phase, daily, allowance, refilledAt, granted, clock>>

Revoke(m) ==
  /\ phase[m] = "live"
  /\ phase' = [phase EXCEPT ![m] = "revoked"]
  /\ UNCHANGED <<daily, allowance, refilledAt, granted, settled, clock>>

Advance ==
  /\ clock' = clock + 1
  /\ UNCHANGED <<phase, daily, allowance, refilledAt, granted, settled>>

Next ==
  \/ \E m \in Mandates : Open(m) \/ Revoke(m)
  \/ \E m \in Mandates, a \in Actions : Grant(m, a) \/ Settle(m, a)
  \/ Advance

Spec == Init /\ [][Next]_vars
=============================================================================
