-------------------------- MODULE ReservationBook --------------------------
(***************************************************************************)
(* What the gateway promises about money that has been promised but not   *)
(* yet paid: a hold is entered in the book only while all live holds of   *)
(* its mandate fit the budget together, it counts until it lapses or is   *)
(* released, and an id is used for one hold only.  Gateway implements it. *)
(***************************************************************************)
EXTENDS Integers, Functions

CONSTANTS
  Ids,       \* the ids of holds
  Mandates,
  Budget,    \* Budget[m]: what the live holds of m may add up to
  Ttl,       \* how long a hold counts at most
  NoHold     \* the id has not been used

VARIABLES
  book,      \* book[i]: NoHold or [mandate, amount, until, open]
  clock

vars == <<book, clock>>

Live(i) == book[i] # NoHold /\ book[i].open /\ book[i].until > clock
LiveHolds(m) == {i \in Ids : Live(i) /\ book[i].mandate = m}
Held(m) == SumFunction([i \in LiveHolds(m) |-> book[i].amount])

Init ==
  /\ book = [i \in Ids |-> NoHold]
  /\ clock = 0

\* A hold may be entered late, even after it has lapsed; it must fit all the
\* same.
Reserve(i) ==
  /\ book[i] = NoHold
  /\ LET hold == book'[i] IN
       /\ hold \in [mandate: Mandates, amount: Nat \ {0}, until: 0..(clock + Ttl), open: {TRUE}]
       /\ Held(hold.mandate) + hold.amount <= Budget[hold.mandate]
       /\ book' = [book EXCEPT ![i] = hold]
  /\ UNCHANGED clock

Release(i) ==
  /\ book[i] # NoHold /\ book[i].open
  /\ book' = [book EXCEPT ![i].open = FALSE]
  /\ UNCHANGED clock

Advance ==
  /\ clock' = clock + 1
  /\ UNCHANGED book

Next == Advance \/ \E i \in Ids : Reserve(i) \/ Release(i)

Spec == Init /\ [][Next]_vars
=============================================================================
