--------------------------- MODULE GatewayProofs ---------------------------
(***************************************************************************)
(* Theorems about Gateway, for every set of mandates, calls and proposals, *)
(* every policy and every reservation lifetime.                            *)
(***************************************************************************)
EXTENDS Gateway, SumLemmas

\* What Authorize wrote about the call it answered, and when.
RowMatchesCall ==
  \A c \in Calls : executions[c] # None =>
    /\ calls[c] # None
    /\ executions[c].mandate = calls[c].mandate
    /\ executions[c].key = calls[c].action.key
    /\ executions[c].amount = calls[c].action.amount
    /\ executions[c].at = calls[c].at

\* Calls are received before they are decided, and finitely many have been.
ReceivedBefore == \A c \in Calls : calls[c] # None => calls[c].at <= now
Written == {c \in Calls : executions[c] # None}

\* Whatever holds a reservation, or once did, was granted.
HoldersGranted ==
  \A c \in Calls : executions[c] # None =>
    (executions[c].status \in {"authorized", "settlement_pending", "settled",
                               "delivered", "proven"} => Granted(c))

IInv == TypeOK /\ RowMatchesCall /\ OneGrantPerKey /\ GrantsWithinPolicy
        /\ ReceivedBefore /\ IsFiniteSet(Written) /\ HoldersGranted

\* What evaluateMandate has checked of an action it allows.
LEMMA AllowedMeans ==
  ASSUME NEW m \in Mandates, NEW a \in Proposals, NEW t \in Nat,
         Decision(m, a, t) = "ALLOWED"
  PROVE  /\ InForce(m) /\ mandates[m].hashMatches
         /\ Policy[m].validFrom <= t /\ t < Policy[m].expiresAt
         /\ a.service \in Policy[m].services
         /\ a.key # NoKey /\ a.key \notin SeenKeys(m)
         /\ a.amount \in 1..Policy[m].approvalThreshold
BY PolicyAssumption, ProposalAssumption DEF Decision, ValidMandate

LEMMA StatusKnown ==
  \A reason : /\ StatusAfter(reason) \in {"authorized", "approval_required", "blocked"}
              /\ StatusAfter(reason) = "authorized" <=> reason = "ALLOWED"
BY DEF StatusAfter

LEMMA DecisionIsCode ==
  ASSUME NEW m, NEW a, NEW t
  PROVE  Decision(m, a, t) \in ReasonCode
BY DEF Decision, ReasonCode

LEMMA InitInv == Init => IInv
<1> SUFFICES ASSUME Init PROVE IInv
  OBVIOUS
<1>1. TypeOK
  BY TimeAssumption DEF Init, TypeOK
<1>2. RowMatchesCall /\ OneGrantPerKey /\ GrantsWithinPolicy /\ ReceivedBefore /\ HoldersGranted
  BY DEF Init, RowMatchesCall, OneGrantPerKey, GrantsWithinPolicy, Granted,
         ReceivedBefore, HoldersGranted
<1>3. Written = {}
  BY DEF Init, Written
<1> QED BY <1>1, <1>2, <1>3, FS_EmptySet DEF IInv

\* The row Authorize writes.
LEMMA AuthorizedRow ==
  ASSUME IInv, NEW c \in Calls, Authorize(c)
  PROVE  LET m == calls[c].mandate
             a == calls[c].action
             e == executions'[c] IN
         /\ calls[c] \in Call /\ executions[c] = None /\ calls'[c] # None
         /\ calls'[c].mandate = m /\ calls'[c].action = a /\ calls'[c].at = calls[c].at
         /\ calls'[c].stage = "answered"
         /\ \A d \in Calls : d # c => calls'[d] = calls[d] /\ executions'[d] = executions[d]
         /\ e # None
         /\ e.mandate = m /\ e.key = a.key /\ e.amount = a.amount /\ e.at = calls[c].at
         /\ e.reason = Decision(m, a, calls[c].at)
         /\ e.status = StatusAfter(e.reason)
         /\ e.reservedUntil = IF e.status = "authorized" THEN calls[c].at + Ttl ELSE 0
         /\ e.trail = <<"proposed", "validated", e.status>>
         /\ e \in Execution
<1> DEFINE m == calls[c].mandate
           a == calls[c].action
           t == calls[c].at
           reason == Decision(m, a, t)
           status == StatusAfter(reason)
           row == [mandate |-> m, key |-> a.key, amount |-> a.amount, reason |-> reason,
                   status |-> status, at |-> t,
                   reservedUntil |-> IF status = "authorized" THEN t + Ttl ELSE 0,
                   trail |-> <<"proposed", "validated", status>>]
<1>1. calls[c] \in Call /\ executions[c] = None
  BY DEF IInv, TypeOK, Authorize
<1>2. /\ executions' = [executions EXCEPT ![c] = row]
      /\ calls' = [calls EXCEPT ![c].stage = "answered"]
      /\ a.amount >= 0
  BY DEF Authorize, ReservationEnd, Normalizable
<1>3. m \in Mandates /\ a \in Proposals /\ t \in 0..MaxTime
  BY <1>1 DEF Call
<1>4. row \in Execution
  <2>1. reason \in ReasonCode /\ status \in RequestStatus
    BY DecisionIsCode, StatusKnown DEF RequestStatus
  <2>2. a.key \in {b.key : b \in Proposals} /\ a.amount \in Nat
    BY <1>2, <1>3, ProposalAssumption
  <2>3. t + Ttl \in 0..(MaxTime + Ttl) /\ 0 \in 0..(MaxTime + Ttl)
    BY <1>3, TimeAssumption
  <2>4. <<"proposed", "validated", status>> \in Seq(RequestStatus)
    BY <2>1 DEF RequestStatus
  <2> HIDE DEF reason, status, m, a, t
  <2> QED BY <1>3, <2>1, <2>2, <2>3, <2>4 DEF Execution
<1>5. executions'[c] = row /\ calls'[c] = [calls[c] EXCEPT !.stage = "answered"]
  BY <1>2 DEF IInv, TypeOK
<1>6. calls'[c] \in Call
  BY <1>1, <1>5 DEF Call
<1>7. row # None /\ calls'[c] # None
  BY <1>4, <1>6, NoneAssumption
<1>8. \A d \in Calls : d # c => calls'[d] = calls[d] /\ executions'[d] = executions[d]
  BY <1>2 DEF IInv, TypeOK
<1>9. /\ calls'[c].mandate = m /\ calls'[c].action = a /\ calls'[c].at = t
      /\ calls'[c].stage = "answered"
  BY <1>1, <1>5 DEF Call
<1> HIDE DEF reason, m, a, t
<1> QED BY <1>1, <1>4, <1>5, <1>7, <1>8, <1>9 DEF reason, m, a, t

LEMMA AuthorizeInv ==
  ASSUME IInv, NEW c \in Calls, Authorize(c)
  PROVE  IInv'
<1> DEFINE m == calls[c].mandate
           a == calls[c].action
           t == calls[c].at
<1>1. /\ calls[c] \in Call /\ executions[c] = None
      /\ \A d \in Calls : d # c => calls'[d] = calls[d] /\ executions'[d] = executions[d]
      /\ calls'[c].mandate = m /\ calls'[c].action = a /\ calls'[c].at = t
      /\ executions'[c].mandate = m /\ executions'[c].key = a.key
      /\ executions'[c].amount = a.amount /\ executions'[c].at = t
      /\ executions'[c].reason = Decision(m, a, t)
      /\ executions'[c].status = StatusAfter(executions'[c].reason)
      /\ executions'[c].reservedUntil =
           IF executions'[c].status = "authorized" THEN t + Ttl ELSE 0
      /\ calls'[c] # None /\ executions'[c] # None
      /\ executions'[c] \in Execution /\ calls'[c].stage = "answered"
  BY AuthorizedRow
<1>2. m \in Mandates /\ a \in Proposals /\ t \in Nat
  BY <1>1, TimeAssumption DEF Call
<1>3. TypeOK'
  <2>1. calls' \in [Calls -> Call \cup {None}]
    BY <1>1 DEF IInv, TypeOK, Authorize, Call
  <2>2. executions' \in [Calls -> Execution \cup {None}]
    BY <1>1 DEF IInv, TypeOK, Authorize
  <2>3. \A d \in Calls :
          executions'[d] # None <=> calls'[d] # None /\ calls'[d].stage = "answered"
    BY <1>1 DEF IInv, TypeOK
  <2> QED BY <2>1, <2>2, <2>3 DEF IInv, TypeOK, Authorize
<1>4. RowMatchesCall'
  BY <1>1 DEF IInv, RowMatchesCall
<1>5. \A d \in Calls : d # c => (Granted(d)' <=> Granted(d))
  BY <1>1 DEF Granted
<1>6. Granted(c)' =>
        /\ t \in Policy[m].validFrom..(Policy[m].expiresAt - 1)
        /\ a.service \in Policy[m].services
        /\ a.key # NoKey /\ a.key \notin SeenKeys(m)
        /\ a.amount \in 1..Policy[m].approvalThreshold
        /\ executions'[c].reservedUntil = t + Ttl
  <2> SUFFICES ASSUME Granted(c)'
               PROVE  /\ t \in Policy[m].validFrom..(Policy[m].expiresAt - 1)
                      /\ a.service \in Policy[m].services
                      /\ a.key # NoKey /\ a.key \notin SeenKeys(m)
                      /\ a.amount \in 1..Policy[m].approvalThreshold
                      /\ executions'[c].reservedUntil = t + Ttl
    OBVIOUS
  <2>1. Decision(m, a, t) = "ALLOWED"
    BY <1>1 DEF Granted
  <2>2. executions'[c].status = "authorized"
    BY <1>1, <2>1, StatusKnown
  <2> HIDE DEF m, a, t
  <2>3. Policy[m].validFrom <= t /\ t < Policy[m].expiresAt
    BY <1>2, <2>1, AllowedMeans
  <2>4. t \in Policy[m].validFrom..(Policy[m].expiresAt - 1)
    BY <1>2, <2>3, PolicyAssumption
  <2> QED BY <1>1, <1>2, <2>1, <2>2, <2>4, AllowedMeans
<1>7. GrantsWithinPolicy'
  BY <1>1, <1>5, <1>6 DEF IInv, GrantsWithinPolicy
<1>8. \A d \in Calls :
        Granted(d) /\ executions[d].mandate = m => executions[d].key \in SeenKeys(m)
  BY DEF Granted, SeenKeys, Executed
<1>9. OneGrantPerKey'
  <2> SUFFICES ASSUME NEW d \in Calls, NEW e \in Calls, Granted(d)', Granted(e)',
                      executions'[d].mandate = executions'[e].mandate,
                      executions'[d].key = executions'[e].key
               PROVE  d = e
    BY DEF OneGrantPerKey
  <2>1. CASE d # c /\ e # c
    BY <1>1, <1>5, <2>1 DEF IInv, OneGrantPerKey
  <2>2. CASE d = c /\ e # c
    BY <1>1, <1>5, <1>6, <1>8, <2>2
  <2>3. CASE d # c /\ e = c
    BY <1>1, <1>5, <1>6, <1>8, <2>3
  <2> QED BY <2>1, <2>2, <2>3
<1>10. ReceivedBefore'
  BY <1>1 DEF IInv, ReceivedBefore, Authorize
<1>11. IsFiniteSet(Written')
  <2>1. Written' = Written \cup {c}
    BY <1>1 DEF Written
  <2> QED BY <2>1, FS_AddElement DEF IInv
<1>12. HoldersGranted'
  <2> SUFFICES ASSUME NEW d \in Calls, executions'[d] # None,
                      executions'[d].status \in {"authorized", "settlement_pending", "settled",
                                                 "delivered", "proven"}
               PROVE  Granted(d)'
    BY DEF HoldersGranted
  <2>1. CASE d = c
    BY <1>1, <2>1, StatusKnown DEF Granted
  <2>2. CASE d # c
    BY <1>1, <1>5, <2>2 DEF IInv, HoldersGranted
  <2> QED BY <2>1, <2>2
<1> QED BY <1>3, <1>4, <1>7, <1>9, <1>10, <1>11, <1>12 DEF IInv

\* Steps that leave a row alone but for its status and trail keep what the
\* invariant says of it.
LEMMA KeepsRows ==
  ASSUME IInv, TypeOK', ReceivedBefore',
         \A d \in Calls :
           /\ executions'[d] # None <=> executions[d] # None
           /\ executions[d] # None =>
                /\ executions'[d].mandate = executions[d].mandate
                /\ executions'[d].key = executions[d].key
                /\ executions'[d].amount = executions[d].amount
                /\ executions'[d].reason = executions[d].reason
                /\ executions'[d].at = executions[d].at
                /\ executions'[d].reservedUntil = executions[d].reservedUntil
                /\ calls'[d] = calls[d]
                /\ executions'[d].status = executions[d].status \/ Granted(d)
                   \/ executions'[d].status = "failed"
  PROVE  IInv'
<1>1. \A d \in Calls : Granted(d)' <=> Granted(d)
  BY DEF Granted
<1>2. RowMatchesCall'
  BY DEF IInv, RowMatchesCall
<1>3. OneGrantPerKey'
  BY <1>1 DEF IInv, OneGrantPerKey, Granted
<1>4. GrantsWithinPolicy'
  BY <1>1 DEF IInv, GrantsWithinPolicy, Granted
<1>6. IsFiniteSet(Written')
  <2>1. Written' = Written
    BY DEF Written
  <2> QED BY <2>1 DEF IInv
<1>7. HoldersGranted'
  BY <1>1 DEF IInv, HoldersGranted
<1> QED BY <1>2, <1>3, <1>4, <1>6, <1>7 DEF IInv

LEMMA TransitionInv ==
  ASSUME IInv, NEW c \in Calls, NEW next \in RequestStatus, Transition(c, next)
  PROVE  IInv'
<1> DEFINE e == executions[c]
           row == [e EXCEPT !.status = next, !.trail = Append(@, next)]
<1>1. e \in Execution /\ e # None
  BY DEF IInv, TypeOK, Transition
<1>2. row \in Execution
  <2>1. Append(e.trail, next) \in Seq(RequestStatus)
    BY <1>1 DEF Execution
  <2> QED BY <1>1, <2>1 DEF Execution
<1>3. executions' = [executions EXCEPT ![c] = row] /\ UNCHANGED <<mandates, calls, now>>
  <2>1. executions' = [executions EXCEPT ![c].status = next, ![c].trail = Append(@, next)]
    BY DEF Transition
  <2> QED BY <2>1 DEF Transition, IInv, TypeOK
<1>4. row # None
  BY <1>2, NoneAssumption
<1>5. TypeOK'
  BY <1>1, <1>2, <1>3, <1>4 DEF IInv, TypeOK
<1>6. /\ row.mandate = e.mandate /\ row.key = e.key /\ row.amount = e.amount
      /\ row.reason = e.reason /\ row.at = e.at /\ row.reservedUntil = e.reservedUntil
  BY <1>1 DEF Execution
<1>7. executions'[c] = row /\ \A d \in Calls : d # c => executions'[d] = executions[d]
  BY <1>3 DEF IInv, TypeOK
<1>8. Granted(c) \/ next = "failed"
  <2>1. next \in AllowedTransitions(e.status)
    BY DEF Transition
  <2>2. e.status \in {"authorized", "settlement_pending", "settled", "delivered"}
    BY <2>1 DEF AllowedTransitions
  <2> QED BY <1>1, <2>2 DEF IInv, HoldersGranted
<1>9. ReceivedBefore'
  BY <1>3 DEF IInv, ReceivedBefore
<1>10. row.status = next
  BY <1>1 DEF Execution
<1> HIDE DEF row
<1> QED BY <1>1, <1>3, <1>4, <1>5, <1>6, <1>7, <1>8, <1>9, <1>10, KeepsRows

LEMMA NextInv == IInv /\ [Next]_vars => IInv'
<1> SUFFICES ASSUME IInv, [Next]_vars PROVE IInv' OBVIOUS
<1>1. ASSUME NEW c \in Calls, NEW m \in Mandates, NEW a \in Proposals, Receive(c, m, a)
      PROVE  IInv'
  <2>1. executions[c] = None
    BY <1>1 DEF Receive, IInv, TypeOK
  <2>2. [stage |-> "waiting", mandate |-> m, action |-> a, at |-> now] \in Call
    BY DEF Call, IInv, TypeOK
  <2>3. TypeOK'
    BY <1>1, <2>1, <2>2 DEF Receive, IInv, TypeOK
  <2>4. ReceivedBefore'
    BY <1>1, <2>2, TimeAssumption DEF Receive, IInv, TypeOK, ReceivedBefore
  <2> QED BY <1>1, <2>1, <2>3, <2>4, KeepsRows DEF Receive, IInv, TypeOK
<1>2. ASSUME NEW c \in Calls, Authorize(c)
      PROVE  IInv'
  BY <1>2, AuthorizeInv
<1>3. ASSUME NEW c \in Calls, Fail(c)
      PROVE  IInv'
  <2>1. executions[c] = None /\ calls[c] \in Call
    BY <1>3 DEF Fail, IInv, TypeOK
  <2>2. [calls[c] EXCEPT !.stage = "failed"] \in Call
    BY <2>1 DEF Call
  <2>3. TypeOK'
    BY <1>3, <2>1, <2>2 DEF Fail, IInv, TypeOK, Call
  <2>4. ReceivedBefore'
    BY <1>3, <2>1, <2>2 DEF Fail, IInv, TypeOK, ReceivedBefore, Call
  <2> QED BY <1>3, <2>1, <2>3, <2>4, KeepsRows DEF Fail, IInv, TypeOK
<1>4. ASSUME NEW c \in Calls, NEW next \in RequestStatus, Transition(c, next)
      PROVE  IInv'
  BY <1>4, TransitionInv
<1>5. ASSUME NEW m \in Mandates, NEW r \in Rows, SaveMandate(m, r)
      PROVE  IInv'
  <2>1. TypeOK'
    BY <1>5 DEF SaveMandate, IInv, TypeOK
  <2>2. ReceivedBefore'
    BY <1>5 DEF SaveMandate, IInv, ReceivedBefore
  <2> QED BY <1>5, <2>1, <2>2, KeepsRows DEF SaveMandate
<1>6. CASE Tick
  <2>1. TypeOK'
    BY <1>6, TimeAssumption DEF Tick, IInv, TypeOK
  <2>2. ReceivedBefore'
    BY <1>6 DEF Tick, IInv, TypeOK, ReceivedBefore, Call
  <2> QED BY <1>6, <2>1, <2>2, KeepsRows DEF Tick
<1>7. CASE UNCHANGED vars
  <2>1. TypeOK'
    BY <1>7 DEF vars, IInv, TypeOK
  <2>2. ReceivedBefore'
    BY <1>7 DEF vars, IInv, ReceivedBefore
  <2> QED BY <1>7, <2>1, <2>2, KeepsRows DEF vars
<1> QED BY <1>1, <1>2, <1>3, <1>4, <1>5, <1>6, <1>7 DEF Next, ReceiveFromMcp

LEMMA Invariant == Spec => []IInv
BY InitInv, NextInv, PTL DEF Spec

\* Rows keep their shape and exactly the answered calls have one.
THEOREM TypeCorrect == Spec => []TypeOK
<1>1. IInv => TypeOK
  BY DEF IInv
<1> QED BY <1>1, Invariant, PTL

\* However many calls carry a key - retries, duplicates, concurrent senders -
\* at most one of them is granted.
THEOREM AtMostOneGrantPerKey == Spec => []OneGrantPerKey
<1>1. IInv => OneGrantPerKey
  BY DEF IInv
<1> QED BY <1>1, Invariant, PTL

\* Every grant lies within the policy it was decided by.
THEOREM GrantsStayWithinPolicy == Spec => []GrantsWithinPolicy
<1>1. IInv => GrantsWithinPolicy
  BY DEF IInv
<1> QED BY <1>1, Invariant, PTL

LEMMA GrantStep ==
  ASSUME IInv, [Next]_vars, NEW c \in Calls, Granted(c)', ~Granted(c)
  PROVE  mandates[calls[c].mandate] = [status |-> "active", hashMatches |-> TRUE]
<1>1. CASE Authorize(c)
  <2>1. Decision(calls[c].mandate, calls[c].action, calls[c].at) = "ALLOWED"
    BY <1>1, AuthorizedRow DEF Granted
  <2>2. calls[c] \in Call
    BY <1>1, AuthorizedRow
  <2>3. calls[c].mandate \in Mandates /\ calls[c].action \in Proposals /\ calls[c].at \in Nat
    BY <2>2, TimeAssumption DEF Call
  <2>4. mandates[calls[c].mandate] \in [status: {"draft", "pending", "active", "revoked"},
                                        hashMatches: BOOLEAN]
    BY <2>3, RowAssumption DEF IInv, TypeOK
  <2>5. /\ mandates[calls[c].mandate].status = "active"
        /\ mandates[calls[c].mandate].hashMatches
    BY <2>1, <2>3, AllowedMeans DEF InForce
  <2> QED BY <2>4, <2>5
<1>2. ASSUME NEW d \in Calls, d # c, Authorize(d)
      PROVE  FALSE
  BY <1>2, AuthorizedRow DEF Granted
<1>3. ASSUME NEW d \in Calls, NEW next \in RequestStatus, Transition(d, next)
      PROVE  FALSE
  <2>1. CASE c # d
    BY <1>3, <2>1 DEF Transition, Granted, IInv, TypeOK
  <2>2. CASE c = d
    <3>1. executions[c] # None /\ executions[c] \in Execution
      BY <1>3, <2>2 DEF Transition, IInv, TypeOK
    <3>2. executions'[c].reason = executions[c].reason
      BY <1>3, <2>2, <3>1 DEF Transition, IInv, TypeOK, Execution
    <3> QED BY <3>1, <3>2 DEF Granted
  <2> QED BY <2>1, <2>2
<1>4. executions' # executions
  BY DEF Granted
<1> QED BY <1>1, <1>2, <1>3, <1>4 DEF Next, vars, ReceiveFromMcp, Receive, Fail, SaveMandate, Tick

\* A call that waited for the lock while its mandate was revoked or handed to
\* another wallet is refused.
THEOREM GrantsOnlyInForce == Spec => GrantOnlyInForce
<1>1. IInv /\ [Next]_vars =>
        [\A c \in Calls : Granted(c)' /\ ~Granted(c) =>
           mandates[calls[c].mandate] = [status |-> "active", hashMatches |-> TRUE]]_vars
  BY GrantStep
<1> QED BY <1>1, Invariant, PTL DEF Spec, GrantOnlyInForce

-----------------------------------------------------------------------------
(* Reservations *)

\* What is reserved for m at time t, and how much.
Live(m, t) == {c \in Executed(m) : StillReserved(executions[c], t)}
Amounts(m, t) == [c \in Live(m, t) |-> executions[c].amount]

LEMMA LiveFinite ==
  ASSUME IInv, NEW m, NEW t
  PROVE  /\ IsFiniteSet(Live(m, t)) /\ Live(m, t) \subseteq Calls
         /\ \A c \in Live(m, t) :
              executions[c] # None /\ executions[c] \in Execution /\ Granted(c)
         /\ ReservedMotes(m, t) \in Nat
<1>1. Live(m, t) \subseteq Written
  BY DEF Live, Executed, Written
<1>2. IsFiniteSet(Live(m, t)) /\ Live(m, t) \subseteq Calls
  BY <1>1, FS_Subset DEF IInv, Written
<1>3. \A c \in Live(m, t) : executions[c] # None /\ executions[c] \in Execution /\ Granted(c)
  BY DEF Live, Executed, StillReserved, IInv, TypeOK, HoldersGranted
<1>4. DOMAIN Amounts(m, t) = Live(m, t) /\ \A c \in Live(m, t) : Amounts(m, t)[c] \in Nat
  BY <1>3 DEF Amounts, Execution
<1>5. SumFunction(Amounts(m, t)) \in Nat
  BY <1>2, <1>4, SumIsNat
<1>6. ReservedMotes(m, t) = SumFunction(Amounts(m, t))
  BY DEF ReservedMotes, Motes, Amounts, Live
<1> QED BY <1>2, <1>3, <1>5, <1>6

LEMMA LiveNow ==
  \A m : IInv => /\ \A c \in Live(m, now) :
                      executions[c] # None /\ executions[c] \in Execution /\ Granted(c)
                 /\ ReservedMotes(m, now) \in Nat
BY LiveFinite

LEMMA LiveNext ==
  (\A m : IInv => /\ \A c \in Live(m, now) :
                       executions[c] # None /\ executions[c] \in Execution /\ Granted(c)
                  /\ ReservedMotes(m, now) \in Nat)'
BY LiveNow, PTL

LEMMA ReservedIsSum ==
  ASSUME NEW m, NEW t
  PROVE  ReservedMotes(m, t) = SumFunction(Amounts(m, t)) /\ DOMAIN Amounts(m, t) = Live(m, t)
BY DEF ReservedMotes, Motes, Amounts, Live

\* Reservations only lapse as time goes by.
LEMMA ReservedLapses ==
  ASSUME IInv, NEW m, NEW t \in Nat, t <= now
  PROVE  ReservedMotes(m, now) <= ReservedMotes(m, t) /\ Live(m, now) \subseteq Live(m, t)
<1>1. Live(m, now) \subseteq Live(m, t)
  <2> SUFFICES ASSUME NEW c \in Live(m, now) PROVE c \in Live(m, t)
    OBVIOUS
  <2>1. executions[c].reservedUntil \in Nat /\ now \in Nat
    BY LiveFinite, TimeAssumption DEF Execution, IInv, TypeOK
  <2> QED BY <2>1 DEF Live, StillReserved
<1>2. /\ DOMAIN Amounts(m, t) = Live(m, t) /\ DOMAIN Amounts(m, now) = Live(m, now)
      /\ \A c \in Live(m, t) : Amounts(m, t)[c] \in Nat
      /\ \A c \in Live(m, now) : Amounts(m, now)[c] = Amounts(m, t)[c]
  BY <1>1, LiveFinite DEF Amounts, Execution
<1>3. SumFunction(Amounts(m, now)) <= SumFunction(Amounts(m, t))
  BY <1>2, <1>1, LiveFinite, SumShrinks
<1> QED BY <1>1, <1>3, ReservedIsSum

\* The check against the reservations of the time of the request leaves room
\* among those of the time of the decision.
LEMMA GrantFits ==
  ASSUME IInv, NEW c \in Calls, Authorize(c), Granted(c)'
  PROVE  LET m == calls[c].mandate IN
         /\ m \in Mandates /\ executions'[c].amount \in Nat \ {0}
         /\ ReservedMotes(m, now) + executions'[c].amount <= Policy[m].dailyBudget
<1> DEFINE m == calls[c].mandate
           a == calls[c].action
           t == calls[c].at
<1>1. /\ calls[c] \in Call /\ calls[c] # None
      /\ executions'[c].reason = Decision(m, a, t) /\ executions'[c].amount = a.amount
  BY AuthorizedRow DEF Authorize
<1>2. m \in Mandates /\ a \in Proposals /\ t \in Nat /\ t <= now
  BY <1>1, TimeAssumption DEF Call, IInv, ReceivedBefore
<1>3. Decision(m, a, t) = "ALLOWED"
  BY <1>1 DEF Granted
<1>4. a.amount \in 1..Policy[m].approvalThreshold
  BY <1>2, <1>3, AllowedMeans
<1>5. FitsBudget(m, a, t)
  BY <1>3 DEF Decision
<1>6. /\ ReservedMotes(m, now) <= ReservedMotes(m, t)
      /\ ReservedMotes(m, now) \in Nat /\ ReservedMotes(m, t) \in Nat
  BY <1>2, LiveFinite, ReservedLapses
<1>7. a.amount \in Nat \ {0} /\ Policy[m].dailyBudget \in Nat
  BY <1>2, <1>4, PolicyAssumption
<1> HIDE DEF m, a, t
<1>8. ReservedMotes(m, now) + a.amount <= Policy[m].dailyBudget
  BY <1>5, <1>6, <1>7 DEF FitsBudget
<1> QED BY <1>1, <1>2, <1>7, <1>8 DEF m

\* A step that lets nothing into the live set of m makes its sum no larger.
LEMMA NothingReserved ==
  ASSUME IInv, NEW m, NEW t, NEW u,
         \A c \in Live(m, u)' : c \in Live(m, t) /\ executions'[c].amount = executions[c].amount
  PROVE  ReservedMotes(m, u)' <= ReservedMotes(m, t)
<1>1. /\ DOMAIN Amounts(m, t) = Live(m, t) /\ DOMAIN Amounts(m, u)' = Live(m, u)'
      /\ \A c \in Live(m, t) : Amounts(m, t)[c] \in Nat
      /\ \A c \in Live(m, u)' : Amounts(m, u)'[c] = Amounts(m, t)[c]
  BY LiveFinite DEF Amounts, Execution
<1>2. SumFunction(Amounts(m, u)') <= SumFunction(Amounts(m, t))
  BY <1>1, LiveFinite, SumShrinks
<1>3. ReservedMotes(m, u)' = SumFunction(Amounts(m, u)')
  BY DEF ReservedMotes, Motes, Amounts, Live
<1> QED BY <1>2, <1>3, ReservedIsSum

LEMMA Steps ==
  ASSUME IInv, [Next]_vars
  PROVE  \/ executions' = executions /\ now' \in Nat /\ now <= now'
         \/ \E c \in Calls : Authorize(c)
         \/ \E c \in Calls, next \in RequestStatus : Transition(c, next)
<1>1. now \in Nat
  BY TimeAssumption DEF IInv, TypeOK
<1> QED BY <1>1 DEF Next, vars, ReceiveFromMcp, Receive, Fail, SaveMandate, Tick

LEMMA TransitionRow ==
  ASSUME IInv, NEW c \in Calls, NEW next \in RequestStatus, Transition(c, next)
  PROVE  LET e == executions[c] IN
         /\ e # None /\ e \in Execution /\ Granted(c) /\ Granted(c)'
         /\ e.status \in {"authorized", "settlement_pending", "settled", "delivered"}
         /\ next \in AllowedTransitions(e.status)
         /\ executions'[c] \in Execution /\ executions'[c] # None
         /\ executions'[c].mandate = e.mandate /\ executions'[c].amount = e.amount
         /\ executions'[c].reservedUntil = e.reservedUntil
         /\ executions'[c].status = next /\ executions'[c].trail = Append(e.trail, next)
         /\ \A d \in Calls : d # c => executions'[d] = executions[d]
         /\ now' = now
<1> DEFINE e == executions[c]
           row == [e EXCEPT !.status = next, !.trail = Append(@, next)]
<1>1. e \in Execution /\ e # None /\ next \in AllowedTransitions(e.status)
  BY DEF IInv, TypeOK, Transition
<1>2. e.status \in {"authorized", "settlement_pending", "settled", "delivered"}
  BY <1>1 DEF AllowedTransitions
<1>3. Granted(c)
  BY <1>1, <1>2 DEF IInv, HoldersGranted
<1>4. /\ executions' = [executions EXCEPT ![c] = row]
      /\ now' = now
  <2>1. executions' = [executions EXCEPT ![c].status = next, ![c].trail = Append(@, next)]
    BY DEF Transition
  <2> QED BY <2>1 DEF Transition, IInv, TypeOK
<1>5. /\ row.mandate = e.mandate /\ row.amount = e.amount /\ row.reason = e.reason
      /\ row.reservedUntil = e.reservedUntil /\ row.status = next
      /\ row.trail = Append(e.trail, next)
  BY <1>1 DEF Execution
<1>6. executions'[c] = row /\ \A d \in Calls : d # c => executions'[d] = executions[d]
  BY <1>4 DEF IInv, TypeOK
<1>7. row \in Execution
  <2>1. Append(e.trail, next) \in Seq(RequestStatus)
    BY <1>1 DEF Execution
  <2> QED BY <1>1, <2>1 DEF Execution
<1>8. row # None
  BY <1>7, NoneAssumption
<1>9. Granted(c)'
  BY <1>3, <1>5, <1>6, <1>8 DEF Granted
<1> HIDE DEF row
<1> QED BY <1>1, <1>2, <1>3, <1>4, <1>5, <1>6, <1>7, <1>8, <1>9

LEMMA BudgetStep ==
  ASSUME IInv, ReservationsWithinBudget, [Next]_vars
  PROVE  ReservationsWithinBudget'
<1> SUFFICES ASSUME NEW m \in Mandates
             PROVE  ReservedMotes(m, now)' <= Policy[m].dailyBudget
  BY DEF ReservationsWithinBudget
<1>1. /\ ReservedMotes(m, now) <= Policy[m].dailyBudget
      /\ ReservedMotes(m, now) \in Nat /\ Policy[m].dailyBudget \in Nat
  BY LiveFinite, PolicyAssumption DEF ReservationsWithinBudget
<1>2. IInv' /\ now \in Nat
  BY NextInv, TimeAssumption DEF IInv, TypeOK
<1>3. ReservedMotes(m, now)' \in Nat
  BY <1>2, LiveNext
<1>4. SUFFICES ASSUME ~(ReservedMotes(m, now)' <= ReservedMotes(m, now))
               PROVE  ReservedMotes(m, now)' <= Policy[m].dailyBudget
  BY <1>1, <1>3
<1>5. ~ \A c \in Live(m, now)' :
          c \in Live(m, now) /\ executions'[c].amount = executions[c].amount
  BY <1>4, NothingReserved
<1>6. PICK c \in Live(m, now)' :
         ~(c \in Live(m, now) /\ executions'[c].amount = executions[c].amount)
  BY <1>5
<1>7. c \in Calls /\ executions'[c] # None /\ executions'[c].mandate = m
      /\ StillReserved(executions'[c], now') /\ executions'[c] \in Execution /\ Granted(c)'
  BY <1>2, LiveNext DEF Live, Executed
<1>8. CASE executions' = executions /\ now' \in Nat /\ now <= now'
  <2>1. executions'[c].reservedUntil \in Nat
    BY <1>7, TimeAssumption DEF Execution
  <2> QED BY <1>2, <1>6, <1>7, <1>8, <2>1 DEF Live, Executed, StillReserved
<1>9. ASSUME NEW d \in Calls, NEW next \in RequestStatus, Transition(d, next)
      PROVE  FALSE
  <2>1. CASE c # d
    BY <1>6, <1>7, <1>9, <2>1, TransitionRow DEF Live, Executed
  <2>2. CASE c = d
    <3>1. next \in {"authorized", "settlement_pending"}
      BY <1>7, <1>9, <2>2, TransitionRow DEF StillReserved
    <3>2. executions[c].status \in {"authorized", "settlement_pending"}
      BY <1>9, <2>2, <3>1, TransitionRow DEF AllowedTransitions
    <3> QED BY <1>6, <1>7, <1>9, <2>2, <3>2, TransitionRow DEF Live, Executed, StillReserved
  <2> QED BY <2>1, <2>2
<1>10. ASSUME NEW d \in Calls, Authorize(d)
       PROVE  ReservedMotes(m, now)' <= Policy[m].dailyBudget
  <2>1. now' = now /\ \A x \in Calls : x # d => executions'[x] = executions[x]
    BY <1>10, AuthorizedRow DEF Authorize
  <2>2. c = d
    BY <1>6, <1>7, <2>1 DEF Live, Executed
  <2>3. /\ executions'[c].amount \in Nat \ {0} /\ calls[c].mandate = m
        /\ ReservedMotes(m, now) + executions'[c].amount <= Policy[m].dailyBudget
    BY <1>7, <1>10, <2>2, GrantFits, AuthorizedRow
  <2>4. executions[c] = None
    BY <1>10, <2>2, AuthorizedRow
  <2>5. Live(m, now)' \subseteq Live(m, now) \cup {c} /\ c \notin Live(m, now)
    BY <1>2, <2>1, <2>2, <2>4, LiveFinite DEF Live, Executed
  <2>6. /\ DOMAIN Amounts(m, now) = Live(m, now) /\ DOMAIN Amounts(m, now)' = Live(m, now)'
        /\ \A x \in Live(m, now) : Amounts(m, now)[x] \in Nat
        /\ \A x \in Live(m, now)' \ {c} : Amounts(m, now)'[x] = Amounts(m, now)[x]
        /\ c \in Live(m, now)' => Amounts(m, now)'[c] = executions'[c].amount
    BY <1>2, <2>1, <2>2, <2>5, LiveFinite DEF Amounts, Execution
  <2>7. SumFunction(Amounts(m, now)') <= SumFunction(Amounts(m, now)) + executions'[c].amount
    BY <2>3, <2>5, <2>6, LiveFinite, SumGrows
  <2>8. ReservedMotes(m, now)' = SumFunction(Amounts(m, now)')
    BY DEF ReservedMotes, Motes, Amounts, Live
  <2> QED BY <1>1, <1>3, <2>3, <2>7, <2>8, ReservedIsSum
<1> QED BY <1>8, <1>9, <1>10, Steps

\* The reservations of a mandate never exceed its daily budget together, each
\* decided though it was against the timestamp of its own request.
THEOREM ReservationsStayWithinBudget == Spec => []ReservationsWithinBudget
<1>1. Init => ReservationsWithinBudget
  <2> SUFFICES ASSUME Init, NEW m \in Mandates
               PROVE  ReservedMotes(m, now) <= Policy[m].dailyBudget
    BY DEF ReservationsWithinBudget
  <2>1. Live(m, now) = {}
    BY DEF Init, Live, Executed
  <2>2. ReservedMotes(m, now) = 0
    BY <2>1, ReservedIsSum, SumOfNothing
  <2> QED BY <2>2, PolicyAssumption
<1>2. IInv /\ ReservationsWithinBudget /\ [Next]_vars => ReservationsWithinBudget'
  BY BudgetStep
<1> QED BY <1>1, <1>2, Invariant, PTL DEF Spec

-----------------------------------------------------------------------------
(* Trails *)

\* A trail starts with the three statuses Authorize writes and is never longer
\* than the life cycle.
TrailLength == \A c \in Calls : executions[c] # None => Len(executions[c].trail) \in 3..7

\* What TrailInOrder says of one row that was granted or not.
InOrder(e, granted) ==
  LET n == Len(e.trail) IN
  /\ n \in 3..7
  /\ e.trail[n] = e.status
  /\ e.status \in {"settlement_pending", "settled", "delivered", "proven"} => granted
  /\ \A i \in 1..n :
       \/ e.trail[i] = Lifecycle[i]
       \/ i = n /\ e.status \in {"failed", "blocked", "approval_required"}

LEMMA TrailsInOrder ==
  TrailInOrder /\ TrailLength <=>
    \A c \in Calls : executions[c] # None => InOrder(executions[c], Granted(c))
BY DEF TrailInOrder, TrailLength, InOrder

LEMMA TrailsInOrderNext ==
  (TrailInOrder /\ TrailLength <=>
    \A c \in Calls : executions[c] # None => InOrder(executions[c], Granted(c)))'
BY TrailsInOrder, PTL

LEMMA LifecycleIs ==
  /\ Lifecycle[3] = "authorized" /\ Lifecycle[4] = "settlement_pending"
  /\ Lifecycle[5] = "settled" /\ Lifecycle[6] = "delivered" /\ Lifecycle[7] = "proven"
BY DEF Lifecycle

LEMMA LongerTrail ==
  ASSUME NEW e \in Execution, NEW f \in Execution, InOrder(e, TRUE),
         NEW next \in AllowedTransitions(e.status),
         e.status \in {"authorized", "settlement_pending", "settled", "delivered"},
         f.status = next, f.trail = Append(e.trail, next)
  PROVE  InOrder(f, TRUE)
<1> DEFINE n == Len(e.trail)
<1>1. /\ n \in 3..7 /\ e.trail \in Seq(RequestStatus) /\ e.trail[n] = e.status
      /\ \A i \in 1..n : e.trail[i] = Lifecycle[i]
  BY DEF InOrder, Execution
<1>2. /\ Len(f.trail) = n + 1 /\ f.trail[n + 1] = next
      /\ \A i \in 1..n : f.trail[i] = e.trail[i]
  BY <1>1
<1>3. Lifecycle[n] = e.status
  BY <1>1
<1>4. /\ e.status = "authorized" => n = 3
      /\ e.status = "settlement_pending" => n = 4
      /\ e.status = "settled" => n = 5
      /\ e.status = "delivered" => n = 6
  <2>1. n = 3 \/ n = 4 \/ n = 5 \/ n = 6 \/ n = 7
    BY <1>1
  <2> HIDE DEF n
  <2> QED BY <1>3, <2>1, LifecycleIs
<1>5. next = "failed" \/ next = Lifecycle[n + 1]
  <2> HIDE DEF n
  <2> QED BY <1>4, LifecycleIs DEF AllowedTransitions
<1>6. n + 1 \in 4..7
  <2> HIDE DEF n
  <2> QED BY <1>4
<1> QED BY <1>1, <1>2, <1>5, <1>6 DEF InOrder

LEMMA TrailStep ==
  ASSUME IInv, TrailInOrder, TrailLength, [Next]_vars
  PROVE  TrailInOrder' /\ TrailLength'
<1> SUFFICES ASSUME NEW c \in Calls, executions'[c] # None
             PROVE  InOrder(executions'[c], Granted(c)')
  BY TrailsInOrderNext
<1>1. executions[c] # None => InOrder(executions[c], Granted(c)) /\ executions[c] \in Execution
  BY TrailsInOrder DEF IInv, TypeOK
<1>2. CASE executions'[c] = executions[c]
  BY <1>1, <1>2 DEF Granted
<1>3. ASSUME NEW d \in Calls, Authorize(d), executions'[c] # executions[c]
      PROVE  InOrder(executions'[c], Granted(c)')
  <2> DEFINE e == executions'[c]
             n == Len(e.trail)
  <2>1. /\ e.trail = <<"proposed", "validated", e.status>>
        /\ e.status = StatusAfter(e.reason)
    BY <1>3, AuthorizedRow
  <2>2. /\ e.status \in {"authorized", "approval_required", "blocked"}
    BY <2>1, StatusKnown
  <2>3. n = 3 /\ e.trail[1] = "proposed" /\ e.trail[2] = "validated" /\ e.trail[3] = e.status
    BY <2>1
  <2>4. Lifecycle[1] = "proposed" /\ Lifecycle[2] = "validated" /\ Lifecycle[3] = "authorized"
    BY DEF Lifecycle
  <2> HIDE DEF e
  <2>5. \A i \in 1..n : i = 1 \/ i = 2 \/ i = 3
    BY <2>3
  <2>6. InOrder(e, Granted(c)')
    BY <2>2, <2>3, <2>4, <2>5 DEF InOrder
  <2> QED BY <2>6 DEF e
<1>4. ASSUME NEW d \in Calls, NEW next \in RequestStatus, Transition(d, next),
             executions'[c] # executions[c]
      PROVE  InOrder(executions'[c], Granted(c)')
  <2>1. c = d
    BY <1>4, TransitionRow
  <2>2. /\ InOrder(executions[c], TRUE) /\ Granted(c)' = TRUE
        /\ executions[c] \in Execution /\ executions'[c] \in Execution
        /\ next \in AllowedTransitions(executions[c].status)
        /\ executions[c].status \in {"authorized", "settlement_pending", "settled", "delivered"}
        /\ executions'[c].status = next
        /\ executions'[c].trail = Append(executions[c].trail, next)
    <3>1. Granted(c) = TRUE /\ Granted(c)' = TRUE
      BY <1>4, <2>1, TransitionRow DEF Granted
    <3> QED BY <1>1, <1>4, <2>1, <3>1, TransitionRow
  <2> QED BY <2>2, LongerTrail
<1> QED BY <1>2, <1>3, <1>4, Steps

\* Money moves only for a grant, and every request goes through the life cycle
\* in order, up to its end or to a failure.
THEOREM TrailsStayInOrder == Spec => []TrailInOrder
<1>1. Init => TrailInOrder /\ TrailLength
  BY DEF Init, TrailInOrder, TrailLength
<1>2. IInv /\ TrailInOrder /\ TrailLength /\ [Next]_vars => TrailInOrder' /\ TrailLength'
  BY TrailStep
<1> QED BY <1>1, <1>2, Invariant, PTL DEF Spec

-----------------------------------------------------------------------------
(* The reservation book *)

LEMMA BookInit == Init => Book!Init
BY DEF Init, Book!Init, Granted

\* The place of c in the book, and the book.
Place(c) == IF Granted(c) THEN Hold(c) ELSE None
BookNow == [c \in Calls |-> Place(c)]

LEMMA HoldIs ==
  ASSUME IInv, NEW c \in Calls, Granted(c)
  PROVE  /\ Hold(c) \in [mandate: Mandates, amount: Nat, until: Nat, open: BOOLEAN]
         /\ Hold(c) # None /\ Place(c) = Hold(c)
<1>1. executions[c] \in Execution
  BY DEF Granted, IInv, TypeOK
<1>2. Hold(c) \in [mandate: Mandates, amount: Nat, until: Nat, open: BOOLEAN]
  <2>1. (executions[c].status \in {"authorized", "settlement_pending"}) \in BOOLEAN
    OBVIOUS
  <2>2. /\ executions[c].mandate \in Mandates /\ executions[c].amount \in Nat
        /\ executions[c].reservedUntil \in Nat
    BY <1>1, TimeAssumption DEF Execution
  <2> QED BY <2>1, <2>2 DEF Hold
<1> QED BY <1>2, HoldAssumption DEF Place

LEMMA BookLive ==
  ASSUME IInv, NEW m
  PROVE  Book!LiveHolds(m) = Live(m, now)
<1>1. ASSUME NEW c \in Calls
      PROVE  c \in Book!LiveHolds(m) <=> c \in Live(m, now)
  <2>1. c \in Book!LiveHolds(m) <=>
          BookNow[c] # None /\ BookNow[c].open /\ BookNow[c].until > now /\ BookNow[c].mandate = m
    BY DEF Book!LiveHolds, Book!Live, BookNow, Place
  <2>2. CASE Granted(c)
    <3>1. BookNow[c] = Hold(c) /\ Hold(c) # None
      BY <2>2, HoldIs DEF BookNow
    <3>2. /\ Hold(c).mandate = executions[c].mandate
          /\ Hold(c).until = executions[c].reservedUntil
          /\ Hold(c).open <=> executions[c].status \in {"authorized", "settlement_pending"}
      BY DEF Hold
    <3>3. c \in Live(m, now) <=>
            /\ executions[c].mandate = m /\ executions[c].reservedUntil > now
            /\ executions[c].status \in {"authorized", "settlement_pending"}
      BY <2>2 DEF Live, Executed, StillReserved, Granted
    <3> QED BY <2>1, <3>1, <3>2, <3>3
  <2>3. CASE ~Granted(c)
    <3>1. BookNow[c] = None
      BY <2>3 DEF BookNow, Place
    <3> QED BY <2>1, <2>3, <3>1, LiveFinite
  <2> QED BY <2>2, <2>3
<1> QED BY <1>1 DEF Book!LiveHolds, Live, Executed

LEMMA BookSums == ASSUME NEW F PROVE Book!SumFunction(F) = SumFunction(F)
BY DEF Book!SumFunction, Book!SumFunctionOnSet, Book!FoldFunctionOnSet, Book!MapThenFoldSet,
       SumFunction, SumFunctionOnSet, FoldFunctionOnSet, MapThenFoldSet

LEMMA HeldIsReserved ==
  ASSUME IInv, NEW m
  PROVE  Book!Held(m) = ReservedMotes(m, now)
<1>1. Book!Held(m) = SumFunction([c \in Live(m, now) |-> BookNow[c].amount])
  <2>1. Book!Held(m) = SumFunction([c \in Book!LiveHolds(m) |-> BookNow[c].amount])
    BY BookSums DEF Book!Held, BookNow, Place
  <2> QED BY <2>1, BookLive
<1>2. \A c \in Live(m, now) : BookNow[c].amount = executions[c].amount
  BY LiveFinite, HoldIs DEF BookNow, Hold
<1>3. [c \in Live(m, now) |-> BookNow[c].amount] = Amounts(m, now)
  BY <1>2 DEF Amounts
<1> QED BY <1>1, <1>3, ReservedIsSum

LEMMA HoldsNow ==
  \A c \in Calls : IInv /\ Granted(c) =>
    /\ Hold(c) \in [mandate: Mandates, amount: Nat, until: Nat, open: BOOLEAN]
    /\ Hold(c) # None /\ Place(c) = Hold(c)
BY HoldIs

LEMMA HoldsNext ==
  (\A c \in Calls : IInv /\ Granted(c) =>
    /\ Hold(c) \in [mandate: Mandates, amount: Nat, until: Nat, open: BOOLEAN]
    /\ Hold(c) # None /\ Place(c) = Hold(c))'
BY HoldsNow, PTL

LEMMA ReserveStep ==
  ASSUME IInv, IInv', NEW c \in Calls, Authorize(c), Granted(c)'
  PROVE  Book!Reserve(c)
<1> DEFINE hold == Hold(c)'
<1>1. executions[c] = None /\ ~Granted(c) /\ now' = now
  BY AuthorizedRow DEF Granted, Authorize
<1>2. /\ hold \in [mandate: Mandates, amount: Nat, until: Nat, open: BOOLEAN]
      /\ Place(c)' = hold
  BY HoldsNext
<1>3. /\ hold.mandate = calls[c].mandate /\ hold.amount = executions'[c].amount
      /\ hold.until = calls[c].at + Ttl /\ hold.open = TRUE
  <2>1. executions'[c].status = "authorized"
    BY AuthorizedRow, StatusKnown DEF Granted
  <2>2. executions'[c].reservedUntil = calls[c].at + Ttl
    BY <2>1, AuthorizedRow
  <2> QED BY <2>1, <2>2, AuthorizedRow DEF Hold
<1>4. calls[c] \in Call /\ calls[c].at \in Nat /\ now \in Nat /\ calls[c].at <= now
  BY AuthorizedRow, TimeAssumption, NoneAssumption DEF Call, IInv, TypeOK, ReceivedBefore
<1>5. hold.until \in 0..(now + Ttl)
  BY <1>3, <1>4, TimeAssumption
<1>6. /\ hold.mandate \in Mandates /\ hold.amount \in Nat \ {0}
      /\ ReservedMotes(hold.mandate, now) + hold.amount <= Policy[hold.mandate].dailyBudget
  BY <1>3, GrantFits
<1> HIDE DEF hold
<1>7. hold \in [mandate: Mandates, amount: Nat \ {0}, until: 0..(now + Ttl), open: {TRUE}]
  BY <1>2, <1>3, <1>5, <1>6
<1>8. /\ BookNow[c] = None /\ BookNow'[c] = hold
      /\ BookNow' = [BookNow EXCEPT ![c] = hold]
  <2>1. \A d \in Calls : d # c => Place(d)' = Place(d)
    BY AuthorizedRow DEF Place, Granted, Hold
  <2>2. Place(c) = None
    BY <1>1 DEF Place
  <2> QED BY <1>2, <2>1, <2>2 DEF BookNow
<1>9. Book!Held(hold.mandate) + hold.amount <= [m \in Mandates |-> Policy[m].dailyBudget][hold.mandate]
  BY <1>6, HeldIsReserved
<1> QED BY <1>1, <1>7, <1>8, <1>9 DEF Book!Reserve, BookNow, Place

LEMMA Closed ==
  ASSUME NEW m, NEW a, NEW u, NEW h, NEW k,
         h = [mandate |-> m, amount |-> a, until |-> u, open |-> TRUE],
         k = [mandate |-> m, amount |-> a, until |-> u, open |-> FALSE]
  PROVE  k = [h EXCEPT !.open = FALSE]
<1> DEFINE Only(o) == [mandate: {m}, amount: {a}, until: {u}, open: {o}]
<1>1. h \in Only(TRUE) /\ k \in Only(FALSE)
  OBVIOUS
<1>2. [h EXCEPT !.open = FALSE] \in Only(FALSE)
  BY <1>1
<1>3. ASSUME NEW j \in Only(FALSE) PROVE k = j
  BY <1>1
<1> HIDE DEF Only
<1> QED BY <1>2, <1>3

LEMMA ReleaseStep ==
  ASSUME IInv, IInv', NEW c \in Calls, NEW next \in RequestStatus, Transition(c, next)
  PROVE  Book!Release(c) \/ (BookNow' = BookNow /\ now' = now)
<1> DEFINE e == executions[c]
<1>1. /\ e # None /\ e \in Execution /\ Granted(c) /\ Granted(c)'
      /\ e.status \in {"authorized", "settlement_pending", "settled", "delivered"}
      /\ next \in AllowedTransitions(e.status)
      /\ executions'[c].mandate = e.mandate /\ executions'[c].amount = e.amount
      /\ executions'[c].reservedUntil = e.reservedUntil
      /\ executions'[c].status = next
      /\ \A d \in Calls : d # c => executions'[d] = executions[d]
      /\ now' = now
  BY TransitionRow
<1>2. \A d \in Calls : d # c => Place(d)' = Place(d)
  BY <1>1 DEF Place, Granted, Hold
<1>3. Place(c) = Hold(c) /\ Place(c)' = Hold(c)' /\ Hold(c) # None
  BY <1>1, HoldIs, HoldsNext
<1>4. CASE next = "settlement_pending"
  <2>1. e.status = "authorized"
    BY <1>1, <1>4 DEF AllowedTransitions
  <2>2. Hold(c)' = Hold(c)
    BY <1>1, <1>4, <2>1 DEF Hold
  <2> QED BY <1>1, <1>2, <1>3, <2>2 DEF BookNow
<1>5. CASE next # "settlement_pending" /\ e.status \in {"authorized", "settlement_pending"}
  <2>1. next # "authorized"
    BY <1>1 DEF AllowedTransitions
  <2>2. Hold(c)' = [Hold(c) EXCEPT !.open = FALSE] /\ Hold(c).open
    <3>1. /\ (executions'[c].status \in {"authorized", "settlement_pending"}) = FALSE
          /\ (e.status \in {"authorized", "settlement_pending"}) = TRUE
      BY <1>1, <1>5, <2>1
    <3>2. Hold(c)' = [mandate |-> e.mandate, amount |-> e.amount,
                      until |-> e.reservedUntil, open |-> FALSE]
      BY <1>1, <3>1 DEF Hold
    <3>3. Hold(c) = [mandate |-> e.mandate, amount |-> e.amount,
                     until |-> e.reservedUntil, open |-> TRUE]
      BY <3>1 DEF Hold
    <3>4. Hold(c)' = [Hold(c) EXCEPT !.open = FALSE]
      BY <3>2, <3>3, Closed
    <3> QED BY <3>3, <3>4
  <2>3. BookNow' = [BookNow EXCEPT ![c].open = FALSE] /\ BookNow[c] # None /\ BookNow[c].open
    BY <1>2, <1>3, <2>2 DEF BookNow
  <2> QED BY <1>1, <2>3 DEF Book!Release, BookNow, Place
<1>6. CASE next # "settlement_pending" /\ e.status \notin {"authorized", "settlement_pending"}
  <2>1. next # "authorized"
    BY <1>1 DEF AllowedTransitions
  <2>2. Hold(c)' = Hold(c)
    BY <1>1, <1>6, <2>1 DEF Hold
  <2> QED BY <1>1, <1>2, <1>3, <2>2 DEF BookNow
<1> QED BY <1>4, <1>5, <1>6

LEMMA BookStep ==
  ASSUME IInv, IInv', [Next]_vars
  PROVE  [Book!Next]_Book!vars
<1>1. BookNow' = BookNow /\ now' = now => UNCHANGED Book!vars
  BY DEF Book!vars, BookNow, Place
<1>2. ASSUME NEW c \in Calls, Authorize(c)
      PROVE  [Book!Next]_Book!vars
  <2>1. CASE Granted(c)'
    BY <1>2, <2>1, ReserveStep DEF Book!Next
  <2>2. CASE ~Granted(c)'
    <3>1. \A d \in Calls : Place(d)' = Place(d)
      BY <1>2, <2>2, AuthorizedRow DEF Place, Granted, Hold
    <3> QED BY <1>1, <1>2, <3>1 DEF BookNow, Authorize
  <2> QED BY <2>1, <2>2
<1>3. ASSUME NEW c \in Calls, NEW next \in RequestStatus, Transition(c, next)
      PROVE  [Book!Next]_Book!vars
  BY <1>1, <1>3, ReleaseStep DEF Book!Next
<1>4. CASE Tick
  <2>1. BookNow' = BookNow /\ now' = now + 1
    BY <1>4 DEF Tick, BookNow, Place, Granted, Hold
  <2> QED BY <2>1 DEF Book!Next, Book!Advance, BookNow, Place
<1>5. CASE executions' = executions /\ now' = now
  <2>1. BookNow' = BookNow
    BY <1>5 DEF BookNow, Place, Granted, Hold
  <2> QED BY <1>1, <1>5, <2>1
<1> QED BY <1>2, <1>3, <1>4, <1>5
    DEF Next, vars, ReceiveFromMcp, Receive, Fail, SaveMandate

\* Every step of the gateway enters a hold that fits, releases one, lets time
\* pass, or leaves the book as it is.
THEOREM ImplementsReservationBook == Spec => ImplementsBook
<1>1. IInv /\ IInv' /\ [Next]_vars => [Book!Next]_Book!vars
  BY BookStep
<1> QED BY <1>1, BookInit, Invariant, PTL DEF Spec, ImplementsBook, Book!Spec
=============================================================================
