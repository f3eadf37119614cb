------------------------- MODULE MandateGuardProofs -------------------------
(***************************************************************************)
(* Theorems about MandateGuard, for every set of mandates, accounts,      *)
(* actions and policies and every width of u64.                            *)
(***************************************************************************)
EXTENDS MandateGuard, SumLemmas

\* A mandate that does not exist has an empty history: create_mandate starts
\* from nothing.
Blank ==
  \A m \in Mandates : ~Exists(m) =>
    /\ ~active[m]
    /\ spent[m] = 0
    /\ authorized[m] = {}
    /\ events[m] = <<>>
    /\ \A a \in Actions : settlements[m][a] = None

\* Where the current window lies with respect to the block time, the budget
\* and the windows of earlier events.
WindowOrder ==
  \A m \in Existing :
    /\ windowStart[m] <= now
    /\ spent[m] <= terms[m].limits.dailyBudget
    /\ \A i \in DOMAIN events[m] :
         LET e == events[m][i] IN
         e.window = windowStart[m] \/ e.window + Day <= windowStart[m]

IInv == /\ TypeOK
        /\ Blank
        /\ LedgerAccounts
        /\ WindowOrder
        /\ WindowsADayApart
        /\ AuthorizedUnderTerms
        /\ OneEventPerAction

LEMMA ValidPolicy ==
  ASSUME NEW p \in Policies, ValidConfiguration(p)
  PROVE  /\ p \in Limits
         /\ p.dailyBudget \in 1..MaxU64
         /\ p.maxAmount \in 1..p.dailyBudget
BY PolicyAssumption, WidthAssumption DEF ValidConfiguration, Limits, U64

\* Existing grows by exactly the mandate create_mandate writes.
LEMMA CreateExisting ==
  ASSUME TypeOK,
         NEW c \in Accounts, NEW m \in Mandates, NEW agent \in Accounts,
         NEW s \in Services, NEW p \in Policies,
         CreateMandate(c, m, agent, s, p)
  PROVE  mandateCount' = Cardinality(Existing')
<1>1. [owner |-> c, agent |-> agent, limits |-> p] \in Terms
  BY PolicyAssumption DEF Terms
<1>2. Existing' = Existing \cup {m}
  BY <1>1, NoneAssumption DEF TypeOK, CreateMandate, Existing, Exists
<1>3. m \notin Existing
  BY DEF CreateMandate, MayCreate, Existing
<1>4. IsFiniteSet(Existing)
  BY MandatesAssumption, FS_Subset DEF Existing
<1>5. Cardinality(Existing') = Cardinality(Existing) + 1
  BY <1>2, <1>3, <1>4, FS_AddElement
<1> QED BY <1>5 DEF CreateMandate, TypeOK

\* The sum authorize_action stores did not wrap.
LEMMA CheckedSum ==
  ASSUME TypeOK, NEW m \in Mandates, NEW amount \in U64, AddFits(SpentBefore(m), amount)
  PROVE  /\ UpdatedSpent(m, amount) = SpentBefore(m) + amount
         /\ UpdatedSpent(m, amount) \in U64
<1>1. SpentBefore(m) \in Nat /\ amount \in Nat /\ MaxU64 \in Nat
  BY WidthAssumption DEF TypeOK, SpentBefore, U64
<1>2. \A x, y \in Nat : x <= y => x % (y + 1) = x
  OBVIOUS
<1>3. UpdatedSpent(m, amount) = SpentBefore(m) + amount
  BY <1>1, <1>2 DEF UpdatedSpent, WrappingAdd, AddFits
<1> QED BY <1>1, <1>3 DEF AddFits, U64

LEMMA InitType == Init => TypeOK
<1> SUFFICES ASSUME Init PROVE TypeOK OBVIOUS
<1>1. Existing = {}
  BY DEF Init, Existing, Exists
<1>2. mandateCount = Cardinality(Existing)
  BY <1>1, FS_EmptySet DEF Init
<1> QED BY <1>2, WidthAssumption DEF Init, TypeOK, U64

LEMMA NextType == TypeOK /\ [Next]_vars => TypeOK'
<1> SUFFICES ASSUME TypeOK, [Next]_vars PROVE TypeOK' OBVIOUS
<1> USE WidthAssumption DEF TypeOK
<1>same. terms' = terms /\ mandateCount' = mandateCount => mandateCount' = Cardinality(Existing')
  BY DEF Existing, Exists
<1>1. ASSUME NEW c \in Accounts, NEW m \in Mandates, NEW agent \in Accounts,
             NEW s \in Services, NEW p \in Policies, CreateMandate(c, m, agent, s, p)
      PROVE  TypeOK'
  <2>1. [owner |-> c, agent |-> agent, limits |-> p] \in Terms
    BY PolicyAssumption DEF Terms
  <2>2. mandateCount' = Cardinality(Existing')
    BY <1>1, CreateExisting
  <2> QED BY <1>1, <2>1, <2>2 DEF CreateMandate, U64
<1>2. ASSUME NEW c \in Accounts, NEW m \in Mandates, NEW s \in Services,
             AddAllowedService(c, m, s)
      PROVE  TypeOK'
  BY <1>2, <1>same DEF AddAllowedService
<1>3. ASSUME NEW c \in Accounts, NEW m \in Mandates, NEW a \in Actions,
             NEW s \in Services, NEW amount \in U64, AuthorizeAction(c, m, a, s, amount)
      PROVE  TypeOK'
  <2>1. SpentBefore(m) \in U64 /\ CurrentWindow(m) \in U64
    BY DEF SpentBefore, CurrentWindow, U64
  <2>2. UpdatedSpent(m, amount) \in U64
    BY <1>3, CheckedSum DEF AuthorizeAction
  <2> DEFINE e == [action |-> a, service |-> s, amount |-> amount, caller |-> c,
                   at |-> now, window |-> CurrentWindow(m),
                   spentInWindow |-> UpdatedSpent(m, amount)]
  <2>3. e \in Event
    BY <2>1, <2>2 DEF Event
  <2>4. Append(events[m], e) \in Seq(Event)
    BY <2>3
  <2>5. events' \in [Mandates -> Seq(Event)]
    BY <1>3, <2>4 DEF AuthorizeAction
  <2> QED BY <1>3, <1>same, <2>1, <2>2, <2>5 DEF AuthorizeAction
<1>4. ASSUME NEW c \in Accounts, NEW m \in Mandates, NEW a \in Actions,
             NEW settlement \in Hashes, NEW result \in Hashes,
             RecordSettlement(c, m, a, settlement, result)
      PROVE  TypeOK'
  BY <1>4, <1>same DEF RecordSettlement
<1>5. ASSUME NEW c \in Accounts, NEW m \in Mandates, RevokeMandate(c, m)
      PROVE  TypeOK'
  BY <1>5, <1>same DEF RevokeMandate
<1>6. CASE Tick
  BY <1>6, <1>same DEF Tick, U64
<1>7. CASE UNCHANGED vars
  BY <1>7, <1>same DEF vars
<1> QED BY <1>1, <1>2, <1>3, <1>4, <1>5, <1>6, <1>7 DEF Next

\* Every slot of the contract keeps a value of its type in every run.
THEOREM TypeCorrect == Spec => []TypeOK
BY InitType, NextType, PTL DEF Spec
-----------------------------------------------------------------------------
(* The inductive invariant behind the safety properties *)

LEMMA InitInv == Init => IInv
<1> SUFFICES ASSUME Init PROVE IInv OBVIOUS
<1>1. TypeOK
  BY InitType
<1>2. Existing = {}
  BY DEF Init, Existing, Exists
<1>3. \A m \in Mandates : events[m] = <<>> /\ authorized[m] = {} /\ ~Exists(m)
  BY DEF Init, Exists
<1>4. Blank
  BY <1>3 DEF Init, Blank
<1>5. AuthorizedUnderTerms
  BY <1>3 DEF AuthorizedUnderTerms
<1>6. OneEventPerAction
  BY <1>3, <1>4 DEF OneEventPerAction, Blank
<1> QED
  BY <1>1, <1>2, <1>4, <1>5, <1>6
  DEF IInv, LedgerAccounts, WindowOrder, WindowsADayApart

LEMMA CreateInv ==
  ASSUME IInv,
         NEW c \in Accounts, NEW m \in Mandates, NEW agent \in Accounts,
         NEW s \in Services, NEW p \in Policies,
         CreateMandate(c, m, agent, s, p)
  PROVE  /\ Blank' /\ LedgerAccounts' /\ WindowOrder' /\ WindowsADayApart'
         /\ AuthorizedUnderTerms' /\ OneEventPerAction'
<1> DEFINE t == [owner |-> c, agent |-> agent, limits |-> p]
<1> USE DEF IInv, TypeOK
<1>1. t \in Terms /\ t # None
  BY PolicyAssumption, NoneAssumption DEF Terms
<1>2. /\ ~Exists(m)
      /\ terms' = [terms EXCEPT ![m] = t]
      /\ UNCHANGED <<authorized, settlements, events, now>>
      /\ spent'[m] = 0 /\ windowStart'[m] = now
  BY DEF CreateMandate, MayCreate
<1>3. \A n \in Mandates : n # m =>
        /\ terms'[n] = terms[n] /\ active'[n] = active[n] /\ spent'[n] = spent[n]
        /\ windowStart'[n] = windowStart[n] /\ services'[n] = services[n]
  BY DEF CreateMandate
<1>4. terms'[m] = t /\ Exists(m)'
  BY <1>1, <1>2 DEF Exists
<1>5. events[m] = <<>> /\ authorized[m] = {} /\ \A a \in Actions : settlements[m][a] = None
  BY <1>2 DEF Blank
<1>6. Blank'
  BY <1>2, <1>3, <1>4 DEF Blank, Exists
<1>7. LedgerAccounts'
  BY <1>2, <1>3, <1>4, <1>5 DEF LedgerAccounts, LedgerStep, Existing, Exists
<1>8. WindowOrder'
  BY <1>2, <1>3, <1>4, <1>5, ValidPolicy, WidthAssumption
  DEF WindowOrder, Existing, Exists, CreateMandate, MayCreate, U64
<1>9. WindowsADayApart'
  BY <1>2, <1>3, <1>4, <1>5 DEF WindowsADayApart, Existing, Exists
<1>10. AuthorizedUnderTerms'
  BY <1>2, <1>3, <1>4, <1>5 DEF AuthorizedUnderTerms, Exists, IsParty
<1>11. OneEventPerAction'
  BY <1>2 DEF OneEventPerAction
<1> QED BY <1>6, <1>7, <1>8, <1>9, <1>10, <1>11

\* The saturating addition never shortens a window for an authorization: one
\* that starts a new window comes a full day after the old one started.
LEMMA FullDay ==
  ASSUME TypeOK, NEW m \in Mandates, Exists(m), ValidNow(m)
  PROVE  WindowElapsed(m) <=> now >= windowStart[m] + Day
<1>1. terms[m] \in Terms
  BY DEF TypeOK, Exists
<1>2. now < MaxU64
  BY <1>1, WidthAssumption DEF ValidNow, Terms, Limits, U64, TypeOK
<1> QED BY <1>2, WidthAssumption DEF WindowElapsed, SaturatingAdd, TypeOK, U64

LEMMA AuthorizeInv ==
  ASSUME IInv,
         NEW c \in Accounts, NEW m \in Mandates, NEW a \in Actions,
         NEW s \in Services, NEW amount \in U64,
         AuthorizeAction(c, m, a, s, amount)
  PROVE  /\ Blank' /\ LedgerAccounts' /\ WindowOrder' /\ WindowsADayApart'
         /\ AuthorizedUnderTerms' /\ OneEventPerAction'
<1> DEFINE e == [action |-> a, service |-> s, amount |-> amount, caller |-> c,
                 at |-> now, window |-> CurrentWindow(m),
                 spentInWindow |-> UpdatedSpent(m, amount)]
           old == events[m]
           new == events'[m]
           k == Len(old)
<1> USE DEF IInv
<1>1. Exists(m) /\ m \in Existing
  BY DEF AuthorizeAction, Existing
<1>sum. UpdatedSpent(m, amount) = SpentBefore(m) + amount
  BY CheckedSum DEF AuthorizeAction
<1>2. /\ UNCHANGED <<terms, active, services, settlements, now>>
      /\ spent'[m] = SpentBefore(m) + amount
      /\ windowStart'[m] = CurrentWindow(m)
      /\ authorized'[m] = authorized[m] \cup {a}
      /\ a \notin authorized[m]
      /\ SpentBefore(m) + amount <= terms[m].limits.dailyBudget
  BY <1>sum DEF AuthorizeAction, TypeOK, Fresh
<1>3. \A n \in Mandates : n # m =>
        /\ spent'[n] = spent[n] /\ windowStart'[n] = windowStart[n]
        /\ authorized'[n] = authorized[n] /\ events'[n] = events[n]
  BY DEF AuthorizeAction, TypeOK
<1>4. Existing' = Existing /\ \A n \in Mandates : Exists(n)' <=> Exists(n)
  BY <1>2 DEF Existing, Exists
<1>5. /\ k \in Nat /\ k = Len(old)
      /\ DOMAIN old = 1..k
      /\ DOMAIN new = 1..(k + 1)
      /\ Len(new) = k + 1
      /\ \A i \in 1..k : new[i] = old[i]
      /\ new[k + 1] = e
      /\ new # <<>>
      /\ old # <<>> => k > 0
      /\ \A i \in 1..k : old[i] \in Event
  <2>1. old \in Seq(Event)
    BY DEF TypeOK
  <2>2. new = Append(old, e)
    BY DEF AuthorizeAction, TypeOK
  <2> QED BY <2>1, <2>2
<1>6. /\ now \in Nat /\ windowStart[m] \in Nat /\ spent[m] \in Nat
      /\ amount \in Nat /\ Day \in Nat /\ Day > 0
      /\ terms[m] \in Terms /\ terms[m].limits.dailyBudget \in Nat
  BY <1>1, WidthAssumption DEF TypeOK, U64, Exists, Terms, Limits
<1>7. \A i \in 1..k : old[i].window \in Nat
  BY <1>5, WidthAssumption DEF Event, U64
<1>8. /\ CurrentWindow(m) = IF now >= windowStart[m] + Day THEN now ELSE windowStart[m]
      /\ SpentBefore(m) = IF now >= windowStart[m] + Day THEN 0 ELSE spent[m]
  BY <1>1, FullDay DEF AuthorizeAction, CurrentWindow, SpentBefore
<1>9. windowStart[m] <= now
  BY <1>1 DEF WindowOrder
<1>last. /\ e.action = a /\ e.service = s /\ e.amount = amount /\ e.caller = c /\ e.at = now
         /\ e.window = CurrentWindow(m) /\ e.spentInWindow = SpentBefore(m) + amount
  BY <1>sum
<1>split. \A i \in 1..(k + 1) : i \in 1..k \/ i = k + 1
  BY <1>5
<1>10. \A i \in 1..k : old[i].window = windowStart[m] \/ old[i].window + Day <= windowStart[m]
  BY <1>1, <1>5 DEF WindowOrder
<1> HIDE DEF e, k
<1>11. \A i \in 1..(k + 1) :
         new[i].window = CurrentWindow(m) \/ new[i].window + Day <= CurrentWindow(m)
  <2>1. ASSUME NEW i \in 1..k
        PROVE  old[i].window = CurrentWindow(m) \/ old[i].window + Day <= CurrentWindow(m)
    BY <1>6, <1>7, <1>8, <1>9, <1>10
  <2> QED BY <1>5, <1>last, <1>split, <2>1
<1>12. Blank'
  BY <1>1, <1>2, <1>3, <1>4 DEF Blank
<1>13. LedgerAccounts'
  <2>1. \A i \in 1..k : LedgerStep(old, i)
    BY <1>1, <1>5 DEF LedgerAccounts
  <2>2. \A i \in 1..k : LedgerStep(new, i)
    <3> SUFFICES ASSUME NEW i \in 1..k PROVE LedgerStep(new, i)
      OBVIOUS
    <3>1. i > 1 => i - 1 \in 1..k /\ new[i - 1] = old[i - 1]
      BY <1>5
    <3>2. new[i] = old[i]
      BY <1>5
    <3> QED BY <2>1, <3>1, <3>2 DEF LedgerStep
  <2>3. LedgerStep(new, k + 1)
    <3>1. CASE now >= windowStart[m] + Day
      <4>1. new[k + 1].spentInWindow = new[k + 1].amount
        BY <1>5, <1>6, <1>8, <1>last, <3>1
      <4>2. new[k + 1].window = now
        BY <1>5, <1>8, <1>last, <3>1
      <4>3. k > 0 => new[k].window # now
        <5> SUFFICES ASSUME k > 0 PROVE new[k].window # now OBVIOUS
        <5>1. k \in 1..k
          BY <1>5
        <5>2. /\ new[k] = old[k] /\ old[k].window \in Nat
              /\ old[k].window = windowStart[m] \/ old[k].window + Day <= windowStart[m]
          BY <1>5, <1>7, <1>10, <5>1
        <5> QED BY <1>6, <3>1, <5>2
      <4>4. (k + 1) - 1 = k /\ (k > 0 \/ k + 1 = 1)
        BY <1>5
      <4> QED BY <4>1, <4>2, <4>3, <4>4 DEF LedgerStep
    <3>2. CASE ~(now >= windowStart[m] + Day) /\ old = <<>>
      <4>1. spent[m] = 0
        BY <1>1, <3>2 DEF LedgerAccounts
      <4>2. new[k + 1].spentInWindow = new[k + 1].amount
        BY <1>5, <1>6, <1>8, <1>last, <3>2, <4>1
      <4>3. k + 1 = 1
        BY <1>5, <3>2
      <4> QED BY <4>2, <4>3 DEF LedgerStep
    <3>3. CASE ~(now >= windowStart[m] + Day) /\ old # <<>>
      <4>1. old[k].spentInWindow = spent[m] /\ old[k].window = windowStart[m]
        <5>1. old[Len(old)].spentInWindow = spent[m] /\ old[Len(old)].window = windowStart[m]
          BY <1>1, <3>3 DEF LedgerAccounts
        <5> QED BY <1>5, <5>1
      <4>2. k > 0 /\ new[k] = old[k]
        BY <1>5, <3>3
      <4>3. (k + 1) - 1 = k /\ k + 1 > 1
        BY <1>5, <4>2
      <4>4. /\ new[k + 1].window = new[k].window
            /\ new[k + 1].spentInWindow = new[k].spentInWindow + new[k + 1].amount
        BY <1>5, <1>8, <1>last, <3>3, <4>1, <4>2
      <4> QED BY <4>3, <4>4 DEF LedgerStep
    <3> QED BY <3>1, <3>2, <3>3
  <2>4. \A i \in 1..(k + 1) : new[i].spentInWindow <= terms[m].limits.dailyBudget
    <3>1. \A i \in 1..k : new[i].spentInWindow <= terms[m].limits.dailyBudget
      BY <1>1, <1>5 DEF LedgerAccounts
    <3> QED BY <1>2, <1>5, <1>last, <1>split, <3>1
  <2>5. ASSUME NEW n \in Existing, n # m
        PROVE  /\ \A i \in DOMAIN events'[n] : LedgerStep(events'[n], i)
               /\ \A i \in DOMAIN events'[n] :
                    events'[n][i].spentInWindow <= terms'[n].limits.dailyBudget
               /\ IF events'[n] = <<>>
                  THEN spent'[n] = 0
                  ELSE LET last == events'[n][Len(events'[n])] IN
                       last.spentInWindow = spent'[n] /\ last.window = windowStart'[n]
    BY <1>2, <1>3, <2>5 DEF LedgerAccounts, Existing
  <2>6. \A i \in 1..(k + 1) : LedgerStep(new, i)
    BY <1>split, <2>2, <2>3
  <2>7. new[Len(new)].spentInWindow = spent'[m] /\ new[Len(new)].window = windowStart'[m]
    BY <1>2, <1>5, <1>last
  <2>8. /\ \A i \in DOMAIN new : LedgerStep(new, i)
        /\ \A i \in DOMAIN new : new[i].spentInWindow <= terms'[m].limits.dailyBudget
        /\ IF new = <<>>
           THEN spent'[m] = 0
           ELSE LET last == new[Len(new)] IN
                last.spentInWindow = spent'[m] /\ last.window = windowStart'[m]
    BY <1>2, <1>5, <2>4, <2>6, <2>7
  <2> QED BY <1>4, <2>5, <2>8 DEF LedgerAccounts
<1>14. WindowOrder'
  <2>1. CurrentWindow(m) <= now
    BY <1>6, <1>8, <1>9
  <2>2. ASSUME NEW n \in Existing, n # m
        PROVE  /\ windowStart'[n] <= now'
               /\ spent'[n] <= terms'[n].limits.dailyBudget
               /\ \A i \in DOMAIN events'[n] :
                    \/ events'[n][i].window = windowStart'[n]
                    \/ events'[n][i].window + Day <= windowStart'[n]
    BY <1>2, <1>3, <2>2 DEF WindowOrder, Existing
  <2> QED BY <1>2, <1>4, <1>5, <1>11, <2>1, <2>2 DEF WindowOrder
<1>15. WindowsADayApart'
  <2>1. \A i \in 1..k : new[i].window <= new[i].at /\ new[i].at < new[i].window + Day
    BY <1>1, <1>5 DEF WindowsADayApart
  <2>2. e.window <= e.at /\ e.at < e.window + Day
    BY <1>6, <1>8, <1>9, <1>last
  <2>3. \A i \in 1..(k + 1) : new[i].window <= new[i].at /\ new[i].at < new[i].window + Day
    BY <1>5, <2>1, <2>2
  <2>4. \A i, j \in 1..k : i < j =>
          new[i].window = new[j].window \/ new[j].window >= new[i].window + Day
    <3>1. \A i, j \in DOMAIN old : i < j =>
            old[i].window = old[j].window \/ old[j].window >= old[i].window + Day
      BY <1>1 DEF WindowsADayApart
    <3>2. DOMAIN old = 1..k /\ \A i \in 1..k : new[i] = old[i]
      BY <1>5
    <3> HIDE DEF old, new, IInv
    <3> QED BY <3>1, <3>2
  <2>5. \A i \in 1..k :
          new[i].window = new[k + 1].window \/ new[k + 1].window >= new[i].window + Day
    BY <1>5, <1>6, <1>7, <1>8, <1>11, <1>last
  <2>6. \A i, j \in 1..(k + 1) : i < j =>
          new[i].window = new[j].window \/ new[j].window >= new[i].window + Day
    <3> SUFFICES ASSUME NEW i \in 1..(k + 1), NEW j \in 1..(k + 1), i < j
                 PROVE  \/ new[i].window = new[j].window
                        \/ new[j].window >= new[i].window + Day
      OBVIOUS
    <3>1. i \in 1..k
      BY <1>5
    <3> QED BY <1>split, <2>4, <2>5, <3>1
  <2>7. \A n \in Existing : n # m => \A i, j \in DOMAIN events'[n] :
          LET e1 == events'[n][i]  e2 == events'[n][j] IN
          /\ e1.window <= e1.at /\ e1.at < e1.window + Day
          /\ i < j => e1.window = e2.window \/ e2.window >= e1.window + Day
    BY <1>3 DEF WindowsADayApart, Existing
  <2>8. \A i, j \in DOMAIN new :
          LET e1 == new[i]  e2 == new[j] IN
          /\ e1.window <= e1.at /\ e1.at < e1.window + Day
          /\ i < j => e1.window = e2.window \/ e2.window >= e1.window + Day
    BY <1>5, <2>3, <2>6
  <2> QED BY <1>4, <2>7, <2>8 DEF WindowsADayApart
<1>16. AuthorizedUnderTerms'
  <2>1. \A n \in Mandates : n # m => events'[n] = events[n]
    BY <1>3
  <2>2. /\ IsParty(c, m) /\ now \in terms[m].limits.validFrom..(terms[m].limits.expiresAt - 1)
        /\ s \in services[m] /\ amount \in 1..terms[m].limits.maxAmount
        /\ c # terms[m].owner => amount <= terms[m].limits.approvalThreshold
    BY <1>6 DEF AuthorizeAction, ValidNow, WithinLimits, IsOwner, Terms, Limits, U64
  <2> DEFINE Ok(f) ==
        /\ f.caller \in {terms[m].owner, terms[m].agent}
        /\ f.at \in terms[m].limits.validFrom..(terms[m].limits.expiresAt - 1)
        /\ f.service \in services[m]
        /\ f.amount \in 1..terms[m].limits.maxAmount
        /\ f.caller # terms[m].owner => f.amount <= terms[m].limits.approvalThreshold
  <2>3. \A i \in 1..k : Ok(old[i])
    BY <1>5 DEF AuthorizedUnderTerms, IsParty
  <2>4. Ok(e)
    BY <1>last, <2>2 DEF IsParty
  <2>5. \A i \in 1..(k + 1) : Ok(new[i])
    BY <1>5, <1>split, <2>3, <2>4
  <2> QED BY <1>1, <1>2, <1>4, <1>5, <2>1, <2>5 DEF AuthorizedUnderTerms, IsParty
<1>17. OneEventPerAction'
  <2>1. \A i \in 1..k : new[i].action \in authorized[m]
    BY <1>5 DEF OneEventPerAction
  <2>2. \A i, j \in 1..(k + 1) : new[i].action = new[j].action => i = j
    <3>1. \A i, j \in 1..k : new[i].action = new[j].action => i = j
      BY <1>5 DEF OneEventPerAction
    <3>2. \A i \in 1..k : new[i].action # new[k + 1].action
      BY <1>2, <1>5, <1>last, <2>1
    <3> QED BY <1>split, <3>1, <3>2
  <2>3. authorized'[m] = {new[i].action : i \in 1..(k + 1)}
    <3>1. authorized[m] = {old[i].action : i \in 1..k}
      BY <1>5 DEF OneEventPerAction
    <3>2. \A i \in 1..k : i \in 1..(k + 1)
      BY <1>5
    <3>3. k + 1 \in 1..(k + 1)
      BY <1>5
    <3>4. \A x : x \in {new[i].action : i \in 1..(k + 1)} <=>
                  x = a \/ \E i \in 1..k : x = old[i].action
      BY <1>5, <1>last, <1>split, <3>2, <3>3
    <3>5. authorized'[m] = {old[i].action : i \in 1..k} \cup {a}
      BY <1>2, <3>1
    <3> HIDE DEF old, new
    <3>6. {new[i].action : i \in 1..(k + 1)} = {old[i].action : i \in 1..k} \cup {a}
      BY <3>4
    <3> QED BY <3>5, <3>6
  <2>4. \A n \in Mandates : n # m =>
          /\ \A i, j \in DOMAIN events'[n] :
               events'[n][i].action = events'[n][j].action => i = j
          /\ authorized'[n] = {events'[n][i].action : i \in DOMAIN events'[n]}
          /\ \A b \in Actions : settlements'[n][b] # None => b \in authorized'[n]
    BY <1>2, <1>3 DEF OneEventPerAction
  <2>5. \A b \in Actions : settlements'[m][b] # None => b \in authorized'[m]
    BY <1>2 DEF OneEventPerAction
  <2>6. /\ \A i, j \in DOMAIN new : new[i].action = new[j].action => i = j
        /\ authorized'[m] = {new[i].action : i \in DOMAIN new}
    <3>1. DOMAIN new = 1..(k + 1)
      BY <1>5
    <3> HIDE DEF new
    <3> QED BY <2>2, <2>3, <3>1
  <2>7. \A n \in Mandates :
          /\ \A i, j \in DOMAIN events'[n] :
               events'[n][i].action = events'[n][j].action => i = j
          /\ authorized'[n] = {events'[n][i].action : i \in DOMAIN events'[n]}
          /\ \A b \in Actions : settlements'[n][b] # None => b \in authorized'[n]
    BY <2>4, <2>5, <2>6
  <2> HIDE DEF IInv
  <2> QED BY <2>7 DEF OneEventPerAction
<1> QED BY <1>12, <1>13, <1>14, <1>15, <1>16, <1>17

LEMMA SettleInv ==
  ASSUME IInv,
         NEW c \in Accounts, NEW m \in Mandates, NEW a \in Actions,
         NEW settlement \in Hashes, NEW result \in Hashes,
         RecordSettlement(c, m, a, settlement, result)
  PROVE  IInv'
<1> USE DEF IInv
<1>1. /\ UNCHANGED <<terms, active, spent, windowStart, services, authorized, events, now>>
      /\ Existing' = Existing
      /\ \A n \in Mandates : Exists(n)' <=> Exists(n)
  BY DEF RecordSettlement, Existing, Exists
<1>2. \A n \in Mandates, b \in Actions :
        settlements'[n][b] = settlements[n][b] \/ (n = m /\ b = a)
  BY DEF RecordSettlement, TypeOK
<1>3. Exists(m) /\ a \in authorized[m]
  BY DEF RecordSettlement, MaySettle
<1>4. Blank'
  BY <1>1, <1>2, <1>3 DEF Blank
<1>5. OneEventPerAction'
  BY <1>1, <1>2, <1>3 DEF OneEventPerAction
<1>6. LedgerAccounts' /\ WindowOrder' /\ WindowsADayApart'
  BY <1>1 DEF LedgerAccounts, WindowOrder, WindowsADayApart
<1>7. AuthorizedUnderTerms'
  BY <1>1 DEF AuthorizedUnderTerms, IsParty
<1>8. TypeOK'
  BY NextType DEF Next
<1> QED BY <1>4, <1>5, <1>6, <1>7, <1>8

\* The remaining steps leave the history alone: they add a service, clear the
\* active flag or let time pass.
LEMMA QuietInv ==
  ASSUME IInv,
         TypeOK',
         UNCHANGED <<terms, spent, windowStart, authorized, settlements, events>>,
         \A m \in Mandates : services[m] \subseteq services'[m],
         \A m \in Mandates : active'[m] => active[m],
         now' >= now
  PROVE  IInv'
<1> USE DEF IInv
<1>1. Existing' = Existing /\ \A n \in Mandates : Exists(n)' <=> Exists(n)
  BY DEF Existing, Exists
<1>2. Blank' /\ OneEventPerAction' /\ LedgerAccounts' /\ WindowsADayApart'
  BY <1>1 DEF Blank, OneEventPerAction, LedgerAccounts, WindowsADayApart
<1>3. WindowOrder'
  BY <1>1, WidthAssumption DEF WindowOrder, TypeOK, U64, Existing
<1>4. AuthorizedUnderTerms'
  BY <1>1 DEF AuthorizedUnderTerms, IsParty
<1> QED BY <1>2, <1>3, <1>4

LEMMA NextInv == IInv /\ [Next]_vars => IInv'
<1> SUFFICES ASSUME IInv, [Next]_vars PROVE IInv' OBVIOUS
<1>1. TypeOK /\ TypeOK'
  BY NextType DEF IInv
<1>2. ASSUME NEW c \in Accounts, NEW m \in Mandates, NEW agent \in Accounts,
             NEW s \in Services, NEW p \in Policies, CreateMandate(c, m, agent, s, p)
      PROVE  IInv'
  BY <1>1, <1>2, CreateInv DEF IInv
<1>3. ASSUME NEW c \in Accounts, NEW m \in Mandates, NEW s \in Services,
             AddAllowedService(c, m, s)
      PROVE  IInv'
  <2>1. \A n \in Mandates : services[n] \subseteq services'[n]
    BY <1>1, <1>3 DEF AddAllowedService, TypeOK
  <2> QED BY <1>1, <1>3, <2>1, QuietInv, WidthAssumption DEF AddAllowedService, TypeOK, U64
<1>4. ASSUME NEW c \in Accounts, NEW m \in Mandates, NEW a \in Actions,
             NEW s \in Services, NEW amount \in U64, AuthorizeAction(c, m, a, s, amount)
      PROVE  IInv'
  BY <1>1, <1>4, AuthorizeInv DEF IInv
<1>5. ASSUME NEW c \in Accounts, NEW m \in Mandates, NEW a \in Actions,
             NEW settlement \in Hashes, NEW result \in Hashes,
             RecordSettlement(c, m, a, settlement, result)
      PROVE  IInv'
  BY <1>5, SettleInv
<1>6. ASSUME NEW c \in Accounts, NEW m \in Mandates, RevokeMandate(c, m)
      PROVE  IInv'
  <2>1. \A n \in Mandates : active'[n] => active[n]
    BY <1>1, <1>6, Zenon DEF RevokeMandate, TypeOK
  <2> QED BY <1>1, <1>6, <2>1, QuietInv, WidthAssumption DEF RevokeMandate, TypeOK, U64
<1>7. CASE Tick
  BY <1>1, <1>7, QuietInv, WidthAssumption DEF Tick, TypeOK, U64
<1>8. CASE UNCHANGED vars
  BY <1>1, <1>8, QuietInv, WidthAssumption DEF vars, TypeOK, U64
<1> QED BY <1>2, <1>3, <1>4, <1>5, <1>6, <1>7, <1>8 DEF Next

LEMMA Invariant == Spec => []IInv
BY InitInv, NextInv, PTL DEF Spec

\* In every run the event log accounts for what the contract believes was
\* spent, and no window of it passes the daily budget.
THEOREM LedgerAlwaysAccounts == Spec => []LedgerAccounts
<1>1. IInv => LedgerAccounts
  BY DEF IInv
<1> QED BY <1>1, Invariant, PTL

\* Windows are a full day apart in every run: a mandate expires before the
\* saturated end of time, so saturating_add cannot open a window early.
THEOREM WindowsAlwaysADayApart == Spec => []WindowsADayApart
<1>1. IInv => WindowsADayApart
  BY DEF IInv
<1> QED BY <1>1, Invariant, PTL

\* Whatever a run authorizes it authorizes under the mandate's own terms.
THEOREM AuthorityRespected == Spec => []AuthorizedUnderTerms
<1>1. IInv => AuthorizedUnderTerms
  BY DEF IInv
<1> QED BY <1>1, Invariant, PTL

\* No action hash is authorized twice and no settlement lacks its event.
THEOREM NoReplay == Spec => []OneEventPerAction
<1>1. IInv => OneEventPerAction
  BY DEF IInv
<1> QED BY <1>1, Invariant, PTL

-----------------------------------------------------------------------------
(* What is spent in a day *)

Amounts(log) == [i \in DOMAIN log |-> log[i].amount]
InWindow(log, w) == {i \in DOMAIN log : log[i].window = w}
Charged(log, w) == SumFunctionOnSet(Amounts(log), InWindow(log, w))

\* What is charged to a window is counted in full: the current one holds what
\* is spent in it, and none holds more than the budget.
WindowsCharged ==
  \A m \in Existing :
    /\ Charged(events[m], windowStart[m]) = spent[m]
    /\ \A w \in U64 : Charged(events[m], w) <= terms[m].limits.dailyBudget

LEMMA EventNumbers ==
  ASSUME NEW e \in Event
  PROVE  /\ e.amount \in Nat /\ e.at \in Nat /\ e.window \in Nat /\ e.window \in U64
BY WidthAssumption DEF Event, U64

LEMMA AmountsNat ==
  ASSUME NEW log \in Seq(Event)
  PROVE  /\ IsFiniteSet(DOMAIN log)
         /\ \A i \in DOMAIN log : Amounts(log)[i] \in Nat /\ log[i] \in Event
         /\ \A w : IsFiniteSet(InWindow(log, w)) /\ Charged(log, w) \in Nat
<1>1. IsFiniteSet(DOMAIN log)
  <2>1. DOMAIN log = 1..Len(log) /\ Len(log) \in Nat
    OBVIOUS
  <2> QED BY <2>1, FS_Interval
<1>2. \A i \in DOMAIN log : Amounts(log)[i] \in Nat /\ log[i] \in Event
  <2> SUFFICES ASSUME NEW i \in DOMAIN log
               PROVE  Amounts(log)[i] \in Nat /\ log[i] \in Event
    OBVIOUS
  <2>1. log[i] \in Event
    OBVIOUS
  <2> QED BY <2>1, EventNumbers DEF Amounts
<1>3. ASSUME NEW w PROVE IsFiniteSet(InWindow(log, w)) /\ Charged(log, w) \in Nat
  <2>1. InWindow(log, w) \in SUBSET DOMAIN log
    BY DEF InWindow
  <2> QED BY <1>1, <1>2, <2>1, FS_Subset, SumMonotone DEF Charged
<1> QED BY <1>1, <1>2, <1>3

LEMMA ChargedAppend ==
  ASSUME NEW log \in Seq(Event), NEW e \in Event, NEW w
  PROVE  Charged(Append(log, e), w) = Charged(log, w) + (IF e.window = w THEN e.amount ELSE 0)
<1> DEFINE n == Len(log) + 1
           new == Append(log, e)
           S == InWindow(log, w)
<1>1. /\ n \notin DOMAIN log /\ n \in DOMAIN new /\ DOMAIN new = DOMAIN log \cup {n}
      /\ new[n] = e /\ \A i \in DOMAIN log : new[i] = log[i]
  OBVIOUS
<1>2. new \in Seq(Event)
  OBVIOUS
<1> HIDE DEF n, new
<1>3. /\ IsFiniteSet(S) /\ S \subseteq DOMAIN log /\ Charged(log, w) \in Nat
      /\ Charged(log, w) = SumFunctionOnSet(Amounts(log), S)
  BY AmountsNat DEF InWindow, Charged
<1>4. /\ \A i \in S : Amounts(new)[i] = Amounts(log)[i]
      /\ Amounts(new)[n] = e.amount /\ e.amount \in Nat
      /\ \A i \in DOMAIN new : Amounts(new)[i] \in Int
  <2>1. \A i \in DOMAIN new : Amounts(new)[i] \in Nat
    BY <1>2, AmountsNat
  <2>2. \A i \in DOMAIN new : Amounts(new)[i] = new[i].amount
    BY DEF Amounts
  <2>3. \A i \in DOMAIN log : Amounts(log)[i] = log[i].amount
    BY DEF Amounts
  <2> QED BY <1>1, <1>3, <2>1, <2>2, <2>3, EventNumbers
<1>5. SumFunctionOnSet(Amounts(new), S) = Charged(log, w)
  BY <1>3, <1>4, SumCongruent
<1>6. CASE e.window = w
  <2>1. InWindow(new, w) = S \cup {n} /\ n \notin S
    BY <1>1, <1>6 DEF InWindow
  <2>2. \A i \in S \cup {n} : Amounts(new)[i] \in Int
    BY <1>1, <1>3, <1>4
  <2>3. SumFunctionOnSet(Amounts(new), S \cup {n})
          = Amounts(new)[n] + SumFunctionOnSet(Amounts(new), S)
    BY <1>3, <2>1, <2>2, SumAdd
  <2> QED BY <1>3, <1>4, <1>5, <1>6, <2>1, <2>3 DEF Charged, new
<1>7. CASE e.window # w
  <2>1. InWindow(new, w) = S
    BY <1>1, <1>7 DEF InWindow
  <2> QED BY <1>3, <1>5, <1>7, <2>1 DEF Charged, new
<1> QED BY <1>6, <1>7

LEMMA NoThird ==
  ASSUME NEW a \in Nat, NEW b \in Nat, NEW c \in Nat, NEW from \in Nat, NEW d \in Nat,
         a < from + d, b < from + d, c < from + d,
         from < a + d, from < b + d, from < c + d,
         a >= b + d \/ b >= a + d,
         a = c \/ a >= c + d \/ c >= a + d,
         b = c \/ b >= c + d \/ c >= b + d
  PROVE  c = a \/ c = b
OBVIOUS

\* A day-long stretch of time touches two windows at most.
LEMMA TwoWindows ==
  ASSUME NEW log \in Seq(Event), NEW from \in U64, NEW budget \in Nat,
         \A w \in U64 : Charged(log, w) <= budget,
         \A i, j \in DOMAIN log :
           /\ log[i].window <= log[i].at /\ log[i].at < log[i].window + Day
           /\ i < j => log[i].window = log[j].window \/ log[j].window >= log[i].window + Day
  PROVE  SumFunctionOnSet(Amounts(log), {i \in DOMAIN log : log[i].at \in from..(from + Day - 1)})
           <= 2 * budget
<1> DEFINE S == {i \in DOMAIN log : log[i].at \in from..(from + Day - 1)}
           W(i) == InWindow(log, log[i].window)
           Sum(T) == SumFunctionOnSet(Amounts(log), T)
<1>1. \A i \in DOMAIN log : log[i].window \in Nat /\ log[i].at \in Nat /\ log[i].window \in U64
  BY AmountsNat, EventNumbers
<1>2. DOMAIN log \subseteq Nat /\ from \in Nat /\ Day \in Nat
  BY WidthAssumption DEF U64
<1>3. \A i, j \in DOMAIN log : log[i].window = log[j].window
         \/ log[j].window >= log[i].window + Day \/ log[i].window >= log[j].window + Day
  BY <1>2
<1>4. ASSUME NEW i \in S, NEW j \in S, NEW h \in S, log[j].window # log[i].window
      PROVE  log[h].window = log[i].window \/ log[h].window = log[j].window
  <2> DEFINE a == log[i].window  b == log[j].window  c == log[h].window
  <2>0. /\ i \in DOMAIN log /\ j \in DOMAIN log /\ h \in DOMAIN log
        /\ \A x \in {i, j, h} : log[x].at \in from..(from + Day - 1)
    OBVIOUS
  <2>1. /\ a \in Nat /\ b \in Nat /\ c \in Nat
        /\ a < from + Day /\ b < from + Day /\ c < from + Day
        /\ from < a + Day /\ from < b + Day /\ from < c + Day
    <3>1. ASSUME NEW x \in {i, j, h}
          PROVE  /\ log[x].window \in Nat /\ log[x].window < from + Day
                 /\ from < log[x].window + Day
      <4>1. /\ x \in DOMAIN log /\ log[x].window \in Nat /\ log[x].at \in Nat
            /\ log[x].at \in from..(from + Day - 1)
        BY <1>1, <2>0
      <4>2. log[x].window <= log[x].at /\ log[x].at < log[x].window + Day
        BY <4>1
      <4> QED BY <1>2, <4>1, <4>2
    <3> QED BY <3>1
  <2>2. /\ a >= b + Day \/ b >= a + Day
        /\ a = c \/ a >= c + Day \/ c >= a + Day
        /\ b = c \/ b >= c + Day \/ c >= b + Day
    BY <1>3, <1>4, <2>0
  <2> HIDE DEF a, b, c
  <2>3. c = a \/ c = b
    BY <1>2, <2>1, <2>2, NoThird
  <2> QED BY <2>3 DEF a, b, c
<1>5. \A i \in S : /\ W(i) \subseteq DOMAIN log /\ IsFiniteSet(W(i))
                   /\ Sum(W(i)) <= budget /\ Sum(W(i)) \in Nat
  BY <1>1, AmountsNat DEF InWindow, Charged
<1>6. \A i \in DOMAIN log : Amounts(log)[i] \in Nat
  BY AmountsNat
<1> HIDE DEF Sum
<1>7. CASE S = {}
  <2>1. Sum(S) = 0
    BY <1>7, SumEmpty DEF Sum
  <2> QED BY <2>1 DEF Sum
<1>8. ASSUME NEW i \in S, NEW j \in S
      PROVE  S \subseteq W(i) \cup W(j) => Sum(S) <= 2 * budget
  <2> SUFFICES ASSUME S \subseteq W(i) \cup W(j) PROVE Sum(S) <= 2 * budget
    OBVIOUS
  <2> DEFINE U == W(i) \cup W(j)
  <2>1. IsFiniteSet(U) /\ S \in SUBSET U /\ \A x \in U : Amounts(log)[x] \in Nat
    BY <1>5, <1>6, FS_Union
  <2>2. Sum(S) <= Sum(U) /\ Sum(S) \in Nat /\ Sum(U) \in Nat
    <3> HIDE DEF S, U
    <3> QED BY <2>1, SumMonotone DEF Sum
  <2>3. Sum(U) <= Sum(W(i)) + Sum(W(j))
    BY <1>5, <2>1, SumUnion DEF Sum
  <2>4. Sum(W(i)) <= budget /\ Sum(W(i)) \in Nat /\ Sum(W(j)) <= budget /\ Sum(W(j)) \in Nat
    BY <1>5
  <2> HIDE DEF S, U, W
  <2> QED BY <2>2, <2>3, <2>4
<1>9. ASSUME NEW i \in S, \A h \in S : log[h].window = log[i].window
      PROVE  Sum(S) <= 2 * budget
  <2>1. S \subseteq W(i) \cup W(i)
    BY <1>9 DEF InWindow
  <2> QED BY <1>8, <2>1
<1>10. ASSUME NEW i \in S, NEW j \in S, log[j].window # log[i].window
       PROVE  Sum(S) <= 2 * budget
  <2>1. S \subseteq W(i) \cup W(j)
    BY <1>4, <1>10 DEF InWindow
  <2> QED BY <1>8, <2>1
<1> QED BY <1>7, <1>9, <1>10 DEF Sum

LEMMA ChargeStep ==
  ASSUME IInv, WindowsCharged, [Next]_vars
  PROVE  WindowsCharged'
<1> USE DEF IInv, TypeOK
<1>1. ASSUME NEW c \in Accounts, NEW m \in Mandates, NEW agent \in Accounts,
             NEW s \in Services, NEW p \in Policies, CreateMandate(c, m, agent, s, p)
      PROVE  WindowsCharged'
  <2>1. /\ terms' = [terms EXCEPT ![m] = [owner |-> c, agent |-> agent, limits |-> p]]
        /\ [owner |-> c, agent |-> agent, limits |-> p] \in Terms
        /\ events' = events /\ spent'[m] = 0 /\ ~Exists(m)
        /\ \A n \in Mandates : n # m =>
             terms'[n] = terms[n] /\ spent'[n] = spent[n] /\ windowStart'[n] = windowStart[n]
    BY <1>1, PolicyAssumption DEF CreateMandate, MayCreate, Terms
  <2>2. events[m] = <<>>
    BY <2>1 DEF Blank
  <2>3. \A w : Charged(<<>>, w) = 0
    <3>1. \A w : InWindow(<<>>, w) = {}
      BY DEF InWindow
    <3> QED BY <3>1, SumEmpty DEF Charged
  <2>4. p.dailyBudget >= 0 /\ terms'[m].limits.dailyBudget = p.dailyBudget
    <3>1. p.dailyBudget >= 0
      BY <1>1, ValidPolicy, WidthAssumption DEF CreateMandate, MayCreate
    <3> QED BY <2>1, <3>1
  <2>5. ASSUME NEW n \in Existing'
        PROVE  /\ Charged(events'[n], windowStart'[n]) = spent'[n]
               /\ \A w \in U64 : Charged(events'[n], w) <= terms'[n].limits.dailyBudget
    <3>1. CASE n = m
      BY <2>1, <2>2, <2>3, <2>4, <3>1
    <3>2. CASE n # m
      <4>1. n \in Existing
        BY <2>1, <2>5, <3>2 DEF Existing, Exists
      <4> QED BY <2>1, <3>2, <4>1 DEF WindowsCharged, Existing
    <3> QED BY <3>1, <3>2
  <2> QED BY <2>5 DEF WindowsCharged
<1>2. ASSUME NEW c \in Accounts, NEW m \in Mandates, NEW a \in Actions,
             NEW s \in Services, NEW amount \in U64, AuthorizeAction(c, m, a, s, amount)
      PROVE  WindowsCharged'
  <2> DEFINE e == [action |-> a, service |-> s, amount |-> amount, caller |-> c,
                   at |-> now, window |-> CurrentWindow(m),
                   spentInWindow |-> UpdatedSpent(m, amount)]
  <2>sum. UpdatedSpent(m, amount) = SpentBefore(m) + amount
    BY <1>2, CheckedSum DEF AuthorizeAction, IInv
  <2>1. /\ Exists(m) /\ m \in Existing /\ terms' = terms /\ Existing' = Existing
        /\ events'[m] = Append(events[m], e) /\ events[m] \in Seq(Event)
        /\ windowStart'[m] = CurrentWindow(m) /\ spent'[m] = SpentBefore(m) + amount
        /\ SpentBefore(m) + amount <= terms[m].limits.dailyBudget
        /\ \A n \in Mandates : n # m =>
             events'[n] = events[n] /\ spent'[n] = spent[n] /\ windowStart'[n] = windowStart[n]
    BY <1>2, <2>sum DEF AuthorizeAction, Existing, Exists
  <2>2. /\ CurrentWindow(m) \in U64 /\ SpentBefore(m) \in U64 /\ amount \in Nat
        /\ SpentBefore(m) + amount \in U64
    BY <1>2, WidthAssumption DEF AuthorizeAction, AddFits, CurrentWindow, SpentBefore, U64
  <2>3. e \in Event /\ e.window = CurrentWindow(m) /\ e.amount = amount
    BY <2>2, <2>sum DEF Event
  <2>4. \A w : Charged(events'[m], w) =
                 Charged(events[m], w) + (IF CurrentWindow(m) = w THEN amount ELSE 0)
    <3> HIDE DEF e
    <3> QED BY <2>1, <2>3, ChargedAppend
  <2>5. \A w : Charged(events[m], w) \in Nat
    BY <2>1, AmountsNat
  <2>6. Charged(events[m], CurrentWindow(m)) = SpentBefore(m)
    <3>1. /\ CurrentWindow(m) = IF now >= windowStart[m] + Day THEN now ELSE windowStart[m]
          /\ SpentBefore(m) = IF now >= windowStart[m] + Day THEN 0 ELSE spent[m]
      BY <1>2, <2>1, FullDay DEF AuthorizeAction, CurrentWindow, SpentBefore
    <3>2. CASE now >= windowStart[m] + Day
      <4>1. \A i \in DOMAIN events[m] : events[m][i].window # now
        <5>1. /\ now \in Nat /\ windowStart[m] \in Nat /\ Day \in Nat \ {0}
              /\ \A i \in DOMAIN events[m] : events[m][i].window \in Nat
          <6>1. \A i \in DOMAIN events[m] : events[m][i] \in Event
            BY <2>1, AmountsNat
          <6>2. now \in Nat /\ windowStart[m] \in Nat /\ Day \in Nat \ {0}
            BY WidthAssumption, <2>1 DEF U64
          <6> QED BY <6>1, <6>2, EventNumbers
        <5>2. \A i \in DOMAIN events[m] :
                events[m][i].window = windowStart[m] \/ events[m][i].window + Day <= windowStart[m]
          BY <2>1 DEF WindowOrder
        <5>3. ASSUME NEW i \in DOMAIN events[m], events[m][i].window = now PROVE FALSE
          <6>1. now = windowStart[m] \/ now + Day <= windowStart[m]
            BY <5>2, <5>3
          <6> QED BY <3>2, <5>1, <6>1
        <5> QED BY <5>3
      <4>2. InWindow(events[m], now) = {}
        BY <4>1 DEF InWindow
      <4> QED BY <3>1, <3>2, <4>2, SumEmpty DEF Charged
    <3>3. CASE ~(now >= windowStart[m] + Day)
      BY <2>1, <3>1, <3>3 DEF WindowsCharged
    <3> QED BY <3>2, <3>3
  <2>7. Charged(events'[m], windowStart'[m]) = spent'[m]
    BY <2>1, <2>4, <2>6
  <2>8. ASSUME NEW w \in U64
        PROVE  Charged(events'[m], w) <= terms[m].limits.dailyBudget
    <3>1. CASE w = CurrentWindow(m)
      BY <2>1, <2>7, <3>1
    <3>2. CASE w # CurrentWindow(m)
      <4>1. Charged(events[m], w) <= terms[m].limits.dailyBudget
        BY <2>1 DEF WindowsCharged
      <4>2. Charged(events'[m], w) = Charged(events[m], w)
        BY <2>4, <2>5, <3>2
      <4> QED BY <4>1, <4>2
    <3> QED BY <3>1, <3>2
  <2> QED BY <2>1, <2>7, <2>8 DEF WindowsCharged, Existing
<1>3. CASE UNCHANGED <<terms, events, spent, windowStart>>
  BY <1>3 DEF WindowsCharged, Existing, Exists
<1> QED BY <1>1, <1>2, <1>3
    DEF Next, vars, AddAllowedService, RecordSettlement, RevokeMandate, Tick

\* A day-long stretch of block time never authorizes more than twice the daily
\* budget, wherever it starts and however the windows fall.
THEOREM RollingDayBounded == Spec => []RollingDayBound
<1>1. Init => WindowsCharged
  BY DEF Init, WindowsCharged, Existing, Exists
<1>2. IInv /\ WindowsCharged /\ [Next]_vars => WindowsCharged'
  BY ChargeStep
<1>3. IInv /\ WindowsCharged => RollingDayBound
  <2> SUFFICES ASSUME IInv, WindowsCharged, NEW m \in Existing, NEW from \in U64
               PROVE  SpentDuring(m, from) <= 2 * terms[m].limits.dailyBudget
    BY DEF RollingDayBound
  <2>1. events[m] \in Seq(Event) /\ terms[m].limits.dailyBudget \in Nat
    BY WidthAssumption DEF IInv, TypeOK, Existing, Exists, Terms, Limits, U64
  <2>2. \A w \in U64 : Charged(events[m], w) <= terms[m].limits.dailyBudget
    BY DEF WindowsCharged
  <2>3. \A i, j \in DOMAIN events[m] :
          /\ events[m][i].window <= events[m][i].at
          /\ events[m][i].at < events[m][i].window + Day
          /\ i < j => \/ events[m][i].window = events[m][j].window
                      \/ events[m][j].window >= events[m][i].window + Day
    BY DEF IInv, WindowsADayApart
  <2> QED BY <2>1, <2>2, <2>3, TwoWindows DEF SpentDuring, Amounts
<1> QED BY <1>1, <1>2, <1>3, Invariant, PTL DEF Spec

-----------------------------------------------------------------------------
(* What no step may do *)

LEMMA RevocationStep ==
  ASSUME IInv, [Next]_vars, NEW m \in Existing, ~active[m]
  PROVE  ~active'[m] /\ events'[m] = events[m]
<1> USE DEF IInv, TypeOK
<1>0. m \in Mandates /\ Exists(m)
  BY DEF Existing
<1>1. ASSUME NEW c \in Accounts, NEW n \in Mandates, NEW agent \in Accounts,
             NEW s \in Services, NEW p \in Policies, CreateMandate(c, n, agent, s, p)
      PROVE  ~active'[m] /\ events'[m] = events[m]
  BY <1>0, <1>1 DEF CreateMandate, MayCreate
<1>2. ASSUME NEW c \in Accounts, NEW n \in Mandates, NEW a \in Actions,
             NEW s \in Services, NEW amount \in U64, AuthorizeAction(c, n, a, s, amount)
      PROVE  ~active'[m] /\ events'[m] = events[m]
  BY <1>0, <1>2 DEF AuthorizeAction
<1>3. ASSUME NEW c \in Accounts, NEW n \in Mandates, RevokeMandate(c, n)
      PROVE  ~active'[m] /\ events'[m] = events[m]
  <2>1. \A x \in Mandates : active'[x] => active[x]
    BY <1>3, Zenon DEF RevokeMandate
  <2> QED BY <1>0, <1>3, <2>1 DEF RevokeMandate
<1> QED
  BY <1>0, <1>1, <1>2, <1>3
  DEF Next, vars, AddAllowedService, RecordSettlement, Tick

\* Once revoked, a mandate stays revoked and authorizes nothing more, for any
\* number of callers.
THEOREM RevocationIsFinal == Spec => RevocationFinal
<1>1. IInv /\ [Next]_vars =>
        [\A m \in Existing : ~active[m] => ~active'[m] /\ events'[m] = events[m]]_vars
  BY RevocationStep
<1> QED BY <1>1, Invariant, PTL DEF Spec, RevocationFinal

LEMMA EvidenceStep ==
  ASSUME IInv, [Next]_vars, NEW m \in Existing
  PROVE  /\ terms'[m] = terms[m]
         /\ SubSeq(events'[m], 1, Len(events[m])) = events[m]
         /\ \A a \in Actions :
              settlements[m][a] # None => settlements'[m][a] = settlements[m][a]
<1> USE DEF IInv, TypeOK
<1>0. m \in Mandates /\ Exists(m) /\ events[m] \in Seq(Event)
  BY DEF Existing
<1>same. SubSeq(events[m], 1, Len(events[m])) = events[m]
  BY <1>0
<1>1. ASSUME NEW c \in Accounts, NEW n \in Mandates, NEW agent \in Accounts,
             NEW s \in Services, NEW p \in Policies, CreateMandate(c, n, agent, s, p)
      PROVE  terms'[m] = terms[m] /\ events' = events /\ settlements' = settlements
  BY <1>0, <1>1 DEF CreateMandate, MayCreate
<1>2. ASSUME NEW c \in Accounts, NEW n \in Mandates, NEW a \in Actions,
             NEW s \in Services, NEW amount \in U64, AuthorizeAction(c, n, a, s, amount)
      PROVE  /\ terms' = terms /\ settlements' = settlements
             /\ SubSeq(events'[m], 1, Len(events[m])) = events[m]
  <2>1. CASE n # m
    BY <1>0, <1>2, <1>same, <2>1 DEF AuthorizeAction
  <2>2. CASE n = m
    <3>1. PICK e : events'[m] = Append(events[m], e)
      BY <1>0, <1>2, <2>2 DEF AuthorizeAction
    <3>2. SubSeq(Append(events[m], e), 1, Len(events[m])) = events[m]
      BY <1>0
    <3> QED BY <1>2, <3>1, <3>2 DEF AuthorizeAction
  <2> QED BY <2>1, <2>2
<1>3. ASSUME NEW c \in Accounts, NEW n \in Mandates, NEW a \in Actions,
             NEW settlement \in Hashes, NEW result \in Hashes,
             RecordSettlement(c, n, a, settlement, result)
      PROVE  /\ terms' = terms /\ events' = events
             /\ \A b \in Actions :
                  settlements[m][b] # None => settlements'[m][b] = settlements[m][b]
  BY <1>0, <1>3 DEF RecordSettlement, MaySettle
<1> QED
  BY <1>0, <1>same, <1>1, <1>2, <1>3
  DEF Next, vars, AddAllowedService, RevokeMandate, Tick

\* Nothing rewrites the terms, the event log or a recorded settlement.
THEOREM EvidenceIsImmutable == Spec => EvidenceImmutable
<1>1. IInv /\ [Next]_vars =>
        [\A m \in Existing :
           /\ terms'[m] = terms[m]
           /\ SubSeq(events'[m], 1, Len(events[m])) = events[m]
           /\ \A a \in Actions :
                settlements[m][a] # None => settlements'[m][a] = settlements[m][a]]_vars
  BY EvidenceStep
<1> QED BY <1>1, Invariant, PTL DEF Spec, EvidenceImmutable

-----------------------------------------------------------------------------
(* The contract implements the abstract authority *)

LEMMA RefineInit == Init => Authority!Init
<1> SUFFICES ASSUME Init PROVE Authority!Init OBVIOUS
<1>1. \A m \in Mandates : ~Exists(m)
  BY DEF Init, Exists
<1>2. Phase = [m \in Mandates |-> "absent"] /\ Budget = [m \in Mandates |-> 0]
  BY <1>1 DEF Phase, Budget
<1>3. Remaining = [m \in Mandates |-> 0]
  BY <1>2 DEF Init, Remaining
<1>4. Settled = [m \in Mandates |-> {}]
  BY DEF Init, Settled
<1> QED BY <1>2, <1>3, <1>4 DEF Init, Authority!Init

LEMMA RefineCreate ==
  ASSUME IInv,
         NEW c \in Accounts, NEW m \in Mandates, NEW agent \in Accounts,
         NEW s \in Services, NEW p \in Policies,
         CreateMandate(c, m, agent, s, p)
  PROVE  Authority!Open(m)
<1> DEFINE t == [owner |-> c, agent |-> agent, limits |-> p]
<1> USE DEF IInv, TypeOK
<1>1. t # None /\ p.dailyBudget \in 1..MaxU64
  BY PolicyAssumption, NoneAssumption, ValidPolicy DEF Terms, CreateMandate, MayCreate
<1>2. /\ ~Exists(m) /\ Exists(m)' /\ terms'[m] = t /\ active'[m] /\ spent'[m] = 0
      /\ UNCHANGED <<authorized, settlements, now>>
      /\ windowStart' = [windowStart EXCEPT ![m] = now]
  BY <1>1 DEF CreateMandate, MayCreate, Exists
<1>3. \A n \in Mandates : n # m =>
        terms'[n] = terms[n] /\ active'[n] = active[n] /\ spent'[n] = spent[n]
  BY DEF CreateMandate
<1>4. Phase[m] = "absent"
  BY <1>2 DEF Phase
<1>5. Phase' = [Phase EXCEPT ![m] = "live"]
  BY <1>2, <1>3 DEF Phase, Exists
<1>6. Budget' = [Budget EXCEPT ![m] = p.dailyBudget]
  <2>1. t.limits.dailyBudget = p.dailyBudget
    OBVIOUS
  <2>2. \A n \in Mandates : Budget'[n] = IF n = m THEN p.dailyBudget ELSE Budget[n]
    BY <1>2, <1>3, <2>1 DEF Budget, Exists
  <2> QED BY <2>2 DEF Budget
<1>7. Remaining' = [Remaining EXCEPT ![m] = p.dailyBudget]
  <2>1. \A n \in Mandates : Remaining'[n] = IF n = m THEN p.dailyBudget ELSE Remaining[n]
    BY <1>1, <1>2, <1>3, <1>6, WidthAssumption DEF Remaining, Budget, Exists, U64
  <2> QED BY <2>1 DEF Remaining
<1>8. Settled' = Settled
  BY <1>2 DEF Settled
<1> QED BY <1>1, <1>2, <1>4, <1>5, <1>6, <1>7, <1>8 DEF Authority!Open

LEMMA RefineAuthorize ==
  ASSUME IInv,
         NEW c \in Accounts, NEW m \in Mandates, NEW a \in Actions,
         NEW s \in Services, NEW amount \in U64,
         AuthorizeAction(c, m, a, s, amount)
  PROVE  Authority!Grant(m, a)
<1> USE DEF IInv, TypeOK
<1>1. /\ Exists(m) /\ m \in Existing /\ active[m] /\ a \notin authorized[m]
      /\ UNCHANGED <<terms, active, settlements, now>>
      /\ authorized' = [authorized EXCEPT ![m] = @ \cup {a}]
  BY DEF AuthorizeAction, Existing, Fresh
<1>2. /\ now \in Nat /\ windowStart[m] \in Nat /\ spent[m] \in Nat /\ amount \in Nat
      /\ terms[m].limits.dailyBudget \in Nat
  BY <1>1, WidthAssumption DEF U64, Exists, Terms, Limits
<1>3. /\ CurrentWindow(m) = IF now >= windowStart[m] + Day THEN now ELSE windowStart[m]
      /\ SpentBefore(m) = IF now >= windowStart[m] + Day THEN 0 ELSE spent[m]
  BY <1>1, FullDay DEF AuthorizeAction, CurrentWindow, SpentBefore
<1>sum. UpdatedSpent(m, amount) = SpentBefore(m) + amount
  BY CheckedSum DEF AuthorizeAction
<1>4. 0 < amount /\ SpentBefore(m) + amount <= terms[m].limits.dailyBudget
  BY <1>sum DEF AuthorizeAction, WithinLimits
<1>5. Phase[m] = "live" /\ Phase' = Phase
  BY <1>1 DEF Phase, Exists
<1>6. Budget' = Budget /\ Budget[m] = terms[m].limits.dailyBudget
  BY <1>1 DEF Budget, Exists
<1>7. Settled' = Settled
  BY <1>1 DEF Settled
<1>8. Remaining' = [Remaining EXCEPT ![m] = Budget[m] - (SpentBefore(m) + amount)]
  <2>1. \A n \in Mandates :
          Remaining'[n] = IF n = m THEN Budget[m] - (SpentBefore(m) + amount) ELSE Remaining[n]
    BY <1>6, <1>sum DEF AuthorizeAction, Remaining
  <2> QED BY <2>1 DEF Remaining
<1>9. CASE now >= windowStart[m] + Day
  <2>1. SpentBefore(m) + amount = amount
    BY <1>2, <1>3, <1>9
  <2>2. amount \in 1..Budget[m]
    BY <1>2, <1>4, <1>6, <2>1
  <2>3. Remaining' = [Remaining EXCEPT ![m] = Budget[m] - amount]
    BY <1>8, <2>1
  <2>4. windowStart' = [windowStart EXCEPT ![m] = now]
    BY <1>3, <1>9 DEF AuthorizeAction
  <2> QED BY <1>1, <1>5, <1>6, <1>7, <1>9, <2>2, <2>3, <2>4 DEF Authority!Grant
<1>10. CASE ~(now >= windowStart[m] + Day)
  <2>1. Remaining[m] = Budget[m] - spent[m]
    BY DEF Remaining
  <2>2. SpentBefore(m) = spent[m]
    BY <1>3, <1>10
  <2>3. amount \in 1..Remaining[m]
    BY <1>2, <1>4, <1>6, <2>1, <2>2
  <2>4. Remaining' = [Remaining EXCEPT ![m] = Remaining[m] - amount]
    <3>1. Budget[m] - (spent[m] + amount) = (Budget[m] - spent[m]) - amount
      BY <1>2, <1>6
    <3> QED BY <1>8, <2>1, <2>2, <3>1
  <2>5. UNCHANGED windowStart
    BY <1>3, <1>10 DEF AuthorizeAction
  <2> QED BY <1>1, <1>5, <1>6, <1>7, <2>3, <2>4, <2>5 DEF Authority!Grant
<1> QED BY <1>9, <1>10

LEMMA RefineSettle ==
  ASSUME IInv,
         NEW c \in Accounts, NEW m \in Mandates, NEW a \in Actions,
         NEW settlement \in Hashes, NEW result \in Hashes,
         RecordSettlement(c, m, a, settlement, result)
  PROVE  Authority!Settle(m, a)
<1> USE DEF IInv, TypeOK
<1>1. /\ a \in authorized[m] /\ settlements[m][a] = None /\ settlement # None
      /\ settlements' = [settlements EXCEPT ![m][a] = settlement]
      /\ UNCHANGED <<terms, active, spent, windowStart, authorized, now>>
  BY NoneAssumption DEF RecordSettlement, MaySettle
<1>2. Settled' = [Settled EXCEPT ![m] = @ \cup {a}]
  <2>1. \A n \in Mandates, b \in Actions :
          settlements'[n][b] = IF n = m /\ b = a THEN settlement ELSE settlements[n][b]
    BY <1>1
  <2>2. \A n \in Mandates : Settled'[n] = IF n = m THEN Settled[m] \cup {a} ELSE Settled[n]
    BY <1>1, <2>1 DEF Settled
  <2> QED BY <2>2 DEF Settled
<1>3. a \in authorized[m] \ Settled[m]
  BY <1>1 DEF Settled
<1>4. UNCHANGED <<Phase, Budget, Remaining>>
  BY <1>1 DEF Phase, Budget, Remaining, Exists
<1> QED BY <1>1, <1>2, <1>3, <1>4 DEF Authority!Settle

LEMMA RefineRevoke ==
  ASSUME IInv, NEW c \in Accounts, NEW m \in Mandates, RevokeMandate(c, m)
  PROVE  Authority!Revoke(m) \/ UNCHANGED Authority!vars
<1> USE DEF IInv, TypeOK
<1>1. /\ Exists(m) /\ \A n \in Mandates : Exists(n)' <=> Exists(n)
      /\ UNCHANGED <<terms, spent, windowStart, authorized, settlements, now>>
  BY DEF RevokeMandate, Exists
<1>2. ~active'[m] /\ \A n \in Mandates : n # m => active'[n] = active[n]
  BY Zenon DEF RevokeMandate
<1>3. UNCHANGED <<Budget, Remaining, Settled>>
  BY <1>1 DEF Budget, Remaining, Settled, Exists
<1>4. Phase' = [Phase EXCEPT ![m] = "revoked"]
  <2>1. \A n \in Mandates : Phase'[n] = IF n = m THEN "revoked" ELSE Phase[n]
    BY <1>1, <1>2 DEF Phase
  <2> QED BY <2>1 DEF Phase
<1>5. CASE active[m]
  <2>1. Phase[m] = "live"
    BY <1>1, <1>5 DEF Phase
  <2> QED BY <1>1, <1>3, <1>4, <2>1 DEF Authority!Revoke
<1>6. CASE ~active[m]
  <2>1. Phase[m] = "revoked"
    BY <1>1, <1>6 DEF Phase
  <2>2. Phase' = Phase
    BY <1>4, <2>1 DEF Phase
  <2> QED BY <1>1, <1>3, <2>2 DEF Authority!vars
<1> QED BY <1>5, <1>6

LEMMA RefineNext == IInv /\ [Next]_vars => [Authority!Next]_(Authority!vars)
<1> SUFFICES ASSUME IInv, [Next]_vars PROVE [Authority!Next]_(Authority!vars) OBVIOUS
<1>same. UNCHANGED <<terms, active, spent, settlements>> =>
           UNCHANGED <<Phase, Budget, Remaining, Settled>>
  BY DEF Phase, Budget, Remaining, Settled, Exists
<1>1. ASSUME NEW c \in Accounts, NEW m \in Mandates, NEW agent \in Accounts,
             NEW s \in Services, NEW p \in Policies, CreateMandate(c, m, agent, s, p)
      PROVE  Authority!Next
  BY <1>1, RefineCreate DEF Authority!Next
<1>2. ASSUME NEW c \in Accounts, NEW m \in Mandates, NEW s \in Services,
             AddAllowedService(c, m, s)
      PROVE  UNCHANGED Authority!vars
  BY <1>2, <1>same DEF AddAllowedService, Authority!vars
<1>3. ASSUME NEW c \in Accounts, NEW m \in Mandates, NEW a \in Actions,
             NEW s \in Services, NEW amount \in U64, AuthorizeAction(c, m, a, s, amount)
      PROVE  Authority!Next
  BY <1>3, RefineAuthorize DEF Authority!Next
<1>4. ASSUME NEW c \in Accounts, NEW m \in Mandates, NEW a \in Actions,
             NEW settlement \in Hashes, NEW result \in Hashes,
             RecordSettlement(c, m, a, settlement, result)
      PROVE  Authority!Next
  BY <1>4, RefineSettle DEF Authority!Next
<1>5. ASSUME NEW c \in Accounts, NEW m \in Mandates, RevokeMandate(c, m)
      PROVE  Authority!Next \/ UNCHANGED Authority!vars
  BY <1>5, RefineRevoke DEF Authority!Next
<1>6. CASE Tick
  BY <1>6, <1>same DEF Tick, Authority!Next, Authority!Advance
<1>7. CASE UNCHANGED vars
  BY <1>7, <1>same DEF vars, Authority!vars
<1> QED BY <1>1, <1>2, <1>3, <1>4, <1>5, <1>6, <1>7 DEF Next

\* Every behaviour of the contract is, through the mapping, a behaviour of the
\* abstract daily allowance.
THEOREM ContractImplementsAuthority == Spec => ImplementsAuthority
BY RefineInit, RefineNext, Invariant, PTL
DEF Spec, ImplementsAuthority, Authority!Spec
=============================================================================
