-------------------------- MODULE PolicyEngineProofs --------------------------
(***************************************************************************)
(* The demo policy engine for every set of agents, services, keys and      *)
(* amounts, numbers or not.  The invariant is the two properties with the  *)
(* types they need.  A receipt is put in front of the others: what counts  *)
(* of an agent's receipts is what counted, under shifted indices, with the *)
(* new amount, or nothing if that is no number.  The engine                *)
(* takes the steps of the contract prototype because its sums stay between *)
(* zero and a budget that a u64 holds, so that the prototype's wrapping    *)
(* addition does not wrap.                                                 *)
(***************************************************************************)
EXTENDS PolicyEngine, SumLemmas, SequenceTheorems

Receipt == [agent: DOMAIN Policies, service: Services, amount: Int \cup {NaN}, key: Keys]

TypeOK ==
  /\ agents \in [DOMAIN Policies -> {"active", "revoked"}]
  /\ spent \in [DOMAIN Policies -> Int \cup {NaN}]
  /\ keys \subseteq Keys
  /\ receipts \in Seq(Receipt)

IInv == TypeOK /\ OneReceiptPerKey /\ SpentAccounts

\* What a call that is allowed does to the receipts.
LEMMA Shifted ==
  ASSUME NEW rs \in Seq(Receipt), NEW r \in Receipt
  PROVE  LET new == <<r>> \o rs IN
         /\ new \in Seq(Receipt) /\ Len(rs) \in Nat
         /\ DOMAIN rs = 1..Len(rs) /\ DOMAIN new = 1..(Len(rs) + 1)
         /\ Len(new) = Len(rs) + 1
         /\ new[1] = r /\ \A i \in 1..Len(rs) : new[i + 1] = rs[i]
<1>1. <<r>> \in Seq(Receipt) /\ Len(<<r>>) = 1 /\ <<r>>[1] = r
  OBVIOUS
<1>2. Len(rs) \in Nat /\ DOMAIN rs = 1..Len(rs)
  BY LenProperties
<1> DEFINE new == <<r>> \o rs
<1>3. /\ new \in Seq(Receipt) /\ Len(new) = Len(rs) + 1
      /\ \A i \in 1..(1 + Len(rs)) : new[i] = IF i <= 1 THEN r ELSE rs[i - 1]
  BY <1>1, <1>2, ConcatProperties
<1>4. DOMAIN new = 1..(Len(rs) + 1)
  BY <1>3, LenProperties
<1> HIDE DEF new
<1>5. \A i \in 1..Len(rs) : new[i + 1] = rs[i]
  BY <1>2, <1>3
<1>6. new[1] = r
  BY <1>2, <1>3
<1> QED BY <1>2, <1>3, <1>4, <1>5, <1>6 DEF new

LEMMA NothingPaid ==
  ASSUME NEW g, Counted(g) = {}
  PROVE  Paid(g) = 0
<1>1. DOMAIN [i \in Counted(g) |-> receipts[i].amount] = {}
  OBVIOUS
<1> QED BY <1>1, SumOfNothing DEF Paid

LEMMA Initially == Init => IInv
<1> SUFFICES ASSUME Init PROVE IInv
  OBVIOUS
<1>1. receipts = <<>> /\ receipts \in Seq(Receipt) /\ DOMAIN receipts = {}
  BY DEF Init
<1>2. TypeOK
  BY <1>1 DEF Init, TypeOK
<1>3. OneReceiptPerKey
  BY <1>1 DEF Init, OneReceiptPerKey
<1>4. SpentAccounts
  <2> SUFFICES ASSUME NEW g \in DOMAIN Policies
               PROVE  /\ Bought(g) = {}
                      /\ spent[g] = Paid(g) /\ spent[g] <= Policies[g].dailyBudget
    BY DEF SpentAccounts
  <2>1. Bought(g) = {} /\ Counted(g) = {}
    BY <1>1 DEF Bought, Counted
  <2>2. Paid(g) = 0
    BY <2>1, NothingPaid
  <2> QED BY <2>1, <2>2, PolicyAssumption DEF Init
<1> QED BY <1>2, <1>3, <1>4 DEF IInv

LEMMA CountedIsFinite ==
  ASSUME TypeOK, NEW g
  PROVE  /\ IsFiniteSet(Counted(g)) /\ Counted(g) \subseteq Bought(g)
         /\ Bought(g) \subseteq 1..Len(receipts) /\ Len(receipts) \in Nat
         /\ \A i \in Counted(g) : receipts[i].amount \in Int
<1>1. /\ Len(receipts) \in Nat /\ DOMAIN receipts = 1..Len(receipts)
      /\ receipts \in [1..Len(receipts) -> Receipt]
  BY LenProperties DEF TypeOK
<1>2. IsFiniteSet(1..Len(receipts))
  BY <1>1, FS_Interval
<1>3. Counted(g) \subseteq Bought(g) /\ Bought(g) \subseteq 1..Len(receipts)
  BY <1>1 DEF Bought, Counted
<1>4. IsFiniteSet(Counted(g))
  BY <1>2, <1>3, FS_Subset
<1>5. \A i \in Counted(g) : i <= i /\ i \in Bought(g)
  BY <1>1, <1>3
<1>6. \A i \in Counted(g) : receipts[i].amount # NaN
  BY <1>5 DEF Counted
<1> QED BY <1>1, <1>3, <1>4, <1>6 DEF Receipt

\* A new receipt is its agent's first; the older ones are shifted.
LEMMA BoughtGrows ==
  ASSUME TypeOK, NEW r \in Receipt, receipts' = <<r>> \o receipts, NEW g
  PROVE  /\ Bought(g)' \subseteq 1..(Len(receipts) + 1)
         /\ 1 \in Bought(g)' <=> r.agent = g
         /\ \A i \in 1..Len(receipts) : i + 1 \in Bought(g)' <=> i \in Bought(g)
<1>1. /\ Len(receipts) \in Nat
      /\ DOMAIN receipts = 1..Len(receipts) /\ DOMAIN receipts' = 1..(Len(receipts) + 1)
      /\ receipts'[1] = r /\ \A i \in 1..Len(receipts) : receipts'[i + 1] = receipts[i]
  BY Shifted DEF TypeOK
<1>2. \A i \in 1..Len(receipts) : i + 1 \in 1..(Len(receipts) + 1)
  BY <1>1
<1>3. 1 \in 1..(Len(receipts) + 1)
  BY <1>1
<1> QED BY <1>1, <1>2, <1>3 DEF Bought

\* What counts after a receipt: that receipt and what counted, shifted; or
\* nothing, when it is its agent's and for no number.
LEMMA CountedGrows ==
  ASSUME TypeOK, NEW r \in Receipt, receipts' = <<r>> \o receipts, NEW g
  PROVE  /\ Counted(g)' \subseteq 1..(Len(receipts) + 1)
         /\ 1 \in Counted(g)' <=> r.agent = g /\ r.amount # NaN
         /\ \A i \in 1..Len(receipts) :
              i + 1 \in Counted(g)' <=> i \in Counted(g) /\ (r.agent = g => r.amount # NaN)
<1> DEFINE n == Len(receipts)
<1>1. /\ n \in Nat
      /\ DOMAIN receipts = 1..n /\ DOMAIN receipts' = 1..(n + 1)
      /\ receipts'[1] = r /\ \A i \in 1..n : receipts'[i + 1] = receipts[i]
  BY Shifted DEF TypeOK
<1>2. /\ Bought(g)' \subseteq 1..(n + 1) /\ (1 \in Bought(g)' <=> r.agent = g)
      /\ \A i \in 1..n : i + 1 \in Bought(g)' <=> i \in Bought(g)
  BY BoughtGrows
<1>3. Bought(g) \subseteq 1..n
  BY CountedIsFinite
<1> HIDE DEF n
<1>4. Counted(g)' = {i \in Bought(g)' : \A j \in Bought(g)' : j <= i => receipts'[j].amount # NaN}
  BY DEF Counted
<1>5. 1 \in Counted(g)' <=> r.agent = g /\ r.amount # NaN
  <2>1. \A j \in Bought(g)' : j <= 1 <=> j = 1
    BY <1>1, <1>2
  <2> QED BY <1>1, <1>2, <1>4, <2>1
<1>6. ASSUME NEW i \in 1..n, i + 1 \in Counted(g)'
      PROVE  i \in Counted(g) /\ (r.agent = g => r.amount # NaN)
  <2>1. i \in Bought(g) /\ \A j \in Bought(g)' : j <= i + 1 => receipts'[j].amount # NaN
    BY <1>2, <1>4, <1>6
  <2>2. r.agent = g => r.amount # NaN
    <3>1. 1 <= i + 1
      BY <1>1
    <3> QED BY <1>1, <1>2, <2>1, <3>1
  <2>3. ASSUME NEW j \in Bought(g), j <= i PROVE receipts[j].amount # NaN
    <3>1. j \in 1..n /\ j + 1 \in Bought(g)'
      BY <1>2, <1>3
    <3>2. j + 1 <= i + 1 /\ receipts'[j + 1] = receipts[j]
      BY <1>1, <2>3, <3>1
    <3> QED BY <2>1, <3>1, <3>2
  <2> QED BY <2>1, <2>2, <2>3 DEF Counted
<1>7. ASSUME NEW i \in 1..n, i \in Counted(g), r.agent = g => r.amount # NaN
      PROVE  i + 1 \in Counted(g)'
  <2>1. i + 1 \in Bought(g)' /\ \A j \in Bought(g) : j <= i => receipts[j].amount # NaN
    BY <1>2, <1>7 DEF Counted
  <2>2. ASSUME NEW j \in Bought(g)', j <= i + 1 PROVE receipts'[j].amount # NaN
    <3>1. CASE j = 1
      BY <1>1, <1>2, <1>7, <3>1
    <3>2. CASE j # 1
      <4>1. j - 1 \in 1..n /\ j = (j - 1) + 1 /\ j - 1 <= i
        BY <1>1, <1>2, <2>2, <3>2
      <4>2. j - 1 \in Bought(g) /\ receipts'[j] = receipts[j - 1]
        BY <1>1, <1>2, <4>1
      <4> QED BY <2>1, <4>1, <4>2
    <3> QED BY <3>1, <3>2
  <2> QED BY <1>4, <2>1, <2>2
<1>8. Counted(g)' \subseteq 1..(n + 1)
  BY <1>2, <1>4
<1> QED BY <1>5, <1>6, <1>7, <1>8 DEF n

\* The new receipt is added to what was paid by its agent and by no other,
\* unless it starts the count again.
LEMMA PaidGrows ==
  ASSUME TypeOK, NEW r \in Receipt, receipts' = <<r>> \o receipts, NEW g,
         r.agent = g => r.amount # NaN
  PROVE  Paid(g)' = Paid(g) + (IF r.agent = g THEN r.amount ELSE 0) /\ Paid(g) \in Int
<1> DEFINE S == Counted(g)
           F == [i \in S |-> receipts[i].amount]
           G == [i \in Counted(g)' |-> receipts'[i].amount]
           next == [i \in S |-> i + 1]
           Image == {next[i] : i \in S}
<1>1. /\ receipts' \in Seq(Receipt) /\ Len(receipts) \in Nat
      /\ receipts'[1] = r /\ \A i \in 1..Len(receipts) : receipts'[i + 1] = receipts[i]
  BY Shifted DEF TypeOK
<1>2. /\ IsFiniteSet(S) /\ S \subseteq 1..Len(receipts)
      /\ \A i \in S : receipts[i].amount \in Int
  BY CountedIsFinite
<1>3. /\ Counted(g)' \subseteq 1..(Len(receipts) + 1) /\ (1 \in Counted(g)' <=> r.agent = g)
      /\ \A i \in 1..Len(receipts) : i + 1 \in Counted(g)' <=> i \in S
  BY CountedGrows
<1>4. Counted(g)' = IF r.agent = g THEN Image \cup {1} ELSE Image
  <2>1. \A i \in S : next[i] = i + 1 /\ i \in 1..Len(receipts) /\ next[i] \in Counted(g)'
    BY <1>2, <1>3
  <2>2. ASSUME NEW i \in Counted(g)', i # 1 PROVE i \in Image
    <3>1. i - 1 \in 1..Len(receipts) /\ i = (i - 1) + 1
      BY <1>1, <1>3, <2>2
    <3>2. i - 1 \in S /\ next[i - 1] = i
      BY <1>3, <2>1, <3>1
    <3> QED BY <3>2
  <2>3. Image \subseteq Counted(g)' /\ 1 \notin Image
    BY <1>2, <2>1
  <2>4. \A i \in Counted(g)' : i # 1 => i \in Image
    BY <2>2
  <2> HIDE DEF Image
  <2>5. CASE r.agent = g
    <3>1. 1 \in Counted(g)'
      BY <1>3, <2>5
    <3>2. Counted(g)' = Image \cup {1}
      BY <2>3, <2>4, <3>1
    <3> QED BY <2>5, <3>2
  <2>6. CASE r.agent # g
    <3>1. 1 \notin Counted(g)'
      BY <1>3, <2>6
    <3>2. Counted(g)' = Image
      BY <2>3, <2>4, <3>1
    <3> QED BY <2>6, <3>2
  <2> QED BY <2>5, <2>6
<1>5. \A i \in S : F[i] \in Int /\ G[next[i]] = F[i]
  <2> SUFFICES ASSUME NEW i \in S PROVE F[i] \in Int /\ G[next[i]] = F[i]
    OBVIOUS
  <2>1. next[i] \in Counted(g)' /\ next[i] = i + 1
    BY <1>4
  <2>2. receipts'[next[i]] = receipts[i]
    BY <1>1, <1>2, <2>1
  <2> QED BY <1>2, <2>1, <2>2
<1>6. next \in Bijection(S, Image)
  BY <1>2 DEF Bijection, Injection, Surjection, IsInjective
<1>7. \A i \in Image : i # 1 /\ G[i] \in Int
  <2>1. \A i \in S : next[i] # 1
    BY <1>1, <1>2
  <2>2. \A i \in S : G[next[i]] \in Int
    BY <1>5
  <2> HIDE DEF next, G
  <2> QED BY <2>1, <2>2
<1>8. Paid(g) = SumFunctionOnSet(F, S) /\ Paid(g)' = SumFunctionOnSet(G, Counted(g)')
  BY DEF Paid, SumFunction
<1>9. r.agent = g => G[1] = r.amount /\ r.amount \in Int
  BY <1>1, <1>4 DEF Receipt
<1>10. IsFiniteSet(Image)
  <2>1. next \in Surjection(S, Image)
    BY DEF Surjection
  <2> HIDE DEF next, Image
  <2> QED BY <1>2, <2>1, FS_Surjection
<1>11. SumFunctionOnSet(F, S) \in Int
  <2> HIDE DEF F, S
  <2> QED BY <1>2, <1>5, SumType
<1> HIDE DEF F, G, S, next
<1>12. SumFunctionOnSet(G, Image) = SumFunctionOnSet(F, S)
  <2> HIDE DEF Image
  <2>1. IsFiniteSet(S)
    BY <1>2
  <2>2. next \in Bijection(S, Image)
    BY <1>6
  <2>3. \A i \in S : F[i] \in Int /\ G[next[i]] = F[i]
    BY <1>5
  <2> QED BY <2>1, <2>2, <2>3, SumReindexed, SMT
<1> HIDE DEF Image
<1>13. CASE r.agent = g
  <2>1. SumFunctionOnSet(G, Image \cup {1}) = G[1] + SumFunctionOnSet(G, Image)
    BY <1>7, <1>9, <1>10, <1>13, SumAdd
  <2> QED BY <1>4, <1>8, <1>9, <1>11, <1>12, <1>13, <2>1
<1>14. CASE r.agent # g
  BY <1>4, <1>8, <1>11, <1>12, <1>14
<1> QED BY <1>13, <1>14

LEMMA ExecuteStep ==
  ASSUME IInv, NEW g \in Agents, NEW s \in Services, NEW amount \in Amounts,
         NEW key \in Keys \cup {NoKey}, NEW approval \in Approvals,
         Execute(g, s, amount, key, approval)
  PROVE  IInv'
<1> DEFINE r == [agent |-> g, service |-> s, amount |-> amount, key |-> key]
<1>1. /\ g \in DOMAIN Policies /\ key \in Keys /\ key \notin keys /\ amount \in Int \cup {NaN}
      /\ keys' = keys \cup {key} /\ spent' = [spent EXCEPT ![g] = Sum(OrElse(@, 0), amount)]
      /\ receipts' = <<r>> \o receipts /\ agents' = agents
  BY DomainAssumption DEF Execute, ActiveAgent, Fresh
<1>2. r \in Receipt /\ r.agent = g /\ r.amount = amount /\ r.key = key
  BY <1>1 DEF Receipt
<1>3. /\ receipts \in Seq(Receipt) /\ spent \in [DOMAIN Policies -> Int \cup {NaN}]
  BY DEF IInv, TypeOK
<1> HIDE DEF r
<1>4. /\ receipts' \in Seq(Receipt) /\ Len(receipts) \in Nat
      /\ DOMAIN receipts = 1..Len(receipts) /\ DOMAIN receipts' = 1..(Len(receipts) + 1)
      /\ receipts'[1] = r /\ \A i \in 1..Len(receipts) : receipts'[i + 1] = receipts[i]
  BY <1>1, <1>2, <1>3, Shifted
<1>5. TypeOK'
  <2>1. Sum(OrElse(spent[g], 0), amount) \in Int \cup {NaN}
    BY <1>1, <1>3 DEF Sum, OrElse
  <2> QED BY <1>1, <1>3, <1>4, <2>1 DEF IInv, TypeOK
<1>6. OneReceiptPerKey'
  <2>1. \A i \in DOMAIN receipts' :
          /\ i = 1 => receipts'[i].key = key
          /\ i # 1 => i - 1 \in DOMAIN receipts /\ receipts'[i].key = receipts[i - 1].key
    <3>1. ASSUME NEW i \in DOMAIN receipts', i # 1
          PROVE  i - 1 \in DOMAIN receipts /\ receipts'[i].key = receipts[i - 1].key
      <4>1. i - 1 \in 1..Len(receipts) /\ i = (i - 1) + 1
        BY <1>4, <3>1
      <4> QED BY <1>4, <4>1
    <3> QED BY <1>2, <1>4, <3>1
  <2>2. \A i \in DOMAIN receipts : i \in Nat /\ receipts[i].key \in keys /\ receipts[i].key # key
    BY <1>1, <1>4 DEF IInv, OneReceiptPerKey
  <2>3. \A i, j \in DOMAIN receipts' : receipts'[i].key = receipts'[j].key => i = j
    <3> SUFFICES ASSUME NEW i \in DOMAIN receipts', NEW j \in DOMAIN receipts',
                        receipts'[i].key = receipts'[j].key
                 PROVE  i = j
      OBVIOUS
    <3>1. i \in Nat /\ j \in Nat
      BY <1>4
    <3>2. CASE i = 1
      BY <2>1, <2>2, <3>2
    <3>3. CASE j = 1
      BY <2>1, <2>2, <3>3
    <3>4. CASE i # 1 /\ j # 1
      <4>1. receipts[i - 1].key = receipts[j - 1].key
            /\ i - 1 \in DOMAIN receipts /\ j - 1 \in DOMAIN receipts
        BY <2>1, <3>4
      <4>2. i - 1 = j - 1
        BY <4>1 DEF IInv, OneReceiptPerKey
      <4> QED BY <3>1, <4>2
    <3> QED BY <3>2, <3>3, <3>4
  <2>4. keys' = {receipts'[i].key : i \in DOMAIN receipts'}
    <3>1. \A i \in DOMAIN receipts' : receipts'[i].key \in keys'
      BY <1>1, <2>1, <2>2
    <3>2. \A k \in keys' : \E i \in DOMAIN receipts' : receipts'[i].key = k
      <4> SUFFICES ASSUME NEW k \in keys'
                   PROVE  \E i \in DOMAIN receipts' : receipts'[i].key = k
        OBVIOUS
      <4>1. CASE k = key
        <5>1. 1 \in DOMAIN receipts' /\ receipts'[1].key = key
          BY <1>2, <1>4
        <5> QED BY <4>1, <5>1
      <4>2. CASE k \in keys
        <5>1. PICK i \in DOMAIN receipts : receipts[i].key = k
          BY <4>2 DEF IInv, OneReceiptPerKey
        <5>2. i + 1 \in DOMAIN receipts' /\ receipts'[i + 1] = receipts[i]
          BY <1>4
        <5> QED BY <5>1, <5>2
      <4> QED BY <1>1, <4>1, <4>2
    <3> QED BY <3>1, <3>2
  <2>5. NoKey \notin keys'
    BY <1>1, DomainAssumption DEF IInv, OneReceiptPerKey
  <2> QED BY <2>3, <2>4, <2>5 DEF OneReceiptPerKey
<1>7. SpentAccounts'
  <2> SUFFICES ASSUME NEW a \in DOMAIN Policies
               PROVE  IF Bought(a)' # {} /\ Counted(a)' = {}
                      THEN spent'[a] = NaN
                      ELSE spent'[a] = Paid(a)' /\ spent'[a] <= Policies[a].dailyBudget
    BY DEF SpentAccounts
  <2>1. /\ Counted(a)' \subseteq 1..(Len(receipts) + 1)
        /\ 1 \in Counted(a)' <=> r.agent = a /\ r.amount # NaN
        /\ \A i \in 1..Len(receipts) :
             i + 1 \in Counted(a)' <=> i \in Counted(a) /\ (r.agent = a => r.amount # NaN)
    BY <1>1, <1>2, CountedGrows DEF IInv
  <2>2. /\ Bought(a)' \subseteq 1..(Len(receipts) + 1)
        /\ 1 \in Bought(a)' <=> r.agent = a
        /\ \A i \in 1..Len(receipts) : i + 1 \in Bought(a)' <=> i \in Bought(a)
    BY <1>1, <1>2, BoughtGrows DEF IInv
  <2>3. IF Bought(a) # {} /\ Counted(a) = {}
        THEN spent[a] = NaN
        ELSE spent[a] = Paid(a) /\ spent[a] <= Policies[a].dailyBudget
    BY DEF IInv, SpentAccounts
  <2>4. /\ Counted(a) \subseteq 1..Len(receipts) /\ Bought(a) \subseteq 1..Len(receipts)
    BY CountedIsFinite DEF IInv
  <2>5. \A i \in 1..(Len(receipts) + 1) : i = 1 \/ (i - 1 \in 1..Len(receipts) /\ i = (i - 1) + 1)
    BY <1>4
  <2>6. CASE a = g /\ amount = NaN
    <3>0. r.agent = a /\ r.amount = NaN
      BY <1>2, <2>6
    <3>1. Counted(a)' = {} /\ Bought(a)' # {}
      <4>1. 1 \in Bought(a)' /\ 1 \notin Counted(a)'
        BY <2>1, <2>2, <3>0
      <4>2. \A i \in 1..Len(receipts) : i + 1 \notin Counted(a)'
        BY <2>1, <3>0
      <4>3. ASSUME NEW i \in Counted(a)' PROVE FALSE
        <5>1. i \in 1..(Len(receipts) + 1)
          BY <2>1
        <5>2. i - 1 \in 1..Len(receipts) /\ i = (i - 1) + 1
          BY <2>5, <4>1, <5>1
        <5> QED BY <4>2, <5>2
      <4> QED BY <4>1, <4>3
    <3>2. spent'[a] = NaN
      BY <1>1, <1>3, <2>6 DEF Sum
    <3> QED BY <3>1, <3>2
  <2>7. CASE a = g /\ amount # NaN
    <3>1. 1 \in Counted(a)' /\ amount \in Int
      BY <1>1, <1>2, <2>1, <2>7
    <3>2. Paid(a)' = Paid(a) + amount /\ Paid(a) \in Int
      BY <1>1, <1>2, <2>7, PaidGrows DEF IInv
    <3>3. OrElse(spent[a], 0) = Paid(a)
      <4>1. CASE Bought(a) # {} /\ Counted(a) = {}
        BY <2>3, <4>1, NothingPaid DEF OrElse
      <4>2. CASE ~(Bought(a) # {} /\ Counted(a) = {})
        <5>1. spent[a] = Paid(a)
          BY <2>3, <4>2
        <5> QED BY <3>2, <5>1, DomainAssumption DEF OrElse
      <4> QED BY <4>1, <4>2
    <3>4. Sum(Paid(a), amount) = Paid(a) + amount /\ Paid(a) + amount \in Int
      BY <3>1, <3>2, DomainAssumption DEF Sum
    <3>5. spent'[a] = Paid(a)'
      BY <1>1, <1>3, <2>7, <3>2, <3>3, <3>4
    <3>6. Spent(a) = OrElse(spent[a], 0)
      BY PolicyAssumption DEF Spent
    <3>7. ~Exceeds(Paid(a) + amount, Policies[a].dailyBudget)
      BY <2>7, <3>3, <3>4, <3>6 DEF Execute, WithinLimits
    <3>8. Policies[a].dailyBudget \in Int
      BY PolicyAssumption
    <3>9. Paid(a) + amount <= Policies[a].dailyBudget
      BY <3>4, <3>7, <3>8, DomainAssumption DEF Exceeds
    <3> QED BY <3>1, <3>2, <3>5, <3>9
  <2>8. CASE a # g
    <3>1. Counted(a)' = {} <=> Counted(a) = {}
      BY <1>2, <2>1, <2>4, <2>5, <2>8
    <3>2. Bought(a)' = {} <=> Bought(a) = {}
      BY <1>2, <2>2, <2>4, <2>5, <2>8
    <3>3. Paid(a)' = Paid(a) + 0 /\ Paid(a) \in Int
      BY <1>1, <1>2, <2>8, PaidGrows DEF IInv
    <3>4. spent'[a] = spent[a]
      BY <1>1, <1>3, <2>8
    <3> QED BY <2>3, <3>1, <3>2, <3>3, <3>4
  <2> QED BY <2>6, <2>7, <2>8
<1> QED BY <1>5, <1>6, <1>7 DEF IInv

\* Nothing else touches the sums, the keys or the receipts.
LEMMA OtherStep ==
  ASSUME IInv, UNCHANGED <<spent, keys, receipts>>,
         agents' \in [DOMAIN Policies -> {"active", "revoked"}]
  PROVE  IInv'
<1>1. TypeOK'
  BY DEF IInv, TypeOK
<1>2. OneReceiptPerKey'
  BY DEF IInv, OneReceiptPerKey
<1>3. \A g : Paid(g)' = Paid(g) /\ Bought(g)' = Bought(g) /\ Counted(g)' = Counted(g)
  BY DEF Paid, Bought, Counted
<1>4. SpentAccounts'
  BY <1>3 DEF IInv, SpentAccounts
<1> QED BY <1>1, <1>2, <1>4 DEF IInv

LEMMA Step == IInv /\ [Next]_vars => IInv'
<1> SUFFICES ASSUME IInv, [Next]_vars PROVE IInv'
  OBVIOUS
<1>1. agents \in [DOMAIN Policies -> {"active", "revoked"}]
  BY DEF IInv, TypeOK
<1>2. CASE UNCHANGED vars
  BY <1>1, <1>2, OtherStep DEF vars
<1>3. ASSUME NEW g \in Agents, NEW s \in Services, NEW amount \in Amounts,
             NEW key \in Keys \cup {NoKey}, NEW approval \in Approvals,
             Execute(g, s, amount, key, approval)
      PROVE  IInv'
  BY <1>3, ExecuteStep
<1>4. ASSUME NEW g \in DOMAIN Policies, Revoke(g)
      PROVE  IInv'
  BY <1>1, <1>4, OtherStep DEF Revoke
<1>5. ASSUME NEW approval \in Approvals, Approve(approval)
      PROVE  IInv'
  BY <1>1, <1>5, OtherStep DEF Approve
<1>6. CASE Tick
  BY <1>1, <1>6, OtherStep DEF Tick
<1> QED BY <1>2, <1>3, <1>4, <1>5, <1>6 DEF Next

LEMMA Invariance == Spec => []IInv
<1> QED BY Initially, Step, PTL DEF Spec

\* A key pays for one receipt, whichever agents and services use it and
\* whatever was refused before (applyAllowedAction, seenIdempotencyKeys).
THEOREM KeysPayOnce == Spec => []OneReceiptPerKey
<1>1. IInv => OneReceiptPerKey
  BY DEF IInv
<1> QED BY <1>1, Invariance, PTL

\* The running sum the budget is checked against is that of the agent's
\* receipts since its last one for no number, and never exceeds the budget;
\* after such a one it is NaN (spentByAgent, dailyBudget).
THEOREM SpendingAccounted == Spec => []SpentAccounts
<1>1. IInv => SpentAccounts
  BY DEF IInv
<1> QED BY <1>1, Invariance, PTL

-----------------------------------------------------------------------------
(* The prototype *)

LEMMA NoWrap ==
  ASSUME NEW x \in Nat, NEW n \in Nat, x <= n
  PROVE  x % (n + 1) = x
OBVIOUS

\* Receipts are kept newest first here and oldest first there.
LEMMA ReverseOfNew ==
  ASSUME NEW rs \in Seq(Receipt), NEW r \in Receipt
  PROVE  Reverse(<<r>> \o rs) = Append(Reverse(rs), r)
<1> DEFINE new == <<r>> \o rs
           n == Len(rs)
<1>1. /\ n \in Nat /\ Len(new) = n + 1 /\ DOMAIN rs = 1..n
      /\ new[1] = r /\ \A i \in 1..n : new[i + 1] = rs[i]
  BY Shifted
<1>2. rs \in [1..n -> Receipt]
  BY LenProperties
<1> HIDE DEF new, n
<1> DEFINE old == [i \in 1..n |-> rs[(n - i) + 1]]
<1>3. old \in Seq(Receipt) /\ Len(old) = n
  <2>1. \A i \in 1..n : (n - i) + 1 \in 1..n
    BY <1>1
  <2>2. old \in [1..n -> Receipt]
    BY <1>2, <2>1
  <2> HIDE DEF old
  <2> QED BY <1>1, <2>2
<1>4. Reverse(rs) = old
  BY DEF Reverse, n
<1>5. Reverse(new) = [i \in 1..(n + 1) |-> new[((n + 1) - i) + 1]]
  BY <1>1 DEF Reverse
<1>6. Append(old, r) = [i \in 1..(n + 1) |-> IF i = n + 1 THEN r ELSE old[i]]
  BY <1>1, <1>3, AppendProperties, LenProperties
<1>7. \A i \in 1..(n + 1) :
        new[((n + 1) - i) + 1] = IF i = n + 1 THEN r ELSE old[i]
  <2> SUFFICES ASSUME NEW i \in 1..(n + 1)
               PROVE  new[((n + 1) - i) + 1] = IF i = n + 1 THEN r ELSE old[i]
    OBVIOUS
  <2>1. CASE i = n + 1
    <3>1. ((n + 1) - i) + 1 = 1
      BY <1>1, <2>1
    <3> QED BY <1>1, <2>1, <3>1
  <2>2. CASE i # n + 1
    <3>1. i \in 1..n /\ (n - i) + 1 \in 1..n /\ ((n + 1) - i) + 1 = ((n - i) + 1) + 1
      BY <1>1, <2>2
    <3>2. new[((n - i) + 1) + 1] = rs[(n - i) + 1]
      BY <1>1, <3>1
    <3> QED BY <2>2, <3>1, <3>2
  <2> QED BY <2>1, <2>2
<1> HIDE DEF old
<1> QED BY <1>4, <1>5, <1>6, <1>7 DEF new

\* With proper amounts only, the sums are amounts of the prototype.
LEMMA SpentIsU64 ==
  ASSUME IInv, \A i \in DOMAIN receipts : Proper(receipts[i].amount),
         NEW g \in DOMAIN Policies
  PROVE  spent[g] \in Nat
<1> DEFINE F == [i \in Counted(g) |-> receipts[i].amount]
<1>1. DOMAIN receipts = 1..Len(receipts)
  BY LenProperties DEF IInv, TypeOK
<1>2. /\ IsFiniteSet(DOMAIN F) /\ DOMAIN F \subseteq DOMAIN receipts
      /\ \A i \in DOMAIN F : F[i] \in Int
  BY <1>1, CountedIsFinite DEF IInv
<1>3. \A i \in DOMAIN F : F[i] \in Nat
  BY <1>2 DEF Proper
<1>4. Paid(g) = SumFunction(F)
  BY DEF Paid
<1>5. spent[g] = Paid(g)
  <2>1. Counted(g) = Bought(g)
    BY DEF Counted, Bought, Proper
  <2> QED BY <2>1 DEF IInv, SpentAccounts
<1> HIDE DEF F
<1> QED BY <1>2, <1>3, <1>4, <1>5, SumIsNat

LEMMA ExecuteIsWriteReceipt ==
  ASSUME IInv, NEW g \in Agents, NEW s \in Services, NEW amount \in Amounts,
         NEW key \in Keys \cup {NoKey}, NEW approval \in Approvals,
         Execute(g, s, amount, key, approval),
         \A i \in DOMAIN receipts' : Proper(receipts'[i].amount)
  PROVE  amount \in Core!U64 /\ key \in Keys /\ Core!WriteReceipt(g, s, amount, key)
<1> DEFINE r == [agent |-> g, service |-> s, amount |-> amount, key |-> key]
<1>1. /\ g \in DOMAIN Policies /\ key \in Keys /\ key \notin keys /\ amount \in Int \cup {NaN}
      /\ agents[g] = "active" /\ Policies[g].active
      /\ s \in DOMAIN Catalog /\ Catalog[s] /\ s \in Policies[g].services
      /\ ~Exceeds(amount, Policies[g].maxAmount)
      /\ ~Exceeds(Sum(Spent(g), amount), Policies[g].dailyBudget)
      /\ keys' = keys \cup {key} /\ spent' = [spent EXCEPT ![g] = Sum(OrElse(@, 0), amount)]
      /\ receipts' = <<r>> \o receipts /\ agents' = agents
  BY DomainAssumption
     DEF Execute, ActiveAgent, InForce, Purchasable, Fresh, WithinLimits
<1>2. r \in Receipt /\ r.amount = amount
  BY <1>1 DEF Receipt
<1>3. receipts \in Seq(Receipt) /\ spent \in [DOMAIN Policies -> Int \cup {NaN}]
  BY DEF IInv, TypeOK
<1>4. amount \in Nat /\ spent[g] \in Nat
  <2> HIDE DEF r
  <2>1. /\ Len(receipts) \in Nat /\ DOMAIN receipts = 1..Len(receipts)
        /\ DOMAIN receipts' = 1..(Len(receipts) + 1)
        /\ receipts'[1] = r /\ \A i \in 1..Len(receipts) : receipts'[i + 1] = receipts[i]
    BY <1>1, <1>2, <1>3, Shifted
  <2>2. 1 \in DOMAIN receipts' /\ Proper(amount)
    BY <1>2, <2>1
  <2>3. \A i \in DOMAIN receipts : Proper(receipts[i].amount)
    <3> SUFFICES ASSUME NEW i \in 1..Len(receipts) PROVE Proper(receipts[i].amount)
      BY <2>1
    <3>1. i + 1 \in DOMAIN receipts' /\ receipts'[i + 1] = receipts[i]
      BY <2>1
    <3> QED BY <3>1
  <2>4. amount \in Nat
    BY <1>1, <2>2 DEF Proper
  <2> QED BY <1>1, <2>3, <2>4, SpentIsU64
<1>5. /\ MaxU64 \in Nat /\ Policies[g].usedBudget = 0
      /\ Policies[g].maxAmount \in 0..MaxU64 /\ Policies[g].dailyBudget \in 0..MaxU64
      /\ Policies[g].services \subseteq Services /\ Policies[g].active \in BOOLEAN
  BY <1>1, PolicyAssumption
<1>6. /\ spent[g] + amount <= Policies[g].dailyBudget /\ amount <= Policies[g].maxAmount
      /\ spent'[g] = spent[g] + amount
      /\ \A a \in DOMAIN Policies : a # g => spent'[a] = spent[a]
  <2>1. OrElse(spent[g], 0) = spent[g] /\ Spent(g) = spent[g]
    BY <1>4, <1>5, DomainAssumption DEF Spent, OrElse
  <2>2. Sum(spent[g], amount) = spent[g] + amount
    BY <1>4, DomainAssumption DEF Sum
  <2>3. spent[g] + amount \in Int /\ Policies[g].dailyBudget \in Int /\ Policies[g].maxAmount \in Int
    BY <1>4, <1>5
  <2>4. spent[g] + amount <= Policies[g].dailyBudget /\ amount <= Policies[g].maxAmount
    BY <1>1, <1>4, <2>1, <2>2, <2>3, DomainAssumption DEF Exceeds
  <2> QED BY <1>1, <1>3, <2>1, <2>2, <2>4
<1>7. (spent[g] + amount) % (MaxU64 + 1) = spent[g] + amount
  <2>1. spent[g] + amount \in Nat /\ spent[g] + amount <= MaxU64
    BY <1>4, <1>5, <1>6
  <2> QED BY <1>5, <2>1, NoWrap
<1>8. amount \in Core!U64
  BY <1>4, <1>5, <1>6 DEF Core!U64
<1> DEFINE known == [a \in Agents |-> IF a \in DOMAIN Policies THEN CorePolicy(a) ELSE None]
           core == known[g]
<1>9. /\ core = CorePolicy(g) /\ core # None
      /\ core.maxAmount = Policies[g].maxAmount /\ core.dailyBudget = Policies[g].dailyBudget
      /\ core.usedBudget = spent[g] /\ core.services = Policies[g].services
      /\ core.active = Policies[g].active
  <2>1. core = CorePolicy(g)
    BY <1>1
  <2>2. CorePolicy(g) \in [maxAmount: Int, dailyBudget: Int, usedBudget: Int,
                           services: SUBSET Services, active: BOOLEAN]
    BY <1>4, <1>5 DEF CorePolicy
  <2> HIDE DEF core, known
  <2> QED BY <2>1, <2>2, NoneAssumption DEF CorePolicy
<1>10. Core!Allowed(g, s, amount, key)
  <2>1. [a \in Agents |-> IF a \in DOMAIN Policies THEN agents[a] ELSE None][g] = "active"
    BY <1>1
  <2>2. [c \in Services |-> IF c \in DOMAIN Catalog THEN Catalog[c] ELSE None][s] = TRUE
    BY <1>1, DomainAssumption
  <2>3. /\ known[g] # None /\ known[g].active /\ s \in known[g].services
        /\ amount <= known[g].maxAmount
        /\ (known[g].usedBudget + amount) % (MaxU64 + 1) <= known[g].dailyBudget
    <3> HIDE DEF known
    <3> QED BY <1>1, <1>6, <1>7, <1>9
  <2> QED BY <1>1, <2>1, <2>2, <2>3 DEF Core!Allowed, Core!WrappingSum
<1>11. known' = [known EXCEPT ![g].usedBudget = (@ + amount) % (MaxU64 + 1)]
  <2>1. \A a \in DOMAIN Policies : CorePolicy(a)' =
          IF a = g THEN [CorePolicy(g) EXCEPT !.usedBudget = spent[g] + amount] ELSE CorePolicy(a)
    BY <1>1, <1>6 DEF CorePolicy
  <2>2. [known EXCEPT ![g].usedBudget = (@ + amount) % (MaxU64 + 1)] =
          [known EXCEPT ![g] = [CorePolicy(g) EXCEPT !.usedBudget = spent[g] + amount]]
    BY <1>1, <1>7, <1>9
  <2>3. known' = [known EXCEPT ![g] = [CorePolicy(g) EXCEPT !.usedBudget = spent[g] + amount]]
    BY <1>1, <2>1
  <2> QED BY <2>2, <2>3
<1>12. Reverse(receipts)' = Append(Reverse(receipts), r)
  BY <1>1, <1>2, <1>3, ReverseOfNew
<1>13. Core!WriteReceipt(g, s, amount, key)
  BY <1>1, <1>10, <1>11, <1>12 DEF Core!WriteReceipt, Core!WrappingSum
<1> QED BY <1>1, <1>8, <1>13

\* As long as every amount was a number and none negative, what the engine does the prototype would
\* do in the same state: their checks and updates agree, in spite of the
\* prototype's wrapping addition (applyAllowedAction and write_receipt).
THEOREM EngineTakesCoreSteps == Spec => StepsOfCore
<1>1. IInv /\ [Next]_vars =>
        [(\A i \in DOMAIN receipts' : Proper(receipts'[i].amount)) =>
           UNCHANGED Core!vars \/ Core!Next]_vars
  <2> SUFFICES ASSUME IInv, [Next]_vars, \A i \in DOMAIN receipts' : Proper(receipts'[i].amount)
               PROVE  UNCHANGED Core!vars \/ Core!Next
    OBVIOUS
  <2>1. ASSUME UNCHANGED <<agents, spent, keys, receipts>>
        PROVE  UNCHANGED Core!vars
    BY <2>1 DEF Core!vars, CorePolicy
  <2>2. CASE UNCHANGED vars
    BY <2>1, <2>2 DEF vars
  <2>3. ASSUME NEW g \in Agents, NEW s \in Services, NEW amount \in Amounts,
               NEW key \in Keys \cup {NoKey}, NEW approval \in Approvals,
               Execute(g, s, amount, key, approval)
        PROVE  Core!Next
    BY <2>3, ExecuteIsWriteReceipt DEF Core!Next
  <2>4. ASSUME NEW g \in DOMAIN Policies, Revoke(g)
        PROVE  Core!Next
    <3> DEFINE known == [a \in Agents |-> IF a \in DOMAIN Policies THEN agents[a] ELSE None]
    <3>1. g \in Agents /\ agents \in [DOMAIN Policies -> {"active", "revoked"}]
      BY DomainAssumption DEF IInv, TypeOK
    <3>2. known[g] # None
      BY <2>4, <3>1, NoneAssumption DEF Revoke
    <3>3. known' = [known EXCEPT ![g] = "revoked"]
      BY <2>4, <3>1 DEF Revoke
    <3>4. Core!RevokeAgent(g)
      BY <2>4, <3>2, <3>3 DEF Revoke, CorePolicy, Core!RevokeAgent
    <3> QED BY <3>1, <3>4 DEF Core!Next
  <2>5. CASE (\E approval \in Approvals : Approve(approval)) \/ Tick
    BY <2>1, <2>5 DEF Approve, Tick
  <2> QED BY <2>2, <2>3, <2>4, <2>5 DEF Next
<1> QED BY <1>1, Invariance, PTL DEF Spec, StepsOfCore
=============================================================================
