----------------------------- MODULE SumLemmas -----------------------------
(***************************************************************************)
(* Sums over finite sets, as SumFunctionOnSet of the community modules     *)
(* computes them: by recursion over the subsets, taking one element after  *)
(* another in an arbitrary order.  The lemmas say that the recursion is    *)
(* well-founded, that the order does not matter, and how a sum changes     *)
(* with its set.                                                           *)
(*                                                                         *)
(* Induction is over the subsets of a finite set, as the existence of a    *)
(* smallest counterexample.                                                *)
(***************************************************************************)
EXTENDS FiniteSetTheorems, TLAPS

LEMMA SmallestSubset ==
  ASSUME NEW S, IsFiniteSet(S), NEW B \in SUBSET (SUBSET S), B # {}
  PROVE  \E T \in B : \A U \in B : U \subseteq T => U = T
<1>1. IsWellFoundedOn(StrictSubsetOrdering(S), SUBSET S)
  BY FS_FiniteSubsetsOfFinite, FS_StrictSubsetOrderingWellFounded
<1>2. PICK T \in B : \A U \in B : ~(<<U, T>> \in StrictSubsetOrdering(S))
  BY <1>1, WFMin
<1> QED BY <1>2 DEF StrictSubsetOrdering

Pick(T) == CHOOSE x \in T : TRUE

LEMMA PickIn == ASSUME NEW T, T # {} PROVE Pick(T) \in T
BY DEF Pick

\* g has the sums of F over the subsets of S.
Sums(F, S, g) ==
  g = [T \in SUBSET S |-> IF T = {} THEN 0 ELSE F[Pick(T)] + g[T \ {Pick(T)}]]

LEMMA SumsOfNone ==
  ASSUME NEW F, NEW S, NEW g, Sums(F, S, g)
  PROVE  g[{}] = 0
BY DEF Sums

LEMMA SumsOfSome ==
  ASSUME NEW F, NEW S, NEW g, Sums(F, S, g), NEW T, T \subseteq S, T # {}
  PROVE  g[T] = F[Pick(T)] + g[T \ {Pick(T)}]
BY DEF Sums

LEMMA WithoutPick ==
  ASSUME NEW T, T # {}
  PROVE  T \ {Pick(T)} \subseteq T /\ T \ {Pick(T)} # T
BY PickIn

LEMMA SumsUnique ==
  ASSUME NEW F, NEW G, NEW S, IsFiniteSet(S), NEW T \in SUBSET S,
         NEW g, Sums(F, S, g), NEW h, Sums(G, T, h), \A x \in T : F[x] = G[x]
  PROVE  g[T] = h[T]
<1> DEFINE B == {U \in SUBSET T : g[U] # h[U]}
<1> SUFFICES ASSUME B # {} PROVE FALSE
  OBVIOUS
<1>1. PICK U \in B : \A V \in B : V \subseteq U => V = U
  <2>1. IsFiniteSet(T)
    BY FS_Subset
  <2>2. B \in SUBSET (SUBSET T)
    OBVIOUS
  <2> HIDE DEF B
  <2> QED BY <2>1, <2>2, SmallestSubset
<1>2. U \in SUBSET T /\ U \in SUBSET S /\ g[U] # h[U]
  OBVIOUS
<1>3. U # {}
  BY <1>2, SumsOfNone
<1> DEFINE V == U \ {Pick(U)}
<1>4. V \in SUBSET T /\ V \subseteq U /\ V # U /\ Pick(U) \in T
  BY <1>2, <1>3, PickIn
<1>5. g[V] = h[V]
  BY <1>1, <1>4
<1>6. g[U] = F[Pick(U)] + g[V]
  BY <1>2, <1>3, SumsOfSome
<1>7. h[U] = G[Pick(U)] + h[V]
  BY <1>2, <1>3 DEF Sums
<1> QED BY <1>2, <1>4, <1>5, <1>6, <1>7

LEMMA SumsExist ==
  ASSUME NEW F, NEW S, IsFiniteSet(S)
  PROVE  \E g : Sums(F, S, g)
<1> DEFINE B == {T \in SUBSET S : ~ \E g : Sums(F, T, g)}
<1> SUFFICES ASSUME B # {} PROVE FALSE
  OBVIOUS
<1>1. PICK T \in B : \A U \in B : U \subseteq T => U = T
  <2>1. B \in SUBSET (SUBSET S)
    OBVIOUS
  <2> HIDE DEF B
  <2> QED BY <2>1, SmallestSubset
<1>2. T \in SUBSET S /\ IsFiniteSet(T) /\ ~ \E g : Sums(F, T, g)
  BY FS_Subset
<1> DEFINE f(U) == CHOOSE g : Sums(F, U, g)
           rest(U) == U \ {Pick(U)}
           total == IF T = {} THEN 0 ELSE F[Pick(T)] + f(rest(T))[rest(T)]
           h == [U \in SUBSET T |-> IF U = T THEN total ELSE f(U)[U]]
<1>3. ASSUME NEW U \in SUBSET T, U # T PROVE Sums(F, U, f(U))
  <2>1. \E g : Sums(F, U, g)
    BY <1>1, <1>2, <1>3
  <2> QED BY <2>1
<1>4. ASSUME NEW U \in SUBSET T, U # {}
      PROVE  rest(U) \in SUBSET T /\ rest(U) # T /\ rest(U) \in SUBSET U /\ rest(U) # U
  BY <1>4, PickIn
<1>5. ASSUME NEW U \in SUBSET T
      PROVE  h[U] = IF U = {} THEN 0 ELSE F[Pick(U)] + h[rest(U)]
  <2>1. CASE U = T
    BY <1>4, <2>1
  <2>2. CASE U # T /\ U = {}
    <3>1. f(U)[{}] = 0
      BY <1>3, <2>2, SumsOfNone
    <3> QED BY <2>2, <3>1
  <2>3. CASE U # T /\ U # {}
    <3>1. Sums(F, U, f(U)) /\ Sums(F, rest(U), f(rest(U)))
      BY <1>3, <1>4, <2>3
    <3>2. f(U)[U] = F[Pick(U)] + f(U)[rest(U)]
      BY <2>3, <3>1, SumsOfSome
    <3>3. IsFiniteSet(U)
      BY <1>2, FS_Subset
    <3>4. f(U)[rest(U)] = f(rest(U))[rest(U)]
      <4>1. rest(U) \in SUBSET U
        BY <1>4, <2>3
      <4> HIDE DEF rest
      <4>2. ASSUME NEW g, Sums(F, U, g), NEW k, Sums(F, rest(U), k)
            PROVE  g[rest(U)] = k[rest(U)]
        BY <3>3, <4>1, <4>2, SumsUnique
      <4> HIDE DEF f
      <4> QED BY <3>1, <4>2
    <3>5. h[rest(U)] = f(rest(U))[rest(U)]
      BY <1>4, <2>3
    <3> QED BY <2>3, <3>2, <3>4, <3>5
  <2> QED BY <2>1, <2>2, <2>3
<1>6. Sums(F, T, h)
  <2> HIDE DEF h
  <2>1. h = [U \in SUBSET T |-> h[U]]
    BY DEF h
  <2>2. h = [U \in SUBSET T |-> IF U = {} THEN 0 ELSE F[Pick(U)] + h[U \ {Pick(U)}]]
    BY <1>5, <2>1
  <2> QED BY <2>2 DEF Sums
<1> QED BY <1>2, <1>6
-----------------------------------------------------------------------------
(* SumFunctionOnSet *)

LEMMA SumDefined ==
  ASSUME NEW F, NEW S, IsFiniteSet(S)
  PROVE  \E g : Sums(F, S, g) /\ SumFunctionOnSet(F, S) = g[S]
<1> DEFINE g == CHOOSE g : Sums(F, S, g)
<1>1. Sums(F, S, g)
  BY SumsExist
<1>2. SumFunctionOnSet(F, S) = g[S]
  BY DEF SumFunctionOnSet, FoldFunctionOnSet, MapThenFoldSet, Sums, Pick
<1> QED BY <1>1, <1>2

\* Only the values on the set count.
LEMMA SumCongruent ==
  ASSUME NEW F, NEW G, NEW S, IsFiniteSet(S), \A x \in S : F[x] = G[x]
  PROVE  SumFunctionOnSet(F, S) = SumFunctionOnSet(G, S)
<1>1. PICK g : Sums(F, S, g) /\ SumFunctionOnSet(F, S) = g[S]
  BY SumDefined
<1>2. PICK h : Sums(G, S, h) /\ SumFunctionOnSet(G, S) = h[S]
  BY SumDefined
<1>3. S \in SUBSET S
  OBVIOUS
<1>4. g[S] = h[S]
  BY <1>1, <1>2, <1>3, SumsUnique
<1> QED BY <1>1, <1>2, <1>4

LEMMA SumEmpty == ASSUME NEW F PROVE SumFunctionOnSet(F, {}) = 0
BY SumDefined, SumsOfNone, FS_EmptySet

LEMMA SumPick ==
  ASSUME NEW F, NEW S, IsFiniteSet(S), S # {}
  PROVE  SumFunctionOnSet(F, S) = F[Pick(S)] + SumFunctionOnSet(F, S \ {Pick(S)})
<1> DEFINE T == S \ {Pick(S)}
<1>1. T \in SUBSET S /\ IsFiniteSet(T)
  BY FS_RemoveElement
<1>2. PICK g : Sums(F, S, g) /\ SumFunctionOnSet(F, S) = g[S]
  BY SumDefined
<1>3. PICK h : Sums(F, T, h) /\ SumFunctionOnSet(F, T) = h[T]
  BY <1>1, SumDefined
<1>4. g[T] = h[T]
  <2> HIDE DEF T
  <2>1. ASSUME NEW k, Sums(F, T, k) PROVE g[T] = k[T]
    BY <1>1, <1>2, <2>1, SumsUnique
  <2> QED BY <1>3, <2>1
<1>5. g[S] = F[Pick(S)] + g[T]
  BY <1>2 DEF Sums
<1> QED BY <1>2, <1>3, <1>4, <1>5

LEMMA SumType ==
  ASSUME NEW F, NEW S, IsFiniteSet(S), \A x \in S : F[x] \in Int
  PROVE  SumFunctionOnSet(F, S) \in Int
<1> DEFINE B == {T \in SUBSET S : SumFunctionOnSet(F, T) \notin Int}
<1> SUFFICES ASSUME B # {} PROVE FALSE
  OBVIOUS
<1>1. PICK T \in B : \A U \in B : U \subseteq T => U = T
  <2>1. B \in SUBSET (SUBSET S)
    OBVIOUS
  <2> HIDE DEF B
  <2> QED BY <2>1, SmallestSubset
<1>2. T \in SUBSET S /\ IsFiniteSet(T) /\ SumFunctionOnSet(F, T) \notin Int
  BY FS_Subset
<1>3. T # {}
  BY <1>2, SumEmpty
<1>4. T \ {Pick(T)} \notin B
  BY <1>1, <1>3, WithoutPick
<1>5. SumFunctionOnSet(F, T \ {Pick(T)}) \in Int
  BY <1>2, <1>4
<1>6. F[Pick(T)] \in Int
  BY <1>2, <1>3, PickIn
<1>7. SumFunctionOnSet(F, T) = F[Pick(T)] + SumFunctionOnSet(F, T \ {Pick(T)})
  BY <1>2, <1>3, SumPick
<1> QED BY <1>2, <1>5, <1>6, <1>7

\* Any element may be taken out first.
LEMMA SumRemove ==
  ASSUME NEW F, NEW S, IsFiniteSet(S), \A x \in S : F[x] \in Int, NEW y \in S
  PROVE  SumFunctionOnSet(F, S) = F[y] + SumFunctionOnSet(F, S \ {y})
<1> DEFINE Sum(T) == SumFunctionOnSet(F, T)
           B == {T \in SUBSET S : \E x \in T : Sum(T) # F[x] + Sum(T \ {x})}
<1> SUFFICES B = {}
  OBVIOUS
<1> SUFFICES ASSUME B # {} PROVE FALSE
  OBVIOUS
<1>1. PICK T \in B : \A U \in B : U \subseteq T => U = T
  <2>1. B \in SUBSET (SUBSET S)
    OBVIOUS
  <2> HIDE DEF B
  <2> QED BY <2>1, SmallestSubset
<1>2. T \in SUBSET S /\ IsFiniteSet(T)
  BY FS_Subset
<1>3. PICK x \in T : Sum(T) # F[x] + Sum(T \ {x})
  OBVIOUS
<1> DEFINE p == Pick(T)
           U == T \ {p}
           V == T \ {x}
           W == T \ {p, x}
<1>4. p \in T /\ Sum(T) = F[p] + Sum(U)
  BY <1>2, <1>3, SumPick, PickIn
<1>5. p # x
  BY <1>3, <1>4
<1>6. U \notin B /\ V \notin B /\ U \in SUBSET S /\ V \in SUBSET S
  <2>1. U \subseteq T /\ U # T /\ V \subseteq T /\ V # T
    BY <1>4
  <2> QED BY <1>1, <1>2, <2>1
<1>7. Sum(U) = F[x] + Sum(W)
  <2>1. x \in U /\ U \ {x} = W
    BY <1>5
  <2> HIDE DEF U, W, Sum
  <2> QED BY <1>6, <2>1
<1>8. Sum(V) = F[p] + Sum(W)
  <2>1. p \in V /\ V \ {p} = W
    BY <1>4, <1>5
  <2> HIDE DEF V, W, Sum, p
  <2> QED BY <1>6, <2>1
<1>9. F[x] \in Int /\ F[p] \in Int /\ Sum(W) \in Int
  <2>1. IsFiniteSet(W) /\ W \subseteq S
    BY <1>2, FS_Subset
  <2> QED BY <1>2, <1>4, <2>1, SumType
<1> HIDE DEF Sum, p, U, V, W
<1>10. Sum(T \ {x}) = Sum(V)
  BY DEF V
<1> QED BY <1>3, <1>4, <1>7, <1>8, <1>9, <1>10

LEMMA SumAdd ==
  ASSUME NEW F, NEW S, IsFiniteSet(S), NEW y, y \notin S,
         \A x \in S \cup {y} : F[x] \in Int
  PROVE  SumFunctionOnSet(F, S \cup {y}) = F[y] + SumFunctionOnSet(F, S)
<1>1. IsFiniteSet(S \cup {y}) /\ (S \cup {y}) \ {y} = S
  BY FS_AddElement
<1> QED BY <1>1, SumRemove

\* A sum of naturals is no less than that of fewer of them.
LEMMA SumMonotone ==
  ASSUME NEW F, NEW S, IsFiniteSet(S), NEW T \in SUBSET S, \A x \in S : F[x] \in Nat
  PROVE  /\ SumFunctionOnSet(F, T) <= SumFunctionOnSet(F, S)
         /\ SumFunctionOnSet(F, T) \in Nat /\ SumFunctionOnSet(F, S) \in Nat
<1> DEFINE Sum(U) == SumFunctionOnSet(F, U)
           B == {U \in SUBSET S : ~(Sum(U) >= 0) \/ \E V \in SUBSET U : ~(Sum(V) <= Sum(U))}
<1>1. B = {}
  <2> SUFFICES ASSUME B # {} PROVE FALSE
    OBVIOUS
  <2>1. PICK U \in B : \A V \in B : V \subseteq U => V = U
    <3>1. B \in SUBSET (SUBSET S)
      OBVIOUS
    <3> HIDE DEF B
    <3> QED BY <3>1, SmallestSubset
  <2>2. U \in SUBSET S /\ IsFiniteSet(U)
    BY FS_Subset
  <2>3. ASSUME NEW x \in U
        PROVE  /\ Sum(U) = F[x] + Sum(U \ {x}) /\ F[x] \in Nat
               /\ Sum(U \ {x}) \in Nat
               /\ \A V \in SUBSET (U \ {x}) : Sum(V) <= Sum(U \ {x})
    <3>1. U \ {x} \notin B /\ U \ {x} \in SUBSET S /\ IsFiniteSet(U \ {x})
      BY <2>1, <2>2, FS_RemoveElement
    <3>2. Sum(U \ {x}) >= 0 /\ \A V \in SUBSET (U \ {x}) : Sum(V) <= Sum(U \ {x})
      BY <3>1
    <3>3. F[x] \in Nat
      BY <2>2
    <3>4. Sum(U \ {x}) \in Int
      BY <3>1, SumType
    <3>5. Sum(U) = F[x] + Sum(U \ {x})
      BY <2>2, SumRemove
    <3> QED BY <3>2, <3>3, <3>4, <3>5
  <2> HIDE DEF Sum
  <2>4. ASSUME NEW V \in SUBSET U PROVE Sum(V) <= Sum(U)
    <3>1. Sum(V) \in Int
      BY <2>2, FS_Subset, SumType DEF Sum
    <3>2. CASE V = U
      BY <3>1, <3>2
    <3>3. CASE V # U
      <4>1. PICK x \in U : x \notin V
        BY <3>3
      <4>2. Sum(V) <= Sum(U \ {x})
        BY <2>3, <4>1
      <4>3. Sum(U) = F[x] + Sum(U \ {x}) /\ F[x] \in Nat /\ Sum(U \ {x}) \in Nat
        BY <2>3
      <4> QED BY <3>1, <4>2, <4>3
    <3> QED BY <3>2, <3>3
  <2>5. Sum(U) >= 0
    <3>1. CASE U = {}
      BY <3>1, SumEmpty DEF Sum
    <3>2. ASSUME NEW x \in U PROVE Sum(U) >= 0
      <4>1. Sum(U) = F[x] + Sum(U \ {x}) /\ F[x] \in Nat /\ Sum(U \ {x}) \in Nat
        BY <2>3
      <4> QED BY <4>1
    <3> QED BY <3>1, <3>2
  <2> QED BY <2>1, <2>4, <2>5
<1>2. Sum(S) >= 0 /\ Sum(T) >= 0 /\ Sum(T) <= Sum(S)
  BY <1>1
<1>3. Sum(S) \in Int /\ Sum(T) \in Int
  BY FS_Subset, SumType
<1> QED BY <1>2, <1>3

LEMMA SumUnion ==
  ASSUME NEW F, NEW S, NEW T, IsFiniteSet(S), IsFiniteSet(T), \A x \in S \cup T : F[x] \in Nat
  PROVE  SumFunctionOnSet(F, S \cup T) <= SumFunctionOnSet(F, S) + SumFunctionOnSet(F, T)
<1> DEFINE Sum(U) == SumFunctionOnSet(F, U)
           B == {U \in SUBSET T : ~(Sum(S \cup U) <= Sum(S) + Sum(U))}
<1>1. ASSUME NEW U \in SUBSET T
      PROVE  /\ IsFiniteSet(U) /\ IsFiniteSet(S \cup U)
             /\ Sum(U) \in Nat /\ Sum(S) \in Nat /\ Sum(S \cup U) \in Nat
  <2>1. IsFiniteSet(U) /\ IsFiniteSet(S \cup U)
    BY FS_Subset, FS_Union
  <2> QED BY <2>1, SumMonotone
<1> SUFFICES ASSUME B # {} PROVE FALSE
  OBVIOUS
<1>2. PICK U \in B : \A V \in B : V \subseteq U => V = U
  <2>1. B \in SUBSET (SUBSET T)
    OBVIOUS
  <2> HIDE DEF B
  <2> QED BY <2>1, SmallestSubset
<1>3. U \in SUBSET T /\ ~(Sum(S \cup U) <= Sum(S) + Sum(U))
  OBVIOUS
<1>4. U # {}
  <2>1. Sum({}) = 0 /\ S \cup {} = S
    BY SumEmpty
  <2> HIDE DEF Sum
  <2> QED BY <1>1, <1>3, <2>1
<1> DEFINE p == Pick(U)
           V == U \ {p}
<1>5. p \in U /\ V \in SUBSET T /\ V \notin B /\ Sum(U) = F[p] + Sum(V) /\ F[p] \in Nat
  BY <1>1, <1>2, <1>3, <1>4, PickIn, WithoutPick, SumPick
<1>6. Sum(S \cup V) <= Sum(S) + Sum(V)
  BY <1>5
<1>7. Sum(S \cup U) <= F[p] + Sum(S \cup V)
  <2>1. CASE p \in S
    <3>1. S \cup U = S \cup V
      BY <1>5, <2>1
    <3>2. Sum(S \cup V) \in Nat
      BY <1>1, <1>5
    <3> HIDE DEF Sum, V, p
    <3>3. Sum(S \cup U) = Sum(S \cup V)
      BY <3>1
    <3>4. F[p] \in Nat
      BY <1>5
    <3> QED BY <3>2, <3>3, <3>4
  <2>2. CASE p \notin S
    <3>1. S \cup U = (S \cup V) \cup {p} /\ p \notin S \cup V
      BY <1>5, <2>2
    <3>2. \A x \in (S \cup V) \cup {p} : F[x] \in Int
      BY <1>5
    <3>3. IsFiniteSet(S \cup V)
      BY <1>1, <1>5
    <3> HIDE DEF V, p
    <3>4. Sum((S \cup V) \cup {p}) = F[p] + Sum(S \cup V)
      BY <3>1, <3>2, <3>3, SumAdd
    <3>5. Sum(S \cup V) \in Nat /\ F[p] \in Nat
      BY <1>1, <1>5
    <3> HIDE DEF Sum
    <3>6. Sum(S \cup U) = Sum((S \cup V) \cup {p})
      BY <3>1
    <3>7. Sum(S \cup U) = F[p] + Sum(S \cup V)
      BY <3>4, <3>6
    <3> QED BY <3>5, <3>7
  <2> QED BY <2>1, <2>2
<1>8. /\ Sum(U) \in Nat /\ Sum(V) \in Nat /\ Sum(S) \in Nat
      /\ Sum(S \cup U) \in Nat /\ Sum(S \cup V) \in Nat
  BY <1>1, <1>3, <1>5
<1> HIDE DEF Sum, V, p, B
<1> QED BY <1>3, <1>5, <1>6, <1>7, <1>8

\* A sum does not depend on how its terms are indexed.
LEMMA SumReindexed ==
  ASSUME NEW F, NEW G, NEW S, NEW T, NEW h \in Bijection(S, T), IsFiniteSet(S),
         \A x \in S : F[x] \in Int /\ G[h[x]] = F[x]
  PROVE  SumFunctionOnSet(G, T) = SumFunctionOnSet(F, S)
<1>0. /\ \A x, y \in S : h[x] = h[y] => x = y
      /\ \A t : t \in T <=> \E x \in S : t = h[x]
  BY DEF Bijection, Injection, Surjection, IsInjective
<1> DEFINE Image(U) == {h[x] : x \in U}
           B == {U \in SUBSET S : SumFunctionOnSet(G, Image(U)) # SumFunctionOnSet(F, U)}
<1> SUFFICES ASSUME B # {} PROVE FALSE
  <2>1. T = Image(S)
    BY <1>0
  <2> HIDE DEF Image
  <2> QED BY <2>1
<1>1. PICK U \in B : \A V \in B : V \subseteq U => V = U
  <2>1. B \in SUBSET (SUBSET S)
    OBVIOUS
  <2> HIDE DEF B
  <2> QED BY <2>1, SmallestSubset
<1>2. U \in SUBSET S /\ SumFunctionOnSet(G, Image(U)) # SumFunctionOnSet(F, U)
  OBVIOUS
<1>3. U # {}
  <2>1. Image({}) = {}
    OBVIOUS
  <2> HIDE DEF Image
  <2> QED BY <1>2, <2>1, SumEmpty
<1> DEFINE p == Pick(U)
           V == U \ {p}
<1>4. p \in U /\ V \in SUBSET S /\ V \notin B
  BY <1>1, <1>2, <1>3, PickIn, WithoutPick
<1>5. SumFunctionOnSet(F, U) = F[p] + SumFunctionOnSet(F, V)
  <2>1. IsFiniteSet(U)
    BY <1>2, FS_Subset
  <2> QED BY <1>3, <2>1, SumPick
<1>6. SumFunctionOnSet(G, Image(V)) = SumFunctionOnSet(F, V)
  BY <1>4
<1>7. SumFunctionOnSet(G, Image(U)) = G[h[p]] + SumFunctionOnSet(G, Image(V))
  <2> HIDE DEF p
  <2>1. Image(U) = Image(V) \cup {h[p]} /\ h[p] \notin Image(V)
    BY <1>0, <1>2, <1>4
  <2>2. IsFiniteSet(V)
    BY <1>4, FS_Subset
  <2>3. IsFiniteSet(Image(V))
    <3> DEFINE f == [x \in V |-> h[x]]
    <3>1. f \in Surjection(V, Image(V))
      BY DEF Surjection
    <3> HIDE DEF f, Image
    <3> QED BY <2>2, <3>1, FS_Surjection
  <2>4. \A x \in Image(V) \cup {h[p]} : G[x] \in Int
    BY <1>2, <1>4
  <2> HIDE DEF Image
  <2>5. SumFunctionOnSet(G, Image(V) \cup {h[p]}) = G[h[p]] + SumFunctionOnSet(G, Image(V))
    BY <2>1, <2>3, <2>4, SumAdd
  <2> QED BY <2>1, <2>5
<1>8. G[h[p]] = F[p]
  BY <1>2, <1>4
<1> HIDE DEF Image, p, V, B
<1> QED BY <1>2, <1>5, <1>6, <1>7, <1>8

-----------------------------------------------------------------------------
(* SumFunction: two functions that agree where both are defined *)

LEMMA SumOfNothing == ASSUME NEW F, DOMAIN F = {} PROVE SumFunction(F) = 0
BY SumEmpty DEF SumFunction

LEMMA SumIsNat ==
  ASSUME NEW F, IsFiniteSet(DOMAIN F), \A x \in DOMAIN F : F[x] \in Nat
  PROVE  SumFunction(F) \in Nat
<1>1. DOMAIN F \in SUBSET DOMAIN F
  OBVIOUS
<1> QED BY <1>1, SumMonotone DEF SumFunction

LEMMA SumSame ==
  ASSUME NEW F, NEW G, IsFiniteSet(DOMAIN F), DOMAIN G = DOMAIN F,
         \A x \in DOMAIN F : G[x] = F[x]
  PROVE  SumFunction(G) = SumFunction(F)
BY SumCongruent DEF SumFunction

LEMMA SumShrinks ==
  ASSUME NEW F, NEW G, IsFiniteSet(DOMAIN F), DOMAIN G \subseteq DOMAIN F,
         \A x \in DOMAIN F : F[x] \in Nat, \A x \in DOMAIN G : G[x] = F[x]
  PROVE  SumFunction(G) <= SumFunction(F)
<1>1. IsFiniteSet(DOMAIN G)
  BY FS_Subset
<1>2. SumFunctionOnSet(G, DOMAIN G) = SumFunctionOnSet(F, DOMAIN G)
  BY <1>1, SumCongruent
<1>3. SumFunctionOnSet(F, DOMAIN G) <= SumFunctionOnSet(F, DOMAIN F)
  BY SumMonotone
<1> QED BY <1>2, <1>3 DEF SumFunction

LEMMA SumExtends ==
  ASSUME NEW F, NEW G, NEW y, IsFiniteSet(DOMAIN F), y \notin DOMAIN F,
         DOMAIN G = DOMAIN F \cup {y},
         \A x \in DOMAIN G : G[x] \in Int, \A x \in DOMAIN F : G[x] = F[x]
  PROVE  SumFunction(G) = SumFunction(F) + G[y]
<1>1. SumFunctionOnSet(G, DOMAIN F \cup {y}) = G[y] + SumFunctionOnSet(G, DOMAIN F)
  BY SumAdd
<1>2. SumFunctionOnSet(G, DOMAIN F) = SumFunctionOnSet(F, DOMAIN F)
  BY SumCongruent
<1>3. SumFunctionOnSet(F, DOMAIN F) \in Int
  <2>1. \A x \in DOMAIN F : F[x] \in Int
    OBVIOUS
  <2> QED BY <2>1, SumType
<1>4. G[y] \in Int
  OBVIOUS
<1> QED BY <1>1, <1>2, <1>3, <1>4 DEF SumFunction

\* At most one element more, and perhaps fewer of the others.
LEMMA SumGrows ==
  ASSUME NEW F, NEW G, NEW y, IsFiniteSet(DOMAIN F), y \notin DOMAIN F,
         DOMAIN G \subseteq DOMAIN F \cup {y}, NEW k \in Nat,
         \A x \in DOMAIN F : F[x] \in Nat, \A x \in DOMAIN G \ {y} : G[x] = F[x],
         y \in DOMAIN G => G[y] = k
  PROVE  SumFunction(G) <= SumFunction(F) + k
<1> DEFINE H == [x \in DOMAIN F \cup {y} |-> IF x = y THEN k ELSE F[x]]
<1>1. SumFunction(H) = SumFunction(F) + k
  <2>1. /\ DOMAIN H = DOMAIN F \cup {y} /\ H[y] = k
        /\ \A x \in DOMAIN H : H[x] \in Int
        /\ \A x \in DOMAIN F : H[x] = F[x]
    OBVIOUS
  <2> HIDE DEF H
  <2>2. SumFunction(H) = SumFunction(F) + H[y]
    BY <2>1, SumExtends
  <2> QED BY <2>1, <2>2
<1>2. SumFunction(G) <= SumFunction(H)
  <2>1. IsFiniteSet(DOMAIN H) /\ DOMAIN G \subseteq DOMAIN H
    BY FS_AddElement
  <2>2. /\ \A x \in DOMAIN H : H[x] \in Nat
        /\ \A x \in DOMAIN G : G[x] = H[x]
    OBVIOUS
  <2> HIDE DEF H
  <2> QED BY <2>1, <2>2, SumShrinks
<1> QED BY <1>1, <1>2
=============================================================================
