-------------------------------- MODULE Sums --------------------------------
(* Sums of a function over a finite set, for the proofs about slots: the sum  *)
(* does not depend on the order in which SumFunctionOnSet takes the elements. *)
EXTENDS FiniteSetsExt, FiniteSetTheorems, TLAPS

\* The element a sum takes first, and what it is to be the sum over the subsets of T.
First(T) == CHOOSE x \in T : TRUE
IsSum(s, f, T) ==
    s = [U \in SUBSET T |-> IF U = {} THEN 0 ELSE f[First(U)] + s[U \ {First(U)}]]

LEMMA SmallestSet ==
    ASSUME NEW S, IsFiniteSet(S), NEW C, C \subseteq SUBSET S, C # {}
    PROVE  \E T \in C : \A U \in C : U \subseteq T => U = T
<1>1. IsWellFoundedOn(StrictSubsetOrdering(S), SUBSET S)
  BY FS_StrictSubsetOrderingWellFounded, FS_FiniteSubsetsOfFinite
<1>2. PICK T \in C : \A U \in C : <<U, T>> \notin StrictSubsetOrdering(S)
  BY <1>1, WFMin
<1> QED BY <1>2 DEF StrictSubsetOrdering

\* Two such functions agree wherever both are defined.
LEMMA SumsAgree ==
    ASSUME NEW f, NEW T, NEW V, IsFiniteSet(T), V \subseteq T,
           NEW s, IsSum(s, f, T), NEW r, IsSum(r, f, V)
    PROVE  \A U \in SUBSET V : s[U] = r[U]
<1> DEFINE C == {U \in SUBSET V : s[U] # r[U]}
<1>1. SUFFICES ASSUME C # {} PROVE FALSE
  OBVIOUS
<1>2. PICK U \in C : \A W \in C : W \subseteq U => W = U
  <2>1. IsFiniteSet(V) /\ C \subseteq SUBSET V
    BY FS_Subset
  <2> HIDE DEF C
  <2> QED BY <1>1, <2>1, SmallestSet
<1>3. /\ s[U] = IF U = {} THEN 0 ELSE f[First(U)] + s[U \ {First(U)}]
      /\ r[U] = IF U = {} THEN 0 ELSE f[First(U)] + r[U \ {First(U)}]
  BY <1>2 DEF IsSum
<1>4. U # {} => First(U) \in U
  BY DEF First
<1>5. U # {} => s[U \ {First(U)}] = r[U \ {First(U)}]
  BY <1>2, <1>4
<1> QED BY <1>2, <1>3, <1>5

LEMMA SumExists ==
    ASSUME NEW f, NEW S, IsFiniteSet(S)
    PROVE  \E s : IsSum(s, f, S)
<1> DEFINE C == {T \in SUBSET S : ~\E s : IsSum(s, f, T)}
<1>1. SUFFICES ASSUME C # {} PROVE FALSE
  OBVIOUS
<1>2. PICK T \in C : \A U \in C : U \subseteq T => U = T
  <2>1. C \subseteq SUBSET S
    OBVIOUS
  <2> HIDE DEF C
  <2> QED BY <1>1, <2>1, SmallestSet
<1> DEFINE sum(U) == CHOOSE s : IsSum(s, f, U)
           s == [U \in SUBSET T |-> IF U = {} THEN 0
                                    ELSE f[First(U)] + sum(U \ {First(U)})[U \ {First(U)}]]
<1> HIDE DEF sum
<1>3. \A U \in SUBSET T : U # T => IsSum(sum(U), f, U)
  BY <1>2 DEF sum
<1>4. ASSUME NEW U \in SUBSET T, U # T PROVE s[U] = sum(U)[U]
  <2> DEFINE W == U \ {First(U)}
  <2>1. sum(U)[U] = IF U = {} THEN 0 ELSE f[First(U)] + sum(U)[W]
    BY <1>3, <1>4 DEF IsSum
  <2>2. ASSUME U # {} PROVE sum(U)[W] = sum(W)[W]
    <3>1. IsFiniteSet(U) /\ W \subseteq U /\ W # T /\ W \in SUBSET T
      BY <1>4, FS_Subset
    <3> QED BY <1>3, <1>4, <3>1, SumsAgree
  <2> QED BY <2>1, <2>2
<1>5. \A U \in SUBSET T : U # {} => U \ {First(U)} \in SUBSET T /\ U \ {First(U)} # T
  BY DEF First
<1>6. IsSum(s, f, T)
  <2>1. \A U \in SUBSET T : s[U] = IF U = {} THEN 0 ELSE f[First(U)] + s[U \ {First(U)}]
    BY <1>4, <1>5
  <2> QED BY <2>1 DEF IsSum
<1> QED BY <1>2, <1>6

LEMMA SumIs ==
    ASSUME NEW f, NEW S, IsFiniteSet(S)
    PROVE  \E s : IsSum(s, f, S) /\ SumFunctionOnSet(f, S) = s[S]
<1> DEFINE s == CHOOSE s : IsSum(s, f, S)
<1>1. IsSum(s, f, S)
  BY SumExists
<1>2. SumFunctionOnSet(f, S) = s[S]
  BY DEF SumFunctionOnSet, FoldFunctionOnSet, MapThenFoldSet, IsSum, First
<1> QED BY <1>1, <1>2

LEMMA SumTakesFirst ==
    ASSUME NEW f, NEW T, IsFiniteSet(T)
    PROVE  SumFunctionOnSet(f, T)
             = IF T = {} THEN 0 ELSE f[First(T)] + SumFunctionOnSet(f, T \ {First(T)})
<1> DEFINE V == T \ {First(T)}
<1>1. PICK s : IsSum(s, f, T) /\ SumFunctionOnSet(f, T) = s[T]
  BY SumIs
<1>2. PICK r : IsSum(r, f, V) /\ SumFunctionOnSet(f, V) = r[V]
  BY SumIs, FS_Subset
<1>3. s[V] = r[V]
  BY <1>1, <1>2, SumsAgree
<1>4. s[T] = IF T = {} THEN 0 ELSE f[First(T)] + s[V]
  BY <1>1 DEF IsSum
<1> QED BY <1>1, <1>2, <1>3, <1>4

LEMMA SumIsNat ==
    ASSUME NEW T, IsFiniteSet(T), NEW f, \A x \in T : f[x] \in Nat
    PROVE  SumFunctionOnSet(f, T) \in Nat
<1> DEFINE C == {U \in SUBSET T : SumFunctionOnSet(f, U) \notin Nat}
<1>1. SUFFICES ASSUME C # {} PROVE FALSE
  OBVIOUS
<1>2. PICK U \in C : \A W \in C : W \subseteq U => W = U
  <2>1. C \subseteq SUBSET T
    OBVIOUS
  <2> HIDE DEF C
  <2> QED BY <1>1, <2>1, SmallestSet
<1>3. SumFunctionOnSet(f, U)
        = IF U = {} THEN 0 ELSE f[First(U)] + SumFunctionOnSet(f, U \ {First(U)})
  BY <1>2, FS_Subset, SumTakesFirst
<1>4. U # {} => First(U) \in U
  BY DEF First
<1>5. U # {} => SumFunctionOnSet(f, U \ {First(U)}) \in Nat
  BY <1>2, <1>4
<1> QED BY <1>2, <1>3, <1>4, <1>5

\* Any element may be taken first.
LEMMA SumTakesAny ==
    ASSUME NEW T, IsFiniteSet(T), NEW f, \A x \in T : f[x] \in Nat
    PROVE  \A x \in T : SumFunctionOnSet(f, T) = f[x] + SumFunctionOnSet(f, T \ {x})
<1> DEFINE Sum(U) == SumFunctionOnSet(f, U)
           C == {U \in SUBSET T : ~\A x \in U : Sum(U) = f[x] + Sum(U \ {x})}
<1>0. /\ \A U \in SUBSET T : IsFiniteSet(U) /\ Sum(U) \in Nat
      /\ \A U \in SUBSET T : Sum(U) = IF U = {} THEN 0 ELSE f[First(U)] + Sum(U \ {First(U)})
  BY FS_Subset, SumIsNat, SumTakesFirst
<1>1. SUFFICES ASSUME C # {} PROVE FALSE
  OBVIOUS
<1> HIDE DEF Sum
<1>2. PICK U \in C : \A W \in C : W \subseteq U => W = U
  <2>1. C \subseteq SUBSET T
    OBVIOUS
  <2> HIDE DEF C
  <2> QED BY <1>1, <2>1, SmallestSet
<1>3. PICK x \in U : Sum(U) # f[x] + Sum(U \ {x})
  BY <1>2
<1> DEFINE y == First(U)
           W == (U \ {x}) \ {y}
<1>4. y \in U /\ y # x
  BY <1>0, <1>2, <1>3 DEF First
<1> HIDE DEF y
<1>5. Sum(U \ {y}) = f[x] + Sum(W)
  <2>1. (U \ {y}) \ {x} = W /\ x \in U \ {y}
    BY <1>3, <1>4
  <2> QED BY <1>2, <1>4, <2>1
<1>6. Sum(U \ {x}) = f[y] + Sum(W)
  BY <1>2, <1>3, <1>4
<1>7. Sum(U) = f[y] + Sum(U \ {y})
  BY <1>0, <1>2, <1>3 DEF y
<1>8. f[x] \in Nat /\ f[y] \in Nat /\ Sum(W) \in Nat
  BY <1>0, <1>2, <1>3, <1>4
<1> QED BY <1>3, <1>5, <1>6, <1>7, <1>8

\* A sum of smaller numbers is smaller.
LEMMA SumBelow ==
    ASSUME NEW T, IsFiniteSet(T), NEW f, NEW g,
           \A x \in T : f[x] \in Nat /\ g[x] \in Nat /\ f[x] <= g[x]
    PROVE  SumFunctionOnSet(f, T) <= SumFunctionOnSet(g, T)
<1> DEFINE F(U) == SumFunctionOnSet(f, U)
           G(U) == SumFunctionOnSet(g, U)
           C == {U \in SUBSET T : ~(F(U) <= G(U))}
<1>1. ASSUME NEW U \in SUBSET T
      PROVE  /\ IsFiniteSet(U) /\ F(U) \in Nat /\ G(U) \in Nat
             /\ \A x \in U : F(U) = f[x] + F(U \ {x}) /\ G(U) = g[x] + G(U \ {x})
  <2>1. IsFiniteSet(U)
    BY FS_Subset
  <2>2. \A x \in U : f[x] \in Nat /\ g[x] \in Nat
    OBVIOUS
  <2> QED BY <2>1, <2>2, SumIsNat, SumTakesAny
<1>2. F({}) = 0 /\ G({}) = 0
  BY FS_EmptySet, SumTakesFirst
<1> HIDE DEF F, G
<1>3. SUFFICES ASSUME C # {} PROVE FALSE
  BY DEF F, G
<1>4. PICK U \in C : \A W \in C : W \subseteq U => W = U
  <2>1. C \subseteq SUBSET T
    OBVIOUS
  <2> HIDE DEF C
  <2> QED BY <1>3, <2>1, SmallestSet
<1>5. U \in SUBSET T /\ ~(F(U) <= G(U))
  BY <1>4
<1>6. PICK x \in U : TRUE
  BY <1>2, <1>5
<1>7. U \ {x} \in SUBSET T /\ F(U \ {x}) <= G(U \ {x})
  BY <1>4, <1>5, <1>6
<1>8. f[x] \in Nat /\ g[x] \in Nat /\ f[x] <= g[x]
  BY <1>5, <1>6
<1> QED BY <1>1, <1>5, <1>6, <1>7, <1>8
=============================================================================
