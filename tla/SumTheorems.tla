---------------------------- MODULE SumTheorems ----------------------------
(***************************************************************************)
(* Sums over finite sets.  The community modules define a sum by recursion *)
(* over the subsets of a set, removing one CHOOSEn element at a time.  The *)
(* lemmas say that this recursion has a solution, that any element may be  *)
(* taken first, and how a sum changes with its summands and its set.       *)
(*                                                                         *)
(* Induction is stated with a set of cases that covers what it should,     *)
(* and rests on the well-foundedness of < and of the strict subset order.  *)
(***************************************************************************)
EXTENDS FiniteSetTheorems, TLAPS

(* Induction over the numbers.                                             *)
LEMMA NumberInduction ==
    ASSUME NEW F, 0 \in F, \A n \in Nat : n \in F => n + 1 \in F
    PROVE  Nat \subseteq F
<1>1. SUFFICES ASSUME Nat \ F # {} PROVE FALSE
  OBVIOUS
<1>2. PICK n \in Nat \ F : \A m \in Nat \ F : ~(<<m, n>> \in OpToRel(<, Nat))
  BY <1>1, NatLessThanWellFounded, WFMin
<1>3. n # 0 /\ n - 1 \in Nat /\ n - 1 < n /\ (n - 1) + 1 = n
  OBVIOUS
<1>4. n - 1 \in Nat \ F
  BY <1>3
<1>5. <<n - 1, n>> \in OpToRel(<, Nat)
  BY <1>3 DEF OpToRel
<1> QED
  BY <1>2, <1>4, <1>5

(* Induction over the subsets of a finite set.                             *)
LEMMA SubsetInduction ==
    ASSUME NEW S, IsFiniteSet(S), NEW F,
           \A T \in SUBSET S : (\A U \in SUBSET T : U # T => U \in F) => T \in F
    PROVE  SUBSET S \subseteq F
<1> DEFINE Bad == (SUBSET S) \ F
<1>1. SUFFICES ASSUME Bad # {} PROVE FALSE
  OBVIOUS
<1>2. Bad \subseteq FiniteSubsetsOf(S)
  BY FS_Subset DEF FiniteSubsetsOf
<1>3. PICK T \in Bad : \A U \in Bad : ~(<<U, T>> \in StrictSubsetOrdering(S))
  <2>1. IsWellFoundedOn(StrictSubsetOrdering(S), FiniteSubsetsOf(S))
    BY FS_StrictSubsetOrderingWellFounded
  <2> HIDE DEF Bad
  <2> QED
    BY <1>1, <1>2, <2>1, WFMin
<1>4. ASSUME NEW U \in SUBSET T, U # T PROVE U \in F
  <2>1. <<U, T>> \in StrictSubsetOrdering(S)
    BY <1>3, <1>4 DEF StrictSubsetOrdering
  <2> QED
    BY <1>3, <2>1
<1> QED
  BY <1>3, <1>4

----------------------------------------------------------------------------
(* The recursion.                                                          *)

Any(T) == CHOOSE x \in T : TRUE

SumsOf(f, S) ==
    CHOOSE g : g = [T \in SUBSET S |-> IF T = {} THEN 0 ELSE f[Any(T)] + g[T \ {Any(T)}]]

LEMMA SumIsSumsOf == ASSUME NEW f, NEW S PROVE SumFunctionOnSet(f, S) = SumsOf(f, S)[S]
  BY Zenon DEF SumFunctionOnSet, FoldFunctionOnSet, MapThenFoldSet, SumsOf, Any

LEMMA AnyIn == ASSUME NEW T, T # {} PROVE Any(T) \in T
  BY DEF Any

(* It has a solution.                                                      *)
LEMMA SumsOfValue ==
    ASSUME NEW f, NEW S, IsFiniteSet(S), NEW W \in SUBSET S
    PROVE  SumsOf(f, S)[W] = IF W = {} THEN 0 ELSE f[Any(W)] + SumsOf(f, S)[W \ {Any(W)}]
<1> DEFINE Step(g, T) == IF T = {} THEN 0 ELSE f[Any(T)] + g[T \ {Any(T)}]
           F == {n \in Nat : \E g : \A T \in SUBSET S : Cardinality(T) <= n => g[T] = Step(g, T)}
<1>1. 0 \in F
  <2> DEFINE g == [T \in SUBSET S |-> 0]
  <2>1. \A T \in SUBSET S : Cardinality(T) <= 0 => g[T] = Step(g, T)
    BY FS_Subset, FS_CardinalityType, FS_EmptySet
  <2> HIDE DEF g, Step
  <2> QED
    BY <2>1
<1>2. ASSUME NEW n \in Nat, n \in F PROVE n + 1 \in F
  <2>1. PICK g : \A T \in SUBSET S : Cardinality(T) <= n => g[T] = Step(g, T)
    BY <1>2
  <2> DEFINE h == [T \in SUBSET S |-> Step(g, T)]
  <2>2. ASSUME NEW T \in SUBSET S, Cardinality(T) <= n + 1 PROVE h[T] = Step(h, T)
    <3>1. CASE T = {}
      BY <3>1
    <3>2. CASE T # {}
      <4> DEFINE U == T \ {Any(T)}
      <4>1. U \in SUBSET S /\ Cardinality(U) <= n
        <5>1. IsFiniteSet(T) /\ Any(T) \in T
          BY <3>2, AnyIn, FS_Subset
        <5>2. Cardinality(U) = Cardinality(T) - 1 /\ Cardinality(T) \in Nat
          BY <5>1, FS_RemoveElement, FS_CardinalityType
        <5> QED
          BY <2>2, <5>2
      <4>2. g[U] = Step(g, U)
        BY <2>1, <4>1
      <4>3. h[U] = Step(g, U)
        BY <4>1
      <4> HIDE DEF U
      <4>4. h[T] = f[Any(T)] + g[U]
        BY <3>2 DEF U
      <4>5. Step(h, T) = f[Any(T)] + h[U]
        BY <3>2 DEF U
      <4> QED
        BY <4>2, <4>3, <4>4, <4>5
    <3> QED
      BY <3>1, <3>2
  <2> HIDE DEF h, Step
  <2> QED
    BY <2>2
<1>3. Cardinality(S) \in F
  <2> HIDE DEF F
  <2> QED
    BY <1>1, <1>2, NumberInduction, FS_CardinalityType
<1>4. PICK g : \A T \in SUBSET S : g[T] = Step(g, T)
  <2>1. PICK g : \A T \in SUBSET S : Cardinality(T) <= Cardinality(S) => g[T] = Step(g, T)
    BY <1>3
  <2>2. \A T \in SUBSET S : Cardinality(T) <= Cardinality(S)
    BY FS_Subset
  <2> QED
    BY <2>1, <2>2
<1> DEFINE h == [T \in SUBSET S |-> g[T]]
<1>5. h = [T \in SUBSET S |-> IF T = {} THEN 0 ELSE f[Any(T)] + h[T \ {Any(T)}]]
  BY <1>4
<1> HIDE DEF h
<1> DEFINE sums == SumsOf(f, S)
<1>6. sums = [T \in SUBSET S |-> IF T = {} THEN 0 ELSE f[Any(T)] + sums[T \ {Any(T)}]]
  BY <1>5 DEF SumsOf
<1> HIDE DEF sums
<1>7. sums[W] = IF W = {} THEN 0 ELSE f[Any(W)] + sums[W \ {Any(W)}]
  BY <1>6
<1> QED
  BY <1>7 DEF sums

(* The sums of a set agree with those of a larger one.                     *)
LEMMA SumsAgree ==
    ASSUME NEW f, NEW S, IsFiniteSet(S), NEW T \in SUBSET S
    PROVE  \A U \in SUBSET T : SumsOf(f, S)[U] = SumsOf(f, T)[U]
<1> DEFINE F == {U \in SUBSET T : SumsOf(f, S)[U] = SumsOf(f, T)[U]}
<1>1. IsFiniteSet(T)
  BY FS_Subset
<1>2. ASSUME NEW U \in SUBSET T, \A V \in SUBSET U : V # U => V \in F PROVE U \in F
  <2>1. SumsOf(f, S)[U] = IF U = {} THEN 0 ELSE f[Any(U)] + SumsOf(f, S)[U \ {Any(U)}]
    BY SumsOfValue
  <2>2. SumsOf(f, T)[U] = IF U = {} THEN 0 ELSE f[Any(U)] + SumsOf(f, T)[U \ {Any(U)}]
    BY <1>1, SumsOfValue
  <2>3. U # {} => U \ {Any(U)} \in F
    BY <1>2, AnyIn
  <2> QED
    BY <2>1, <2>2, <2>3
<1>3. SUBSET T \subseteq F
  <2> HIDE DEF F
  <2> QED
    BY <1>1, <1>2, SubsetInduction
<1> QED
  BY <1>3

LEMMA SumStep ==
    ASSUME NEW f, NEW S, IsFiniteSet(S)
    PROVE  SumFunctionOnSet(f, S) =
              IF S = {} THEN 0 ELSE f[Any(S)] + SumFunctionOnSet(f, S \ {Any(S)})
<1> DEFINE T == S \ {Any(S)}
<1>1. SumsOf(f, S)[S] = IF S = {} THEN 0 ELSE f[Any(S)] + SumsOf(f, S)[T]
  BY SumsOfValue
<1>2. SumsOf(f, S)[T] = SumsOf(f, T)[T]
  BY SumsAgree
<1> QED
  BY <1>1, <1>2, SumIsSumsOf

----------------------------------------------------------------------------
(* Sums of integers.                                                       *)

(* A sum of integers is one, and natural if its summands are.              *)
LEMMA SumType ==
    ASSUME NEW f, NEW S, IsFiniteSet(S), \A x \in S : f[x] \in Int
    PROVE  /\ SumFunctionOnSet(f, S) \in Int
           /\ (\A x \in S : f[x] \in Nat) => SumFunctionOnSet(f, S) \in Nat
<1> DEFINE Good(T) == /\ SumFunctionOnSet(f, T) \in Int
                      /\ (\A x \in S : f[x] \in Nat) => SumFunctionOnSet(f, T) \in Nat
           F == {T \in SUBSET S : Good(T)}
<1>1. ASSUME NEW T \in SUBSET S, \A U \in SUBSET T : U # T => U \in F PROVE T \in F
  <2>1. SumFunctionOnSet(f, T) = IF T = {} THEN 0 ELSE f[Any(T)] + SumFunctionOnSet(f, T \ {Any(T)})
    BY FS_Subset, SumStep
  <2>2. T # {} => Any(T) \in S /\ Good(T \ {Any(T)})
    BY <1>1, AnyIn
  <2> QED
    BY <2>1, <2>2
<1>2. S \in F
  <2> HIDE DEF F
  <2> QED
    BY <1>1, SubsetInduction
<1> QED
  BY <1>2

(* Any element may be taken out first.                                     *)
LEMMA SumRemove ==
    ASSUME NEW f, NEW S, IsFiniteSet(S), \A x \in S : f[x] \in Int, NEW x \in S
    PROVE  SumFunctionOnSet(f, S) = f[x] + SumFunctionOnSet(f, S \ {x})
<1> DEFINE Sum(T) == SumFunctionOnSet(f, T)
           F == {T \in SUBSET S : \A y \in T : Sum(T) = f[y] + Sum(T \ {y})}
<1>0. \A T \in SUBSET S : Sum(T) \in Int
  BY FS_Subset, SumType
<1>1. \A T \in SUBSET S : T # {} => Any(T) \in T /\ Sum(T) = f[Any(T)] + Sum(T \ {Any(T)})
  BY FS_Subset, SumStep, AnyIn
<1> HIDE DEF Sum
<1>2. ASSUME NEW T \in SUBSET S, \A U \in SUBSET T : U # T => U \in F PROVE T \in F
  <2> SUFFICES ASSUME NEW y \in T PROVE Sum(T) = f[y] + Sum(T \ {y})
    OBVIOUS
  <2> DEFINE c == Any(T)
  <2>1. c \in T /\ Sum(T) = f[c] + Sum(T \ {c})
    BY <1>1
  <2> HIDE DEF c
  <2>2. CASE y = c
    BY <2>1, <2>2
  <2>3. CASE y # c
    <3>1. T \ {c} \in F /\ T \ {y} \in F
      BY <1>2, <2>1
    <3>2. Sum(T \ {c}) = f[y] + Sum((T \ {c}) \ {y})
      BY <2>3, <3>1
    <3>3. Sum(T \ {y}) = f[c] + Sum((T \ {y}) \ {c})
      BY <2>1, <2>3, <3>1
    <3> DEFINE rest == Sum((T \ {c}) \ {y})
    <3>4. (T \ {c}) \ {y} = (T \ {y}) \ {c}
      OBVIOUS
    <3>5. Sum(T \ {y}) = f[c] + rest
      BY <3>3, <3>4, Zenon
    <3>6. Sum(T) = f[c] + (f[y] + rest)
      BY <2>1, <3>2
    <3>7. f[y] \in Int /\ f[c] \in Int /\ rest \in Int
      BY <1>0, <2>1
    <3> HIDE DEF rest
    <3> QED
      BY <3>5, <3>6, <3>7
  <2> QED
    BY <2>2, <2>3
<1>3. S \in F
  <2> HIDE DEF F
  <2> QED
    BY <1>2, SubsetInduction
<1> QED
  BY <1>3 DEF Sum

(* A sum depends on its summands only, and grows with each of them.        *)
LEMMA SumMonotone ==
    ASSUME NEW S, IsFiniteSet(S), NEW f, NEW g,
           \A x \in S : f[x] \in Int /\ g[x] \in Int /\ f[x] <= g[x]
    PROVE  SumFunctionOnSet(f, S) <= SumFunctionOnSet(g, S)
<1> DEFINE F == {T \in SUBSET S : SumFunctionOnSet(f, T) <= SumFunctionOnSet(g, T)}
<1>1. ASSUME NEW T \in SUBSET S, \A U \in SUBSET T : U # T => U \in F PROVE T \in F
  <2> DEFINE U == T \ {Any(T)}
  <2>1. IsFiniteSet(T) /\ IsFiniteSet(U) /\ U \in SUBSET S
    BY FS_Subset
  <2>2. /\ SumFunctionOnSet(f, T) = IF T = {} THEN 0 ELSE f[Any(T)] + SumFunctionOnSet(f, U)
        /\ SumFunctionOnSet(g, T) = IF T = {} THEN 0 ELSE g[Any(T)] + SumFunctionOnSet(g, U)
    BY <2>1, SumStep
  <2>3. SumFunctionOnSet(f, U) \in Int /\ SumFunctionOnSet(g, U) \in Int
    BY <2>1, SumType
  <2>4. T # {} => Any(T) \in S /\ SumFunctionOnSet(f, U) <= SumFunctionOnSet(g, U)
    BY <1>1, AnyIn
  <2> HIDE DEF U
  <2> QED
    BY <2>2, <2>3, <2>4
<1>2. S \in F
  <2> HIDE DEF F
  <2> QED
    BY <1>1, SubsetInduction
<1> QED
  BY <1>2

LEMMA SumSame ==
    ASSUME NEW S, IsFiniteSet(S), NEW f, NEW g,
           \A x \in S : f[x] \in Int /\ f[x] = g[x]
    PROVE  SumFunctionOnSet(f, S) = SumFunctionOnSet(g, S)
<1>1. \A x \in S : f[x] \in Int /\ g[x] \in Int /\ f[x] <= g[x] /\ g[x] <= f[x]
  OBVIOUS
<1>2. SumFunctionOnSet(f, S) \in Int /\ SumFunctionOnSet(g, S) \in Int
  BY <1>1, SumType
<1>3. SumFunctionOnSet(f, S) <= SumFunctionOnSet(g, S)
  BY <1>1, SumMonotone
<1>4. SumFunctionOnSet(g, S) <= SumFunctionOnSet(f, S)
  BY <1>1, SumMonotone
<1> QED
  BY <1>2, <1>3, <1>4

(* One summand changes.                                                    *)
LEMMA SumChange ==
    ASSUME NEW S, IsFiniteSet(S), NEW f, NEW g, NEW x \in S,
           \A y \in S : f[y] \in Int /\ g[y] \in Int /\ (y # x => f[y] = g[y])
    PROVE  SumFunctionOnSet(g, S) = SumFunctionOnSet(f, S) - f[x] + g[x]
<1>1. IsFiniteSet(S \ {x}) /\ f[x] \in Int /\ g[x] \in Int
  BY FS_RemoveElement
<1>2. SumFunctionOnSet(f, S \ {x}) = SumFunctionOnSet(g, S \ {x})
  BY <1>1, SumSame
<1>3. SumFunctionOnSet(f, S \ {x}) \in Int
  BY <1>1, SumType
<1>4. SumFunctionOnSet(f, S) = f[x] + SumFunctionOnSet(f, S \ {x})
  BY SumRemove
<1>5. SumFunctionOnSet(g, S) = g[x] + SumFunctionOnSet(g, S \ {x})
  BY SumRemove
<1> QED
  BY <1>1, <1>2, <1>3, <1>4, <1>5

LEMMA SumZero ==
    ASSUME NEW S, IsFiniteSet(S), NEW f, \A x \in S : f[x] = 0
    PROVE  SumFunctionOnSet(f, S) = 0
<1> DEFINE F == {T \in SUBSET S : SumFunctionOnSet(f, T) = 0}
<1>1. ASSUME NEW T \in SUBSET S, \A U \in SUBSET T : U # T => U \in F PROVE T \in F
  <2>1. SumFunctionOnSet(f, T) = IF T = {} THEN 0 ELSE f[Any(T)] + SumFunctionOnSet(f, T \ {Any(T)})
    BY FS_Subset, SumStep
  <2>2. T # {} => Any(T) \in S /\ SumFunctionOnSet(f, T \ {Any(T)}) = 0
    BY <1>1, AnyIn
  <2> QED
    BY <2>1, <2>2
<1>2. S \in F
  <2> HIDE DEF F
  <2> QED
    BY <1>1, SubsetInduction
<1> QED
  BY <1>2

(* A sum of natural numbers grows with its set.                            *)
LEMMA SumSubset ==
    ASSUME NEW S, IsFiniteSet(S), NEW f, \A x \in S : f[x] \in Nat, NEW R \in SUBSET S
    PROVE  SumFunctionOnSet(f, R) <= SumFunctionOnSet(f, S)
<1> DEFINE F == {T \in SUBSET S : SumFunctionOnSet(f, R \cap T) <= SumFunctionOnSet(f, T)}
<1>1. ASSUME NEW T \in SUBSET S, \A U \in SUBSET T : U # T => U \in F PROVE T \in F
  <2>1. CASE T = {}
    <3>1. R \cap T = {} /\ IsFiniteSet({})
      BY <2>1, FS_EmptySet
    <3>2. SumFunctionOnSet(f, {}) \in Int
      BY <3>1, SumType
    <3> QED
      BY <2>1, <3>1, <3>2
  <2>2. CASE T # {}
    <3>1. PICK x \in T : TRUE
      BY <2>2
    <3> DEFINE U == T \ {x}
    <3>2. /\ IsFiniteSet(T) /\ IsFiniteSet(R \cap T) /\ IsFiniteSet(U) /\ IsFiniteSet(R \cap U)
          /\ f[x] \in Nat /\ (\A y \in T : f[y] \in Int) /\ x \in S
      BY FS_Subset
    <3>3. SumFunctionOnSet(f, T) = f[x] + SumFunctionOnSet(f, U)
      BY <3>2, SumRemove
    <3>4. SumFunctionOnSet(f, R \cap U) <= SumFunctionOnSet(f, U)
      BY <1>1, <3>1
    <3>5. SumFunctionOnSet(f, R \cap U) \in Int /\ SumFunctionOnSet(f, U) \in Int
      BY <3>2, SumType
    <3>6. CASE x \in R
      <4>1. x \in R \cap T /\ (R \cap T) \ {x} = R \cap U /\ \A y \in R \cap T : f[y] \in Int
        BY <3>1, <3>2, <3>6
      <4>2. SumFunctionOnSet(f, R \cap T) = f[x] + SumFunctionOnSet(f, R \cap U)
        BY <3>2, <4>1, SumRemove
      <4> QED
        BY <3>2, <3>3, <3>4, <3>5, <4>2
    <3>7. CASE x \notin R
      <4>1. R \cap T = R \cap U
        BY <3>7
      <4>2. SumFunctionOnSet(f, R \cap T) = SumFunctionOnSet(f, R \cap U)
        BY <4>1, Zenon
      <4> QED
        BY <3>2, <3>3, <3>4, <3>5, <4>2
    <3> QED
      BY <3>6, <3>7
  <2> QED
    BY <2>1, <2>2
<1>2. S \in F
  <2> HIDE DEF F
  <2> QED
    BY <1>1, SubsetInduction
<1>3. R \cap S = R
  OBVIOUS
<1> QED
  BY <1>2, <1>3

(* The sum over two sets that share no element is the sum of their sums.   *)
LEMMA SumDisjoint ==
    ASSUME NEW S, IsFiniteSet(S), NEW T, IsFiniteSet(T), S \cap T = {},
           NEW f, \A x \in S \cup T : f[x] \in Int
    PROVE  SumFunctionOnSet(f, S \cup T) = SumFunctionOnSet(f, S) + SumFunctionOnSet(f, T)
<1> DEFINE Adds(U) == SumFunctionOnSet(f, S \cup U) = SumFunctionOnSet(f, S) + SumFunctionOnSet(f, U)
           F == {U \in SUBSET T : Adds(U)}
<1>1. SumFunctionOnSet(f, S) \in Int
  BY SumType
<1>2. ASSUME NEW U \in SUBSET T, \A V \in SUBSET U : V # U => V \in F PROVE U \in F
  <2>1. CASE U = {}
    <3>1. S \cup U = S /\ IsFiniteSet({})
      BY <2>1, FS_EmptySet
    <3>2. SumFunctionOnSet(f, {}) = 0
      BY <3>1, SumZero
    <3> QED
      BY <1>1, <2>1, <3>1, <3>2
  <2>2. CASE U # {}
    <3>1. PICK x \in U : TRUE
      BY <2>2
    <3> DEFINE V == U \ {x}
               A == S \cup U
               B == S \cup V
    <3>2. IsFiniteSet(U) /\ IsFiniteSet(V)
      BY FS_Subset
    <3>3. IsFiniteSet(A) /\ IsFiniteSet(B)
      BY <3>2, FS_Union
    <3>4. x \in A /\ A \ {x} = B /\ \A y \in A : f[y] \in Int
      BY <3>1
    <3>5. \A y \in U : f[y] \in Int
      OBVIOUS
    <3>6. Adds(V)
      BY <1>2, <3>1
    <3> HIDE DEF A, B, V
    <3>7. SumFunctionOnSet(f, A) = f[x] + SumFunctionOnSet(f, B)
      BY <3>3, <3>4, SumRemove
    <3>8. SumFunctionOnSet(f, U) = f[x] + SumFunctionOnSet(f, V)
      BY <3>1, <3>2, <3>5, SumRemove DEF V
    <3>9. SumFunctionOnSet(f, V) \in Int /\ f[x] \in Int
      BY <3>1, <3>2, <3>5, SumType DEF V
    <3>10. SumFunctionOnSet(f, B) = SumFunctionOnSet(f, S) + SumFunctionOnSet(f, V)
      BY <3>6 DEF B
    <3>11. SumFunctionOnSet(f, A) = SumFunctionOnSet(f, S) + SumFunctionOnSet(f, U)
      BY <1>1, <3>7, <3>8, <3>9, <3>10
    <3> QED
      BY <3>11 DEF A
  <2> QED
    BY <2>1, <2>2
<1>3. T \in F
  <2> HIDE DEF F
  <2> QED
    BY <1>2, SubsetInduction
<1> QED
  BY <1>3

(* A sum may be taken part by part, when no two parts share an element.    *)
LEMMA SumByParts ==
    ASSUME NEW K, IsFiniteSet(K), NEW S, IsFiniteSet(S), NEW part, NEW f, NEW h,
           \A k \in K : part[k] \subseteq S /\ h[k] = SumFunctionOnSet(f, part[k]),
           \A j, k \in K : j # k => part[j] \cap part[k] = {},
           \A x \in S : f[x] \in Int
    PROVE  SumFunctionOnSet(h, K) = SumFunctionOnSet(f, UNION {part[k] : k \in K})
<1> DEFINE Whole(L) == UNION {part[k] : k \in L}
           Adds(L) == SumFunctionOnSet(h, L) = SumFunctionOnSet(f, Whole(L))
           F == {L \in SUBSET K : Adds(L)}
<1>1. \A L \in SUBSET K : Whole(L) \subseteq S /\ IsFiniteSet(Whole(L)) /\ IsFiniteSet(L)
  BY FS_Subset
<1>2. \A k \in K : IsFiniteSet(part[k]) /\ \A x \in part[k] : f[x] \in Int
  BY FS_Subset
<1>3. \A k \in K : h[k] \in Int
  BY <1>2, SumType
<1>4. ASSUME NEW L \in SUBSET K, \A M \in SUBSET L : M # L => M \in F PROVE L \in F
  <2>1. CASE L = {}
    <3>1. Whole(L) = {} /\ IsFiniteSet({})
      BY <2>1, FS_EmptySet
    <3>2. SumFunctionOnSet(f, {}) = 0 /\ SumFunctionOnSet(h, {}) = 0
      BY <3>1, SumZero
    <3>3. Adds(L)
      BY <2>1, <3>1, <3>2
    <3> QED
      BY <3>3
  <2>2. CASE L # {}
    <3>1. PICK k \in L : TRUE
      BY <2>2
    <3> DEFINE M == L \ {k}
               A == Whole(M)
               B == part[k]
    <3>2. Whole(L) = A \cup B /\ A \cap B = {}
      BY <3>1
    <3>3. IsFiniteSet(A) /\ IsFiniteSet(B) /\ \A x \in A \cup B : f[x] \in Int
      BY <1>1, <1>2, <3>1
    <3>4. Adds(M)
      BY <1>4, <3>1
    <3>5. IsFiniteSet(L) /\ (\A j \in L : h[j] \in Int)
      BY <1>1, <1>3
    <3>6. SumFunctionOnSet(h, L) = h[k] + SumFunctionOnSet(h, M)
      BY <3>1, <3>5, SumRemove
    <3>7. SumFunctionOnSet(h, M) = SumFunctionOnSet(f, A) /\ h[k] = SumFunctionOnSet(f, B)
      BY <3>1, <3>4
    <3> HIDE DEF A, B, M, Whole
    <3>8. SumFunctionOnSet(f, A \cup B) = SumFunctionOnSet(f, A) + SumFunctionOnSet(f, B)
      BY <3>2, <3>3, SumDisjoint
    <3>9. SumFunctionOnSet(f, A) \in Int /\ SumFunctionOnSet(f, B) \in Int
      BY <3>3, SumType
    <3>10. SumFunctionOnSet(h, L) = SumFunctionOnSet(f, Whole(L))
      BY <3>2, <3>6, <3>7, <3>8, <3>9
    <3> QED
      BY <3>10
  <2> QED
    BY <2>1, <2>2
<1>5. K \in F
  <2> HIDE DEF F
  <2> QED
    BY <1>4, SubsetInduction
<1> QED
  BY <1>5
=============================================================================
