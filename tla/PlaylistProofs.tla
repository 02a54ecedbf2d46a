--------------------------- MODULE PlaylistProofs ---------------------------
(***************************************************************************)
(* Proofs about Playlist: what counting the items before an item gives,    *)
(* and that edits which do not overlap keep the list dense.                *)
(***************************************************************************)
EXTENDS Playlist, SumTheorems

Playlists == UNION {[s -> Nat] : s \in SUBSET Items}

LEMMA PlaylistIs == \A p : p \in Playlists <=> IsPlaylist(p)
<1> TAKE p
<1>1. ASSUME IsPlaylist(p) PROVE p \in Playlists
  BY <1>1 DEF IsPlaylist, Playlists
<1>2. ASSUME p \in Playlists PROVE IsPlaylist(p)
  <2>1. PICK s \in SUBSET Items : p \in [s -> Nat]
    BY <1>2 DEF Playlists
  <2>2. DOMAIN p = s
    BY <2>1
  <2> QED
    BY <2>1, <2>2 DEF IsPlaylist
<1> QED
  BY <1>1, <1>2

----------------------------------------------------------------------------
(* Positions.                                                              *)

Below(n) == {k - 1 : k \in 1..n}

LEMMA BelowIs ==
    ASSUME NEW n \in Nat
    PROVE  Below(n) = 0..(n - 1) /\ IsFiniteSet(Below(n)) /\ Cardinality(Below(n)) = n
<1>1. Below(n) = 0..(n - 1)
  <2>1. ASSUME NEW x \in 0..(n - 1) PROVE x \in Below(n)
    <3>1. x + 1 \in 1..n /\ x = (x + 1) - 1
      OBVIOUS
    <3> QED
      BY <3>1 DEF Below
  <2>2. ASSUME NEW x \in Below(n) PROVE x \in 0..(n - 1)
    BY DEF Below
  <2> QED
    BY <2>1, <2>2
<1>2. IsFiniteSet(0..(n - 1)) /\ Cardinality(0..(n - 1)) = n
  <2>1. 0 \in Int /\ n - 1 \in Int
    OBVIOUS
  <2>2. Cardinality(0..(n - 1)) = IF 0 > n - 1 THEN 0 ELSE (n - 1) - 0 + 1
    BY <2>1, FS_Interval
  <2> QED
    BY <2>1, <2>2, FS_Interval
<1> QED
  BY <1>1, <1>2

LEMMA DenseIs ==
    ASSUME NEW p, IsFiniteSet(DOMAIN p)
    PROVE  Dense(p) <=> Range(p) = 0..(Cardinality(DOMAIN p) - 1)
<1>1. Cardinality(DOMAIN p) \in Nat
  BY FS_CardinalityType
<1>2. Below(Cardinality(DOMAIN p)) = 0..(Cardinality(DOMAIN p) - 1)
  BY <1>1, BelowIs
<1> QED
  BY <1>2 DEF Dense, Below

LEMMA MinIn ==
    ASSUME NEW S \in SUBSET Nat, S # {}
    PROVE  Min(S) \in S
<1>1. PICK x \in S : \A y \in S : ~(<<y, x>> \in OpToRel(<, Nat))
  BY NatLessThanWellFounded, WFMin
<1>2. \A y \in S : x <= y
  <2>1. ASSUME NEW y \in S, ~(x <= y) PROVE FALSE
    <3>1. y < x /\ y \in Nat /\ x \in Nat
      BY <2>1
    <3>2. <<y, x>> \in OpToRel(<, Nat)
      BY <3>1 DEF OpToRel
    <3> QED
      BY <1>1, <3>2
  <2> QED
    BY <2>1
<1> QED
  BY <1>2 DEF Min

LEMMA MaxIn ==
    ASSUME NEW S \in SUBSET Nat, IsFiniteSet(S), S # {}
    PROVE  Max(S) \in S /\ \A y \in S : Max(S) >= y
<1> DEFINE F == {T \in SUBSET S : T = {} \/ \E m \in T : \A y \in T : m >= y}
<1>1. ASSUME NEW T \in SUBSET S, \A U \in SUBSET T : U # T => U \in F PROVE T \in F
  <2>1. CASE T = {}
    BY <2>1
  <2>2. CASE T # {}
    <3>1. PICK x \in T : TRUE
      BY <2>2
    <3>2. T \ {x} \in F
      BY <1>1
    <3>3. CASE T \ {x} = {}
      <4>1. \A y \in T : x >= y
        BY <3>3
      <4> QED
        BY <4>1
    <3>4. CASE \E m \in T \ {x} : \A y \in T \ {x} : m >= y
      <4>1. PICK m \in T \ {x} : \A y \in T \ {x} : m >= y
        BY <3>4
      <4>2. CASE m >= x
        <5>1. \A y \in T : m >= y
          BY <4>1, <4>2
        <5> QED
          BY <5>1
      <4>3. CASE ~(m >= x)
        <5>1. \A y \in T : x >= y
          BY <4>1, <4>3
        <5> QED
          BY <5>1
      <4> QED
        BY <4>2, <4>3
    <3> QED
      BY <3>2, <3>3, <3>4
  <2> QED
    BY <2>1, <2>2
<1>2. SUBSET S \subseteq F
  <2> HIDE DEF F
  <2> QED
    BY <1>1, SubsetInduction
<1>3. S \in F
  BY <1>2
<1> QED
  BY <1>3 DEF Max

(* Distinct ranks below their number are all of them.                      *)
LEMMA RanksAreDense ==
    ASSUME NEW f, IsFiniteSet(DOMAIN f), f = [i \in DOMAIN f |-> f[i]],
           \A i \in DOMAIN f : f[i] \in Nat /\ f[i] < Cardinality(DOMAIN f),
           \A i, k \in DOMAIN f : f[i] = f[k] => i = k
    PROVE  Dense(f)
<1> DEFINE D == DOMAIN f
           n == Cardinality(D)
           R == Below(n)
<1>1. n \in Nat
  BY FS_CardinalityType
<1>2. R = 0..(n - 1) /\ IsFiniteSet(R) /\ Cardinality(R) = n
  BY <1>1, BelowIs
<1>3. f \in [D -> R]
  <2>1. \A i \in D : f[i] \in 0..(n - 1)
    BY <1>1
  <2> QED
    BY <2>1, <1>2
<1>4. f \in Injection(D, R)
  BY <1>3 DEF Injection, IsInjective
<1>5. f \in Surjection(D, R)
  <2> HIDE DEF D, R
  <2>1. Cardinality(D) = Cardinality(R)
    BY <1>2 DEF n
  <2> QED
    BY <2>1, <1>4, <1>2, FS_Injection
<1>6. Range(f) = R
  BY <1>5 DEF Surjection, Range
<1> QED
  BY <1>6 DEF Dense, Below

(* Counting what comes before: a strict order that tells items apart.      *)
LEMMA CountsAreDense ==
    ASSUME NEW D, IsFiniteSet(D), NEW before \in [D -> SUBSET D],
           \A i \in D : i \notin before[i],
           \A i, k, l \in D : i \in before[k] /\ k \in before[l] => i \in before[l],
           \A i, k \in D : i # k => i \in before[k] \/ k \in before[i],
           NEW f, f = [i \in D |-> Cardinality(before[i])]
    PROVE  /\ f \in [D -> Nat] /\ Dense(f)
           /\ \A i, k \in D : i \in before[k] => f[i] < f[k]
<1>1. \A i \in D : IsFiniteSet(before[i]) /\ Cardinality(before[i]) \in Nat
  BY FS_Subset, FS_CardinalityType
<1>2. ASSUME NEW i \in D, NEW k \in D, i \in before[k] PROVE f[i] < f[k]
  <2>1. before[i] \in SUBSET before[k]
    BY <1>2
  <2>2. before[i] # before[k]
    BY <1>2
  <2>3. Cardinality(before[i]) <= Cardinality(before[k])
        /\ (Cardinality(before[k]) = Cardinality(before[i]) => before[k] = before[i])
    BY <1>1, <2>1, FS_Subset
  <2> QED
    BY <1>1, <2>2, <2>3
<1>3. ASSUME NEW i \in D PROVE f[i] \in Nat /\ f[i] < Cardinality(D)
  <2>1. before[i] \in SUBSET D /\ before[i] # D
    OBVIOUS
  <2>2. Cardinality(before[i]) <= Cardinality(D)
        /\ (Cardinality(D) = Cardinality(before[i]) => D = before[i])
    BY <2>1, FS_Subset
  <2>3. Cardinality(D) \in Nat
    BY FS_CardinalityType
  <2> QED
    BY <1>1, <2>1, <2>2, <2>3
<1>4. ASSUME NEW i \in D, NEW k \in D, f[i] = f[k] PROVE i = k
  BY <1>2, <1>3, <1>4
<1>5. DOMAIN f = D /\ f = [i \in DOMAIN f |-> f[i]]
  OBVIOUS
<1>6. Dense(f)
  BY <1>3, <1>4, <1>5, RanksAreDense
<1>7. f \in [D -> Nat]
  BY <1>1
<1> QED
  BY <1>2, <1>6, <1>7

(* A list in its order is dense, and keeps that order.                     *)
LEMMA OrdersDense ==
    ASSUME NEW p \in Playlists, IsFiniteSet(DOMAIN p), NEW f \in Orders(p)
    PROVE  /\ f \in [DOMAIN p -> Nat] /\ Dense(f) /\ SameOrder(p, f)
<1> DEFINE D == DOMAIN p
           tied == {i \in D : \E k \in D \ {i} : p[i] = p[k]}
           ranks == {t \in [tied -> 1..Cardinality(tied)] : IsInjective(t)}
<1>1. PICK t \in ranks : f = [i \in D |-> Cardinality({k \in D :
            p[k] < p[i] \/ (k # i /\ p[k] = p[i] /\ t[k] < t[i])})]
  BY Zenon DEF Orders
<1>2. p \in [D -> Nat]
  BY PlaylistIs DEF IsPlaylist
<1>3. IsFiniteSet(tied) /\ Cardinality(tied) \in Nat
  BY FS_Subset, FS_CardinalityType
<1>4. /\ \A i \in tied : t[i] \in Nat
      /\ \A i, k \in tied : t[i] = t[k] => i = k
  <2>1. t \in [tied -> 1..Cardinality(tied)] /\ IsInjective(t)
    OBVIOUS
  <2> HIDE DEF tied, ranks
  <2>2. \A i \in tied : t[i] \in 1..Cardinality(tied)
    BY <2>1
  <2>3. DOMAIN t = tied
    BY <2>1
  <2> QED
    BY <1>3, <2>1, <2>2, <2>3 DEF IsInjective
<1>5. \A i, k \in D : i # k /\ p[i] = p[k] => i \in tied /\ k \in tied
  OBVIOUS
<1> DEFINE before == [i \in D |-> {k \in D :
            p[k] < p[i] \/ (k # i /\ p[k] = p[i] /\ t[k] < t[i])}]
<1>6. \A i, k \in D : k \in before[i] <=>
            p[k] < p[i] \/ (k # i /\ p[k] = p[i] /\ t[k] < t[i])
  OBVIOUS
<1>7. before \in [D -> SUBSET D]
  OBVIOUS
<1>8. f = [i \in D |-> Cardinality(before[i])]
  BY <1>1
<1> HIDE DEF tied, ranks, before
<1>9. \A i \in D : i \notin before[i]
  BY <1>2, <1>6
<1>10. ASSUME NEW i \in D, NEW k \in D, NEW l \in D, i \in before[k], k \in before[l]
       PROVE  i \in before[l]
  <2>1. p[i] \in Nat /\ p[k] \in Nat /\ p[l] \in Nat
    BY <1>2
  <2>2. CASE p[i] = p[k] /\ p[k] = p[l]
    <3>1. i # k /\ k # l /\ t[i] < t[k] /\ t[k] < t[l]
      BY <1>6, <1>10, <2>1, <2>2
    <3>2. i \in tied /\ k \in tied /\ l \in tied
      BY <1>5, <2>2, <3>1
    <3>3. t[i] < t[l] /\ t[i] \in Nat /\ t[l] \in Nat
      BY <1>4, <3>1, <3>2
    <3> QED
      BY <1>6, <2>2, <3>3
  <2>3. CASE p[i] < p[k] \/ p[k] < p[l]
    <3>1. p[i] <= p[k] /\ p[k] <= p[l]
      BY <1>6, <1>10, <2>1
    <3> QED
      BY <1>6, <2>1, <2>3, <3>1
  <2> QED
    BY <1>6, <1>10, <2>1, <2>2, <2>3
<1>11. ASSUME NEW i \in D, NEW k \in D, i # k PROVE i \in before[k] \/ k \in before[i]
  <2>1. p[i] \in Nat /\ p[k] \in Nat
    BY <1>2
  <2>2. CASE p[i] = p[k]
    <3>1. i \in tied /\ k \in tied
      BY <1>5, <1>11, <2>2
    <3>2. t[i] # t[k] /\ t[i] \in Nat /\ t[k] \in Nat
      BY <1>4, <1>11, <3>1
    <3> QED
      BY <1>6, <1>11, <2>2, <3>2
  <2> QED
    BY <1>6, <2>1, <2>2
<1>12. /\ f \in [D -> Nat] /\ Dense(f)
       /\ \A i, k \in D : i \in before[k] => f[i] < f[k]
  <2> HIDE DEF D
  <2>1. IsFiniteSet(D)
    BY DEF D
  <2> QED
    BY <2>1, <1>7, <1>8, <1>9, <1>10, <1>11, CountsAreDense
<1>13. \A i, k \in D : p[i] < p[k] => f[i] < f[k]
  BY <1>6, <1>12
<1> QED
  BY <1>12, <1>13 DEF SameOrder

(* The two orders a reorder may ask for.                                   *)
LEMMA ListsDense ==
    ASSUME NEW s \in SUBSET Nat, IsFiniteSet(s), NEW f \in Lists(s)
    PROVE  f \in [s -> Nat] /\ Dense(f)
<1> DEFINE D == s
<1> SUFFICES f \in [D -> Nat] /\ Dense(f)
  OBVIOUS
<1>1. CASE f = [i \in D |-> Cardinality({k \in D : k < i})]
  <2> DEFINE before == [i \in D |-> {k \in D : k < i}]
  <2>1. before \in [D -> SUBSET D] /\ f = [i \in D |-> Cardinality(before[i])]
    BY <1>1
  <2>2. \A i \in D : i \notin before[i]
    OBVIOUS
  <2>3. \A i, k, l \in D : i \in before[k] /\ k \in before[l] => i \in before[l]
    OBVIOUS
  <2>4. ASSUME NEW i \in D, NEW k \in D, i # k PROVE i \in before[k] \/ k \in before[i]
    BY <2>4
  <2>5. IsFiniteSet(D)
    OBVIOUS
  <2> HIDE DEF before, D
  <2> QED
    BY <2>1, <2>2, <2>3, <2>4, <2>5, CountsAreDense
<1>2. CASE f = [i \in D |-> Cardinality({k \in D : k > i})]
  <2> DEFINE before == [i \in D |-> {k \in D : k > i}]
  <2>1. before \in [D -> SUBSET D] /\ f = [i \in D |-> Cardinality(before[i])]
    BY <1>2
  <2>2. \A i \in D : i \notin before[i]
    OBVIOUS
  <2>3. \A i, k, l \in D : i \in before[k] /\ k \in before[l] => i \in before[l]
    OBVIOUS
  <2>4. ASSUME NEW i \in D, NEW k \in D, i # k PROVE i \in before[k] \/ k \in before[i]
    BY <2>4
  <2>5. IsFiniteSet(D)
    OBVIOUS
  <2> HIDE DEF before, D
  <2> QED
    BY <2>1, <2>2, <2>3, <2>4, <2>5, CountsAreDense
<1> QED
  BY <1>1, <1>2 DEF Lists

(* The next position is a position, and the length of a dense list.        *)
LEMMA NextPositionIs ==
    ASSUME NEW p \in Playlists, IsFiniteSet(DOMAIN p)
    PROVE  /\ NextPosition(p) \in Nat
           /\ Dense(p) => NextPosition(p) = Cardinality(DOMAIN p)
<1>1. p \in [DOMAIN p -> Nat] /\ Range(p) \in SUBSET Nat
  BY PlaylistIs DEF IsPlaylist, Range
<1>2. CASE DOMAIN p = {}
  <2>1. Cardinality(DOMAIN p) = 0
    BY <1>2, FS_EmptySet
  <2> QED
    BY <1>2, <2>1 DEF NextPosition
<1>3. CASE DOMAIN p # {}
  <2>1. p \in Surjection(DOMAIN p, Range(p))
    BY <1>1 DEF Surjection, Range
  <2>2. IsFiniteSet(Range(p)) /\ Range(p) # {}
    BY <2>1, <1>3, FS_Surjection DEF Range
  <2>3. Max(Range(p)) \in Range(p) /\ \A y \in Range(p) : Max(Range(p)) >= y
    BY <1>1, <2>2, MaxIn
  <2>4. NextPosition(p) = Max(Range(p)) + 1
    BY <1>3 DEF NextPosition
  <2>5. ASSUME Dense(p) PROVE Max(Range(p)) = Cardinality(DOMAIN p) - 1
    <3>1. Cardinality(DOMAIN p) \in Nat /\ Cardinality(DOMAIN p) # 0
      BY <1>3, FS_CardinalityType, FS_EmptySet
    <3>2. Range(p) = 0..(Cardinality(DOMAIN p) - 1)
      BY <2>5, DenseIs
    <3>3. Cardinality(DOMAIN p) - 1 \in Range(p)
      BY <3>1, <3>2
    <3> QED
      BY <2>3, <3>1, <3>2, <3>3
  <2>6. Cardinality(DOMAIN p) \in Nat
    BY FS_CardinalityType
  <2> QED
    BY <1>1, <2>3, <2>4, <2>5, <2>6
<1> QED
  BY <1>2, <1>3

(* A dense list behind a dense list.                                       *)
LEMMA AppendDense ==
    ASSUME NEW p \in Playlists, IsFiniteSet(DOMAIN p), Dense(p),
           NEW b \in Playlists, IsFiniteSet(DOMAIN b), Dense(b),
           DOMAIN b \cap DOMAIN p = {},
           NEW q, DOMAIN q = DOMAIN b \cup DOMAIN p,
           \A i \in DOMAIN b : q[i] = NextPosition(p) + b[i],
           \A i \in DOMAIN p : q[i] = p[i]
    PROVE  Dense(q)
<1> DEFINE m == Cardinality(DOMAIN p)
           n == Cardinality(DOMAIN b)
<1>1. m \in Nat /\ n \in Nat
  BY FS_CardinalityType
<1>2. Range(p) = 0..(m - 1) /\ Range(b) = 0..(n - 1) /\ NextPosition(p) = m
  BY DenseIs, NextPositionIs
<1>3. IsFiniteSet(DOMAIN q) /\ Cardinality(DOMAIN q) = n + m
  <2>1. Cardinality(DOMAIN b \cap DOMAIN p) = 0
    BY FS_EmptySet
  <2>2. /\ IsFiniteSet(DOMAIN b \cup DOMAIN p)
        /\ Cardinality(DOMAIN b \cup DOMAIN p) = n + m - Cardinality(DOMAIN b \cap DOMAIN p)
    BY FS_Union
  <2> QED
    BY <1>1, <2>1, <2>2
<1>4. Range(q) = 0..(n + m - 1)
  <2>1. ASSUME NEW x \in Range(q) PROVE x \in 0..(n + m - 1)
    <3>1. PICK i \in DOMAIN q : x = q[i]
      BY DEF Range
    <3>2. CASE i \in DOMAIN b
      <4>1. b[i] \in 0..(n - 1)
        BY <1>2, <3>2 DEF Range
      <4>2. x = m + b[i]
        BY <1>2, <3>1, <3>2
      <4> QED
        BY <1>1, <4>1, <4>2
    <3>3. CASE i \in DOMAIN p
      <4>1. p[i] \in 0..(m - 1) /\ x = p[i]
        BY <1>2, <3>1, <3>3 DEF Range
      <4> QED
        BY <1>1, <4>1
    <3> QED
      BY <3>1, <3>2, <3>3
  <2>2. ASSUME NEW x \in 0..(n + m - 1) PROVE x \in Range(q)
    <3>1. CASE x < m
      <4>1. x \in Range(p)
        BY <1>1, <1>2, <3>1
      <4>2. PICK i \in DOMAIN p : x = p[i]
        BY <4>1 DEF Range
      <4> QED
        BY <4>2 DEF Range
    <3>2. CASE ~(x < m)
      <4>1. x - m \in 0..(n - 1)
        BY <1>1, <3>2
      <4>2. x - m \in Range(b)
        BY <1>2, <4>1
      <4>3. PICK i \in DOMAIN b : x - m = b[i]
        BY <4>2 DEF Range
      <4>4. q[i] = m + (x - m)
        BY <1>2, <4>3
      <4>5. m + (x - m) = x
        BY <1>1
      <4> QED
        BY <4>4, <4>5 DEF Range
    <3> QED
      BY <3>1, <3>2
  <2> QED
    BY <2>1, <2>2
<1>5. Cardinality(DOMAIN q) - 1 = n + m - 1
  BY <1>1, <1>3
<1> QED
  BY <1>3, <1>4, <1>5, DenseIs

----------------------------------------------------------------------------
(* The invariant.                                                          *)

Appends(j) == Kind[j] \in {"add", "preset"}
Packs(j) == Kind[j] \in {"delete", "reorder"}
Deleting(r) == r.stage \in {"delete", "pack"}
Writes(r) == r.stage \in {"update", "commit"}

\* What a record holds at its stage, whatever the others do.
Shape(j, r) ==
    /\ r.stage = "new" => r = Unsent
    /\ r.stage = "done" => r = Over
    /\ r.gone \subseteq r.held
    /\ r.gone \cap DOMAIN r.put = {}
    /\ r.gone \cap r.left = {}
    /\ DOMAIN r.put \subseteq r.held \cup DOMAIN Brings[j]
    /\ Deleting(r) => Kind[j] \in {"delete", "replace"} /\ DOMAIN r.put = {}
    /\ r.stage = "pack" => Kind[j] = "delete"
    /\ r.stage = "update" => Kind[j] \in {"delete", "reorder", "patch"} /\ r.left # {}
    /\ r.stage = "commit" => r.left = {}
    /\ Writes(r) /\ Kind[j] # "replace" /\ ~Appends(j) => DOMAIN r.put \subseteq r.held
    /\ Appends(j) => r.held = {}
    /\ Kind[j] \in {"reorder", "patch"} => r.gone = {}
    /\ Kind[j] = "patch" => DOMAIN r.want = {}

\* What it holds while no other edit has committed since it read the list p.
Kept(j, r, p) ==
    r.alone /\ r.stage \notin {"new", "done"} =>
        /\ r.left \subseteq DOMAIN p
        /\ Appends(j) => r.put = Placed(j, NextPosition(p))
        /\ Kind[j] = "replace" /\ r.stage = "delete" => r.left \cup r.gone = DOMAIN p
        /\ Kind[j] = "replace" /\ r.stage = "commit" =>
              r.gone = DOMAIN p /\ r.put = Placed(j, 0)
        /\ Kind[j] = "patch" => DOMAIN r.put = {}
        /\ Kind[j] = "delete" /\ Writes(r) => r.want \in Orders(Without(p, r.gone))
        /\ Kind[j] = "reorder" => r.want \in Lists(DOMAIN p)
        /\ Packs(j) /\ Writes(r) =>
              /\ r.left \cup DOMAIN r.put = Changed(p, r.want)
              /\ \A i \in DOMAIN r.put : r.put[i] = r.want[i]

RecordsInv == \A j \in Jobs : Shape(j, req[j]) /\ Kept(j, req[j], rows)

\* Nobody deletes a row another has written, and what a request brings is not there
\* before it is over.
RowsInv ==
    /\ \A j \in Jobs : req[j].held \subseteq Present
    /\ \A j, q \in Jobs : j # q => req[j].held \cap req[q].held = {}
    /\ \A j \in Jobs : req[j].stage # "done" => DOMAIN Brings[j] \cap Present = {}

\* Requests of one key follow one another, so that overlap takes two, or the portal.
Mixed == \E j, q \in Begun : KeyOf[j] # KeyOf[q] \/ KeyOf[j] = None

KeysInv ==
    /\ IsFiniteSet(Begun)
    /\ \A j, q \in Jobs : j # q /\ Active(j) /\ Active(q) => KeyOf[j] # KeyOf[q] \/ KeyOf[j] = None
    /\ overlapped \/ (\E j \in Jobs : ~req[j].alone) => Mixed

OrderInv == ~overlapped => Dense(rows)

Requests == [stage : {"new", "delete", "pack", "update", "commit", "done"},
             left : SUBSET Items, many : BOOLEAN, want : Playlists,
             held : SUBSET Items, gone : SUBSET Items, put : Playlists, alone : BOOLEAN]

TypeInv ==
    /\ rows \in Playlists /\ IsFiniteSet(Present)
    /\ overlapped \in BOOLEAN
    /\ req \in [Jobs -> Requests]

IInv == TypeInv /\ RecordsInv /\ RowsInv /\ KeysInv /\ OrderInv

(* Only the record of one request changes.                                 *)
Sets(j, r) == req' = [req EXCEPT ![j] = r] /\ UNCHANGED <<rows, overlapped>>

LEMMA SetsIs ==
    ASSUME TypeInv, NEW j \in Jobs, NEW r \in Requests, Sets(j, r)
    PROVE  /\ req' \in [Jobs -> Requests] /\ req'[j] = r
           /\ \A q \in Jobs : q # j => req'[q] = req[q]
           /\ rows' = rows /\ overlapped' = overlapped /\ Present' = Present
  BY DEF TypeInv, Sets, Present

LEMMA SetsKeepsKeys ==
    ASSUME TypeInv, KeysInv, NEW j \in Jobs, NEW r \in Requests, Sets(j, r),
           r.stage # "new", req[j].stage # "done",
           req[j].stage = "new" => KeyFree(j),
           r.alone = req[j].alone \/ r.alone
    PROVE  KeysInv' /\ (Mixed => Mixed')
<1>1. /\ req' \in [Jobs -> Requests] /\ req'[j] = r
      /\ \A q \in Jobs : q # j => req'[q] = req[q]
      /\ overlapped' = overlapped
  BY SetsIs
<1>2. Begun' = Begun \cup {j}
  BY <1>1 DEF Begun
<1>3. IsFiniteSet(Begun')
  BY <1>2, FS_AddElement DEF KeysInv
<1>4. Mixed => Mixed'
  BY <1>2 DEF Mixed
<1>5. ASSUME NEW q \in Jobs, Active(q)' PROVE Active(q) \/ (q = j /\ KeyFree(j))
  BY <1>1, <1>5 DEF Active
<1>6. ASSUME NEW q \in Jobs, NEW x \in Jobs, q # x, Active(q)', Active(x)'
      PROVE  KeyOf[q] # KeyOf[x] \/ KeyOf[q] = None
  <2>1. CASE Active(q) /\ Active(x)
    BY <1>6, <2>1 DEF KeysInv
  <2>2. CASE q = j /\ KeyFree(j) /\ Active(x)
    BY <1>6, <2>2 DEF KeyFree
  <2>3. CASE x = j /\ KeyFree(j) /\ Active(q)
    BY <1>6, <2>3 DEF KeyFree
  <2> QED
    BY <1>5, <1>6, <2>1, <2>2, <2>3
<1>7. ASSUME NEW q \in Jobs, ~req'[q].alone PROVE ~req[q].alone
  <2>1. CASE q = j
    BY <1>1, <1>7, <2>1
  <2>2. CASE q # j
    BY <1>1, <1>7, <2>2
  <2> QED
    BY <2>1, <2>2
<1>8. (overlapped \/ (\E q \in Jobs : ~req[q].alone)) => Mixed
  BY DEF KeysInv
<1>9. (overlapped' \/ (\E q \in Jobs : ~req'[q].alone)) => Mixed'
  BY <1>1, <1>4, <1>7, <1>8
<1> QED
  BY <1>3, <1>4, <1>6, <1>9 DEF KeysInv

LEMMA SetsKeeps ==
    ASSUME IInv, NEW j \in Jobs, NEW r \in Requests, Sets(j, r),
           r.stage # "new", req[j].stage # "done",
           req[j].stage = "new" => KeyFree(j),
           r.alone = req[j].alone \/ r.alone,
           Shape(j, r), Kept(j, r, rows), r.held \subseteq Present,
           \A q \in Jobs : q # j => r.held \cap req[q].held = {}
    PROVE  IInv'
<1> USE DEF IInv
<1>1. /\ req' \in [Jobs -> Requests] /\ req'[j] = r
      /\ \A q \in Jobs : q # j => req'[q] = req[q]
      /\ rows' = rows /\ overlapped' = overlapped /\ Present' = Present
  BY SetsIs
<1>2. TypeInv'
  BY <1>1 DEF TypeInv
<1>3. RecordsInv'
  <2>1. ASSUME NEW q \in Jobs PROVE Shape(q, req'[q]) /\ Kept(q, req'[q], rows)
    <3>1. CASE q = j
      BY <1>1, <3>1
    <3>2. CASE q # j
      BY <1>1, <3>2 DEF RecordsInv
    <3> QED
      BY <3>1, <3>2
  <2> QED
    BY <1>1, <2>1 DEF RecordsInv
<1>4. RowsInv'
  <2>1. ASSUME NEW q \in Jobs PROVE req'[q].held \subseteq Present'
    BY <1>1 DEF RowsInv
  <2>2. ASSUME NEW q \in Jobs, NEW x \in Jobs, q # x PROVE req'[q].held \cap req'[x].held = {}
    <3>1. CASE q = j
      BY <1>1, <2>2, <3>1
    <3>2. CASE x = j
      <4>1. r.held \cap req[q].held = {}
        BY <2>2, <3>2
      <4> QED
        BY <1>1, <2>2, <3>2, <4>1
    <3>3. CASE q # j /\ x # j
      BY <1>1, <2>2, <3>3 DEF RowsInv
    <3> QED
      BY <3>1, <3>2, <3>3
  <2>3. ASSUME NEW q \in Jobs, req'[q].stage # "done" PROVE DOMAIN Brings[q] \cap Present' = {}
    <3>1. CASE q = j
      BY <1>1, <3>1 DEF RowsInv
    <3>2. CASE q # j
      <4>1. req[q].stage # "done"
        BY <1>1, <2>3, <3>2
      <4> QED
        BY <1>1, <4>1 DEF RowsInv
    <3> QED
      BY <3>1, <3>2
  <2> QED
    BY <2>1, <2>2, <2>3 DEF RowsInv
<1>5. KeysInv'
  BY SetsKeepsKeys
<1>6. OrderInv'
  BY <1>1 DEF OrderInv
<1> QED
  BY <1>2, <1>3, <1>4, <1>5, <1>6

----------------------------------------------------------------------------
(* The steps.                                                              *)

LEMMA NothingIs == Nothing \in Playlists /\ DOMAIN Nothing = {}
<1>1. Nothing \in [{} -> Nat] /\ DOMAIN Nothing = {}
  BY DEF Nothing
<1>2. {} \in SUBSET Items
  OBVIOUS
<1> QED
  BY <1>1, <1>2 DEF Playlists

LEMMA UnsentIs ==
    /\ Unsent \in Requests /\ Over \in Requests
    /\ Unsent.stage = "new" /\ Unsent.left = {} /\ Unsent.want = Nothing
    /\ Unsent.held = {} /\ Unsent.gone = {} /\ Unsent.put = Nothing /\ Unsent.alone
    /\ Over.stage = "done" /\ Over.left = {} /\ Over.want = Nothing
    /\ Over.held = {} /\ Over.gone = {} /\ Over.put = Nothing /\ Over.alone
  BY NothingIs DEF Unsent, Over, Requests

LEMMA OverFits ==
    ASSUME NEW j \in Jobs, NEW p
    PROVE  Shape(j, Over) /\ Kept(j, Over, p) /\ Shape(j, Unsent) /\ Kept(j, Unsent, p)
  BY UnsentIs, NothingIs DEF Shape, Kept, Deleting, Writes

LEMMA PlacedIs ==
    ASSUME NEW j \in Jobs, NEW n \in Nat
    PROVE  Placed(j, n) \in Playlists /\ DOMAIN Placed(j, n) = DOMAIN Brings[j]
<1>1. DOMAIN Brings[j] \subseteq Items /\ \A i \in DOMAIN Brings[j] : Brings[j][i] \in Nat
  BY PlaylistAssumption DEF IsPlaylist
<1>2. \A i \in DOMAIN Brings[j] : n + Brings[j][i] \in Nat
  BY <1>1
<1>3. Placed(j, n) \in [DOMAIN Brings[j] -> Nat]
  BY <1>2 DEF Placed
<1> QED
  BY <1>1, <1>3 DEF Playlists

(* The beginning of a request.                                             *)
LEMMA BeginKeeps ==
    ASSUME IInv, NEW j \in Jobs, NEW r \in Requests, Begin(j, r),
           r.stage # "new", r.held = {}, r.alone, Shape(j, r), Kept(j, r, rows)
    PROVE  IInv'
<1>1. Sets(j, r) /\ req[j].stage = "new" /\ KeyFree(j)
  BY DEF Begin, Sets
<1> QED
  BY <1>1, SetsKeeps

LEMMA FailKeeps == ASSUME IInv, NEW j \in Jobs, Fail(j) PROVE IInv'
<1>1. Sets(j, Over) /\ req[j].stage # "new" /\ req[j].stage # "done"
  BY DEF Fail, Sets, Active
<1>2. /\ Over \in Requests /\ Over.stage # "new" /\ Over.alone /\ Over.held = {}
      /\ Shape(j, Over) /\ Kept(j, Over, rows)
  BY UnsentIs, OverFits
<1> QED
  BY <1>1, <1>2, SetsKeeps

LEMMA AppendKeeps ==
    ASSUME IInv, NEW j \in Jobs, Appends(j), Append(j)
    PROVE  IInv'
<1> DEFINE placed == Placed(j, NextPosition(rows))
           r == [Unsent EXCEPT !.stage = "commit", !.put = placed]
<1>1. placed \in Playlists /\ DOMAIN placed = DOMAIN Brings[j]
  <2>1. NextPosition(rows) \in Nat
    BY NextPositionIs DEF IInv, TypeInv, Present
  <2> QED
    BY <2>1, PlacedIs
<1>2. Begin(j, r)
  BY DEF Append
<1> HIDE DEF placed
<1>3. /\ r \in Requests /\ r.stage = "commit" /\ r.put = placed
      /\ r.left = {} /\ r.held = {} /\ r.gone = {} /\ r.alone
  BY <1>1, UnsentIs DEF Unsent, Requests
<1> HIDE DEF r
<1>4. Kind[j] \notin {"delete", "replace", "reorder", "patch"}
  BY DEF Appends
<1>5. Shape(j, r)
  BY <1>1, <1>3, <1>4 DEF Shape, Deleting, Writes
<1>6. Kept(j, r, rows)
  BY <1>3, <1>4 DEF Kept, Deleting, Writes, Packs, placed
<1> QED
  BY <1>2, <1>3, <1>5, <1>6, BeginKeeps

LEMMA AddKeeps == ASSUME IInv, NEW j \in Jobs, Add(j) PROVE IInv'
  BY AppendKeeps DEF Add, Appends

LEMMA LoadPresetKeeps == ASSUME IInv, NEW j \in Jobs, LoadPreset(j) PROVE IInv'
  BY AppendKeeps DEF LoadPreset, Appends

LEMMA PresentIs == ASSUME IInv PROVE Present \subseteq Items /\ rows \in [Present -> Nat]
  BY PlaylistIs DEF IInv, TypeInv, IsPlaylist, Present

LEMMA DeleteKeeps == ASSUME IInv, NEW j \in Jobs, Delete(j) PROVE IInv'
<1> DEFINE r == [Unsent EXCEPT !.stage = "delete", !.left = {Names[j]} \cap Present]
<1>1. Begin(j, r) /\ Kind[j] = "delete"
  BY DEF Delete
<1>2. /\ r \in Requests /\ r.stage = "delete" /\ r.put = Nothing
      /\ r.left = {Names[j]} \cap Present /\ r.held = {} /\ r.gone = {} /\ r.alone
  BY UnsentIs, PresentIs DEF Unsent, Requests
<1> HIDE DEF r
<1>3. Shape(j, r)
  BY <1>1, <1>2, NothingIs DEF Shape, Deleting, Writes, Appends
<1>4. Kept(j, r, rows)
  BY <1>1, <1>2 DEF Kept, Writes, Appends, Packs, Present
<1> QED
  BY <1>1, <1>2, <1>3, <1>4, BeginKeeps

LEMMA ReplaceKeeps == ASSUME IInv, NEW j \in Jobs, Replace(j) PROVE IInv'
<1> DEFINE r == [Unsent EXCEPT !.stage = "delete", !.left = Present]
<1>1. Begin(j, r) /\ Kind[j] = "replace"
  BY DEF Replace
<1>2. /\ r \in Requests /\ r.stage = "delete" /\ r.put = Nothing
      /\ r.left = Present /\ r.held = {} /\ r.gone = {} /\ r.alone
  BY UnsentIs, PresentIs DEF Unsent, Requests
<1> HIDE DEF r
<1>3. Shape(j, r)
  BY <1>1, <1>2, NothingIs DEF Shape, Deleting, Writes, Appends
<1>4. Kept(j, r, rows)
  BY <1>1, <1>2 DEF Kept, Writes, Appends, Packs, Present
<1> QED
  BY <1>1, <1>2, <1>3, <1>4, BeginKeeps

LEMMA PatchKeeps == ASSUME IInv, NEW j \in Jobs, Patch(j) PROVE IInv'
<1> DEFINE r == [Unsent EXCEPT !.stage = "update", !.left = {Names[j]}]
<1>1. Begin(j, r) /\ Kind[j] = "patch" /\ Names[j] \in Present
  BY DEF Patch
<1>2. /\ r \in Requests /\ r.stage = "update" /\ r.put = Nothing /\ r.want = Nothing
      /\ r.left = {Names[j]} /\ r.held = {} /\ r.gone = {} /\ r.alone
  BY <1>1, UnsentIs, PresentIs DEF Unsent, Requests
<1> HIDE DEF r
<1>3. Shape(j, r)
  BY <1>1, <1>2, NothingIs DEF Shape, Deleting, Writes, Appends
<1>4. Kept(j, r, rows)
  BY <1>1, <1>2, NothingIs DEF Kept, Writes, Appends, Packs, Present
<1> QED
  BY <1>1, <1>2, <1>3, <1>4, BeginKeeps

(* A request that has worked out positions writes those that change.       *)
LEMMA WritingIs ==
    ASSUME NEW r \in Requests, NEW p, NEW want \in Playlists
    PROVE  /\ Writing(r, p, want) \in Requests
           /\ Writing(r, p, want).stage \in {"update", "commit"}
           /\ Writing(r, p, want).stage = "commit" <=> Changed(p, want) = {}
           /\ Writing(r, p, want).left = Changed(p, want)
           /\ Writing(r, p, want).want = want
           /\ Writing(r, p, want).held = r.held
           /\ Writing(r, p, want).gone = r.gone
           /\ Writing(r, p, want).put = r.put
           /\ Writing(r, p, want).alone = r.alone
<1>1. Changed(p, want) \in SUBSET Items
  BY PlaylistIs DEF Changed, IsPlaylist
<1>2. DEFINE s == IF Changed(p, want) = {} THEN "commit" ELSE "update"
             m == Cardinality(Changed(p, want)) > 1
<1>3. m \in BOOLEAN /\ s \in {"update", "commit"}
  OBVIOUS
<1>4. Writing(r, p, want) = [r EXCEPT !.stage = s, !.want = want, !.left = Changed(p, want),
                                      !.many = m]
  BY DEF Writing
<1> HIDE DEF m
<1> DEFINE c == Changed(p, want)
<1>5. Writing(r, p, want) = [r EXCEPT !.stage = s, !.want = want, !.left = c, !.many = m]
  BY <1>4
<1>6. c \in SUBSET Items
  BY <1>1
<1>7. s \in {"update", "commit"} /\ (s = "commit" <=> c = {})
  OBVIOUS
<1> HIDE DEF s, c
<1>8. /\ Writing(r, p, want) \in Requests
      /\ Writing(r, p, want).stage = s /\ Writing(r, p, want).left = c
      /\ Writing(r, p, want).want = want /\ Writing(r, p, want).held = r.held
      /\ Writing(r, p, want).gone = r.gone /\ Writing(r, p, want).put = r.put
      /\ Writing(r, p, want).alone = r.alone
  BY <1>3, <1>5, <1>6, <1>7 DEF Requests
<1> QED
  BY <1>7, <1>8 DEF c

LEMMA ReorderKeeps == ASSUME IInv, NEW j \in Jobs, Reorder(j) PROVE IInv'
<1>1. PICK want \in Lists(Present) : Begin(j, Writing(Unsent, rows, want))
  BY DEF Reorder
<1>2. Kind[j] = "reorder"
  BY DEF Reorder
<1>3. Present \in SUBSET Nat /\ IsFiniteSet(Present) /\ Present \subseteq Items
  BY PresentIs, PlaylistAssumption DEF IInv, TypeInv
<1>4. want \in [Present -> Nat]
  BY <1>3, ListsDense
<1>5. want \in Playlists /\ DOMAIN want = Present
  BY <1>3, <1>4 DEF Playlists
<1> DEFINE r == Writing(Unsent, rows, want)
<1>6. /\ r \in Requests /\ r.stage \in {"update", "commit"}
      /\ r.stage = "commit" <=> Changed(rows, want) = {}
      /\ r.left = Changed(rows, want) /\ r.want = want
      /\ r.held = {} /\ r.gone = {} /\ r.put = Nothing /\ r.alone
  BY <1>5, UnsentIs, WritingIs
<1>7. Changed(rows, want) \subseteq Present
  BY <1>5 DEF Changed
<1> HIDE DEF r
<1>8. Shape(j, r)
  BY <1>2, <1>6, NothingIs DEF Shape, Deleting, Writes, Appends
<1>9. Kept(j, r, rows)
  BY <1>2, <1>6, <1>7, NothingIs DEF Kept, Writes, Appends, Packs, Present
<1>10. Begin(j, r)
  BY <1>1 DEF r
<1> QED
  BY <1>6, <1>8, <1>9, <1>10, BeginKeeps

(* Statements of a request that is under way: the row locks it needs.      *)
LEMMA StepKeeps ==
    ASSUME IInv, NEW j \in Jobs, NEW r \in Requests, Sets(j, r),
           req[j].stage \notin {"new", "done"}, r.stage # "new", r.alone = req[j].alone,
           Shape(j, r), Kept(j, r, rows),
           r.held = req[j].held
             \/ \E i \in Present : Writers(j, i) = {} /\ r.held = req[j].held \cup {i}
    PROVE  IInv'
<1>1. req[j].held \subseteq Present /\ \A q \in Jobs : q # j => req[j].held \cap req[q].held = {}
  BY DEF IInv, RowsInv
<1>2. r.held \subseteq Present /\ \A q \in Jobs : q # j => r.held \cap req[q].held = {}
  <2>1. CASE r.held = req[j].held
    BY <1>1, <2>1
  <2>2. CASE \E i \in Present : Writers(j, i) = {} /\ r.held = req[j].held \cup {i}
    <3>1. PICK i \in Present : Writers(j, i) = {} /\ r.held = req[j].held \cup {i}
      BY <2>2
    <3>2. \A q \in Jobs : q # j => i \notin req[q].held
      BY <3>1 DEF Writers
    <3> QED
      BY <1>1, <3>1, <3>2
  <2> QED
    BY <2>1, <2>2
<1> QED
  BY <1>2, SetsKeeps

LEMMA RequestIs ==
    ASSUME IInv, NEW j \in Jobs
    PROVE  /\ req[j] \in Requests /\ Shape(j, req[j]) /\ Kept(j, req[j], rows)
           /\ req[j].want \in Playlists /\ req[j].put \in Playlists
           /\ req[j].left \subseteq Items /\ req[j].held \subseteq Present
  BY DEF IInv, TypeInv, RecordsInv, RowsInv, Requests

LEMMA DeleteRowKeeps == ASSUME IInv, NEW j \in Jobs, DeleteRow(j) PROVE IInv'
<1>1. /\ req[j] \in Requests /\ Shape(j, req[j]) /\ Kept(j, req[j], rows)
      /\ req[j].held \subseteq Present
  BY RequestIs
<1>2. /\ req[j].stage = "delete" /\ Kind[j] \in {"delete", "replace"}
      /\ DOMAIN req[j].put = {} /\ req[j].gone \subseteq req[j].held
      /\ req[j].gone \cap req[j].left = {}
      /\ Kind[j] = "replace" => ~Appends(j) /\ ~Packs(j)
      /\ Kind[j] = "delete" => ~Appends(j)
  BY <1>1 DEF DeleteRow, Shape, Deleting, Appends, Packs
<1>3. CASE req[j].left = {} /\ Kind[j] = "delete"
  <2> DEFINE r == [req[j] EXCEPT !.stage = "pack"]
  <2>1. Sets(j, r)
    BY <1>3 DEF DeleteRow, Sets
  <2>2. /\ r \in Requests /\ r.stage = "pack" /\ r.put = req[j].put /\ r.left = {}
        /\ r.held = req[j].held /\ r.gone = req[j].gone /\ r.alone = req[j].alone
    BY <1>1, <1>3 DEF Requests
  <2> HIDE DEF r
  <2>3. Shape(j, r)
    BY <1>2, <1>3, <2>2 DEF Shape, Deleting, Writes
  <2>4. Kept(j, r, rows)
    BY <1>2, <1>3, <2>2 DEF Kept, Writes
  <2> QED
    BY <1>2, <2>1, <2>2, <2>3, <2>4, StepKeeps
<1>4. CASE req[j].left = {} /\ Kind[j] # "delete"
  <2> DEFINE r == [req[j] EXCEPT !.stage = "commit", !.put = Placed(j, 0)]
  <2>1. Sets(j, r)
    BY <1>4 DEF DeleteRow, Sets
  <2>2. Placed(j, 0) \in Playlists /\ DOMAIN Placed(j, 0) = DOMAIN Brings[j]
    BY PlacedIs
  <2>3. /\ r \in Requests /\ r.stage = "commit" /\ r.put = Placed(j, 0) /\ r.left = {}
        /\ r.held = req[j].held /\ r.gone = req[j].gone /\ r.alone = req[j].alone
    BY <1>1, <1>4, <2>2 DEF Requests
  <2>4. DOMAIN Brings[j] \cap Present = {}
    BY <1>2 DEF IInv, RowsInv
  <2>5. Kind[j] = "replace" /\ r.gone \cap DOMAIN r.put = {}
    BY <1>1, <1>2, <1>4, <2>2, <2>3, <2>4
  <2>6. req[j].alone => req[j].gone = DOMAIN rows
    BY <1>1, <1>2, <1>4, <2>5 DEF Kept
  <2> HIDE DEF r
  <2>7. Shape(j, r)
    BY <1>2, <2>2, <2>3, <2>5 DEF Shape, Deleting, Writes
  <2>8. Kept(j, r, rows)
    BY <1>2, <2>3, <2>5, <2>6 DEF Kept, Writes
  <2> QED
    BY <1>2, <2>1, <2>3, <2>7, <2>8, StepKeeps
<1>5. CASE req[j].left # {}
  <2>1. PICK i \in req[j].left :
           /\ Writers(j, i) = {}
           /\ req' = [req EXCEPT ![j] =
                 [req[j] EXCEPT !.left = req[j].left \ {i},
                                !.held = req[j].held \cup ({i} \cap Present),
                                !.gone = req[j].gone \cup ({i} \cap Present)]]
    BY <1>5 DEF DeleteRow
  <2> DEFINE r == [req[j] EXCEPT !.left = req[j].left \ {i},
                                 !.held = req[j].held \cup ({i} \cap Present),
                                 !.gone = req[j].gone \cup ({i} \cap Present)]
  <2>2. Sets(j, r)
    BY <2>1 DEF DeleteRow, Sets
  <2>3. /\ r \in Requests /\ r.stage = "delete" /\ r.put = req[j].put
        /\ r.left = req[j].left \ {i} /\ r.held = req[j].held \cup ({i} \cap Present)
        /\ r.gone = req[j].gone \cup ({i} \cap Present) /\ r.alone = req[j].alone
    BY <1>1, <1>2, PresentIs DEF Requests
  <2> HIDE DEF r
  <2>4. Shape(j, r)
    BY <1>1, <1>2, <2>3 DEF Shape, Deleting, Writes
  <2>5. Kept(j, r, rows)
    <3>1. SUFFICES ASSUME r.alone PROVE Kept(j, r, rows)
      BY DEF Kept
    <3>2. req[j].left \subseteq DOMAIN rows
          /\ (Kind[j] = "replace" => req[j].left \cup req[j].gone = DOMAIN rows)
      BY <1>1, <1>2, <2>3, <3>1 DEF Kept
    <3>3. i \in Present /\ r.left \subseteq DOMAIN rows
          /\ (Kind[j] = "replace" => r.left \cup r.gone = DOMAIN rows)
      BY <2>3, <3>2 DEF Present
    <3> QED
      BY <1>2, <2>3, <3>3 DEF Kept, Writes
  <2>6. r.held = req[j].held
        \/ \E k \in Present : Writers(j, k) = {} /\ r.held = req[j].held \cup {k}
    <3>1. CASE i \in Present
      <4>1. r.held = req[j].held \cup {i}
        BY <2>3, <3>1
      <4> QED
        BY <2>1, <3>1, <4>1
    <3>2. CASE i \notin Present
      <4>1. r.held = req[j].held
        BY <2>3, <3>2
      <4> QED
        BY <4>1
    <3> QED
      BY <3>1, <3>2
  <2> QED
    BY <1>2, <2>2, <2>3, <2>4, <2>5, <2>6, StepKeeps
<1> QED
  BY <1>3, <1>4, <1>5

LEMMA WithoutIs ==
    ASSUME IInv, NEW s
    PROVE  /\ Without(rows, s) \in Playlists /\ IsFiniteSet(DOMAIN Without(rows, s))
           /\ DOMAIN Without(rows, s) = Present \ s
           /\ \A i \in Present \ s : Without(rows, s)[i] = rows[i]
<1>1. /\ DOMAIN Without(rows, s) = Present \ s
      /\ \A i \in Present \ s : Without(rows, s)[i] = rows[i]
  BY DEF Without, Restrict, Present
<1>2. Present \ s \in SUBSET Items /\ \A i \in Present \ s : rows[i] \in Nat
  BY PresentIs
<1>3. Without(rows, s) \in [Present \ s -> Nat]
  BY <1>2 DEF Without, Restrict, Present
<1>4. IsFiniteSet(Present \ s)
  BY FS_Subset DEF IInv, TypeInv
<1> QED
  BY <1>1, <1>2, <1>3, <1>4 DEF Playlists

LEMMA PackKeeps == ASSUME IInv, NEW j \in Jobs, Pack(j) PROVE IInv'
<1>1. /\ req[j] \in Requests /\ Shape(j, req[j]) /\ Kept(j, req[j], rows)
      /\ req[j].stage = "pack" /\ Kind[j] = "delete"
  BY RequestIs DEF Pack, Shape
<1>2. PICK want \in Packed(j) : req' = [req EXCEPT ![j] = Writing(req[j], rows, want)]
  BY DEF Pack
<1>3. want \in Orders(Without(rows, req[j].gone))
  BY <1>2 DEF Packed
<1>4. /\ Without(rows, req[j].gone) \in Playlists
      /\ IsFiniteSet(DOMAIN Without(rows, req[j].gone))
      /\ DOMAIN Without(rows, req[j].gone) = Present \ req[j].gone
  BY WithoutIs
<1>5. want \in [Present \ req[j].gone -> Nat]
  BY <1>3, <1>4, OrdersDense
<1>6. want \in Playlists /\ DOMAIN want = Present \ req[j].gone
  BY <1>5, PresentIs DEF Playlists
<1> DEFINE r == Writing(req[j], rows, want)
<1>7. /\ r \in Requests /\ r.stage \in {"update", "commit"}
      /\ r.stage = "commit" <=> Changed(rows, want) = {}
      /\ r.left = Changed(rows, want) /\ r.want = want
      /\ r.held = req[j].held /\ r.gone = req[j].gone /\ r.put = req[j].put
      /\ r.alone = req[j].alone
  BY <1>1, <1>6, WritingIs
<1>8. Sets(j, r)
  BY <1>2 DEF Pack, Sets
<1>9. Changed(rows, want) \subseteq Present \ req[j].gone
  BY <1>6 DEF Changed
<1>10. DOMAIN req[j].put = {} /\ req[j].gone \subseteq req[j].held
  BY <1>1 DEF Shape, Deleting
<1> HIDE DEF r
<1>11. Shape(j, r)
  BY <1>1, <1>7, <1>9, <1>10 DEF Shape, Deleting, Writes, Appends
<1>12. Kept(j, r, rows)
  BY <1>1, <1>3, <1>7, <1>9, <1>10 DEF Kept, Writes, Appends, Packs, Present
<1> QED
  BY <1>1, <1>7, <1>8, <1>11, <1>12, StepKeeps

LEMMA PlacingIs ==
    ASSUME NEW a \in Playlists, NEW b \in Playlists
    PROVE  /\ Placing(a, b) \in Playlists
           /\ DOMAIN Placing(a, b) = DOMAIN a \cup DOMAIN b
           /\ \A i \in DOMAIN a : Placing(a, b)[i] = a[i]
           /\ \A i \in DOMAIN b : i \notin DOMAIN a => Placing(a, b)[i] = b[i]
<1>1. /\ DOMAIN a \subseteq Items /\ \A i \in DOMAIN a : a[i] \in Nat
      /\ DOMAIN b \subseteq Items /\ \A i \in DOMAIN b : b[i] \in Nat
  BY PlaylistIs DEF IsPlaylist
<1>2. /\ DOMAIN Placing(a, b) = DOMAIN a \cup DOMAIN b
      /\ \A i \in DOMAIN a : Placing(a, b)[i] = a[i]
      /\ \A i \in DOMAIN b : i \notin DOMAIN a => Placing(a, b)[i] = b[i]
  BY DEF Placing
<1>3. Placing(a, b) \in [DOMAIN a \cup DOMAIN b -> Nat]
  <2>1. \A i \in DOMAIN a \cup DOMAIN b : (IF i \in DOMAIN a THEN a[i] ELSE b[i]) \in Nat
    BY <1>1
  <2> QED
    BY <2>1 DEF Placing
<1> QED
  BY <1>1, <1>2, <1>3 DEF Playlists

LEMMA UpdateKeeps == ASSUME IInv, NEW j \in Jobs, Update(j) PROVE IInv'
<1> DEFINE i == Min(req[j].left)
           rest == [req[j] EXCEPT !.left = req[j].left \ {i},
                                  !.stage = IF req[j].left = {i} THEN "commit" ELSE "update"]
           moved == Restrict(req[j].want, {i} \cap DOMAIN req[j].want)
           put == Placing(moved, req[j].put)
           r == [rest EXCEPT !.held = req[j].held \cup {i}, !.put = put]
<1>1. /\ req[j] \in Requests /\ Shape(j, req[j]) /\ Kept(j, req[j], rows)
      /\ req[j].want \in Playlists /\ req[j].put \in Playlists
      /\ req[j].left \subseteq Items /\ req[j].stage = "update"
  BY RequestIs DEF Update
<1>2. /\ Kind[j] \in {"delete", "reorder", "patch"} /\ req[j].left # {}
      /\ ~Appends(j) /\ Kind[j] # "replace"
      /\ req[j].gone \subseteq req[j].held /\ req[j].gone \cap req[j].left = {}
      /\ req[j].gone \cap DOMAIN req[j].put = {} /\ DOMAIN req[j].put \subseteq req[j].held
      /\ (Kind[j] \in {"reorder", "patch"} => req[j].gone = {})
      /\ (Kind[j] = "patch" => DOMAIN req[j].want = {} /\ ~Packs(j))
  BY <1>1 DEF Shape, Writes, Appends, Packs
<1>3. i \in req[j].left
  BY <1>1, <1>2, MinIn, PlaylistAssumption
<1>4. /\ Writers(j, i) = {} /\ UNCHANGED <<rows, overlapped>>
      /\ \/ i \in Present /\ req' = [req EXCEPT ![j] = r]
         \/ i \notin Present /\ req' = [req EXCEPT ![j] = Over]
         \/ i \notin Present /\ req[j].many /\ req' = [req EXCEPT ![j] = rest]
  BY Zenon DEF Update
<1>5. /\ moved \in Playlists /\ DOMAIN moved = {i} \cap DOMAIN req[j].want
      /\ \A k \in DOMAIN moved : moved[k] = req[j].want[k]
  <2>1. /\ DOMAIN req[j].want \subseteq Items
        /\ \A k \in DOMAIN req[j].want : req[j].want[k] \in Nat
    BY <1>1, PlaylistIs DEF IsPlaylist
  <2> HIDE DEF i
  <2>2. moved \in [{i} \cap DOMAIN req[j].want -> Nat]
    BY <2>1 DEF Restrict
  <2>3. \A k \in DOMAIN moved : moved[k] = req[j].want[k]
    BY DEF Restrict
  <2> HIDE DEF moved
  <2> QED
    BY <2>1, <2>2, <2>3 DEF Playlists
<1> HIDE DEF i, moved
<1>6. /\ put \in Playlists /\ DOMAIN put = DOMAIN moved \cup DOMAIN req[j].put
      /\ \A k \in DOMAIN moved : put[k] = moved[k]
      /\ \A k \in DOMAIN req[j].put : k \notin DOMAIN moved => put[k] = req[j].put[k]
  BY <1>1, <1>5, PlacingIs
<1> HIDE DEF put
<1>7. /\ rest \in Requests /\ rest.left = req[j].left \ {i} /\ rest.want = req[j].want
      /\ rest.stage = (IF req[j].left = {i} THEN "commit" ELSE "update")
      /\ rest.held = req[j].held /\ rest.gone = req[j].gone /\ rest.put = req[j].put
      /\ rest.alone = req[j].alone
  BY <1>1 DEF Requests
<1> HIDE DEF rest
<1>8. /\ rest.stage \in {"update", "commit"} /\ (rest.stage = "commit" <=> rest.left = {})
  BY <1>3, <1>7
<1>9. CASE i \in Present /\ req' = [req EXCEPT ![j] = r]
  <2>1. /\ r \in Requests /\ r.left = rest.left /\ r.want = rest.want
        /\ r.stage = rest.stage /\ r.held = req[j].held \cup {i} /\ r.gone = rest.gone
        /\ r.put = put /\ r.alone = rest.alone
    BY <1>1, <1>3, <1>6, <1>7 DEF Requests
  <2>2. Sets(j, r)
    BY <1>4, <1>9 DEF Sets
  <2> HIDE DEF r
  <2>3. Shape(j, r)
    <3>1. DOMAIN r.put \subseteq r.held /\ r.gone \cap DOMAIN r.put = {}
      BY <1>2, <1>3, <1>5, <1>6, <1>7, <2>1
    <3>2. r.gone \subseteq r.held /\ r.gone \cap r.left = {}
      BY <1>2, <1>7, <2>1
    <3> QED
      BY <1>2, <1>7, <1>8, <2>1, <3>1, <3>2 DEF Shape, Deleting, Writes
  <2>4. Kept(j, r, rows)
    <3>1. SUFFICES ASSUME r.alone PROVE Kept(j, r, rows)
      BY DEF Kept
    <3>2. req[j].alone
      BY <1>7, <2>1, <3>1
    <3>3. /\ req[j].left \subseteq DOMAIN rows
          /\ Kind[j] = "patch" => DOMAIN req[j].put = {}
          /\ Kind[j] = "delete" => req[j].want \in Orders(Without(rows, req[j].gone))
          /\ Kind[j] = "reorder" => req[j].want \in Lists(DOMAIN rows)
          /\ Packs(j) =>
                /\ req[j].left \cup DOMAIN req[j].put = Changed(rows, req[j].want)
                /\ \A k \in DOMAIN req[j].put : req[j].put[k] = req[j].want[k]
      BY <1>1, <3>2 DEF Kept, Writes
    <3>4. Kind[j] = "patch" => DOMAIN r.put = {}
      BY <1>2, <1>5, <1>6, <2>1, <3>3
    <3>5. ASSUME Packs(j)
          PROVE  /\ r.left \cup DOMAIN r.put = Changed(rows, r.want)
                 /\ \A k \in DOMAIN r.put : r.put[k] = r.want[k]
      <4>1. i \in DOMAIN req[j].want
        BY <1>3, <3>3, <3>5 DEF Changed
      <4>2. DOMAIN moved = {i}
        BY <1>5, <4>1
      <4>3. r.left \cup DOMAIN r.put = req[j].left \cup DOMAIN req[j].put
        BY <1>3, <1>6, <1>7, <2>1, <4>2
      <4>4. ASSUME NEW k \in DOMAIN put PROVE put[k] = req[j].want[k]
        <5>1. CASE k \in DOMAIN moved
          BY <1>5, <1>6, <5>1
        <5>2. CASE k \notin DOMAIN moved
          BY <1>6, <3>3, <3>5, <4>4, <5>2
        <5> QED
          BY <5>1, <5>2
      <4> QED
        BY <1>7, <2>1, <3>3, <3>5, <4>3, <4>4
    <3>6. /\ r.left \subseteq DOMAIN rows
          /\ Kind[j] = "delete" => r.want \in Orders(Without(rows, r.gone))
          /\ Kind[j] = "reorder" => r.want \in Lists(DOMAIN rows)
      BY <1>7, <2>1, <3>3
    <3> QED
      BY <1>2, <3>4, <3>5, <3>6 DEF Kept
  <2>5. r.stage # "new" /\ r.alone = req[j].alone
    BY <1>7, <1>8, <2>1
  <2>6. \E k \in Present : Writers(j, k) = {} /\ r.held = req[j].held \cup {k}
    BY <1>4, <1>9, <2>1
  <2> QED
    BY <1>1, <2>1, <2>2, <2>3, <2>4, <2>5, <2>6, StepKeeps
<1>10. CASE i \notin Present /\ req' = [req EXCEPT ![j] = Over]
  <2>1. Fail(j)
    BY <1>1, <1>4, <1>10 DEF Fail, Active
  <2> QED
    BY <2>1, FailKeeps
<1>11. CASE i \notin Present /\ req[j].many /\ req' = [req EXCEPT ![j] = rest]
  <2>1. Sets(j, rest)
    BY <1>4, <1>11 DEF Sets
  <2>2. Shape(j, rest)
    BY <1>2, <1>7, <1>8 DEF Shape, Deleting, Writes
  <2>3. ~req[j].alone
    BY <1>1, <1>3, <1>11 DEF Kept, Present
  <2>4. Kept(j, rest, rows)
    BY <1>7, <2>3 DEF Kept
  <2> QED
    BY <1>1, <1>7, <1>8, <2>1, <2>2, <2>4, StepKeeps
<1> QED
  BY <1>4, <1>9, <1>10, <1>11

----------------------------------------------------------------------------
(* The commit.                                                             *)

LEMMA CommitIs ==
    ASSUME IInv, NEW j \in Jobs, Commit(j)
    PROVE  /\ rows' \in Playlists /\ IsFiniteSet(Present')
           /\ Present' = DOMAIN req[j].put \cup (Present \ req[j].gone)
           /\ \A i \in DOMAIN req[j].put : rows'[i] = req[j].put[i]
           /\ \A i \in Present \ req[j].gone :
                 i \notin DOMAIN req[j].put => rows'[i] = rows[i]
<1>1. /\ req[j].put \in Playlists /\ req[j].held \subseteq Present
      /\ DOMAIN req[j].put \subseteq req[j].held \cup DOMAIN Brings[j]
  BY RequestIs DEF Shape
<1>2. /\ Without(rows, req[j].gone) \in Playlists
      /\ DOMAIN Without(rows, req[j].gone) = Present \ req[j].gone
      /\ \A i \in Present \ req[j].gone : Without(rows, req[j].gone)[i] = rows[i]
  BY WithoutIs
<1>3. rows' = Placing(req[j].put, Without(rows, req[j].gone))
  BY DEF Commit
<1>4. /\ rows' \in Playlists
      /\ DOMAIN rows' = DOMAIN req[j].put \cup (Present \ req[j].gone)
      /\ \A i \in DOMAIN req[j].put : rows'[i] = req[j].put[i]
      /\ \A i \in Present \ req[j].gone :
            i \notin DOMAIN req[j].put => rows'[i] = rows[i]
  BY <1>1, <1>2, <1>3, PlacingIs
<1>5. DOMAIN rows' \in SUBSET (Present \cup DOMAIN Brings[j])
  BY <1>1, <1>4
<1>6. IsFiniteSet(Present \cup DOMAIN Brings[j])
  BY PlaylistAssumption, FS_Union DEF IInv, TypeInv
<1>7. IsFiniteSet(DOMAIN rows')
  BY <1>5, <1>6, FS_Subset
<1> QED
  BY <1>4, <1>7 DEF Present

LEMMA CommitRequests ==
    ASSUME IInv, NEW j \in Jobs, Commit(j)
    PROVE  /\ req' \in [Jobs -> Requests] /\ req'[j] = Over
           /\ \A q \in Jobs : q # j =>
                 /\ req'[q].stage = req[q].stage /\ req'[q].held = req[q].held
                 /\ Active(q) => req'[q] = [req[q] EXCEPT !.alone = FALSE]
                 /\ ~Active(q) => req'[q] = req[q]
<1>1. req' = [q \in Jobs |-> IF q = j THEN Over
                             ELSE IF Active(q) THEN [req[q] EXCEPT !.alone = FALSE]
                             ELSE req[q]]
  BY DEF Commit
<1>2. \A q \in Jobs : req[q] \in Requests
  BY RequestIs
<1>3. req'[j] = Over
  BY <1>1
<1>4. ASSUME NEW q \in Jobs, q # j
      PROVE  /\ req'[q].stage = req[q].stage /\ req'[q].held = req[q].held
             /\ Active(q) => req'[q] = [req[q] EXCEPT !.alone = FALSE]
             /\ ~Active(q) => req'[q] = req[q]
             /\ req'[q] \in Requests
  <2>1. CASE Active(q)
    <3>1. req'[q] = [req[q] EXCEPT !.alone = FALSE]
      BY <1>1, <1>4, <2>1
    <3> QED
      BY <1>2, <2>1, <3>1 DEF Requests
  <2>2. CASE ~Active(q)
    <3>1. req'[q] = req[q]
      BY <1>1, <1>4, <2>2
    <3> QED
      BY <1>2, <2>2, <3>1
  <2> QED
    BY <2>1, <2>2
<1>5. req' \in [Jobs -> Requests]
  <2>1. \A q \in Jobs : req'[q] \in Requests
    BY <1>3, <1>4, UnsentIs
  <2>2. req' = [q \in Jobs |-> req'[q]]
    BY <1>1
  <2> QED
    BY <2>1, <2>2
<1> QED
  BY <1>3, <1>4, <1>5

(* What an edit that no other one overlapped leaves behind.                *)
LEMMA CommitAlone ==
    ASSUME IInv, NEW j \in Jobs, Commit(j), req[j].alone
    PROVE  /\ Packs(j) \/ Kind[j] = "replace" => Dense(rows')
           /\ Kind[j] = "delete" => SameOrder(rows, rows')
           /\ Dense(rows) => Dense(rows')
<1>1. /\ rows' \in Playlists
      /\ DOMAIN rows' = DOMAIN req[j].put \cup (Present \ req[j].gone)
      /\ \A i \in DOMAIN req[j].put : rows'[i] = req[j].put[i]
      /\ \A i \in Present \ req[j].gone :
            i \notin DOMAIN req[j].put => rows'[i] = rows[i]
  BY CommitIs DEF Present
<1>2. /\ Shape(j, req[j]) /\ Kept(j, req[j], rows) /\ req[j].stage = "commit"
      /\ Present = DOMAIN rows
  BY RequestIs DEF Commit, Present
<1>3. req[j].left = {} /\ Writes(req[j])
  BY <1>2 DEF Shape, Writes
<1>4. rows' \in [DOMAIN rows' -> Nat] /\ rows' = [i \in DOMAIN rows' |-> rows'[i]]
  BY <1>1, PlaylistIs DEF IsPlaylist
<1>5. CASE Packs(j)
  <2> DEFINE want == req[j].want
             p == Without(rows, req[j].gone)
  <2>1. /\ DOMAIN req[j].put = Changed(rows, want)
        /\ \A i \in DOMAIN req[j].put : req[j].put[i] = want[i]
    BY <1>2, <1>3, <1>5 DEF Kept
  <2>2. /\ want \in [Present \ req[j].gone -> Nat] /\ Dense(want)
        /\ Kind[j] = "delete" => SameOrder(p, want)
    <3>1. CASE Kind[j] = "delete"
      <4>1. want \in Orders(p)
        BY <1>2, <1>3, <3>1 DEF Kept
      <4>2. p \in Playlists /\ IsFiniteSet(DOMAIN p) /\ DOMAIN p = Present \ req[j].gone
        BY WithoutIs
      <4> HIDE DEF want, p
      <4>3. want \in [DOMAIN p -> Nat] /\ Dense(want) /\ SameOrder(p, want)
        BY <4>1, <4>2, OrdersDense
      <4> QED
        BY <4>2, <4>3
    <3>2. CASE Kind[j] = "reorder"
      <4>1. want \in Lists(Present) /\ req[j].gone = {}
        BY <1>2, <3>2 DEF Kept, Shape
      <4>2. Present \in SUBSET Nat /\ IsFiniteSet(Present)
        BY PresentIs, PlaylistAssumption DEF IInv, TypeInv
      <4>3. want \in [Present -> Nat] /\ Dense(want)
        BY <4>1, <4>2, ListsDense
      <4> QED
        BY <3>2, <4>1, <4>3
    <3> QED
      BY <1>5, <3>1, <3>2 DEF Packs
  <2> HIDE DEF want
  <2>3. DOMAIN want = Present \ req[j].gone
    BY <2>2
  <2>4. Changed(rows, want) \subseteq DOMAIN want
    BY DEF Changed
  <2>5. DOMAIN rows' = DOMAIN want
    BY <1>1, <2>1, <2>3, <2>4
  <2>6. ASSUME NEW i \in DOMAIN want PROVE rows'[i] = want[i]
    <3>1. CASE i \in Changed(rows, want)
      BY <1>1, <2>1, <3>1
    <3>2. CASE i \notin Changed(rows, want)
      BY <1>1, <2>1, <2>3, <3>2 DEF Changed
    <3> QED
      BY <3>1, <3>2
  <2>7. want = [i \in DOMAIN want |-> want[i]]
    BY <2>2
  <2>8. rows' = want
    BY <1>4, <2>5, <2>6, <2>7
  <2>9. ASSUME Kind[j] = "delete" PROVE SameOrder(rows, rows')
    <3>1. \A i \in Present \ req[j].gone : p[i] = rows[i]
      BY WithoutIs
    <3> HIDE DEF p
    <3> QED
      BY <2>2, <2>3, <2>8, <2>9, <3>1 DEF SameOrder
  <2> QED
    BY <2>2, <2>8, <2>9
<1>6. CASE Kind[j] = "replace"
  <2>1. req[j].gone = DOMAIN rows /\ req[j].put = Placed(j, 0)
    BY <1>2, <1>6 DEF Kept
  <2>2. DOMAIN rows' = DOMAIN Brings[j]
    BY <1>1, <1>2, <2>1, PlacedIs
  <2>3. \A i \in DOMAIN Brings[j] : rows'[i] = Brings[j][i]
    <3>1. \A i \in DOMAIN Brings[j] : rows'[i] = Placed(j, 0)[i]
      BY <1>1, <2>1, PlacedIs
    <3>2. \A i \in DOMAIN Brings[j] : Brings[j][i] \in Nat
      BY PlaylistAssumption DEF IsPlaylist
    <3>3. \A i \in DOMAIN Brings[j] : Placed(j, 0)[i] = 0 + Brings[j][i]
      BY DEF Placed
    <3>4. ASSUME NEW i \in DOMAIN Brings[j] PROVE 0 + Brings[j][i] = Brings[j][i]
      BY <3>2
    <3> QED
      BY <3>1, <3>3, <3>4
  <2>4. Brings[j] = [i \in DOMAIN Brings[j] |-> Brings[j][i]]
    BY PlaylistAssumption DEF IsPlaylist
  <2>5. rows' = Brings[j]
    BY <1>4, <2>2, <2>3, <2>4
  <2> QED
    BY <1>6, <2>5, PlaylistAssumption
<1>7. CASE Appends(j)
  <2>1. /\ req[j].put = Placed(j, NextPosition(rows)) /\ req[j].gone = {}
        /\ Kind[j] # "delete" /\ Kind[j] # "replace" /\ ~Packs(j)
    BY <1>2, <1>7 DEF Kept, Shape, Appends, Packs
  <2>2. /\ rows \in Playlists /\ IsFiniteSet(DOMAIN rows) /\ NextPosition(rows) \in Nat
    BY NextPositionIs DEF IInv, TypeInv, Present
  <2>3. /\ Brings[j] \in Playlists /\ IsFiniteSet(DOMAIN Brings[j]) /\ Dense(Brings[j])
    BY PlaylistAssumption, PlaylistIs
  <2>4. DOMAIN Brings[j] \cap DOMAIN rows = {}
    BY <1>2 DEF IInv, RowsInv
  <2>5. DOMAIN rows' = DOMAIN Brings[j] \cup DOMAIN rows
    BY <1>1, <1>2, <2>1, <2>2, PlacedIs
  <2>6. \A i \in DOMAIN Brings[j] : rows'[i] = NextPosition(rows) + Brings[j][i]
    <3>1. \A i \in DOMAIN Brings[j] : rows'[i] = Placed(j, NextPosition(rows))[i]
      BY <1>1, <2>1, <2>2, PlacedIs
    <3> QED
      BY <3>1 DEF Placed
  <2>7. \A i \in DOMAIN rows : rows'[i] = rows[i]
    <3>1. DOMAIN req[j].put = DOMAIN Brings[j]
      BY <2>1, <2>2, PlacedIs
    <3> QED
      BY <1>1, <1>2, <2>1, <2>4, <3>1
  <2>8. Dense(rows) => Dense(rows')
    BY <2>2, <2>3, <2>4, <2>5, <2>6, <2>7, AppendDense
  <2> QED
    BY <2>1, <2>8
<1>8. CASE Kind[j] = "patch"
  <2>1. DOMAIN req[j].put = {} /\ req[j].gone = {} /\ ~Packs(j)
    BY <1>2, <1>8 DEF Kept, Shape, Packs
  <2>2. DOMAIN rows' = DOMAIN rows /\ \A i \in DOMAIN rows : rows'[i] = rows[i]
    BY <1>1, <1>2, <2>1
  <2>3. rows = [i \in DOMAIN rows |-> rows[i]]
    BY <1>2, PresentIs
  <2>4. rows' = rows
    BY <1>4, <2>2, <2>3
  <2> QED
    BY <1>8, <2>1, <2>4
<1>9. Packs(j) \/ Kind[j] = "replace" \/ Appends(j) \/ Kind[j] = "patch"
  BY PlaylistAssumption DEF Packs, Appends, Kinds
<1> QED
  BY <1>5, <1>6, <1>7, <1>8, <1>9

LEMMA CommitKeeps == ASSUME IInv, NEW j \in Jobs, Commit(j) PROVE IInv'
<1>1. /\ rows' \in Playlists /\ IsFiniteSet(Present')
      /\ Present' = DOMAIN req[j].put \cup (Present \ req[j].gone)
  BY CommitIs
<1>2. /\ req' \in [Jobs -> Requests] /\ req'[j] = Over
      /\ \A q \in Jobs : q # j =>
            /\ req'[q].stage = req[q].stage /\ req'[q].held = req[q].held
            /\ Active(q) => req'[q] = [req[q] EXCEPT !.alone = FALSE]
            /\ ~Active(q) => req'[q] = req[q]
  BY CommitRequests
<1>3. /\ req[j].gone \subseteq req[j].held /\ req[j].held \subseteq Present
      /\ DOMAIN req[j].put \subseteq req[j].held \cup DOMAIN Brings[j]
      /\ req[j].stage = "commit" /\ Active(j)
  BY RequestIs DEF Shape, Commit, Active
<1>4. overlapped' = (overlapped \/ ~req[j].alone)
  BY DEF Commit
<1>5. TypeInv'
  BY <1>1, <1>2, <1>4 DEF TypeInv, IInv
<1>6. RecordsInv'
  <2>1. ASSUME NEW q \in Jobs PROVE Shape(q, req'[q]) /\ Kept(q, req'[q], rows')
    <3>1. CASE q = j
      BY <1>2, <3>1, OverFits
    <3>2. CASE q # j /\ ~Active(q)
      <4>1. req'[q] = req[q]
        BY <1>2, <3>2
      <4> QED
        BY <3>2, <4>1, RequestIs DEF Kept, Active
    <3>3. CASE q # j /\ Active(q)
      <4>1. req[q] \in Requests /\ Shape(q, req[q]) /\ req[q].stage \notin {"new", "done"}
        BY <3>3, RequestIs DEF Active
      <4>2. req'[q] = [req[q] EXCEPT !.alone = FALSE]
        BY <1>2, <3>3
      <4>3. /\ req'[q].stage = req[q].stage /\ req'[q].left = req[q].left
            /\ req'[q].want = req[q].want /\ req'[q].held = req[q].held
            /\ req'[q].gone = req[q].gone /\ req'[q].put = req[q].put
            /\ ~req'[q].alone
        BY <4>1, <4>2 DEF Requests
      <4>4. PICK r : r = req'[q]
        OBVIOUS
      <4>5. Shape(q, r) /\ Kept(q, r, rows')
        BY <4>1, <4>3, <4>4 DEF Shape, Kept, Deleting, Writes
      <4> QED
        BY <4>4, <4>5
    <3> QED
      BY <3>1, <3>2, <3>3
  <2> QED
    BY <2>1 DEF RecordsInv
<1>7. RowsInv'
  <2>1. ASSUME NEW q \in Jobs PROVE req'[q].held \subseteq Present'
    <3>1. CASE q = j
      BY <1>2, <3>1, UnsentIs
    <3>2. CASE q # j
      <4>1. req[q].held \subseteq Present /\ req[q].held \cap req[j].held = {}
        BY <3>2 DEF IInv, RowsInv
      <4> QED
        BY <1>1, <1>2, <1>3, <3>2, <4>1
    <3> QED
      BY <3>1, <3>2
  <2>2. ASSUME NEW q \in Jobs, NEW x \in Jobs, q # x PROVE req'[q].held \cap req'[x].held = {}
    <3>1. CASE q = j \/ x = j
      BY <1>2, <3>1, UnsentIs
    <3>2. CASE q # j /\ x # j
      <4>1. req[q].held \cap req[x].held = {}
        BY <2>2 DEF IInv, RowsInv
      <4> QED
        BY <1>2, <3>2, <4>1
    <3> QED
      BY <3>1, <3>2
  <2>3. ASSUME NEW q \in Jobs, req'[q].stage # "done" PROVE DOMAIN Brings[q] \cap Present' = {}
    <3>1. q # j /\ req[q].stage # "done"
      BY <1>2, <2>3, UnsentIs
    <3>2. DOMAIN Brings[q] \cap Present = {}
      BY <3>1 DEF IInv, RowsInv
    <3>3. DOMAIN Brings[q] \cap DOMAIN Brings[j] = {}
      BY <3>1, PlaylistAssumption
    <3> QED
      BY <1>1, <1>3, <3>2, <3>3
  <2> QED
    BY <2>1, <2>2, <2>3 DEF RowsInv
<1>8. KeysInv'
  <2>1. \A q \in Jobs : req'[q].stage # "new" <=> req[q].stage # "new"
    BY <1>2, <1>3, UnsentIs
  <2>2. Begun' = Begun
    BY <2>1 DEF Begun
  <2>3. \A q \in Jobs : Active(q)' => Active(q)
    BY <1>2, UnsentIs DEF Active
  <2>4. ASSUME NEW q \in Jobs, ~req'[q].alone PROVE Mixed
    <3>1. q # j
      BY <1>2, <2>4, UnsentIs
    <3>2. CASE Active(q)
      <4>1. KeyOf[q] # KeyOf[j] \/ KeyOf[q] = None
        BY <1>3, <3>1, <3>2 DEF IInv, KeysInv
      <4>2. q \in Begun /\ j \in Begun
        BY <1>3, <3>2 DEF Active, Begun
      <4> QED
        BY <4>1, <4>2 DEF Mixed
    <3>3. CASE ~Active(q)
      <4>1. ~req[q].alone
        BY <1>2, <2>4, <3>1, <3>3
      <4> QED
        BY <4>1 DEF IInv, KeysInv
    <3> QED
      BY <3>2, <3>3
  <2>5. overlapped' => Mixed
    BY <1>4 DEF IInv, KeysInv
  <2>6. Mixed' <=> Mixed
    BY <2>2 DEF Mixed
  <2>7. IsFiniteSet(Begun')
    BY <2>2 DEF IInv, KeysInv
  <2>8. ASSUME NEW q \in Jobs, NEW x \in Jobs, q # x, Active(q)', Active(x)'
        PROVE  KeyOf[q] # KeyOf[x] \/ KeyOf[q] = None
    BY <2>3, <2>8 DEF IInv, KeysInv
  <2>9. (overlapped' \/ (\E q \in Jobs : ~req'[q].alone)) => Mixed'
    BY <2>4, <2>5, <2>6
  <2> QED
    BY <2>7, <2>8, <2>9 DEF KeysInv
<1>9. OrderInv'
  <2>1. SUFFICES ASSUME ~overlapped' PROVE Dense(rows')
    BY DEF OrderInv
  <2>2. req[j].alone /\ Dense(rows)
    BY <1>4, <2>1 DEF IInv, OrderInv
  <2> QED
    BY <2>2, CommitAlone
<1> QED
  BY <1>5, <1>6, <1>7, <1>8, <1>9 DEF IInv

----------------------------------------------------------------------------
(* The theorems.                                                           *)

LEMMA InitInv == ASSUME Init PROVE IInv
<1>1. /\ rows = First /\ overlapped = FALSE
      /\ req \in [Jobs -> Requests] /\ \A j \in Jobs : req[j] = Unsent
  BY UnsentIs DEF Init
<1>2. /\ First \in Playlists /\ IsFiniteSet(DOMAIN First) /\ Dense(First)
      /\ \A j \in Jobs : DOMAIN Brings[j] \cap DOMAIN First = {}
  BY PlaylistAssumption, PlaylistIs
<1>3. TypeInv /\ OrderInv
  BY <1>1, <1>2 DEF TypeInv, OrderInv, Present
<1>4. RecordsInv
  BY <1>1, OverFits DEF RecordsInv
<1>5. RowsInv
  BY <1>1, <1>2, UnsentIs DEF RowsInv, Present
<1>6. KeysInv
  <2>1. Begun = {}
    BY <1>1, UnsentIs DEF Begun
  <2>2. \A j \in Jobs : ~Active(j) /\ req[j].alone
    BY <1>1, UnsentIs DEF Active
  <2> QED
    BY <1>1, <2>1, <2>2, FS_EmptySet DEF KeysInv
<1> QED
  BY <1>3, <1>4, <1>5, <1>6 DEF IInv

LEMMA NextKeeps == ASSUME IInv, [Next]_vars PROVE IInv'
<1>1. ASSUME UNCHANGED vars PROVE IInv'
  <2>1. rows' = rows /\ req' = req /\ overlapped' = overlapped
    BY <1>1 DEF vars
  <2> QED
    BY <2>1 DEF IInv, TypeInv, RecordsInv, RowsInv, KeysInv, OrderInv, Present, Begun, Active, Mixed
<1>2. ASSUME NEW j \in Jobs,
             \/ Add(j) \/ LoadPreset(j) \/ Delete(j) \/ Replace(j) \/ Reorder(j) \/ Patch(j)
             \/ DeleteRow(j) \/ Pack(j) \/ Update(j) \/ Fail(j) \/ Commit(j)
      PROVE  IInv'
  BY <1>2, AddKeeps, LoadPresetKeeps, DeleteKeeps, ReplaceKeeps, ReorderKeeps, PatchKeeps,
     DeleteRowKeeps, PackKeeps, UpdateKeeps, FailKeeps, CommitKeeps
<1> QED
  BY <1>1, <1>2 DEF Next

LEMMA ListInvariant == Spec => []IInv
  BY InitInv, NextKeeps, PTL DEF Spec

(* Items and positions keep their types, no row is written by two edits at *)
(* a time, and no edit places an item it deletes, for any edits at all.    *)
THEOREM PlaylistTypes == Spec => []TypeOK
<1>1. ASSUME IInv PROVE TypeOK
  <2>1. IsPlaylist(rows) /\ overlapped \in BOOLEAN
    BY <1>1, PlaylistIs DEF IInv, TypeInv
  <2>2. ASSUME NEW j \in Jobs
        PROVE  /\ req[j].stage \in {"new", "delete", "pack", "update", "commit", "done"}
               /\ IsPlaylist(req[j].want) /\ IsPlaylist(req[j].put)
               /\ req[j].gone \subseteq req[j].held \ DOMAIN req[j].put
               /\ req[j].left \cup req[j].held \subseteq Items
               /\ req[j].many \in BOOLEAN /\ req[j].alone \in BOOLEAN
    <3>1. req[j] \in Requests /\ Shape(j, req[j])
      BY <1>1, RequestIs
    <3>2. req[j].gone \subseteq req[j].held \ DOMAIN req[j].put
      BY <3>1 DEF Shape
    <3> QED
      BY <3>1, <3>2, PlaylistIs DEF Requests
  <2>3. \A j, q \in Jobs : j # q => req[j].held \cap req[q].held = {}
    BY <1>1 DEF IInv, RowsInv
  <2> QED
    BY <2>1, <2>2, <2>3 DEF TypeOK
<1> QED
  BY <1>1, ListInvariant, PTL

(* The loop order stays dense, unless two edits overlapped that did not    *)
(* use one fleet key (audience.py, _items_of and the re-packing).          *)
THEOREM OrderIsDense == Spec => []DenseUnlessOverlapped
<1>1. ASSUME IInv PROVE DenseUnlessOverlapped
  <2> DEFINE keys == {KeyOf[j] : j \in Begun}
  <2>1. SUFFICES ASSUME ~Dense(rows)
                 PROVE  overlapped /\ (Cardinality(keys) > 1 \/ None \in keys)
    BY DEF DenseUnlessOverlapped
  <2>2. overlapped /\ Mixed /\ IsFiniteSet(Begun)
    BY <1>1, <2>1 DEF IInv, OrderInv, KeysInv
  <2>3. IsFiniteSet(keys)
    <3> DEFINE f == [j \in Begun |-> KeyOf[j]]
    <3>1. f \in Surjection(Begun, keys)
      BY DEF Surjection
    <3> HIDE DEF f, keys
    <3> QED
      BY <2>2, <3>1, FS_Surjection
  <2>4. PICK j \in Begun, q \in Begun : KeyOf[j] # KeyOf[q] \/ KeyOf[j] = None
    BY <2>2 DEF Mixed
  <2>5. CASE KeyOf[j] = None
    BY <2>2, <2>5
  <2>6. CASE KeyOf[j] # KeyOf[q]
    <3>1. Cardinality({KeyOf[j]}) = 1 /\ IsFiniteSet({KeyOf[j]})
      BY FS_Singleton
    <3>2. Cardinality({KeyOf[j]} \cup {KeyOf[q]}) = 2
      BY <2>6, <3>1, FS_AddElement
    <3>3. {KeyOf[j]} \cup {KeyOf[q]} \in SUBSET keys
      BY <2>4
    <3> HIDE DEF keys
    <3>4. 2 <= Cardinality(keys) /\ Cardinality(keys) \in Nat
      BY <2>3, <3>2, <3>3, FS_Subset, FS_CardinalityType
    <3> QED
      BY <2>2, <3>4
  <2> QED
    BY <2>4, <2>5, <2>6
<1> QED
  BY <1>1, ListInvariant, PTL

(* An edit that writes the whole order and that no other edit overlaps     *)
(* makes it dense again, whatever was left behind, and a delete keeps the  *)
(* order of the items that stay.                                           *)
THEOREM RepackingRepairs == Spec => RepackRepairs
<1> DEFINE Repairs ==
        \A j \in Jobs :
          /\ req[j].stage = "commit" /\ req[j].alone /\ rows' # rows /\ req'[j] = Over
          /\ Kind[j] \in {"delete", "reorder", "replace"}
          => Dense(rows') /\ (Kind[j] = "delete" => SameOrder(rows, rows'))
<1>1. ASSUME IInv, Next PROVE Repairs
  <2>1. SUFFICES ASSUME NEW j \in Jobs, req[j].stage = "commit", req[j].alone,
                        rows' # rows, req'[j] = Over,
                        Kind[j] \in {"delete", "reorder", "replace"}
                 PROVE  Dense(rows') /\ (Kind[j] = "delete" => SameOrder(rows, rows'))
    OBVIOUS
  <2>2. PICK q \in Jobs :
             \/ Add(q) \/ LoadPreset(q) \/ Delete(q) \/ Replace(q) \/ Reorder(q) \/ Patch(q)
             \/ DeleteRow(q) \/ Pack(q) \/ Update(q) \/ Fail(q) \/ Commit(q)
    BY <1>1 DEF Next
  <2>3. Commit(q)
    BY <2>1, <2>2 DEF Add, LoadPreset, Append, Delete, Replace, Reorder, Patch, Begin,
                      DeleteRow, Pack, Update, Fail
  <2>4. q = j
    <3>1. SUFFICES ASSUME q # j PROVE FALSE
      OBVIOUS
    <3>2. req'[j].stage = "commit"
      BY <1>1, <2>1, <2>3, <3>1, CommitRequests
    <3> QED
      BY <2>1, <3>2, UnsentIs
  <2> QED
    BY <1>1, <2>1, <2>3, <2>4, CommitAlone DEF Packs
<1>2. ASSUME IInv, [Next]_vars PROVE [Repairs]_vars
  BY <1>1, <1>2
<1>3. [][Repairs]_vars => RepackRepairs
  BY PTL DEF RepackRepairs
<1> QED
  BY <1>2, <1>3, ListInvariant, PTL DEF Spec
=============================================================================
