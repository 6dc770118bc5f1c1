----------------------------- MODULE ListProofs -----------------------------
(***************************************************************************)
(* What the operators of Lists return, for lists of any length.            *)
(***************************************************************************)
EXTENDS Lists, Integers, FiniteSetTheorems, WellFoundedInduction, TLAPS

\* A set of numbers has a least one.
LEMMA LeastOf ==
  ASSUME NEW S \in SUBSET Nat, S # {}
  PROVE  \E k \in S : \A j \in S : k <= j
<1>1. PICK k \in S : \A j \in S : ~(<<j, k>> \in OpToRel(<, Nat))
  BY NatLessThanWellFounded, WFMin
<1>2. \A j \in S : ~(j < k)
  BY <1>1 DEF OpToRel
<1> QED BY <1>2

\* Induction up to a bound, over a set of numbers.
LEMMA UpTo ==
  ASSUME NEW m \in Nat, NEW T, 0 \in T, \A n \in 0..(m - 1) : n \in T => n + 1 \in T
  PROVE  \A n \in 0..m : n \in T
<1> DEFINE S == {n \in 0..m : n \notin T}
<1>1. SUFFICES ASSUME S # {} PROVE FALSE
  OBVIOUS
<1>2. PICK n \in S : \A k \in S : n <= k
  <2> HIDE DEF S
  <2>1. S \in SUBSET Nat
    BY DEF S
  <2> QED BY <1>1, <2>1, LeastOf
<1>3. n # 0
  BY <1>2
<1>4. n - 1 \in 0..(m - 1) /\ n - 1 \in T
  BY <1>2, <1>3
<1> QED BY <1>2, <1>4

----------------------------------------------------------------------------
(* Counting what comes before.                                             *)

\* A strict total order of the elements of S.
StrictOrder(S, before) ==
  /\ \A x \in S : <<x, x>> \notin before
  /\ \A x, y \in S : x # y => <<x, y>> \in before \/ <<y, x>> \in before
  /\ \A x, y, z \in S : <<x, y>> \in before /\ <<y, z>> \in before => <<x, z>> \in before

Below(S, before, x) == {y \in S : <<y, x>> \in before}

LEMMA BelowGrows ==
  ASSUME NEW S, IsFiniteSet(S), NEW before, StrictOrder(S, before), NEW x \in S
  PROVE  /\ Cardinality(Below(S, before, x)) \in 0..(Cardinality(S) - 1)
         /\ \A y \in S : <<x, y>> \in before =>
              Cardinality(Below(S, before, x)) < Cardinality(Below(S, before, y))
<1>1. \A y \in S : /\ Below(S, before, y) \subseteq S \ {y}
                  /\ IsFiniteSet(Below(S, before, y))
                  /\ Cardinality(Below(S, before, y)) \in Nat
  <2>1. \A y \in S : Below(S, before, y) \subseteq S \ {y}
    BY DEF Below, StrictOrder
  <2>2. \A y \in S : IsFiniteSet(Below(S, before, y))
    BY <2>1, FS_Subset
  <2> QED BY <2>1, <2>2, FS_CardinalityType
<1>2. Cardinality(S) \in Nat /\ IsFiniteSet(S \ {x}) /\ Cardinality(S \ {x}) = Cardinality(S) - 1
  BY FS_CardinalityType, FS_RemoveElement
<1>3. Cardinality(Below(S, before, x)) <= Cardinality(S) - 1
  BY <1>1, <1>2, FS_Subset
<1>4. ASSUME NEW y \in S, <<x, y>> \in before
      PROVE  Cardinality(Below(S, before, x)) < Cardinality(Below(S, before, y))
  <2>1. Below(S, before, x) \subseteq Below(S, before, y)
    BY <1>4 DEF Below, StrictOrder
  <2>2. x \in Below(S, before, y) /\ x \notin Below(S, before, x)
    BY <1>4 DEF Below, StrictOrder
  <2>3. /\ Cardinality(Below(S, before, x)) <= Cardinality(Below(S, before, y))
        /\ Cardinality(Below(S, before, x)) # Cardinality(Below(S, before, y))
    BY <1>1, <2>1, <2>2, FS_Subset
  <2> QED BY <1>1, <2>3
<1> QED BY <1>1, <1>2, <1>3, <1>4

\* Every count below the size of S is the count of one element of S.
LEMMA BelowReaches ==
  ASSUME NEW S, IsFiniteSet(S), NEW before, StrictOrder(S, before), NEW k \in 1..Cardinality(S)
  PROVE  \E x \in S : Cardinality(Below(S, before, x)) = k - 1
<1> DEFINE n == Cardinality(S)
           rank == [x \in S |-> Cardinality(Below(S, before, x))]
           T == 0..(n - 1)
<1>1. n \in Nat /\ IsFiniteSet(T) /\ Cardinality(T) = n
  <2>1. n \in Nat /\ n # 0
    BY FS_CardinalityType
  <2>2. IsFiniteSet(0..(n - 1)) /\ Cardinality(0..(n - 1)) = IF 0 > n - 1 THEN 0 ELSE n - 1 - 0 + 1
    <3>1. 0 \in Int /\ n - 1 \in Int
      BY <2>1
    <3> HIDE DEF n
    <3> QED BY <3>1, FS_Interval
  <2> QED BY <2>1, <2>2
<1>2. SUFFICES ASSUME \A x \in S : rank[x] # k - 1 PROVE FALSE
  OBVIOUS
<1>3. k - 1 \in T /\ IsFiniteSet(T \ {k - 1}) /\ Cardinality(T \ {k - 1}) = n - 1
  <2>1. k - 1 \in T
    BY <1>1
  <2> HIDE DEF T, n
  <2> QED BY <1>1, <2>1, FS_RemoveElement
<1>4. rank \in [S -> T \ {k - 1}]
  BY <1>2, BelowGrows
<1>5. PICK x, y \in S : x # y /\ rank[x] = rank[y]
  <2> HIDE DEF rank, T
  <2>1. Cardinality(T \ {k - 1}) < Cardinality(S)
    BY <1>1, <1>3
  <2> QED BY <1>3, <1>4, <2>1, FS_PigeonHole
<1>6. rank[x] < rank[y] \/ rank[y] < rank[x]
  BY <1>5, BelowGrows DEF StrictOrder
<1>7. rank[x] \in Nat /\ rank[y] \in Nat
  BY BelowGrows
<1> QED BY <1>5, <1>6, <1>7

\* InOrder lists S, each element once, in the order.
LEMMA InOrderLists ==
  ASSUME NEW S, IsFiniteSet(S), NEW before, StrictOrder(S, before)
  PROVE  /\ Cardinality(S) \in Nat
         /\ InOrder(S, before) \in [1..Cardinality(S) -> S]
         /\ \A x \in S : \E k \in 1..Cardinality(S) : InOrder(S, before)[k] = x
         /\ \A j, k \in 1..Cardinality(S) :
              j < k <=> <<InOrder(S, before)[j], InOrder(S, before)[k]>> \in before
<1> DEFINE n == Cardinality(S)
           o == InOrder(S, before)
           rank(x) == Cardinality(Below(S, before, x))
<1>1. n \in Nat
  BY FS_CardinalityType
<1>2. ASSUME NEW k \in 1..n PROVE o[k] \in S /\ rank(o[k]) = k - 1
  <2>1. o[k] = CHOOSE x \in S : rank(x) = k - 1
    BY DEF InOrder, Below
  <2> QED BY <2>1, BelowReaches
<1>3. o \in [1..n -> S]
  <2>1. o = [k \in 1..n |-> CHOOSE x \in S : Cardinality({y \in S : <<y, x>> \in before}) = k - 1]
    BY DEF InOrder
  <2> HIDE DEF o, n, rank
  <2> QED BY <1>2, <2>1
<1>4. \A x \in S : /\ rank(x) \in 0..(n - 1)
                  /\ \A y \in S : <<x, y>> \in before => rank(x) < rank(y)
  BY BelowGrows
<1> HIDE DEF o, rank, n
<1>5. ASSUME NEW x \in S PROVE \E k \in 1..n : o[k] = x
  <2>1. PICK k \in 1..n : rank(x) = k - 1
    BY <1>1, <1>4
  <2>2. o[k] \in S /\ rank(o[k]) = rank(x) /\ rank(x) \in Int
    BY <1>1, <1>2, <2>1
  <2>3. \A y \in S : rank(y) = rank(x) => y = x
    <3>1. SUFFICES ASSUME NEW y \in S, y # x, rank(y) = rank(x) PROVE FALSE
      OBVIOUS
    <3>2. <<x, y>> \in before \/ <<y, x>> \in before
      BY <3>1 DEF StrictOrder
    <3>3. rank(x) < rank(y) \/ rank(y) < rank(x)
      BY <1>4, <3>2
    <3> QED BY <2>2, <3>1, <3>3
  <2> QED BY <2>2, <2>3
<1>6. ASSUME NEW j \in 1..n, NEW k \in 1..n PROVE j < k <=> <<o[j], o[k]>> \in before
  <2>1. /\ o[j] \in S /\ rank(o[j]) = j - 1 /\ o[k] \in S /\ rank(o[k]) = k - 1
    BY <1>2
  <2>2. CASE j < k
    <3>1. o[j] # o[k]
      BY <2>1, <2>2
    <3>2. ~(<<o[k], o[j]>> \in before)
      BY <1>4, <2>1, <2>2
    <3> QED BY <2>1, <2>2, <3>1, <3>2 DEF StrictOrder
  <2>3. CASE ~(j < k)
    BY <1>4, <2>1, <2>3
  <2> QED BY <2>2, <2>3
<1> QED BY <1>1, <1>2, <1>3, <1>5, <1>6 DEF o, n

\* It is the only list of S that holds each element, in the order.
LEMMA InOrderUnique ==
  ASSUME NEW S, IsFiniteSet(S), NEW before, StrictOrder(S, before),
         NEW m \in Nat, NEW f \in [1..m -> S],
         \A x \in S : \E k \in 1..m : f[k] = x,
         \A j, k \in 1..m : j < k => <<f[j], f[k]>> \in before
  PROVE  m = Cardinality(S) /\ f = InOrder(S, before)
<1>1. \A j, k \in 1..m : f[j] = f[k] => j = k
  <2>1. SUFFICES ASSUME NEW j \in 1..m, NEW k \in 1..m, f[j] = f[k], j < k PROVE FALSE
    OBVIOUS
  <2> QED BY <2>1 DEF StrictOrder
<1>2. m = Cardinality(S)
  <2>1. f \in Bijection(1..m, S)
    BY <1>1 DEF Bijection, Injection, Surjection, IsInjective
  <2>2. IsFiniteSet(1..m) /\ Cardinality(1..m) = m
    BY FS_Interval
  <2> QED BY <2>1, <2>2, FS_Bijection DEF ExistsBijection
<1>3. PICK o : o = InOrder(S, before)
  OBVIOUS
<1>4. /\ o \in [1..m -> S] /\ \A x \in S : \E k \in 1..m : o[k] = x
      /\ \A j, k \in 1..m : j < k <=> <<o[j], o[k]>> \in before
  BY <1>2, <1>3, InOrderLists
<1> DEFINE B == {k \in 1..m : f[k] # o[k]}
<1>5. ASSUME B # {} PROVE FALSE
  <2>1. PICK k \in B : \A j \in B : k <= j
    <3> HIDE DEF B
    <3>1. B \in SUBSET Nat
      BY DEF B
    <3> QED BY <1>5, <3>1, LeastOf
  <2>2. \A j \in 1..m : j < k => f[j] = o[j]
    BY <2>1
  <2>3. PICK j \in 1..m : f[j] = o[k]
    BY <1>4, <2>1
  <2>4. PICK i \in 1..m : o[i] = f[k]
    BY <1>4, <2>1
  <2>5. ~(j < k) /\ j # k
    <3>1. ASSUME NEW l \in 1..m, o[l] = o[k] PROVE l = k
      <4>1. o[k] \in S /\ <<o[k], o[k]>> \notin before
        BY <1>4, <2>1 DEF StrictOrder
      <4>2. ~(l < k) /\ ~(k < l)
        BY <1>4, <2>1, <3>1, <4>1
      <4> QED BY <2>1, <4>2
    <3> QED BY <2>1, <2>2, <2>3, <3>1
  <2>6. ~(i < k) /\ i # k
    BY <1>1, <2>1, <2>2, <2>4
  <2>7. k < j /\ k < i
    BY <2>1, <2>5, <2>6
  <2>8. <<f[k], f[j]>> \in before /\ <<o[k], o[i]>> \in before
    BY <1>4, <2>1, <2>7
  <2> QED BY <1>4, <2>1, <2>3, <2>4, <2>8 DEF StrictOrder
<1>6. \A k \in 1..m : f[k] = o[k]
  BY <1>5
<1> QED BY <1>2, <1>3, <1>4, <1>6

\* The same, for every choice at once.
LEMMA OnlyListing ==
  \A S, b : \A l \in Nat : \A g \in [1..l -> S] :
    /\ IsFiniteSet(S)
    /\ StrictOrder(S, b)
    /\ \A x \in S : \E k \in 1..l : g[k] = x
    /\ \A j, k \in 1..l : j < k => <<g[j], g[k]>> \in b
    => l = Cardinality(S) /\ g = InOrder(S, b)
BY InOrderUnique

----------------------------------------------------------------------------
(* Choosing positions.                                                     *)

\* Positions are ordered by their numbers.
LEMMA PlacesInOrder ==
  ASSUME NEW n \in Nat, NEW K \in SUBSET (1..n)
  PROVE  /\ IsFiniteSet(K) /\ Cardinality(K) \in 0..n
         /\ Places(K) \in [1..Cardinality(K) -> K]
         /\ \A i \in K : \E k \in 1..Cardinality(K) : Places(K)[k] = i
         /\ \A j, k \in 1..Cardinality(K) : j < k <=> Places(K)[j] < Places(K)[k]
<1>1. /\ IsFiniteSet(1..n) /\ Cardinality(1..n) = n
  BY FS_Interval
<1>2. IsFiniteSet(K) /\ Cardinality(K) <= n /\ Cardinality(K) \in Nat
  BY <1>1, FS_Subset, FS_CardinalityType
<1>3. \A i, j \in K : <<i, j>> \in Less(K) <=> i < j
  BY DEF Less
<1>4. StrictOrder(K, Less(K))
  BY <1>3 DEF StrictOrder
<1>5. PICK place : place = Places(K)
  OBVIOUS
<1>6. /\ place \in [1..Cardinality(K) -> K]
      /\ \A i \in K : \E k \in 1..Cardinality(K) : place[k] = i
      /\ \A j, k \in 1..Cardinality(K) : j < k <=> <<place[j], place[k]>> \in Less(K)
  BY <1>2, <1>4, <1>5, InOrderLists DEF Places
<1>7. \A j, k \in 1..Cardinality(K) : j < k <=> place[j] < place[k]
  <2>1. SUFFICES ASSUME NEW j \in 1..Cardinality(K), NEW k \in 1..Cardinality(K)
                 PROVE  j < k <=> place[j] < place[k]
    OBVIOUS
  <2>2. place[j] \in K /\ place[k] \in K
    BY <1>6, <2>1
  <2> QED BY <1>3, <1>6, <2>1, <2>2
<1> QED BY <1>2, <1>5, <1>6, <1>7

\* Increasing positions that leave none of K out are its places.
LEMMA PlacesUnique ==
  ASSUME NEW n \in Nat, NEW K \in SUBSET (1..n), NEW m \in Nat, NEW f \in [1..m -> K],
         \A i \in K : \E k \in 1..m : f[k] = i,
         \A j, k \in 1..m : j < k => f[j] < f[k]
  PROVE  m = Cardinality(K) /\ f = Places(K)
<1>1. IsFiniteSet(K)
  BY PlacesInOrder
<1>2. \A i, j \in K : <<i, j>> \in Less(K) <=> i < j
  BY DEF Less
<1>3. StrictOrder(K, Less(K))
  BY <1>2 DEF StrictOrder
<1>4. \A j, k \in 1..m : j < k => <<f[j], f[k]>> \in Less(K)
  BY <1>2
<1>5. PICK before : before = Less(K)
  OBVIOUS
<1>6. m = Cardinality(K) /\ f = InOrder(K, before)
  <2>1. StrictOrder(K, before) /\ \A j, k \in 1..m : j < k => <<f[j], f[k]>> \in before
    BY <1>3, <1>4, <1>5
  <2> QED BY <1>1, <2>1, OnlyListing
<1> QED BY <1>5, <1>6 DEF Places

\* What is chosen is what stands at the positions.
LEMMA ChosenElements ==
  ASSUME NEW n \in Nat, NEW xs, DOMAIN xs = 1..n, NEW K \in SUBSET (1..n)
  PROVE  /\ DOMAIN Chosen(xs, K) = 1..Cardinality(K)
         /\ Cardinality(K) \in 0..n
         /\ Elements(Chosen(xs, K)) = {xs[i] : i \in K}
         /\ Chosen(xs, K) \in Seq(Elements(xs)) /\ Len(Chosen(xs, K)) = Cardinality(K)
<1>1. PICK place : place = Places(K)
  OBVIOUS
<1>2. PICK m : m = Cardinality(K)
  OBVIOUS
<1>3. /\ m \in 0..n /\ place \in [1..m -> K]
      /\ \A i \in K : \E k \in 1..m : place[k] = i
  BY <1>1, <1>2, PlacesInOrder
<1>4. Chosen(xs, K) = [k \in 1..m |-> xs[place[k]]]
  BY <1>1, <1>3 DEF Chosen
<1>5. Elements(Chosen(xs, K)) = {xs[i] : i \in K}
  <2>1. Elements(Chosen(xs, K)) = {xs[place[k]] : k \in 1..m}
    BY <1>4 DEF Elements
  <2>2. ASSUME NEW i \in K PROVE \E k \in 1..m : xs[i] = xs[place[k]]
    BY <1>3
  <2>3. ASSUME NEW k \in 1..m PROVE \E i \in K : xs[i] = xs[place[k]]
    <3>1. place[k] \in K
      BY <1>3
    <3> QED BY <3>1
  <2>4. \A x : x \in {xs[place[k]] : k \in 1..m} <=> x \in {xs[i] : i \in K}
    BY <2>2, <2>3
  <2> QED BY <2>1, <2>4
<1>6. \A k \in 1..m : xs[place[k]] \in Elements(xs)
  BY <1>3 DEF Elements
<1>7. Chosen(xs, K) \in Seq(Elements(xs)) /\ Len(Chosen(xs, K)) = m
  BY <1>3, <1>4, <1>6
<1> QED BY <1>2, <1>3, <1>4, <1>5, <1>7

\* All positions are the list, and no position is none of it.
LEMMA ChosenAll ==
  ASSUME NEW n \in Nat, NEW xs, xs = [k \in 1..n |-> xs[k]]
  PROVE  Chosen(xs, 1..n) = xs
<1> DEFINE f == [k \in 1..n |-> k]
<1>1. n = Cardinality(1..n) /\ f = Places(1..n)
  BY PlacesUnique
<1> QED BY <1>1 DEF Chosen

LEMMA ChosenNone ==
  ASSUME NEW n \in Nat, NEW xs, DOMAIN xs = 1..n
  PROVE  Chosen(xs, {}) = <<>>
<1>1. PICK none : none = {}
  OBVIOUS
<1>2. none \in SUBSET (1..n) /\ Cardinality(none) = 0
  BY <1>1, FS_EmptySet
<1>3. DOMAIN Chosen(xs, none) = 1..0 /\ Len(Chosen(xs, none)) = 0 /\ Chosen(xs, none) \in Seq(Elements(xs))
  BY <1>2, ChosenElements
<1> QED BY <1>1, <1>3

\* One position more, beyond the others, is one element more.
LEMMA ChosenNext ==
  ASSUME NEW n \in Nat, NEW xs, DOMAIN xs = 1..n, NEW m \in 1..n, NEW K \in SUBSET (1..(m - 1))
  PROVE  Chosen(xs, K \cup {m}) = Append(Chosen(xs, K), xs[m])
<1>1. PICK place : place = Places(K)
  OBVIOUS
<1>2. PICK c : c = Cardinality(K)
  OBVIOUS
<1>3. /\ c \in Nat /\ place \in [1..c -> K]
      /\ \A i \in K : \E k \in 1..c : place[k] = i
      /\ \A j, k \in 1..c : j < k <=> place[j] < place[k]
  BY <1>1, <1>2, PlacesInOrder
<1> DEFINE f == [k \in 1..(c + 1) |-> IF k <= c THEN place[k] ELSE m]
<1>4. f = Places(K \cup {m})
  <2>1. f \in [1..(c + 1) -> K \cup {m}]
    BY <1>3
  <2>2. \A i \in K \cup {m} : \E k \in 1..(c + 1) : f[k] = i
    <3>1. f[c + 1] = m
      BY <1>3
    <3>2. \A i \in K : \E k \in 1..(c + 1) : f[k] = i
      BY <1>3
    <3> QED BY <1>3, <3>1, <3>2
  <2>3. ASSUME NEW j \in 1..(c + 1), NEW k \in 1..(c + 1), j < k PROVE f[j] < f[k]
    <3>1. j \in 1..c /\ f[j] = place[j] /\ place[j] \in 1..(m - 1)
      <4>1. j \in 1..c
        BY <1>3, <2>3
      <4>2. place[j] \in K
        BY <1>3, <4>1
      <4>3. f[j] = place[j]
        BY <1>3, <4>1
      <4> HIDE DEF f
      <4> QED BY <4>1, <4>2, <4>3
    <3>2. CASE k = c + 1
      <4>1. f[k] = m
        BY <1>3, <3>2
      <4> QED BY <3>1, <4>1
    <3>3. CASE k # c + 1
      <4>1. k \in 1..c /\ f[k] = place[k]
        BY <1>3, <3>3
      <4> QED BY <1>3, <2>3, <3>1, <4>1
    <3> QED BY <3>2, <3>3
  <2>4. K \cup {m} \in SUBSET (1..n) /\ c + 1 \in Nat
    BY <1>3
  <2> HIDE DEF f
  <2> QED BY <2>1, <2>2, <2>3, <2>4, PlacesUnique
<1>5. Chosen(xs, K \cup {m}) = [k \in 1..(c + 1) |-> xs[f[k]]]
  <2> HIDE DEF f
  <2>1. DOMAIN f = 1..(c + 1)
    BY DEF f
  <2> QED BY <1>4, <2>1 DEF Chosen
<1>6. Chosen(xs, K) = [k \in 1..c |-> xs[place[k]]]
  BY <1>1, <1>3 DEF Chosen
<1>7. Chosen(xs, K) \in Seq(Elements(xs)) /\ Len(Chosen(xs, K)) = c
  BY <1>2, ChosenElements
<1>8. Append(Chosen(xs, K), xs[m]) = [k \in 1..(c + 1) |-> IF k <= c THEN xs[place[k]] ELSE xs[m]]
  <2>1. PICK q : q = Chosen(xs, K)
    OBVIOUS
  <2>2. Append(q, xs[m]) = [k \in 1..(c + 1) |-> IF k <= c THEN q[k] ELSE xs[m]]
    BY <1>3, <1>7, <2>1
  <2>3. \A k \in 1..(c + 1) : k <= c => q[k] = xs[place[k]]
    BY <1>3, <1>6, <2>1
  <2> QED BY <2>1, <2>2, <2>3
<1>9. \A k \in 1..(c + 1) : xs[f[k]] = IF k <= c THEN xs[place[k]] ELSE xs[m]
  OBVIOUS
<1> QED BY <1>5, <1>8, <1>9

----------------------------------------------------------------------------
(* Sorting, and one list after another.                                    *)

\* A strict weak order of the elements of E.
StrictWeak(E, before) ==
  /\ \A x, y \in E : <<x, y>> \in before => <<y, x>> \notin before
  /\ \A x, y, z \in E : <<x, z>> \in before => <<x, y>> \in before \/ <<y, z>> \in before

\* Equal elements in place: a total order of the positions.
LEMMA StableOrder ==
  ASSUME NEW n \in Nat, NEW xs, DOMAIN xs = 1..n, NEW before, StrictWeak(Elements(xs), before)
  PROVE  /\ StrictOrder(1..n, Stable(xs, before))
         /\ IsFiniteSet(1..n) /\ Cardinality(1..n) = n
<1>1. \A i \in 1..n : xs[i] \in Elements(xs)
  BY DEF Elements
<1>2. \A i, j \in 1..n : <<i, j>> \in Stable(xs, before)
                           <=> \/ <<xs[i], xs[j]>> \in before
                               \/ i < j /\ <<xs[j], xs[i]>> \notin before
  BY DEF Stable
<1>3. \A i \in 1..n : <<i, i>> \notin Stable(xs, before)
  <2>1. SUFFICES ASSUME NEW i \in 1..n PROVE <<i, i>> \notin Stable(xs, before)
    OBVIOUS
  <2>2. <<xs[i], xs[i]>> \notin before /\ ~(i < i)
    BY <1>1 DEF StrictWeak
  <2> QED BY <1>2, <2>2
<1>4. \A i, j \in 1..n : i # j => <<i, j>> \in Stable(xs, before) \/ <<j, i>> \in Stable(xs, before)
  <2>1. SUFFICES ASSUME NEW i \in 1..n, NEW j \in 1..n, i # j
                 PROVE  <<i, j>> \in Stable(xs, before) \/ <<j, i>> \in Stable(xs, before)
    OBVIOUS
  <2>2. i < j \/ j < i
    BY <2>1
  <2> QED BY <1>2, <2>2
<1>5. ASSUME NEW i \in 1..n, NEW j \in 1..n, NEW k \in 1..n,
             <<i, j>> \in Stable(xs, before), <<j, k>> \in Stable(xs, before)
      PROVE  <<i, k>> \in Stable(xs, before)
  <2>1. xs[i] \in Elements(xs) /\ xs[j] \in Elements(xs) /\ xs[k] \in Elements(xs)
    BY <1>1
  <2>2. CASE <<xs[i], xs[j]>> \in before
    <3>1. <<xs[j], xs[k]>> \in before \/ <<xs[k], xs[j]>> \notin before
      BY <1>2, <1>5
    <3>2. <<xs[k], xs[j]>> \notin before
      BY <2>1, <3>1 DEF StrictWeak
    <3>3. <<xs[i], xs[k]>> \in before
      BY <2>1, <2>2, <3>2 DEF StrictWeak
    <3> QED BY <1>2, <3>3
  <2>3. CASE ~(<<xs[i], xs[j]>> \in before)
    <3>1. i < j /\ <<xs[j], xs[i]>> \notin before
      BY <1>2, <1>5, <2>3
    <3>2. CASE <<xs[j], xs[k]>> \in before
      <4>1. <<xs[i], xs[k]>> \in before
        BY <2>1, <3>1, <3>2 DEF StrictWeak
      <4> QED BY <1>2, <4>1
    <3>3. CASE ~(<<xs[j], xs[k]>> \in before)
      <4>1. j < k /\ <<xs[k], xs[j]>> \notin before
        BY <1>2, <1>5, <3>3
      <4>2. <<xs[k], xs[i]>> \notin before
        BY <2>1, <3>1, <4>1 DEF StrictWeak
      <4>3. i < k
        BY <3>1, <4>1
      <4> QED BY <1>2, <4>2, <4>3
    <3> QED BY <3>2, <3>3
  <2> QED BY <2>2, <2>3
<1>6. IsFiniteSet(1..n) /\ Cardinality(1..n) = n
  BY FS_Interval
<1> QED BY <1>3, <1>4, <1>5, <1>6 DEF StrictOrder

\* A sorted list has the elements of the list, as often, and none before another
\* that should come earlier.
LEMMA SortedLists ==
  ASSUME NEW n \in Nat, NEW xs, DOMAIN xs = 1..n, NEW before, StrictWeak(Elements(xs), before)
  PROVE  /\ SortedBy(xs, before) \in Seq(Elements(xs)) /\ Len(SortedBy(xs, before)) = n
         /\ Elements(SortedBy(xs, before)) = Elements(xs)
         /\ \A j, k \in 1..n :
              j < k => <<SortedBy(xs, before)[k], SortedBy(xs, before)[j]>> \notin before
<1>1. PICK order : order = Stable(xs, before)
  OBVIOUS
<1>2. PICK place : place = InOrder(1..n, order)
  OBVIOUS
<1>3. /\ place \in [1..n -> 1..n] /\ \A i \in 1..n : \E k \in 1..n : place[k] = i
      /\ \A j, k \in 1..n : j < k <=> <<place[j], place[k]>> \in order
  <2>1. StrictOrder(1..n, order) /\ IsFiniteSet(1..n) /\ Cardinality(1..n) = n
    BY <1>1, StableOrder
  <2> QED BY <1>2, <2>1, InOrderLists
<1>4. SortedBy(xs, before) = [k \in 1..n |-> xs[place[k]]]
  BY <1>1, <1>2 DEF SortedBy
<1>5. \A k \in 1..n : xs[place[k]] \in Elements(xs)
  BY <1>3 DEF Elements
<1>6. SortedBy(xs, before) \in Seq(Elements(xs)) /\ Len(SortedBy(xs, before)) = n
  BY <1>4, <1>5
<1>7. Elements(SortedBy(xs, before)) = Elements(xs)
  <2>1. Elements(SortedBy(xs, before)) = {xs[place[k]] : k \in 1..n} /\ Elements(xs) = {xs[i] : i \in 1..n}
    BY <1>4 DEF Elements
  <2>2. ASSUME NEW i \in 1..n PROVE \E k \in 1..n : xs[i] = xs[place[k]]
    BY <1>3
  <2>3. \A x : x \in {xs[place[k]] : k \in 1..n} <=> x \in {xs[i] : i \in 1..n}
    BY <1>3, <2>2
  <2> QED BY <2>1, <2>3
<1>8. ASSUME NEW j \in 1..n, NEW k \in 1..n, j < k PROVE <<xs[place[k]], xs[place[j]]>> \notin before
  <2>1. place[j] \in 1..n /\ place[k] \in 1..n /\ <<place[j], place[k]>> \in order
    BY <1>3, <1>8
  <2>2. \/ <<xs[place[j]], xs[place[k]]>> \in before
        \/ <<xs[place[k]], xs[place[j]]>> \notin before
    BY <1>1, <2>1 DEF Stable
  <2> QED BY <1>5, <2>2 DEF StrictWeak
<1> QED BY <1>4, <1>6, <1>7, <1>8

\* The entries of a list of lists are finitely many, and in one order.
LEMMA EntriesInOrder ==
  ASSUME NEW n \in Nat, NEW lists, DOMAIN lists = 1..n,
         \A i \in 1..n : \E m \in Nat : DOMAIN lists[i] = 1..m
  PROVE  /\ IsFiniteSet(Entries(lists)) /\ StrictOrder(Entries(lists), Lexical(Entries(lists)))
         /\ \A i, j : <<i, j>> \in Entries(lists) <=> i \in 1..n /\ j \in DOMAIN lists[i]
         /\ \A e \in Entries(lists) : e = <<e[1], e[2]>> /\ e[1] \in 1..n /\ e[2] \in DOMAIN lists[e[1]] /\ e[2] \in Nat
<1>1. \A i \in 1..n : IsFiniteSet({i} \X (DOMAIN lists[i]))
  <2>1. SUFFICES ASSUME NEW i \in 1..n PROVE IsFiniteSet({i} \X (DOMAIN lists[i]))
    OBVIOUS
  <2>2. PICK m \in Nat : DOMAIN lists[i] = 1..m
    OBVIOUS
  <2>3. IsFiniteSet(1..m) /\ IsFiniteSet({i})
    <3>1. IsFiniteSet(1..m)
      BY FS_Interval
    <3>2. IsFiniteSet({i})
      BY FS_Singleton
    <3> QED BY <3>1, <3>2
  <2> QED BY <2>2, <2>3, FS_Product
<1>2. PICK rows : rows = [i \in 1..n |-> {i} \X (DOMAIN lists[i])]
  OBVIOUS
<1>3. Entries(lists) = UNION {rows[i] : i \in 1..n}
  BY <1>2 DEF Entries
<1>4. IsFiniteSet({rows[i] : i \in 1..n})
  <2>1. rows \in Surjection(1..n, {rows[i] : i \in 1..n})
    BY <1>2 DEF Surjection
  <2>2. IsFiniteSet(1..n)
    BY FS_Interval
  <2> QED BY <2>1, <2>2, FS_Surjection
<1>5. IsFiniteSet(Entries(lists))
  <2>1. PICK U : U = {rows[i] : i \in 1..n}
    OBVIOUS
  <2>2. \A r \in U : IsFiniteSet(r)
    BY <1>1, <1>2, <2>1
  <2>3. IsFiniteSet(UNION U)
    BY <1>4, <2>1, <2>2, FS_UNION
  <2> QED BY <1>3, <2>1, <2>3
<1>6. \A i, j : <<i, j>> \in Entries(lists) <=> i \in 1..n /\ j \in DOMAIN lists[i]
  BY DEF Entries
<1>7. ASSUME NEW e \in Entries(lists)
      PROVE  e = <<e[1], e[2]>> /\ e[1] \in 1..n /\ e[2] \in DOMAIN lists[e[1]] /\ e[2] \in Nat
  <2>1. PICK i \in 1..n : e \in {i} \X (DOMAIN lists[i])
    BY DEF Entries
  <2>2. e = <<e[1], e[2]>> /\ e[1] = i /\ e[2] \in DOMAIN lists[i]
    BY <2>1
  <2> QED BY <2>2
<1>8. StrictOrder(Entries(lists), Lexical(Entries(lists)))
  <2>1. PICK E : E = Entries(lists)
    OBVIOUS
  <2>2. \A d, e \in E : <<d, e>> \in Lexical(E) <=> d[1] < e[1] \/ (d[1] = e[1] /\ d[2] < e[2])
    BY DEF Lexical
  <2>3. \A e \in E : e = <<e[1], e[2]>> /\ e[1] \in Int /\ e[2] \in Int
    BY <1>7, <2>1
  <2>4. \A d, e \in E : d # e => d[1] # e[1] \/ d[2] # e[2]
    BY <2>3
  <2>5. \A e \in E : <<e, e>> \notin Lexical(E)
    BY <2>2, <2>3
  <2>6. \A d, e \in E : d # e => <<d, e>> \in Lexical(E) \/ <<e, d>> \in Lexical(E)
    BY <2>2, <2>3, <2>4
  <2>7. \A c, d, e \in E : <<c, d>> \in Lexical(E) /\ <<d, e>> \in Lexical(E) => <<c, e>> \in Lexical(E)
    BY <2>2, <2>3
  <2> QED BY <2>1, <2>5, <2>6, <2>7 DEF StrictOrder
<1> QED BY <1>5, <1>6, <1>7, <1>8

\* What one list after another holds.
LEMMA FlattenedElements ==
  ASSUME NEW n \in Nat, NEW lists, DOMAIN lists = 1..n,
         \A i \in 1..n : \E m \in Nat : DOMAIN lists[i] = 1..m
  PROVE  /\ DOMAIN Flattened(lists) = 1..Cardinality(Entries(lists))
         /\ Cardinality(Entries(lists)) \in Nat
         /\ \A i \in 1..n : \A x \in Elements(lists[i]) : x \in Elements(Flattened(lists))
         /\ \A x \in Elements(Flattened(lists)) : \E i \in 1..n : x \in Elements(lists[i])
<1>1. PICK E : E = Entries(lists)
  OBVIOUS
<1>2. PICK entry : entry = InOrder(E, Lexical(E))
  OBVIOUS
<1>3. PICK c : c = Cardinality(E)
  OBVIOUS
<1>4. /\ c \in Nat /\ entry \in [1..c -> E] /\ \A e \in E : \E k \in 1..c : entry[k] = e
  <2>1. IsFiniteSet(E) /\ StrictOrder(E, Lexical(E))
    BY <1>1, EntriesInOrder
  <2> QED BY <1>2, <1>3, <2>1, InOrderLists
<1>5. Flattened(lists) = [k \in 1..c |-> lists[entry[k][1]][entry[k][2]]]
  BY <1>1, <1>2, <1>4 DEF Flattened
<1>6. ASSUME NEW i \in 1..n, NEW x \in Elements(lists[i]) PROVE x \in Elements(Flattened(lists))
  <2>1. PICK j \in DOMAIN lists[i] : x = lists[i][j]
    BY DEF Elements
  <2>2. <<i, j>> \in E
    BY <1>1, EntriesInOrder
  <2>3. PICK k \in 1..c : entry[k] = <<i, j>>
    BY <1>4, <2>2
  <2>4. Flattened(lists)[k] = x
    BY <1>5, <2>1, <2>3
  <2> QED BY <1>5, <2>4 DEF Elements
<1>7. ASSUME NEW x \in Elements(Flattened(lists)) PROVE \E i \in 1..n : x \in Elements(lists[i])
  <2>1. PICK k \in 1..c : x = lists[entry[k][1]][entry[k][2]]
    BY <1>5 DEF Elements
  <2>2. PICK e : e = entry[k]
    OBVIOUS
  <2>3. e[1] \in 1..n /\ e[2] \in DOMAIN lists[e[1]]
    BY <1>1, <1>4, <2>2, EntriesInOrder
  <2> QED BY <2>1, <2>2, <2>3 DEF Elements
<1> QED BY <1>1, <1>3, <1>4, <1>5, <1>6, <1>7


\* The elements of a list at increasing positions that leave none of K out.
LEMMA ChosenAlong ==
  ASSUME NEW xs, NEW K, NEW m, NEW f, m = Cardinality(K), f = Places(K), f \in [1..m -> K]
  PROVE  Chosen(xs, K) = [k \in 1..m |-> xs[f[k]]]
BY DEF Chosen

\* A list in which nothing should come earlier is sorted.
LEMMA SortedAlready ==
  ASSUME NEW n \in Nat, NEW xs, xs = [k \in 1..n |-> xs[k]],
         NEW before, StrictWeak(Elements(xs), before),
         \A j, k \in 1..n : j < k => <<xs[k], xs[j]>> \notin before
  PROVE  SortedBy(xs, before) = xs
<1>1. PICK order : order = Stable(xs, before)
  OBVIOUS
<1>2. PICK f : f = [k \in 1..n |-> k]
  OBVIOUS
<1>3. \A j, k \in 1..n : j < k => <<f[j], f[k]>> \in order
  BY <1>1, <1>2 DEF Stable
<1>4. f \in [1..n -> 1..n] /\ \A x \in 1..n : \E k \in 1..n : f[k] = x
  BY <1>2
<1>5. StrictOrder(1..n, order) /\ IsFiniteSet(1..n)
  BY <1>1, StableOrder
<1>6. f = InOrder(1..n, order)
  BY <1>3, <1>4, <1>5, OnlyListing
<1>7. SortedBy(xs, before) = [k \in 1..n |-> xs[f[k]]]
  BY <1>1, <1>6 DEF SortedBy
<1> QED BY <1>2, <1>7

\* The entries of n lists in their order, c of them, and what they come to.
Through(lists, n, c, entry) ==
  /\ \A i \in 1..n : \A j \in DOMAIN lists[i] : \E p \in 1..c : entry[p] = <<i, j>>
  /\ \A p \in 1..c : /\ entry[p] = <<entry[p][1], entry[p][2]>>
                     /\ entry[p][1] \in 1..n /\ entry[p][2] \in DOMAIN lists[entry[p][1]]
                     /\ entry[p][2] \in Nat
  /\ \A p, q \in 1..c :
       p < q <=> \/ entry[p][1] < entry[q][1]
                 \/ entry[p][1] = entry[q][1] /\ entry[p][2] < entry[q][2]
  /\ Flattened(lists) = [p \in 1..c |-> lists[entry[p][1]][entry[p][2]]]

\* One list after another, by the entries it goes through.
LEMMA FlattenedEntries ==
  ASSUME NEW n \in Nat, NEW lists, DOMAIN lists = 1..n,
         \A i \in 1..n : \E m \in Nat : DOMAIN lists[i] = 1..m
  PROVE  \E c \in Nat : \E entry \in [1..c -> Entries(lists)] :
           Through(lists, n, c, entry)
<1>1. PICK E : E = Entries(lists)
  OBVIOUS
<1>2. PICK before : before = Lexical(E)
  OBVIOUS
<1>3. PICK entry : entry = InOrder(E, before)
  OBVIOUS
<1>4. PICK c : c = Cardinality(E)
  OBVIOUS
<1>5. /\ c \in Nat /\ entry \in [1..c -> E] /\ \A e \in E : \E p \in 1..c : entry[p] = e
      /\ \A p, q \in 1..c : p < q <=> <<entry[p], entry[q]>> \in before
  <2>1. IsFiniteSet(E) /\ StrictOrder(E, before)
    BY <1>1, <1>2, EntriesInOrder
  <2> QED BY <1>3, <1>4, <2>1, InOrderLists
<1>6. /\ \A i, j : <<i, j>> \in E <=> i \in 1..n /\ j \in DOMAIN lists[i]
      /\ \A e \in E : e = <<e[1], e[2]>> /\ e[1] \in 1..n /\ e[2] \in DOMAIN lists[e[1]] /\ e[2] \in Nat
  BY <1>1, EntriesInOrder
<1>7. Flattened(lists) = [p \in 1..c |-> lists[entry[p][1]][entry[p][2]]]
  BY <1>1, <1>2, <1>3, <1>5 DEF Flattened
<1>8. \A p, q \in 1..c : <<entry[p], entry[q]>> \in before
        <=> \/ entry[p][1] < entry[q][1]
            \/ entry[p][1] = entry[q][1] /\ entry[p][2] < entry[q][2]
  <2>1. \A d, e \in E : <<d, e>> \in before <=> d[1] < e[1] \/ (d[1] = e[1] /\ d[2] < e[2])
    BY <1>2 DEF Lexical
  <2>2. \A p \in 1..c : entry[p] \in E
    BY <1>5
  <2> QED BY <2>1, <2>2
<1>9. /\ \A i \in 1..n : \A j \in DOMAIN lists[i] : \E p \in 1..c : entry[p] = <<i, j>>
      /\ \A p \in 1..c : /\ entry[p] = <<entry[p][1], entry[p][2]>>
                         /\ entry[p][1] \in 1..n /\ entry[p][2] \in DOMAIN lists[entry[p][1]]
                         /\ entry[p][2] \in Nat
  <2>1. \A p \in 1..c : entry[p] \in E
    BY <1>5
  <2> QED BY <1>5, <1>6, <2>1
<1>10. c \in Nat /\ entry \in [1..c -> Entries(lists)]
  BY <1>1, <1>5
<1>11. \A p, q \in 1..c : p < q <=> \/ entry[p][1] < entry[q][1]
                                    \/ entry[p][1] = entry[q][1] /\ entry[p][2] < entry[q][2]
  BY <1>5, <1>8
<1>12. Through(lists, n, c, entry)
  BY <1>7, <1>9, <1>11 DEF Through
<1> QED BY <1>10, <1>12

\* The lists that hold something, one after another, are all of them.
LEMMA FlattenedSome ==
  ASSUME NEW n \in Nat, NEW lists, DOMAIN lists = 1..n,
         \A i \in 1..n : \E l \in Nat : DOMAIN lists[i] = 1..l,
         NEW m \in Nat, NEW g \in [1..m -> 1..n],
         \A j, k \in 1..m : j < k => g[j] < g[k],
         \A i \in 1..n : DOMAIN lists[i] # {} => \E k \in 1..m : g[k] = i
  PROVE  Flattened([k \in 1..m |-> lists[g[k]]]) = Flattened(lists)
<1>1. PICK some : some = [k \in 1..m |-> lists[g[k]]]
  OBVIOUS
<1>2. PICK E : E = Entries(lists)
  OBVIOUS
<1>0. PICK c \in Nat : \E entry \in [1..c -> Entries(some)] : Through(some, m, c, entry)
  <2>1. DOMAIN some = 1..m /\ \A k \in 1..m : \E l \in Nat : DOMAIN some[k] = 1..l
    BY <1>1
  <2> QED BY <2>1, FlattenedEntries
<1>3. PICK entry \in [1..c -> Entries(some)] :
        /\ \A i \in 1..m : \A j \in DOMAIN some[i] : \E p \in 1..c : entry[p] = <<i, j>>
        /\ \A p \in 1..c : /\ entry[p][1] \in 1..m /\ entry[p][2] \in DOMAIN some[entry[p][1]]
                           /\ entry[p][2] \in Nat
        /\ \A p, q \in 1..c :
             p < q <=> \/ entry[p][1] < entry[q][1]
                       \/ entry[p][1] = entry[q][1] /\ entry[p][2] < entry[q][2]
        /\ Flattened(some) = [p \in 1..c |-> some[entry[p][1]][entry[p][2]]]
  BY <1>0 DEF Through
<1>4. PICK h : h = [p \in 1..c |-> <<g[entry[p][1]], entry[p][2]>>]
  OBVIOUS
<1>5. /\ IsFiniteSet(E) /\ StrictOrder(E, Lexical(E))
      /\ \A i, j : <<i, j>> \in E <=> i \in 1..n /\ j \in DOMAIN lists[i]
      /\ \A e \in E : e = <<e[1], e[2]>> /\ e[1] \in 1..n /\ e[2] \in DOMAIN lists[e[1]] /\ e[2] \in Nat
  BY <1>2, EntriesInOrder
<1>6. h \in [1..c -> E]
  <2>1. ASSUME NEW p \in 1..c PROVE <<g[entry[p][1]], entry[p][2]>> \in E
    BY <1>1, <1>3, <1>5
  <2> QED BY <1>4, <2>1
<1>7. \A e \in E : \E p \in 1..c : h[p] = e
  <2>1. SUFFICES ASSUME NEW e \in E PROVE \E p \in 1..c : h[p] = e
    OBVIOUS
  <2>2. e = <<e[1], e[2]>> /\ e[1] \in 1..n /\ e[2] \in DOMAIN lists[e[1]]
    BY <1>5
  <2>3. PICK k \in 1..m : g[k] = e[1]
    BY <2>2
  <2>4. PICK p \in 1..c : entry[p] = <<k, e[2]>>
    BY <1>1, <1>3, <2>2, <2>3
  <2> QED BY <1>4, <2>2, <2>3, <2>4
<1>8. \A p, q \in 1..c : p < q => <<h[p], h[q]>> \in Lexical(E)
  <2>1. SUFFICES ASSUME NEW p \in 1..c, NEW q \in 1..c, p < q PROVE <<h[p], h[q]>> \in Lexical(E)
    OBVIOUS
  <2>2. PICK i \in 1..m : i = entry[p][1]
    BY <1>3
  <2>3. PICK j \in 1..m : j = entry[q][1]
    BY <1>3
  <2>4. h[p] = <<g[i], entry[p][2]>> /\ h[q] = <<g[j], entry[q][2]>>
    BY <1>4, <2>2, <2>3
  <2>5. g[i] < g[j] \/ (g[i] = g[j] /\ entry[p][2] < entry[q][2])
    BY <1>3, <2>1, <2>2, <2>3, SMTT(40)
  <2>6. h[p] \in E /\ h[q] \in E
    BY <1>6
  <2>7. \A d, e \in E : <<d, e>> \in Lexical(E) <=> d[1] < e[1] \/ (d[1] = e[1] /\ d[2] < e[2])
    BY DEF Lexical
  <2>8. /\ h[p][1] = g[i] /\ h[p][2] = entry[p][2]
        /\ h[q][1] = g[j] /\ h[q][2] = entry[q][2]
    BY <2>4
  <2> QED BY <2>5, <2>6, <2>7, <2>8
<1>9. c = Cardinality(E) /\ h = InOrder(E, Lexical(E))
  <2>1. PICK before : before = Lexical(E)
    OBVIOUS
  <2>3. StrictOrder(E, before) /\ \A p, q \in 1..c : p < q => <<h[p], h[q]>> \in before
    BY <1>5, <1>8, <2>1
  <2> QED BY <1>5, <1>6, <1>7, <2>1, OnlyListing, <2>3
<1>10. Flattened(lists) = [p \in 1..c |-> lists[h[p][1]][h[p][2]]]
  BY <1>2, <1>6, <1>9 DEF Flattened
<1>11. \A p \in 1..c : lists[h[p][1]][h[p][2]] = some[entry[p][1]][entry[p][2]]
  BY <1>1, <1>3, <1>4
<1> QED BY <1>1, <1>3, <1>10, <1>11, ZenonT(60)


\* Increasing places and what they choose, for every set of them.
LEMMA OnlyPlaces ==
  \A n \in Nat : \A K \in SUBSET (1..n) : \A m \in Nat : \A f \in [1..m -> K] :
    /\ \A i \in K : \E k \in 1..m : f[k] = i
    /\ \A j, k \in 1..m : j < k => f[j] < f[k]
    => m = Cardinality(K) /\ f = Places(K)
BY PlacesUnique

LEMMA AlongPlaces ==
  \A xs, K, m, f : m = Cardinality(K) /\ f = Places(K) /\ f \in [1..m -> K]
    => Chosen(xs, K) = [k \in 1..m |-> xs[f[k]]]
BY ChosenAlong

\* The places K are those that list i contributes.
FromOne(entry, c, i, K) == K \in SUBSET (1..c) /\ \A p \in 1..c : p \in K <=> entry[p][1] = i

\* The elements that one list contributes are that list.
LEMMA OneOfLists ==
  ASSUME NEW n \in Nat, NEW lists, NEW c \in Nat, NEW entry \in [1..c -> Entries(lists)],
         Through(lists, n, c, entry),
         NEW i \in 1..n, lists[i] \in Seq(Elements(lists[i])),
         NEW K, FromOne(entry, c, i, K)
  PROVE  Chosen(Flattened(lists), K) = lists[i]
<1>0. PICK size \in Nat : lists[i] = [k \in 1..size |-> lists[i][k]]
  <2>1. PICK xs : xs = lists[i]
    OBVIOUS
  <2>2. Len(xs) \in Nat /\ xs = [k \in 1..Len(xs) |-> xs[k]]
    BY <2>1
  <2> QED BY <2>1, <2>2
<1>1. PICK found : found = Flattened(lists)
  OBVIOUS
<1>2. /\ found = [p \in 1..c |-> lists[entry[p][1]][entry[p][2]]]
      /\ \A p \in 1..c : /\ entry[p] = <<entry[p][1], entry[p][2]>>
                         /\ entry[p][1] \in 1..n /\ entry[p][2] \in DOMAIN lists[entry[p][1]]
                         /\ entry[p][2] \in Nat
      /\ \A j \in 1..size : \E p \in 1..c : entry[p] = <<i, j>>
      /\ \A p, q \in 1..c :
           p < q <=> \/ entry[p][1] < entry[q][1]
                     \/ entry[p][1] = entry[q][1] /\ entry[p][2] < entry[q][2]
  BY <1>0, <1>1 DEF Through
<1>4. K \in SUBSET (1..c) /\ \A p \in 1..c : p \in K <=> entry[p][1] = i
  BY DEF FromOne
<1>5. PICK f : f = [j \in 1..size |-> CHOOSE p \in 1..c : entry[p] = <<i, j>>]
  OBVIOUS
<1>6. \A j \in 1..size : f[j] \in K /\ entry[f[j]] = <<i, j>>
  <2>1. SUFFICES ASSUME NEW j \in 1..size PROVE f[j] \in K /\ entry[f[j]] = <<i, j>>
    OBVIOUS
  <2>2. f[j] = CHOOSE p \in 1..c : entry[p] = <<i, j>>
    BY <1>5
  <2>3. \E p \in 1..c : entry[p] = <<i, j>>
    BY <1>2
  <2>4. f[j] \in 1..c /\ entry[f[j]] = <<i, j>>
    BY <2>2, <2>3
  <2>5. entry[f[j]][1] = i
    BY <2>4
  <2> QED BY <1>4, <2>4, <2>5
<1>7. f \in [1..size -> K]
  BY <1>5, <1>6
<1>8. \A j, k \in 1..size : j < k => f[j] < f[k]
  BY <1>2, <1>4, <1>6
<1>9. \A p \in K : \E j \in 1..size : f[j] = p
  <2>1. SUFFICES ASSUME NEW p \in K PROVE \E j \in 1..size : f[j] = p
    OBVIOUS
  <2>2. PICK j \in 1..size : entry[p] = <<i, j>>
    BY <1>0, <1>2, <1>4, <2>1
  <2>3. f[j] \in 1..c /\ p \in 1..c /\ entry[f[j]] = entry[p]
    BY <1>4, <1>6, <2>1, <2>2
  <2>4. ~(f[j] < p) /\ ~(p < f[j])
    <3>1. entry[p][1] = i /\ entry[p][2] = j /\ entry[f[j]][1] = i /\ entry[f[j]][2] = j
      BY <2>2, <2>3
    <3> QED BY <1>2, <2>3, <3>1
  <2> QED BY <2>3, <2>4
<1>10. Chosen(found, K) = [j \in 1..size |-> found[f[j]]]
  <2>1. f = Places(K) /\ size = Cardinality(K)
    BY <1>4, <1>7, <1>8, <1>9, OnlyPlaces
  <2> QED BY <1>7, <2>1, AlongPlaces
<1>11. \A j \in 1..size : found[f[j]] = lists[i][j]
  <2>1. ASSUME NEW j \in 1..size PROVE f[j] \in 1..c /\ entry[f[j]][1] = i /\ entry[f[j]][2] = j
    <3>1. f[j] \in K /\ entry[f[j]] = <<i, j>>
      BY <1>6
    <3>2. f[j] \in 1..c
      BY <1>4, <3>1
    <3> QED BY <3>1, <3>2
  <2>2. \A p \in 1..c : found[p] = lists[entry[p][1]][entry[p][2]]
    BY <1>2
  <2> QED BY <2>1, <2>2
<1> QED BY <1>0, <1>1, <1>10, <1>11

\* The first m of n elements are in order, and they alone have the property Q;
\* at the places K of the sorted list stand those that have it.
Foremost(ws, n, m, before, Q, K) ==
  /\ DOMAIN ws = 1..n /\ StrictWeak(Elements(ws), before)
  /\ \A j, k \in 1..m : j < k => <<ws[k], ws[j]>> \notin before
  /\ \A k \in 1..n : ws[k] \in Q <=> k <= m
  /\ \A k \in 1..n : k \in K <=> SortedBy(ws, before)[k] \in Q

\* They come out of the sort as they were, whatever is sorted with them.
LEMMA SortedKept ==
  ASSUME NEW n \in Nat, NEW m \in 0..n, NEW ws, NEW before, NEW Q, NEW K \in SUBSET (1..n),
         Foremost(ws, n, m, before, Q, K)
  PROVE  Chosen(SortedBy(ws, before), K) = [k \in 1..m |-> ws[k]]
<1>0. /\ DOMAIN ws = 1..n /\ StrictWeak(Elements(ws), before)
      /\ \A j, k \in 1..m : j < k => <<ws[k], ws[j]>> \notin before
      /\ \A k \in 1..n : ws[k] \in Q <=> k <= m
      /\ \A k \in 1..n : k \in K <=> SortedBy(ws, before)[k] \in Q
  BY DEF Foremost
<1>6. PICK vs : vs = SortedBy(ws, before)
  OBVIOUS
<1>1. PICK order : order = Stable(ws, before)
  OBVIOUS
<1>2. PICK place : place = InOrder(1..n, order)
  OBVIOUS
<1>3. StrictOrder(1..n, order) /\ IsFiniteSet(1..n) /\ Cardinality(1..n) = n
  BY <1>0, <1>1, StableOrder
<1>4. /\ place \in [1..n -> 1..n] /\ \A i \in 1..n : \E k \in 1..n : place[k] = i
      /\ \A j, k \in 1..n : j < k <=> <<place[j], place[k]>> \in order
  <2>1. PICK S : S = 1..n
    OBVIOUS
  <2>2. IsFiniteSet(S) /\ StrictOrder(S, order) /\ Cardinality(S) = n /\ place = InOrder(S, order)
    BY <1>2, <1>3, <2>1
  <2>3. /\ place \in [1..n -> S] /\ \A i \in S : \E k \in 1..n : place[k] = i
        /\ \A j, k \in 1..n : j < k <=> <<place[j], place[k]>> \in order
    BY <2>2, InOrderLists
  <2> QED BY <2>1, <2>3
<1>5. vs = [k \in 1..n |-> ws[place[k]]]
  BY <1>0, <1>1, <1>2, <1>6 DEF SortedBy
<1>7. \A k \in 1..n : k \in K <=> place[k] <= m
  <2>1. SUFFICES ASSUME NEW k \in 1..n PROVE k \in K <=> place[k] <= m
    OBVIOUS
  <2>2. place[k] \in 1..n /\ vs[k] = ws[place[k]]
    BY <1>4, <1>5
  <2>3. k \in K <=> vs[k] \in Q
    BY <1>0, <1>6
  <2> QED BY <1>0, <2>2, <2>3
<1>8. PICK f : f = [i \in 1..m |-> CHOOSE k \in 1..n : place[k] = i]
  OBVIOUS
<1>9. \A i \in 1..m : f[i] \in 1..n /\ place[f[i]] = i
  <2>1. SUFFICES ASSUME NEW i \in 1..m PROVE f[i] \in 1..n /\ place[f[i]] = i
    OBVIOUS
  <2>2. f[i] = CHOOSE k \in 1..n : place[k] = i
    BY <1>8
  <2>3. \E k \in 1..n : place[k] = i
    <3>1. i \in 1..n
      OBVIOUS
    <3> QED BY <1>4, <3>1
  <2> QED BY <2>2, <2>3
<1>10. f \in [1..m -> K]
  BY <1>7, <1>8, <1>9
<1>11. \A k \in K : \E i \in 1..m : f[i] = k
  <2>1. SUFFICES ASSUME NEW k \in K PROVE \E i \in 1..m : f[i] = k
    OBVIOUS
  <2>2. PICK i \in 1..m : i = place[k]
    BY <1>4, <1>7
  <2>3. f[i] \in 1..n /\ k \in 1..n /\ place[f[i]] = i /\ place[k] = i
    BY <1>7, <1>9, <2>2
  <2>4. <<i, i>> \notin order
    BY <1>3 DEF StrictOrder
  <2>5. ~(f[i] < k) /\ ~(k < f[i])
    BY <1>4, <2>3, <2>4
  <2> QED BY <2>3, <2>5
<1>12. \A i, j \in 1..m : i < j => f[i] < f[j]
  <2>1. SUFFICES ASSUME NEW i \in 1..m, NEW j \in 1..m, i < j PROVE f[i] < f[j]
    OBVIOUS
  <2>2. <<i, j>> \in order
    BY <1>0, <1>1, <2>1 DEF Stable
  <2> QED BY <1>4, <1>9, <2>2
<1>13. Chosen(vs, K) = [k \in 1..m |-> vs[f[k]]]
  <2>1. f = Places(K) /\ m = Cardinality(K)
    <3>1. m \in Nat
      OBVIOUS
    <3> QED BY <1>10, <1>11, <1>12, <3>1, OnlyPlaces
  <2> QED BY <1>10, <2>1, AlongPlaces
<1>14. \A k \in 1..m : vs[f[k]] = ws[k]
  BY <1>5, <1>9
<1> QED BY <1>13, <1>14, <1>6


\* What is chosen comes in the order of the list.
LEMMA ChosenOrder ==
  ASSUME NEW n \in Nat, NEW xs, DOMAIN xs = 1..n, NEW K \in SUBSET (1..n)
  PROVE  /\ \A k \in DOMAIN Chosen(xs, K) : \E i \in K : Chosen(xs, K)[k] = xs[i]
         /\ \A j, k \in DOMAIN Chosen(xs, K) : j < k =>
              \E h, i \in K : h < i /\ Chosen(xs, K)[j] = xs[h] /\ Chosen(xs, K)[k] = xs[i]
<1>1. PICK place : place = Places(K)
  OBVIOUS
<1>2. PICK m : m = Cardinality(K)
  OBVIOUS
<1>3. /\ m \in Nat /\ place \in [1..m -> K]
      /\ \A j, k \in 1..m : j < k <=> place[j] < place[k]
  BY <1>1, <1>2, PlacesInOrder
<1>4. PICK ys : ys = Chosen(xs, K)
  OBVIOUS
<1>5. ys = [k \in 1..m |-> xs[place[k]]]
  BY <1>1, <1>2, <1>3, <1>4, AlongPlaces
<1>6. DOMAIN ys = 1..m /\ \A k \in 1..m : ys[k] = xs[place[k]] /\ place[k] \in K
  BY <1>3, <1>5
<1>7. \A k \in DOMAIN ys : \E i \in K : ys[k] = xs[i]
  BY <1>6
<1>8. ASSUME NEW j \in DOMAIN ys, NEW k \in DOMAIN ys, j < k
      PROVE  \E h, i \in K : h < i /\ ys[j] = xs[h] /\ ys[k] = xs[i]
  <2>1. j \in 1..m /\ k \in 1..m
    BY <1>6
  <2>2. /\ place[j] \in K /\ place[k] \in K /\ place[j] < place[k]
        /\ ys[j] = xs[place[j]] /\ ys[k] = xs[place[k]]
    BY <1>3, <1>6, <1>8, <2>1
  <2> QED BY <2>2
<1> QED BY <1>4, <1>7, <1>8

\* Of a list without repetitions, only one list in strict order has the elements.
LEMMA SortedUnique ==
  ASSUME NEW n \in Nat, NEW ws, DOMAIN ws = 1..n, \A j, k \in 1..n : ws[j] = ws[k] => j = k,
         NEW before, StrictOrder(Elements(ws), before),
         NEW m \in Nat, NEW us, us = [k \in 1..m |-> us[k]], Elements(us) = Elements(ws),
         \A j, k \in 1..m : j < k => <<us[j], us[k]>> \in before
  PROVE  SortedBy(ws, before) = us
<1>1. PICK E : E = Elements(ws)
  OBVIOUS
<1>2. E = {ws[k] : k \in 1..n}
  BY <1>1 DEF Elements
<1>3. IsFiniteSet(E)
  <2>1. IsFiniteSet(1..n)
    <3>1. 1 \in Int /\ n \in Int
      OBVIOUS
    <3> QED BY <3>1, FS_Interval
  <2>2. PICK f : f = [k \in 1..n |-> ws[k]]
    OBVIOUS
  <2>3. f \in Surjection(1..n, E)
    BY <1>2, <2>2 DEF Surjection
  <2> QED BY <2>1, <2>3, FS_Surjection
<1>4. StrictOrder(E, before)
  BY <1>1
<1>5. StrictWeak(E, before)
  <2>1. /\ \A x \in E : <<x, x>> \notin before
        /\ \A x, y \in E : x # y => <<x, y>> \in before \/ <<y, x>> \in before
        /\ \A x, y, z \in E : <<x, y>> \in before /\ <<y, z>> \in before => <<x, z>> \in before
    BY <1>4 DEF StrictOrder
  <2>2. \A x, y \in E : <<x, y>> \in before => <<y, x>> \notin before
    BY <2>1
  <2>3. \A x, y, z \in E : <<x, z>> \in before => <<x, y>> \in before \/ <<y, z>> \in before
    BY <2>1
  <2> QED BY <2>2, <2>3 DEF StrictWeak
<1>6. us = InOrder(E, before)
  <2>1. us \in [1..m -> E] /\ \A x \in E : \E k \in 1..m : us[k] = x
    BY <1>1 DEF Elements
  <2> QED BY <1>3, <1>4, <2>1, OnlyListing
<1>7. PICK order : order = Stable(ws, before)
  OBVIOUS
<1>8. PICK S : S = 1..n
  OBVIOUS
<1>9. StrictOrder(S, order) /\ IsFiniteSet(S) /\ Cardinality(S) = n
  BY <1>1, <1>5, <1>7, <1>8, StableOrder
<1>10. PICK place : place = InOrder(S, order)
  OBVIOUS
<1>11. /\ place \in [1..n -> S] /\ \A i \in S : \E k \in 1..n : place[k] = i
       /\ \A j, k \in 1..n : j < k <=> <<place[j], place[k]>> \in order
  BY <1>9, <1>10, InOrderLists
<1>12. PICK vs : vs = SortedBy(ws, before)
  OBVIOUS
<1>13. vs = [k \in 1..n |-> ws[place[k]]]
  BY <1>7, <1>8, <1>10, <1>12 DEF SortedBy
<1>14. vs \in [1..n -> E] /\ \A x \in E : \E k \in 1..n : vs[k] = x
  BY <1>2, <1>8, <1>11, <1>13
<1>15. ASSUME NEW j \in 1..n, NEW k \in 1..n, j < k PROVE <<vs[j], vs[k]>> \in before
  <2>1. place[j] \in 1..n /\ place[k] \in 1..n /\ place[j] # place[k]
    BY <1>8, <1>9, <1>11, <1>15 DEF StrictOrder
  <2>2. vs[j] # vs[k] /\ vs[j] \in E /\ vs[k] \in E
    BY <1>13, <1>14, <2>1
  <2>3. <<vs[k], vs[j]>> \notin before
    BY <1>1, <1>5, <1>12, <1>15, SortedLists
  <2> QED BY <1>4, <2>2, <2>3 DEF StrictOrder
<1>16. vs = InOrder(E, before)
  BY <1>3, <1>4, <1>14, <1>15, OnlyListing
<1> QED BY <1>6, <1>12, <1>16

=============================================================================
