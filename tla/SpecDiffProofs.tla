--------------------------- MODULE SpecDiffProofs ---------------------------
(***************************************************************************)
(* What a list of differences is worth, for specifications of any size.    *)
(* Everything rests on one fact about the matching of objects by name: when *)
(* no list has two objects of one spelling, "is matched to" is a relation   *)
(* that reads the same from either side (PairedSymmetric).                 *)
(***************************************************************************)
EXTENDS SpecDiff, WellFoundedInduction, TLAPS

\* A list of named objects of which no two are spelled alike.
NamedList(xs) == xs \in Seq(Elements(xs)) /\ Distinct(xs)

\* No table has two constraints of one name, which is what finding
\* spec_diff_shared lacks.
DistinctConstraints == \A x \in ComparedSpec : Distinct(x.constraints)

----------------------------------------------------------------------------
(* Matching by name.                                                       *)

LEMMA LeastOf ==
  ASSUME NEW S \in SUBSET Nat, S # {}
  PROVE  \E k \in S : \A j \in S : k <= j
<1>1. PICK k \in S : \A j \in S : ~(<<j, k>> \in OpToRel(<, Nat))
  BY NatLessThanWellFounded, WFMin
<1>2. \A j \in S : ~(j < k)
  BY <1>1 DEF OpToRel
<1> QED BY <1>2

LEMMA LastGreatest ==
  ASSUME NEW n \in Nat, NEW S \in SUBSET (1..n), S # {}
  PROVE  Last(S) \in S /\ \A j \in S : j <= Last(S)
<1> DEFINE B == {m \in Nat : \A j \in S : j <= m}
<1>1. n \in B
  OBVIOUS
<1>2. PICK m \in B : \A k \in B : m <= k
  <2> HIDE DEF B
  <2>1. B \in SUBSET Nat
    BY DEF B
  <2> QED BY <1>1, <2>1, LeastOf
<1>3. m \in S
  <2>1. SUFFICES ASSUME m \notin S PROVE FALSE
    OBVIOUS
  <2>2. PICK j \in S : TRUE
    OBVIOUS
  <2>3. m # 0 /\ \A k \in S : k <= m - 1
    BY <2>1, <2>2
  <2>4. m - 1 \in B
    BY <2>3
  <2> QED BY <2>4, <1>2
<1>4. \E i \in S : \A j \in S : j <= i
  BY <1>2, <1>3
<1> QED BY <1>4 DEF Last

LEMMA ListDomain ==
  ASSUME NEW xs, xs \in Seq(Elements(xs))
  PROVE  DOMAIN xs = 1..Len(xs) /\ Len(xs) \in Nat
OBVIOUS

\* Two objects belong together: they are spelled alike, or no object is spelled
\* like the one and their folded spelling is nobody else's.
Paired(xs, ys, i, j) ==
  \/ xs[i].name = ys[j].name
  \/ /\ \A k \in DOMAIN ys : ys[k].name # xs[i].name
     /\ Fold[xs[i].name] = Fold[ys[j].name]
     /\ Fold[xs[i].name] \notin Excluded(xs, ys)

LEMMA CollidingUnique ==
  ASSUME NEW xs, NEW i \in DOMAIN xs, NEW j \in DOMAIN xs,
         Fold[xs[i].name] = Fold[xs[j].name], Fold[xs[i].name] \notin Colliding(xs)
  PROVE  i = j
BY DEF Colliding

LEMMA PairedSymmetric ==
  ASSUME NEW xs, NamedList(xs), NEW ys, NamedList(ys),
         NEW i \in DOMAIN xs, NEW j \in DOMAIN ys, Paired(xs, ys, i, j)
  PROVE  Paired(ys, xs, j, i)
<1>1. CASE xs[i].name = ys[j].name
  BY <1>1 DEF Paired
<1>2. CASE xs[i].name # ys[j].name
  <2>1. /\ Fold[xs[i].name] = Fold[ys[j].name]
        /\ Fold[xs[i].name] \notin Colliding(xs) /\ Fold[xs[i].name] \notin Colliding(ys)
    BY <1>2 DEF Paired, Excluded
  <2>2. ASSUME NEW k \in DOMAIN xs, xs[k].name = ys[j].name PROVE FALSE
    <3>1. k = i
      BY <2>1, <2>2, CollidingUnique
    <3> QED BY <3>1, <2>2, <1>2
  <2> QED BY <2>1, <2>2 DEF Paired, Excluded
<1> QED BY <1>1, <1>2

LEMMA PairedUnique ==
  ASSUME NEW xs, NEW ys, NamedList(ys), NEW i \in DOMAIN xs,
         NEW j \in DOMAIN ys, NEW k \in DOMAIN ys, Paired(xs, ys, i, j), Paired(xs, ys, i, k)
  PROVE  j = k
<1>1. CASE \E l \in DOMAIN ys : ys[l].name = xs[i].name
  BY <1>1 DEF Paired, NamedList, Distinct
<1>2. CASE ~\E l \in DOMAIN ys : ys[l].name = xs[i].name
  <2>1. /\ Fold[ys[j].name] = Fold[xs[i].name] /\ Fold[ys[k].name] = Fold[xs[i].name]
        /\ Fold[xs[i].name] \notin Colliding(ys)
    BY <1>2 DEF Paired, Excluded
  <2> QED BY <2>1, CollidingUnique
<1> QED BY <1>1, <1>2

\* Lookup finds the one object that belongs to a name, and nothing otherwise.
LEMMA MatchingPairs ==
  ASSUME NEW xs, NamedList(xs), NEW ys, NamedList(ys), NEW i \in DOMAIN xs
  PROVE  /\ Matching(xs, ys)[i] \in DOMAIN ys \cup {0}
         /\ \A j \in DOMAIN ys : Matching(xs, ys)[i] = j <=> Paired(xs, ys, i, j)
         /\ 0 \notin DOMAIN ys
<1> DEFINE exact == {j \in DOMAIN ys : ys[j].name = xs[i].name}
           folded == {j \in DOMAIN ys : Fold[ys[j].name] = Fold[xs[i].name]}
<1>0. PICK found : found = Matching(xs, ys)[i]
  OBVIOUS
<1>1. DOMAIN ys = 1..Len(ys) /\ Len(ys) \in Nat
  BY ListDomain DEF NamedList
<1>2. found = IF exact # {} THEN Last(exact)
              ELSE IF Fold[xs[i].name] \in Excluded(xs, ys) THEN 0 ELSE Last(folded)
  BY <1>0 DEF Matching, Lookup
<1>3. exact \in SUBSET (1..Len(ys)) /\ folded \in SUBSET (1..Len(ys))
  BY <1>1
<1>4. Last({}) = 0
  BY DEF Last
<1>5. CASE exact # {}
  <2>1. found \in exact
    <3> HIDE DEF exact
    <3> QED BY <1>1, <1>2, <1>3, <1>5, LastGreatest
  <2>2. found \in DOMAIN ys /\ Paired(xs, ys, i, found)
    <3> QED BY <2>1 DEF Paired
  <2> QED BY <1>0, <2>2, <1>1, PairedUnique
<1>6. CASE exact = {} /\ Fold[xs[i].name] \in Excluded(xs, ys)
  <2>1. found = 0
    <3> QED BY <1>2, <1>6
  <2>2. \A j \in DOMAIN ys : ~Paired(xs, ys, i, j)
    BY <1>6 DEF Paired
  <2> QED BY <1>0, <2>1, <2>2, <1>1
<1>7. CASE exact = {} /\ Fold[xs[i].name] \notin Excluded(xs, ys)
  <2>1. found = Last(folded)
    <3> QED BY <1>2, <1>7
  <2>2. \A j \in DOMAIN ys : j \in folded <=> Paired(xs, ys, i, j)
    BY <1>7 DEF Paired
  <2>3. CASE folded = {}
    <3>1. found = 0
      BY <2>1, <2>3, <1>4
    <3> QED BY <1>0, <3>1, <2>2, <2>3, <1>1
  <2>4. CASE folded # {}
    <3>1. found \in folded
      <4> HIDE DEF folded
      <4> QED BY <1>1, <1>3, <2>1, <2>4, LastGreatest
    <3>2. found \in DOMAIN ys /\ Paired(xs, ys, i, found)
      <4> QED BY <3>1, <2>2
    <3> QED BY <1>0, <3>2, <1>1, PairedUnique
  <2> QED BY <2>3, <2>4
<1> QED BY <1>5, <1>6, <1>7

LEMMA MatchingInjective ==
  ASSUME NEW xs, NamedList(xs), NEW ys, NamedList(ys)
  PROVE  Injective(Matching(xs, ys))
<1> DEFINE match == Matching(xs, ys)
<1>1. DOMAIN match = DOMAIN xs
  BY DEF Matching
<1>2. ASSUME NEW i \in DOMAIN xs, NEW j \in DOMAIN xs, match[i] = match[j], match[i] # 0 PROVE i = j
  <2>1. match[i] \in DOMAIN ys /\ match[j] \in DOMAIN ys
    BY <1>2, MatchingPairs
  <2>2. Paired(xs, ys, i, match[i]) /\ Paired(xs, ys, j, match[j])
    BY <2>1, MatchingPairs
  <2>3. Paired(ys, xs, match[i], i) /\ Paired(ys, xs, match[i], j)
    BY <2>1, <2>2, <1>2, PairedSymmetric
  <2> QED BY <2>1, <2>3, PairedUnique
<1> QED BY <1>1, <1>2 DEF Injective


----------------------------------------------------------------------------
(* An empty list.                                                          *)

LEMMA TypesAgree ==
  ASSUME NEW s, s = [base |-> s.base, width |-> s.width, attributes |-> s.attributes],
         NEW t, t = [base |-> t.base, width |-> t.width, attributes |-> t.attributes]
  PROVE  NormalizedType(s) = NormalizedType(t) <=> SameType(s, t)
<1> DEFINE Stripped(u) == [base |-> u.base, width |-> 0, attributes |-> u.attributes]
           Strips(u) == /\ u.base \in DisplayWidthBase
                        /\ ~(u.base = "tinyint" /\ u.width = 1)
                        /\ "zerofill" \notin u.attributes
<1>1. NormalizedType(s) = IF Strips(s) THEN Stripped(s) ELSE s
  BY DEF NormalizedType
<1>2. NormalizedType(t) = IF Strips(t) THEN Stripped(t) ELSE t
  BY DEF NormalizedType
<1>3. CASE Strips(s) /\ Strips(t)
  BY <1>1, <1>2, <1>3 DEF SameType
<1>4. CASE Strips(s) /\ ~Strips(t)
  <2>1. SameType(s, t) => FALSE
    BY <1>4 DEF SameType
  <2>2. Stripped(s) = t => FALSE
    BY <1>4
  <2> QED BY <1>1, <1>2, <1>4, <2>1, <2>2
<1>5. CASE ~Strips(s) /\ Strips(t)
  <2>1. SameType(s, t) => FALSE
    BY <1>5 DEF SameType
  <2>2. Stripped(t) = s => FALSE
    BY <1>5
  <2> QED BY <1>1, <1>2, <1>5, <2>1, <2>2
<1>6. CASE ~Strips(s) /\ ~Strips(t)
  BY <1>1, <1>2, <1>6 DEF SameType
<1> QED BY <1>3, <1>4, <1>5, <1>6

LEMMA ColumnsAgree ==
  ASSUME NEW x, IsColumn(x), NEW y, IsColumn(y)
  PROVE  x.name = y.name /\ ColumnPair(x, y) = {} <=> SameColumn(x, y)
<1>1. NormalizedType(x.type) = NormalizedType(y.type) <=> SameType(x.type, y.type)
  BY TypesAgree DEF IsColumn
<1>2. x.facts = y.facts <=> \A f \in ColumnFact : x.facts[f] = y.facts[f]
  BY DEF IsColumn
<1>3. DefaultDiff(x, y) = {} <=>
        x.default = y.default /\ (x.default # NoDefault => x.expression = y.expression)
  BY DEF DefaultDiff
<1>4. ColumnPair(x, y) = {} <=>
        /\ \A f \in ColumnFact : x.facts[f] = y.facts[f]
        /\ NormalizedType(x.type) = NormalizedType(y.type)
        /\ x.ordinal = y.ordinal
        /\ DefaultDiff(x, y) = {}
  BY DEF ColumnPair, Unless
<1> QED BY <1>1, <1>2, <1>3, <1>4 DEF SameColumn

LEMMA IndexesAgree ==
  ASSUME NEW x, IsIndex(x), NEW y, IsIndex(y)
  PROVE  x.name = y.name /\ IndexPair(x, y) = {} <=> SameIndex(x, y)
<1>1. x.facts = y.facts <=> \A f \in IndexFact : x.facts[f] = y.facts[f]
  BY DEF IsIndex
<1>2. /\ DOMAIN x.parts = 1..Len(x.parts) /\ Len(x.parts) \in Nat
      /\ DOMAIN y.parts = 1..Len(y.parts) /\ Len(y.parts) \in Nat
  BY ListDomain DEF IsIndex
<1>3. PartsEqual(x.parts, y.parts) <=>
        [i \in DOMAIN x.parts |-> <<Fold[x.parts[i].column], x.parts[i].rest>>] =
        [i \in DOMAIN y.parts |-> <<Fold[y.parts[i].column], y.parts[i].rest>>]
  <2> DEFINE F == [i \in DOMAIN x.parts |-> <<Fold[x.parts[i].column], x.parts[i].rest>>]
             G == [i \in DOMAIN y.parts |-> <<Fold[y.parts[i].column], y.parts[i].rest>>]
  <2>1. ASSUME PartsEqual(x.parts, y.parts) PROVE F = G
    BY <1>2, <2>1 DEF PartsEqual
  <2>2. ASSUME F = G PROVE PartsEqual(x.parts, y.parts)
    <3>1. DOMAIN x.parts = DOMAIN y.parts
      BY <2>2
    <3>2. Len(x.parts) = Len(y.parts)
      BY <1>2, <3>1
    <3>3. ASSUME NEW i \in DOMAIN x.parts
          PROVE  Fold[x.parts[i].column] = Fold[y.parts[i].column] /\ x.parts[i].rest = y.parts[i].rest
      <4>1. F[i] = G[i]
        BY <2>2
      <4> QED BY <3>1, <4>1
    <3> QED BY <3>2, <3>3 DEF PartsEqual
  <2> QED BY <2>1, <2>2
<1>4. IndexPair(x, y) = {} <=>
        PartsEqual(x.parts, y.parts) /\ \A f \in IndexFact : x.facts[f] = y.facts[f]
  BY DEF IndexPair, Unless
<1> QED BY <1>1, <1>3, <1>4 DEF SameIndex

LEMMA ConstraintsAgree ==
  ASSUME NEW x, IsConstraint(x), NEW y, IsConstraint(y)
  PROVE  x.name = y.name /\ ConstraintPair(x, y) = {} <=> SameConstraint(x, y)
<1>1. x.kind = y.kind => (x.facts = y.facts <=> \A f \in ConstraintFact[x.kind] : x.facts[f] = y.facts[f])
  BY DEF IsConstraint
<1> QED BY <1>1 DEF ConstraintPair, SameConstraint

\* NamedDiffs with the comparison of a pair chosen by the object.
PairOf(object, x, y) == IF object = "Column" THEN ColumnPair(x, y) ELSE IndexPair(x, y)
DiffsOf(object, xs, ys) == NamedDiffs(object, xs, ys, LAMBDA x, y : PairOf(object, x, y))

LEMMA DiffsOfColumnsAndIndexes ==
  ASSUME NEW xs, NEW ys
  PROVE  /\ NamedDiffs("Column", xs, ys, ColumnPair) = DiffsOf("Column", xs, ys)
         /\ NamedDiffs("Index", xs, ys, IndexPair) = DiffsOf("Index", xs, ys)
BY DEF NamedDiffs, DiffsOf, PairOf

LEMMA NamedAgree ==
  ASSUME NEW object, NEW xs, NamedList(xs), NEW ys, NamedList(ys)
  PROVE  DiffsOf(object, xs, ys) = {} <=>
           /\ \A x \in Elements(xs) : \E y \in Elements(ys) : x.name = y.name /\ PairOf(object, x, y) = {}
           /\ \A y \in Elements(ys) : \E x \in Elements(xs) : x.name = y.name /\ PairOf(object, x, y) = {}
<1> DEFINE match == Matching(xs, ys)
           found == {i \in DOMAIN xs : match[i] # 0}
           Like(i, j) == xs[i].name = ys[j].name /\ PairOf(object, xs[i], ys[j]) = {}
<1>1. DiffsOf(object, xs, ys) = {} <=>
        /\ DOMAIN xs \subseteq found
        /\ DOMAIN ys \subseteq {match[i] : i \in found}
        /\ \A i \in found : xs[i].name = ys[match[i]].name
        /\ \A i \in found : PairOf(object, xs[i], ys[match[i]]) = {}
  <2> DEFINE Lost == {Diff(object, "Absent", "SideB", xs[i].name) : i \in DOMAIN xs \ found}
             New == {Diff(object, "Absent", "SideA", ys[j].name) :
                       j \in DOMAIN ys \ {match[i] : i \in found}}
             Renamed == {Diff(object, "NameCase", "SideBoth", xs[i].name) :
                           i \in {i \in found : xs[i].name # ys[match[i]].name}}
             Changed(i) == {Diff(object, what[1], what[2], xs[i].name) :
                              what \in PairOf(object, xs[i], ys[match[i]])}
  <2>1. DiffsOf(object, xs, ys) = Lost \cup New \cup Renamed \cup UNION {Changed(i) : i \in found}
    BY DEF DiffsOf, NamedDiffs
  <2> HIDE DEF match
  <2>2. Lost = {} <=> DOMAIN xs \subseteq found
    OBVIOUS
  <2>3. New = {} <=> DOMAIN ys \subseteq {match[i] : i \in found}
    OBVIOUS
  <2>4. Renamed = {} <=> \A i \in found : xs[i].name = ys[match[i]].name
    OBVIOUS
  <2>5. \A i \in found : Changed(i) = {} <=> PairOf(object, xs[i], ys[match[i]]) = {}
    OBVIOUS
  <2>6. UNION {Changed(i) : i \in found} = {} <=> \A i \in found : Changed(i) = {}
    <3> HIDE DEF Changed, found
    <3> QED OBVIOUS
  <2> HIDE DEF Lost, New, Renamed, Changed, found
  <2> QED BY <2>1, <2>2, <2>3, <2>4, <2>5, <2>6
<1>2. \A i \in found : match[i] \in DOMAIN ys
  BY MatchingPairs
<1>3. \A i \in DOMAIN xs : \A j \in DOMAIN ys : Like(i, j) => i \in found /\ match[i] = j
  <2> SUFFICES ASSUME NEW i \in DOMAIN xs, NEW j \in DOMAIN ys, Like(i, j)
               PROVE  i \in found /\ match[i] = j
    OBVIOUS
  <2>1. Paired(xs, ys, i, j)
    BY DEF Paired
  <2> QED BY <2>1, MatchingPairs
<1>4. ASSUME DiffsOf(object, xs, ys) = {}
      PROVE  /\ \A i \in DOMAIN xs : \E j \in DOMAIN ys : Like(i, j)
             /\ \A j \in DOMAIN ys : \E i \in DOMAIN xs : Like(i, j)
  <2> HIDE DEF match
  <2> QED BY <1>1, <1>2, <1>4
<1>5. ASSUME \A i \in DOMAIN xs : \E j \in DOMAIN ys : Like(i, j),
             \A j \in DOMAIN ys : \E i \in DOMAIN xs : Like(i, j)
      PROVE  DiffsOf(object, xs, ys) = {}
  <2>1. DOMAIN xs \subseteq found
    <3> HIDE DEF Like, match
    <3> QED BY <1>3, <1>5
  <2>2. DOMAIN ys \subseteq {match[i] : i \in found}
    <3> SUFFICES ASSUME NEW j \in DOMAIN ys PROVE \E i \in found : match[i] = j
      OBVIOUS
    <3> HIDE DEF Like, found, match
    <3>1. PICK i \in DOMAIN xs : Like(i, j)
      BY <1>5
    <3> QED BY <1>3, <3>1
  <2>3. ASSUME NEW i \in found PROVE Like(i, match[i])
    <3> HIDE DEF Like, match
    <3>1. PICK j \in DOMAIN ys : Like(i, j)
      BY <1>5
    <3> QED BY <1>3, <3>1
  <2> HIDE DEF match
  <2> QED BY <1>1, <2>1, <2>2, <2>3
<1>6. (\A x \in Elements(xs) : \E y \in Elements(ys) : x.name = y.name /\ PairOf(object, x, y) = {}) <=>
        \A i \in DOMAIN xs : \E j \in DOMAIN ys : Like(i, j)
  BY ZenonT(60) DEF Elements
<1>7. (\A y \in Elements(ys) : \E x \in Elements(xs) : x.name = y.name /\ PairOf(object, x, y) = {}) <=>
        \A j \in DOMAIN ys : \E i \in DOMAIN xs : Like(i, j)
  BY ZenonT(60) DEF Elements
<1> HIDE DEF Like
<1> QED BY <1>4, <1>5, <1>6, <1>7


\* Constraints match by name alone.
NamedAs(xs, ys) == [i \in DOMAIN xs |-> Last({j \in DOMAIN ys : ys[j].name = xs[i].name})]

LEMMA NamedAsPairs ==
  ASSUME NEW xs, NEW ys, NamedList(ys), NEW i \in DOMAIN xs
  PROVE  /\ NamedAs(xs, ys)[i] \in DOMAIN ys \cup {0}
         /\ \A j \in DOMAIN ys : NamedAs(xs, ys)[i] = j <=> xs[i].name = ys[j].name
         /\ 0 \notin DOMAIN ys
<1> DEFINE S == {j \in DOMAIN ys : ys[j].name = xs[i].name}
<1>1. DOMAIN ys = 1..Len(ys) /\ Len(ys) \in Nat
  BY ListDomain DEF NamedList
<1>2. PICK found : found = NamedAs(xs, ys)[i]
  OBVIOUS
<1>3. found = Last(S)
  BY <1>2 DEF NamedAs
<1>4. CASE S = {}
  <2>1. found = 0
    BY <1>3, <1>4 DEF Last
  <2> QED BY <1>1, <1>2, <1>4, <2>1
<1>5. CASE S # {}
  <2>1. S \in SUBSET (1..Len(ys))
    BY <1>1
  <2>2. found \in S
    <3> HIDE DEF S
    <3> QED BY <1>1, <1>3, <1>5, <2>1, LastGreatest
  <2> QED BY <1>1, <1>2, <2>2 DEF NamedList, Distinct
<1> QED BY <1>4, <1>5

LEMMA ConstraintListsAgree ==
  ASSUME BothCaptured("Constraint"), NamedList(b.constraints),
         \A c \in Elements(a.constraints) \cup Elements(b.constraints) : IsConstraint(c)
  PROVE  ConstraintDiffs = {} <=> SameObjects(a.constraints, b.constraints, SameConstraint)
<1> DEFINE xs == a.constraints
           ys == b.constraints
           match == NamedAs(xs, ys)
           found == {i \in DOMAIN xs : match[i] # 0}
           Like(i, j) == xs[i].name = ys[j].name /\ ConstraintPair(xs[i], ys[j]) = {}
           Lost == {Diff("Constraint", "Absent", "SideB", xs[i].name) : i \in DOMAIN xs \ found}
           New == {Diff("Constraint", "Absent", "SideA", n) :
                     n \in {ys[j].name : j \in DOMAIN ys} \ {xs[i].name : i \in found}}
           Changed(i) == {Diff("Constraint", what, "SideBoth", xs[i].name) :
                            what \in ConstraintPair(xs[i], ys[match[i]])}
<1>1. ConstraintDiffs = Lost \cup New \cup UNION {Changed(i) : i \in found}
  BY DEF ConstraintDiffs, NamedAs
<1>2. Lost = {} <=> DOMAIN xs \subseteq found
  <2> HIDE DEF match
  <2> QED OBVIOUS
<1>3. New = {} <=> \A j \in DOMAIN ys : \E i \in found : ys[j].name = xs[i].name
  <2> HIDE DEF found
  <2> QED OBVIOUS
<1>4. UNION {Changed(i) : i \in found} = {} <=> \A i \in found : ConstraintPair(xs[i], ys[match[i]]) = {}
  <2>1. \A i \in found : Changed(i) = {} <=> ConstraintPair(xs[i], ys[match[i]]) = {}
    <3> HIDE DEF match
    <3> QED OBVIOUS
  <2>2. UNION {Changed(i) : i \in found} = {} <=> \A i \in found : Changed(i) = {}
    <3> HIDE DEF Changed, found
    <3> QED OBVIOUS
  <2> HIDE DEF Changed, found, match
  <2> QED BY <2>1, <2>2
<1>5. \A i \in found : match[i] \in DOMAIN ys /\ xs[i].name = ys[match[i]].name
  BY NamedAsPairs
<1>6. \A i \in DOMAIN xs : \A j \in DOMAIN ys : xs[i].name = ys[j].name => i \in found /\ match[i] = j
  BY NamedAsPairs
<1>7. ASSUME ConstraintDiffs = {}
      PROVE  /\ \A i \in DOMAIN xs : \E j \in DOMAIN ys : Like(i, j)
             /\ \A j \in DOMAIN ys : \E i \in DOMAIN xs : Like(i, j)
  <2>1. \A i \in found : Like(i, match[i])
    <3> HIDE DEF Lost, New, Changed, match
    <3> QED BY <1>1, <1>4, <1>5, <1>7
  <2>2. DOMAIN xs \subseteq found /\ \A j \in DOMAIN ys : \E i \in found : ys[j].name = xs[i].name
    <3> HIDE DEF Lost, New, Changed, match
    <3> QED BY <1>1, <1>2, <1>3, <1>7
  <2>3. ASSUME NEW j \in DOMAIN ys PROVE \E i \in DOMAIN xs : Like(i, j)
    <3>1. PICK i \in found : ys[j].name = xs[i].name
      BY <2>2
    <3>2. match[i] = j
      <4> HIDE DEF match
      <4> QED BY <1>6, <3>1
    <3> HIDE DEF Like, match
    <3> QED BY <2>1, <3>1, <3>2
  <2> HIDE DEF Like, match
  <2> QED BY <1>5, <2>1, <2>2, <2>3
<1>8. ASSUME \A i \in DOMAIN xs : \E j \in DOMAIN ys : Like(i, j),
             \A j \in DOMAIN ys : \E i \in DOMAIN xs : Like(i, j)
      PROVE  ConstraintDiffs = {}
  <2>1. DOMAIN xs \subseteq found
    <3> HIDE DEF match
    <3> QED BY <1>6, <1>8
  <2>2. \A j \in DOMAIN ys : \E i \in found : ys[j].name = xs[i].name
    <3> HIDE DEF match
    <3> QED BY <1>6, <1>8
  <2>3. ASSUME NEW i \in found PROVE ConstraintPair(xs[i], ys[match[i]]) = {}
    <3>1. PICK j \in DOMAIN ys : Like(i, j)
      BY <1>8
    <3>2. match[i] = j
      <4> HIDE DEF match
      <4> QED BY <1>6, <3>1
    <3> HIDE DEF match
    <3> QED BY <3>1, <3>2
  <2> HIDE DEF Lost, New, Changed, match
  <2> QED BY <1>1, <1>2, <1>3, <1>4, <2>1, <2>2, <2>3
<1>9. \A i \in DOMAIN xs : \A j \in DOMAIN ys : Like(i, j) <=> SameConstraint(xs[i], ys[j])
  BY ConstraintsAgree DEF Elements
<1>10. SameObjects(xs, ys, SameConstraint) <=>
         /\ \A i \in DOMAIN xs : \E j \in DOMAIN ys : SameConstraint(xs[i], ys[j])
         /\ \A j \in DOMAIN ys : \E i \in DOMAIN xs : SameConstraint(xs[i], ys[j])
  BY Zenon DEF SameObjects, Elements
<1> HIDE DEF Like, match
<1> QED BY <1>7, <1>8, <1>9, <1>10


LEMMA GapClosed ==
  ASSUME NEW section
  PROVE  CaptureGap(section) = {} <=> (section \in a.captured <=> section \in b.captured)
BY DEF CaptureGap

\* A specification without regard to its constraints, nor to indexes it lacks.
IsOpenSpec(x) ==
  /\ x.level = [f \in LevelFact |-> x.level[f]] /\ x.captured \subseteq Section
  /\ NamedList(x.columns) /\ \A c \in Elements(x.columns) : IsColumn(c)
  /\ "Index" \in x.captured =>
       NamedList(x.indexes) /\ \A i \in Elements(x.indexes) : IsIndex(i)

\* An empty list says that the two specifications agree, whatever is said of
\* their constraints.
LEMMA SectionsAgree ==
  ASSUME IsOpenSpec(a), IsOpenSpec(b)
  PROVE  DiffSpecs = {} <=>
           /\ a.level = b.level
           /\ "Comment" \in a.captured <=> "Comment" \in b.captured
           /\ "Comment" \in a.captured => a.comment = b.comment
           /\ SameObjects(a.columns, b.columns, SameColumn)
           /\ "Index" \in a.captured <=> "Index" \in b.captured
           /\ "Index" \in a.captured => SameObjects(a.indexes, b.indexes, SameIndex)
           /\ ConstraintDiffs = {}
<1>1. NamedList(a.columns) /\ NamedList(b.columns)
  BY DEF IsOpenSpec
<1>2. NamedDiffs("Column", a.columns, b.columns, ColumnPair) = {} <=>
        SameObjects(a.columns, b.columns, SameColumn)
  <2>1. \A x \in Elements(a.columns) : \A y \in Elements(b.columns) :
          x.name = y.name /\ PairOf("Column", x, y) = {} <=> SameColumn(x, y)
    BY ColumnsAgree DEF IsOpenSpec, PairOf
  <2>2. NamedDiffs("Column", a.columns, b.columns, ColumnPair) = DiffsOf("Column", a.columns, b.columns)
    BY DiffsOfColumnsAndIndexes
  <2>3. DiffsOf("Column", a.columns, b.columns) = {} <=>
          /\ \A x \in Elements(a.columns) : \E y \in Elements(b.columns) : x.name = y.name /\ PairOf("Column", x, y) = {}
          /\ \A y \in Elements(b.columns) : \E x \in Elements(a.columns) : x.name = y.name /\ PairOf("Column", x, y) = {}
    BY <1>1, NamedAgree
  <2>4. SameObjects(a.columns, b.columns, SameColumn) <=>
          /\ \A x \in Elements(a.columns) : \E y \in Elements(b.columns) : SameColumn(x, y)
          /\ \A y \in Elements(b.columns) : \E x \in Elements(a.columns) : SameColumn(x, y)
    BY DEF SameObjects
  <2>5. SameObjects(a.columns, b.columns, SameColumn) <=> DiffsOf("Column", a.columns, b.columns) = {}
    BY <2>1, <2>3, <2>4
  <2> QED BY <2>2, <2>5, Zenon
<1>3. ASSUME BothCaptured("Index")
      PROVE  NamedDiffs("Index", a.indexes, b.indexes, IndexPair) = {} <=>
               SameObjects(a.indexes, b.indexes, SameIndex)
  <2>0. /\ NamedList(a.indexes) /\ \A i \in Elements(a.indexes) : IsIndex(i)
        /\ NamedList(b.indexes) /\ \A i \in Elements(b.indexes) : IsIndex(i)
    BY <1>3 DEF IsOpenSpec, BothCaptured
  <2>1. \A x \in Elements(a.indexes) : \A y \in Elements(b.indexes) :
          x.name = y.name /\ PairOf("Index", x, y) = {} <=> SameIndex(x, y)
    BY <2>0, IndexesAgree DEF PairOf
  <2>2. NamedDiffs("Index", a.indexes, b.indexes, IndexPair) = DiffsOf("Index", a.indexes, b.indexes)
    BY DiffsOfColumnsAndIndexes
  <2>3. DiffsOf("Index", a.indexes, b.indexes) = {} <=>
          /\ \A x \in Elements(a.indexes) : \E y \in Elements(b.indexes) : x.name = y.name /\ PairOf("Index", x, y) = {}
          /\ \A y \in Elements(b.indexes) : \E x \in Elements(a.indexes) : x.name = y.name /\ PairOf("Index", x, y) = {}
    BY <2>0, NamedAgree
  <2>4. SameObjects(a.indexes, b.indexes, SameIndex) <=>
          /\ \A x \in Elements(a.indexes) : \E y \in Elements(b.indexes) : SameIndex(x, y)
          /\ \A y \in Elements(b.indexes) : \E x \in Elements(a.indexes) : SameIndex(x, y)
    BY DEF SameObjects
  <2>5. SameObjects(a.indexes, b.indexes, SameIndex) <=> DiffsOf("Index", a.indexes, b.indexes) = {}
    BY <2>1, <2>3, <2>4
  <2> QED BY <2>2, <2>5, Zenon
<1>4. IndexDiffs = {} <=>
        /\ "Index" \in a.captured <=> "Index" \in b.captured
        /\ "Index" \in a.captured => SameObjects(a.indexes, b.indexes, SameIndex)
  <2>1. ASSUME BothCaptured("Index")
        PROVE  IndexDiffs = {} <=> SameObjects(a.indexes, b.indexes, SameIndex)
    <3>1. IndexDiffs = NamedDiffs("Index", a.indexes, b.indexes, IndexPair)
      BY <2>1 DEF IndexDiffs
    <3> QED BY <1>3, <2>1, <3>1, Zenon
  <2>2. ~BothCaptured("Index") => IndexDiffs = CaptureGap("Index")
    BY DEF IndexDiffs
  <2>3. CaptureGap("Index") = {} <=> ("Index" \in a.captured <=> "Index" \in b.captured)
    BY GapClosed
  <2> QED BY <2>1, <2>2, <2>3, Zenon DEF BothCaptured
<1>5. TableLevelDiffs = {} <=>
        /\ a.level = b.level
        /\ "Comment" \in a.captured <=> "Comment" \in b.captured
        /\ "Comment" \in a.captured => a.comment = b.comment
  <2>1. a.level = b.level <=> \A f \in LevelFact : a.level[f] = b.level[f]
    BY DEF IsOpenSpec
  <2>2. TableLevelDiffs = {} <=>
          /\ \A f \in LevelFact : a.level[f] = b.level[f]
          /\ ~(BothCaptured("Comment") /\ a.comment # b.comment)
          /\ CaptureGap("Comment") = {}
    BY DEF TableLevelDiffs
  <2> QED BY <2>1, <2>2, GapClosed DEF BothCaptured
<1>6. DiffSpecs = {} <=>
        /\ TableLevelDiffs = {} /\ IndexDiffs = {} /\ ConstraintDiffs = {}
        /\ NamedDiffs("Column", a.columns, b.columns, ColumnPair) = {}
  BY DEF DiffSpecs
<1> QED BY <1>2, <1>4, <1>5, <1>6

\* Of constraints too, unless the second table has two of one name.
LEMMA ConstraintsAgreeing ==
  ASSUME b.constraints \in Seq(Elements(b.constraints)), Distinct(b.constraints),
         \A c \in Elements(a.constraints) \cup Elements(b.constraints) : IsConstraint(c)
  PROVE  ConstraintDiffs = {} <=>
           /\ "Constraint" \in a.captured <=> "Constraint" \in b.captured
           /\ "Constraint" \in a.captured => SameObjects(a.constraints, b.constraints, SameConstraint)
<1>1. BothCaptured("Constraint") =>
        (ConstraintDiffs = {} <=> SameObjects(a.constraints, b.constraints, SameConstraint))
  BY ConstraintListsAgree DEF NamedList
<1>2. ~BothCaptured("Constraint") => ConstraintDiffs = CaptureGap("Constraint")
  BY DEF ConstraintDiffs
<1>3. CaptureGap("Constraint") = {} <=> ("Constraint" \in a.captured <=> "Constraint" \in b.captured)
  BY GapClosed
<1> QED BY <1>1, <1>2, <1>3, Zenon DEF BothCaptured

LEMMA SpecsAgree ==
  ASSUME IsTableSpec(a), IsTableSpec(b), Distinct(b.constraints)
  PROVE  DiffSpecs = {} <=> SameSpec
<1>1. IsOpenSpec(a) /\ IsOpenSpec(b)
  BY DEF IsTableSpec, IsOpenSpec, NamedList
<1>2. ConstraintDiffs = {} <=>
        /\ "Constraint" \in a.captured <=> "Constraint" \in b.captured
        /\ "Constraint" \in a.captured => SameObjects(a.constraints, b.constraints, SameConstraint)
  BY ConstraintsAgreeing DEF IsTableSpec
<1>3. a.captured = b.captured <=> \A s \in Section : s \in a.captured <=> s \in b.captured
  BY DEF IsTableSpec
<1>4. a.captured = b.captured <=>
        /\ "Comment" \in a.captured <=> "Comment" \in b.captured
        /\ "Index" \in a.captured <=> "Index" \in b.captured
        /\ "Constraint" \in a.captured <=> "Constraint" \in b.captured
  BY <1>3 DEF Section
<1> QED BY <1>1, <1>2, <1>4, SectionsAgree DEF SameSpec

----------------------------------------------------------------------------
(* A renaming by case.                                                     *)

LEMMA RecasedList ==
  ASSUME NEW object, NEW xs, NamedList(xs), NEW ys, NamedList(ys),
         DOMAIN xs = DOMAIN ys, Colliding(xs) = {},
         \A i \in DOMAIN xs : Fold[xs[i].name] = Fold[ys[i].name] /\ PairOf(object, xs[i], ys[i]) = {}
  PROVE  DiffsOf(object, xs, ys) =
           {Diff(object, "NameCase", "SideBoth", xs[i].name) :
              i \in {i \in DOMAIN xs : xs[i].name # ys[i].name}}
<1> DEFINE match == Matching(xs, ys)
<1>1. Colliding(ys) = {}
  <2>1. SUFFICES ASSUME NEW i \in DOMAIN ys, NEW j \in DOMAIN ys \ {i}, Fold[ys[i].name] = Fold[ys[j].name]
                 PROVE  FALSE
    BY DEF Colliding
  <2>2. i = j
    BY <2>1, CollidingUnique
  <2> QED BY <2>1, <2>2
<1>2. ASSUME NEW i \in DOMAIN xs PROVE match[i] = i
  <2>1. \A k \in DOMAIN ys : ys[k].name = xs[i].name => k = i
    BY <1>1, CollidingUnique
  <2>2. Paired(xs, ys, i, i)
    BY <1>1, <2>1 DEF Paired, Excluded
  <2> QED BY <2>2, MatchingPairs
<1>3. 0 \notin DOMAIN xs
  BY MatchingPairs
<1>4. {i \in DOMAIN xs : match[i] # 0} = DOMAIN xs
  <2> HIDE DEF match
  <2> QED BY <1>2, <1>3
<1>5. {match[i] : i \in DOMAIN xs} = DOMAIN ys
  <2> HIDE DEF match
  <2> QED BY <1>2
<1>6. {i \in DOMAIN xs : xs[i].name # ys[match[i]].name} = {i \in DOMAIN xs : xs[i].name # ys[i].name}
  <2> HIDE DEF match
  <2> QED BY <1>2
<1>7. \A i \in DOMAIN xs : PairOf(object, xs[i], ys[match[i]]) = {}
  <2> HIDE DEF match
  <2> QED BY <1>2
<1> DEFINE found == {i \in DOMAIN xs : match[i] # 0}
           Lost == {Diff(object, "Absent", "SideB", xs[i].name) : i \in DOMAIN xs \ found}
           New == {Diff(object, "Absent", "SideA", ys[j].name) :
                     j \in DOMAIN ys \ {match[i] : i \in found}}
           Renamed == {Diff(object, "NameCase", "SideBoth", xs[i].name) :
                         i \in {i \in found : xs[i].name # ys[match[i]].name}}
           Changed(i) == {Diff(object, what[1], what[2], xs[i].name) :
                            what \in PairOf(object, xs[i], ys[match[i]])}
<1>8. DiffsOf(object, xs, ys) = Lost \cup New \cup Renamed \cup UNION {Changed(i) : i \in found}
  BY DEF DiffsOf, NamedDiffs
<1>9. found = DOMAIN xs
  BY <1>4
<1> HIDE DEF match, found
<1>10. Lost = {} /\ New = {}
  BY <1>5, <1>9
<1>11. \A i \in found : Changed(i) = {}
  BY <1>7, <1>9
<1>12. UNION {Changed(i) : i \in found} = {}
  <2> HIDE DEF Changed
  <2> QED BY <1>11
<1>13. Renamed = {Diff(object, "NameCase", "SideBoth", xs[i].name) :
                    i \in {i \in DOMAIN xs : xs[i].name # ys[i].name}}
  BY <1>6, <1>9
<1> HIDE DEF Lost, New, Renamed, Changed
<1> QED BY <1>8, <1>10, <1>12, <1>13

LEMMA RecasedField ==
  ASSUME NEW x, IsTableSpec(x)
  PROVE  /\ Recased(x).columns = RecasedColumns(x.columns)
         /\ Recased(x).indexes = RecasedIndexes(x.indexes)
         /\ Recased(x).level = x.level /\ Recased(x).comment = x.comment
         /\ Recased(x).captured = x.captured /\ Recased(x).constraints = x.constraints
<1>1. DOMAIN x = {"level", "comment", "columns", "indexes", "constraints", "captured"}
  BY DEF IsTableSpec
<1> QED BY <1>1 DEF Recased

LEMMA RecasedFields ==
  ASSUME IsTableSpec(a), IsTableSpec(b), Recased(a) = Recased(b)
  PROVE  /\ RecasedColumns(a.columns) = RecasedColumns(b.columns)
         /\ RecasedIndexes(a.indexes) = RecasedIndexes(b.indexes)
         /\ a.level = b.level /\ a.comment = b.comment /\ a.captured = b.captured
         /\ a.constraints = b.constraints
BY RecasedField

LEMMA RecasedColumnsAlike ==
  ASSUME NEW xs, NEW ys, RecasedColumns(xs) = RecasedColumns(ys),
         \A c \in Elements(xs) \cup Elements(ys) : IsColumn(c)
  PROVE  /\ DOMAIN xs = DOMAIN ys
         /\ \A i \in DOMAIN xs : Fold[xs[i].name] = Fold[ys[i].name] /\ PairOf("Column", xs[i], ys[i]) = {}
<1>1. DOMAIN xs = DOMAIN ys
  BY DEF RecasedColumns
<1>2. ASSUME NEW i \in DOMAIN xs
      PROVE  Fold[xs[i].name] = Fold[ys[i].name] /\ PairOf("Column", xs[i], ys[i]) = {}
  <2>1. IsColumn(xs[i]) /\ IsColumn(ys[i])
    BY <1>1 DEF Elements
  <2>2. [xs[i] EXCEPT !.name = Fold[@]] = [ys[i] EXCEPT !.name = Fold[@]]
    BY <1>1 DEF RecasedColumns
  <2>3. /\ Fold[xs[i].name] = Fold[ys[i].name] /\ xs[i].ordinal = ys[i].ordinal
        /\ xs[i].type = ys[i].type /\ xs[i].default = ys[i].default
        /\ xs[i].expression = ys[i].expression /\ xs[i].facts = ys[i].facts
    BY <2>1, <2>2 DEF IsColumn
  <2>4. ColumnPair(xs[i], ys[i]) = {}
    BY <2>3 DEF ColumnPair, Unless, DefaultDiff
  <2> QED BY <2>3, <2>4 DEF PairOf
<1> QED BY <1>1, <1>2

LEMMA RecasedIndexesAlike ==
  ASSUME NEW xs, NEW ys, RecasedIndexes(xs) = RecasedIndexes(ys),
         \A x \in Elements(xs) \cup Elements(ys) : IsIndex(x)
  PROVE  /\ DOMAIN xs = DOMAIN ys
         /\ \A i \in DOMAIN xs : Fold[xs[i].name] = Fold[ys[i].name] /\ PairOf("Index", xs[i], ys[i]) = {}
<1>1. DOMAIN xs = DOMAIN ys
  BY DEF RecasedIndexes
<1>2. ASSUME NEW i \in DOMAIN xs
      PROVE  Fold[xs[i].name] = Fold[ys[i].name] /\ PairOf("Index", xs[i], ys[i]) = {}
  <2> DEFINE x == xs[i]
             y == ys[i]
  <2>1. IsIndex(x) /\ IsIndex(y)
    BY <1>1 DEF Elements
  <2>2. [x EXCEPT !.name = Fold[@], !.parts = RecasedParts(@)] =
        [y EXCEPT !.name = Fold[@], !.parts = RecasedParts(@)]
    BY <1>1 DEF RecasedIndexes
  <2>3. /\ Fold[x.name] = Fold[y.name] /\ x.facts = y.facts
        /\ RecasedParts(x.parts) = RecasedParts(y.parts)
    BY <2>1, <2>2 DEF IsIndex
  <2>4. PartsEqual(x.parts, y.parts)
    <3>1. /\ DOMAIN x.parts = 1..Len(x.parts) /\ Len(x.parts) \in Nat
          /\ DOMAIN y.parts = 1..Len(y.parts) /\ Len(y.parts) \in Nat
      BY <2>1, ListDomain DEF IsIndex
    <3>2. DOMAIN x.parts = DOMAIN y.parts
      BY <2>3 DEF RecasedParts
    <3>3. Len(x.parts) = Len(y.parts)
      BY <3>1, <3>2
    <3>4. ASSUME NEW k \in DOMAIN x.parts
          PROVE  Fold[x.parts[k].column] = Fold[y.parts[k].column] /\ x.parts[k].rest = y.parts[k].rest
      <4>1. [x.parts[k] EXCEPT !.column = Fold[@]] = [y.parts[k] EXCEPT !.column = Fold[@]]
        BY <2>3, <3>2 DEF RecasedParts
      <4>2. /\ x.parts[k] = [column |-> x.parts[k].column, rest |-> x.parts[k].rest]
            /\ y.parts[k] = [column |-> y.parts[k].column, rest |-> y.parts[k].rest]
        <5>1. x.parts[k] \in Elements(x.parts) /\ y.parts[k] \in Elements(y.parts)
          BY <3>2 DEF Elements
        <5> QED BY <2>1, <5>1 DEF IsIndex
      <4>3. /\ [x.parts[k] EXCEPT !.column = Fold[@]] =
                 [column |-> Fold[x.parts[k].column], rest |-> x.parts[k].rest]
            /\ [y.parts[k] EXCEPT !.column = Fold[@]] =
                 [column |-> Fold[y.parts[k].column], rest |-> y.parts[k].rest]
        BY <4>2
      <4> QED BY <4>1, <4>3
    <3> QED BY <3>3, <3>4 DEF PartsEqual
  <2>5. IndexPair(x, y) = {}
    BY <2>3, <2>4 DEF IndexPair, Unless
  <2> QED BY <2>3, <2>5 DEF PairOf
<1> QED BY <1>1, <1>2

LEMMA RecasedDiffs ==
  ASSUME IsTableSpec(a), Distinct(a.constraints), IsTableSpec(b), Recased(a) = Recased(b),
         Colliding(a.columns) = {}, Colliding(a.indexes) = {}, "Index" \in a.captured,
         \A c \in Elements(a.constraints) : c.kind # "unknown"
  PROVE  DiffSpecs =
           {Diff("Column", "NameCase", "SideBoth", a.columns[i].name) :
              i \in {i \in DOMAIN a.columns : a.columns[i].name # b.columns[i].name}}
           \cup {Diff("Index", "NameCase", "SideBoth", a.indexes[i].name) :
              i \in {i \in DOMAIN a.indexes : a.indexes[i].name # b.indexes[i].name}}
<1>1. /\ NamedList(a.columns) /\ NamedList(a.indexes) /\ NamedList(a.constraints)
      /\ NamedList(b.columns) /\ NamedList(b.indexes)
  BY DEF IsTableSpec, NamedList
<1>2. /\ RecasedColumns(a.columns) = RecasedColumns(b.columns)
      /\ RecasedIndexes(a.indexes) = RecasedIndexes(b.indexes)
      /\ a.level = b.level /\ a.comment = b.comment /\ a.captured = b.captured
      /\ a.constraints = b.constraints
  BY RecasedFields
<1>3. NamedDiffs("Column", a.columns, b.columns, ColumnPair) =
        {Diff("Column", "NameCase", "SideBoth", a.columns[i].name) :
           i \in {i \in DOMAIN a.columns : a.columns[i].name # b.columns[i].name}}
  <2>1. \A c \in Elements(a.columns) \cup Elements(b.columns) : IsColumn(c)
    BY DEF IsTableSpec
  <2>2. /\ DOMAIN a.columns = DOMAIN b.columns
        /\ \A i \in DOMAIN a.columns : /\ Fold[a.columns[i].name] = Fold[b.columns[i].name]
                                       /\ PairOf("Column", a.columns[i], b.columns[i]) = {}
    BY <1>2, <2>1, RecasedColumnsAlike
  <2> QED BY <1>1, <2>2, RecasedList, DiffsOfColumnsAndIndexes, SMTT(40)
<1>4. IndexDiffs =
        {Diff("Index", "NameCase", "SideBoth", a.indexes[i].name) :
           i \in {i \in DOMAIN a.indexes : a.indexes[i].name # b.indexes[i].name}}
  <2>1. \A x \in Elements(a.indexes) \cup Elements(b.indexes) : IsIndex(x)
    BY DEF IsTableSpec
  <2>2. /\ DOMAIN a.indexes = DOMAIN b.indexes
        /\ \A i \in DOMAIN a.indexes : /\ Fold[a.indexes[i].name] = Fold[b.indexes[i].name]
                                       /\ PairOf("Index", a.indexes[i], b.indexes[i]) = {}
    BY <1>2, <2>1, RecasedIndexesAlike
  <2>3. IndexDiffs = DiffsOf("Index", a.indexes, b.indexes)
    BY <1>2, DiffsOfColumnsAndIndexes DEF IndexDiffs, BothCaptured
  <2>4. DiffsOf("Index", a.indexes, b.indexes) =
          {Diff("Index", "NameCase", "SideBoth", a.indexes[i].name) :
             i \in {i \in DOMAIN a.indexes : a.indexes[i].name # b.indexes[i].name}}
    BY <1>1, <2>2, RecasedList
  <2> QED BY <2>3, <2>4
<1>5. ConstraintDiffs = {}
  <2>1. CASE BothCaptured("Constraint")
    <3>1. \A c \in Elements(a.constraints) : IsConstraint(c) /\ SameConstraint(c, c)
      BY DEF IsTableSpec, SameConstraint
    <3>2. SameObjects(a.constraints, b.constraints, SameConstraint)
      BY <1>2, <3>1 DEF SameObjects
    <3> QED BY <1>1, <1>2, <2>1, <3>1, <3>2, ConstraintListsAgree
  <2>2. CASE ~BothCaptured("Constraint")
    <3>1. ConstraintDiffs = CaptureGap("Constraint")
      BY <2>2 DEF ConstraintDiffs
    <3> QED BY <1>2, <3>1, GapClosed
  <2> QED BY <2>1, <2>2
<1>6. TableLevelDiffs = {}
  BY <1>2 DEF TableLevelDiffs, CaptureGap
<1> QED BY <1>3, <1>4, <1>5, <1>6 DEF DiffSpecs

----------------------------------------------------------------------------
(* The other way round.                                                    *)

\* Either of the two readings of a difference.
Turned(how, d) == IF how = "mirrored" THEN Mirror(d) ELSE NameFolded(d)
TurnedSide(how, side) == IF how = "mirrored" THEN Exchanged(side) ELSE side

TurnedDiffs(how, ds) == {Turned(how, d) : d \in ds}

LEMMA DiffTurned ==
  ASSUME NEW how, NEW object, NEW what, NEW side, NEW name
  PROVE  Turned(how, Diff(object, what, side, name)) =
           Diff(object, what, TurnedSide(how, side), FoldedName(object, name))
<1>1. /\ Diff(object, what, side, name).object = object
      /\ Diff(object, what, side, name).what = what
      /\ Diff(object, what, side, name).side = side
      /\ Diff(object, what, side, name).name = name
  BY DEF Diff
<1> QED BY <1>1 DEF Turned, TurnedSide, Mirror, NameFolded

Unpaired(xs, ys) == {i \in DOMAIN xs : \A j \in DOMAIN ys : ~Paired(xs, ys, i, j)}

\* The differences of two lists: an object nothing belongs to, a pair of two
\* spellings, and what a pair differs in.
IsLoss(object, xs, ys, side, d) ==
  \E i \in Unpaired(xs, ys) : d = Diff(object, "Absent", side, xs[i].name)
IsRenaming(object, xs, ys, d) ==
  \E i \in DOMAIN xs : \E j \in DOMAIN ys :
    /\ Paired(xs, ys, i, j) /\ xs[i].name # ys[j].name
    /\ d = Diff(object, "NameCase", "SideBoth", xs[i].name)
IsChange(object, xs, ys, d) ==
  \E i \in DOMAIN xs : \E j \in DOMAIN ys :
    /\ Paired(xs, ys, i, j)
    /\ \E what \in PairOf(object, xs[i], ys[j]) : d = Diff(object, what[1], what[2], xs[i].name)

LEMMA DiffsByPairs ==
  ASSUME NEW object, NEW xs, NamedList(xs), NEW ys, NamedList(ys), NEW d
  PROVE  d \in DiffsOf(object, xs, ys) <=>
           \/ IsLoss(object, xs, ys, "SideB", d) \/ IsLoss(object, ys, xs, "SideA", d)
           \/ IsRenaming(object, xs, ys, d) \/ IsChange(object, xs, ys, d)
<1> DEFINE match == Matching(xs, ys)
           found == {i \in DOMAIN xs : match[i] # 0}
           reached == {match[i] : i \in found}
<1>1. \A i \in DOMAIN xs : /\ match[i] \in DOMAIN ys \cup {0}
                          /\ \A j \in DOMAIN ys : match[i] = j <=> Paired(xs, ys, i, j)
                          /\ 0 \notin DOMAIN ys
  BY MatchingPairs
<1> HIDE DEF match
<1>2. DOMAIN xs \ found = Unpaired(xs, ys)
  BY <1>1 DEF Unpaired
<1>3. DOMAIN ys \ reached = Unpaired(ys, xs)
  <2>1. ASSUME NEW j \in DOMAIN ys PROVE j \in reached <=> \E i \in DOMAIN xs : Paired(ys, xs, j, i)
    <3>1. ASSUME NEW i \in found, j = match[i] PROVE \E k \in DOMAIN xs : Paired(ys, xs, j, k)
      <4>1. Paired(xs, ys, i, j)
        BY <1>1, <3>1
      <4> QED BY <4>1, PairedSymmetric
    <3>2. ASSUME NEW i \in DOMAIN xs, Paired(ys, xs, j, i) PROVE j \in reached
      <4>1. Paired(xs, ys, i, j)
        BY <3>2, PairedSymmetric
      <4> QED BY <1>1, <4>1
    <3> QED BY <3>1, <3>2
  <2> HIDE DEF reached
  <2> QED BY <2>1 DEF Unpaired
<1> DEFINE Lost == {Diff(object, "Absent", "SideB", xs[i].name) : i \in DOMAIN xs \ found}
           New == {Diff(object, "Absent", "SideA", ys[j].name) : j \in DOMAIN ys \ reached}
           Renamed == {Diff(object, "NameCase", "SideBoth", xs[i].name) :
                         i \in {i \in found : xs[i].name # ys[match[i]].name}}
           Changed(i) == {Diff(object, what[1], what[2], xs[i].name) :
                            what \in PairOf(object, xs[i], ys[match[i]])}
<1>4. DiffsOf(object, xs, ys) = Lost \cup New \cup Renamed \cup UNION {Changed(i) : i \in found}
  BY DEF DiffsOf, NamedDiffs, match
<1>5. d \in Lost <=> \E i \in Unpaired(xs, ys) : d = Diff(object, "Absent", "SideB", xs[i].name)
  BY <1>2
<1>6. d \in New <=> \E j \in Unpaired(ys, xs) : d = Diff(object, "Absent", "SideA", ys[j].name)
  <2> HIDE DEF reached
  <2> QED BY <1>3
<1>7. \A i \in DOMAIN xs : \A j \in DOMAIN ys : Paired(xs, ys, i, j) <=> i \in found /\ match[i] = j
  BY <1>1
<1>8. \A i \in found : match[i] \in DOMAIN ys
  BY <1>1
<1>9. d \in Renamed <=>
        \E i \in DOMAIN xs : \E j \in DOMAIN ys :
          /\ Paired(xs, ys, i, j) /\ xs[i].name # ys[j].name
          /\ d = Diff(object, "NameCase", "SideBoth", xs[i].name)
  <2> HIDE DEF found
  <2>1. d \in Renamed <=> \E i \in found : /\ xs[i].name # ys[match[i]].name
                                          /\ d = Diff(object, "NameCase", "SideBoth", xs[i].name)
    OBVIOUS
  <2>2. found \subseteq DOMAIN xs
    BY DEF found
  <2> HIDE DEF Renamed
  <2> QED BY <1>7, <1>8, <2>1, <2>2
<1>10. d \in UNION {Changed(i) : i \in found} <=>
        \E i \in DOMAIN xs : \E j \in DOMAIN ys :
          /\ Paired(xs, ys, i, j)
          /\ \E what \in PairOf(object, xs[i], ys[j]) : d = Diff(object, what[1], what[2], xs[i].name)
  <2> HIDE DEF found
  <2>1. d \in UNION {Changed(i) : i \in found} <=>
          \E i \in found : \E what \in PairOf(object, xs[i], ys[match[i]]) :
            d = Diff(object, what[1], what[2], xs[i].name)
    OBVIOUS
  <2>2. found \subseteq DOMAIN xs
    BY DEF found
  <2> HIDE DEF Changed
  <2> QED BY <1>7, <1>8, <2>1, <2>2
<1> HIDE DEF Lost, New, Renamed, Changed, found
<1> QED BY <1>4, <1>5, <1>6, <1>9, <1>10 DEF IsLoss, IsRenaming, IsChange

TurnedLoss(object, xs, ys, side, e) ==
  \E i \in Unpaired(xs, ys) : e = Diff(object, "Absent", side, FoldedName(object, xs[i].name))
TurnedRenaming(object, xs, ys, side, e) ==
  \E i \in DOMAIN xs : \E j \in DOMAIN ys :
    /\ Paired(xs, ys, i, j) /\ xs[i].name # ys[j].name
    /\ e = Diff(object, "NameCase", side, FoldedName(object, xs[i].name))
Told(how, object, x, y, name, e) ==
  \E what \in PairOf(object, x, y) : e = Diff(object, what[1], TurnedSide(how, what[2]), name)
TurnedChange(how, object, xs, ys, e) ==
  \E i \in DOMAIN xs : \E j \in DOMAIN ys :
    Paired(xs, ys, i, j) /\ Told(how, object, xs[i], ys[j], FoldedName(object, xs[i].name), e)

LEMMA DiffsTurned ==
  ASSUME NEW how, NEW object, NEW xs, NamedList(xs), NEW ys, NamedList(ys), NEW e
  PROVE  e \in TurnedDiffs(how, DiffsOf(object, xs, ys)) <=>
           \/ TurnedLoss(object, xs, ys, TurnedSide(how, "SideB"), e)
           \/ TurnedLoss(object, ys, xs, TurnedSide(how, "SideA"), e)
           \/ TurnedRenaming(object, xs, ys, TurnedSide(how, "SideBoth"), e)
           \/ TurnedChange(how, object, xs, ys, e)
<1>1. ASSUME NEW d
      PROVE  d \in DiffsOf(object, xs, ys) <=>
        \/ IsLoss(object, xs, ys, "SideB", d) \/ IsLoss(object, ys, xs, "SideA", d)
        \/ IsRenaming(object, xs, ys, d) \/ IsChange(object, xs, ys, d)
  BY DiffsByPairs
<1>2. (\E d : IsLoss(object, xs, ys, "SideB", d) /\ e = Turned(how, d)) <=>
        TurnedLoss(object, xs, ys, TurnedSide(how, "SideB"), e)
  BY DiffTurned DEF IsLoss, TurnedLoss
<1>3. (\E d : IsLoss(object, ys, xs, "SideA", d) /\ e = Turned(how, d)) <=>
        TurnedLoss(object, ys, xs, TurnedSide(how, "SideA"), e)
  BY DiffTurned DEF IsLoss, TurnedLoss
<1>4. (\E d : IsRenaming(object, xs, ys, d) /\ e = Turned(how, d)) <=>
        TurnedRenaming(object, xs, ys, TurnedSide(how, "SideBoth"), e)
  BY DiffTurned DEF IsRenaming, TurnedRenaming
<1>5. (\E d : IsChange(object, xs, ys, d) /\ e = Turned(how, d)) <=>
        TurnedChange(how, object, xs, ys, e)
  BY DiffTurned DEF IsChange, TurnedChange, Told
<1>6. e \in TurnedDiffs(how, DiffsOf(object, xs, ys)) <=>
        \E d \in DiffsOf(object, xs, ys) : e = Turned(how, d)
  BY DEF TurnedDiffs
<1>7. e \in TurnedDiffs(how, DiffsOf(object, xs, ys)) <=>
        \/ \E d : IsLoss(object, xs, ys, "SideB", d) /\ e = Turned(how, d)
        \/ \E d : IsLoss(object, ys, xs, "SideA", d) /\ e = Turned(how, d)
        \/ \E d : IsRenaming(object, xs, ys, d) /\ e = Turned(how, d)
        \/ \E d : IsChange(object, xs, ys, d) /\ e = Turned(how, d)
  BY <1>1, <1>6
<1> QED BY <1>2, <1>3, <1>4, <1>5, <1>7

\* What a pair differs in does not depend on which of the two is looked at first.
LEMMA PairMirrored ==
  ASSUME NEW object, NEW x, NEW y, object # "Column" => IsIndex(x) /\ IsIndex(y)
  PROVE  {<<what[1], Exchanged(what[2])>> : what \in PairOf(object, y, x)} = PairOf(object, x, y)
<1>1. /\ Exchanged("SideA") = "SideB" /\ Exchanged("SideB") = "SideA"
      /\ Exchanged("SideBoth") = "SideBoth"
  BY DEF Exchanged
<1>2. {<<what[1], Exchanged(what[2])>> : what \in ColumnPair(y, x)} = ColumnPair(x, y)
  <2> DEFINE Facts(u, v) == {<<f, "SideBoth">> : f \in {f \in ColumnFact : u.facts[f] # v.facts[f]}}
             Types(u, v) == Unless(NormalizedType(u.type) = NormalizedType(v.type), "Type")
             Orders(u, v) == Unless(u.ordinal = v.ordinal, "Order")
             Flip(S) == {<<what[1], Exchanged(what[2])>> : what \in S}
  <2>1. Flip(Facts(y, x)) = Facts(x, y)
    BY <1>1
  <2>2. Flip(Types(y, x)) = Types(x, y)
    BY <1>1 DEF Unless
  <2>3. Flip(Orders(y, x)) = Orders(x, y)
    BY <1>1 DEF Unless
  <2>4. Flip(DefaultDiff(y, x)) = DefaultDiff(x, y)
    <3>1. CASE x.default = NoDefault /\ y.default = NoDefault
      BY <1>1, <3>1 DEF DefaultDiff
    <3>2. CASE x.default = NoDefault /\ y.default # NoDefault
      BY <1>1, <3>2 DEF DefaultDiff
    <3>3. CASE x.default # NoDefault /\ y.default = NoDefault
      BY <1>1, <3>3 DEF DefaultDiff
    <3>4. CASE x.default # NoDefault /\ y.default # NoDefault
      BY <1>1, <3>4 DEF DefaultDiff
    <3> QED BY <3>1, <3>2, <3>3, <3>4
  <2>5. /\ ColumnPair(y, x) = Facts(y, x) \cup Types(y, x) \cup Orders(y, x) \cup DefaultDiff(y, x)
        /\ ColumnPair(x, y) = Facts(x, y) \cup Types(x, y) \cup Orders(x, y) \cup DefaultDiff(x, y)
    BY DEF ColumnPair
  <2> HIDE DEF Facts, Types, Orders
  <2>6. Flip(Facts(y, x) \cup Types(y, x) \cup Orders(y, x) \cup DefaultDiff(y, x)) =
          Flip(Facts(y, x)) \cup Flip(Types(y, x)) \cup Flip(Orders(y, x)) \cup Flip(DefaultDiff(y, x))
    OBVIOUS
  <2> HIDE DEF Flip
  <2>7. Flip(ColumnPair(y, x)) = ColumnPair(x, y)
    BY <2>1, <2>2, <2>3, <2>4, <2>5, <2>6
  <2> QED BY <2>7 DEF Flip
<1>3. CASE object # "Column"
  <2>1. PartsEqual(y.parts, x.parts) <=> PartsEqual(x.parts, y.parts)
    <3>1. /\ DOMAIN x.parts = 1..Len(x.parts) /\ Len(x.parts) \in Nat
          /\ DOMAIN y.parts = 1..Len(y.parts) /\ Len(y.parts) \in Nat
      BY <1>3, ListDomain DEF IsIndex
    <3> QED BY <3>1 DEF PartsEqual
  <2> QED BY <1>1, <1>3, <2>1 DEF IndexPair, Unless, PairOf
<1> QED BY <1>2, <1>3 DEF PairOf

\* Two lists of columns, or of indexes, compared in either order.
LEMMA NamedMirrored ==
  ASSUME NEW object, NEW xs, NamedList(xs), NEW ys, NamedList(ys),
         object # "Column" => \A x \in Elements(xs) \cup Elements(ys) : IsIndex(x),
         object \in {"Column", "Index"}
  PROVE  TurnedDiffs("mirrored", DiffsOf(object, ys, xs)) = TurnedDiffs("folded", DiffsOf(object, xs, ys))
<1>1. /\ TurnedSide("mirrored", "SideB") = "SideA" /\ TurnedSide("mirrored", "SideA") = "SideB"
      /\ TurnedSide("mirrored", "SideBoth") = "SideBoth"
      /\ \A side : TurnedSide("folded", side) = side /\ TurnedSide("mirrored", side) = Exchanged(side)
  BY DEF TurnedSide, Exchanged
<1>2. ASSUME NEW i \in DOMAIN xs, NEW j \in DOMAIN ys
      PROVE  /\ Paired(xs, ys, i, j) <=> Paired(ys, xs, j, i)
             /\ Paired(xs, ys, i, j) => FoldedName(object, xs[i].name) = FoldedName(object, ys[j].name)
  <2>1. Paired(xs, ys, i, j) <=> Paired(ys, xs, j, i)
    BY PairedSymmetric
  <2> QED BY <2>1 DEF Paired, FoldedName
<1>3. ASSUME NEW i \in DOMAIN xs, NEW j \in DOMAIN ys, NEW e, NEW name
      PROVE  Told("mirrored", object, ys[j], xs[i], name, e) <=> Told("folded", object, xs[i], ys[j], name, e)
  <2>1. {<<what[1], Exchanged(what[2])>> : what \in PairOf(object, ys[j], xs[i])} =
          PairOf(object, xs[i], ys[j])
    BY PairMirrored DEF Elements
  <2>2. \A what \in PairOf(object, ys[j], xs[i]) :
          <<what[1], Exchanged(what[2])>> \in PairOf(object, xs[i], ys[j])
    BY <2>1
  <2>3. \A it \in PairOf(object, xs[i], ys[j]) : \E what \in PairOf(object, ys[j], xs[i]) :
          it = <<what[1], Exchanged(what[2])>>
    BY <2>1
  <2>4. ASSUME NEW what \in PairOf(object, ys[j], xs[i]),
               e = Diff(object, what[1], Exchanged(what[2]), name)
        PROVE  \E it \in PairOf(object, xs[i], ys[j]) : e = Diff(object, it[1], it[2], name)
    <3>1. e = Diff(object, <<what[1], Exchanged(what[2])>>[1], <<what[1], Exchanged(what[2])>>[2], name)
      BY <2>4
    <3> QED BY <2>2, <3>1
  <2>5. ASSUME NEW it \in PairOf(object, xs[i], ys[j]), e = Diff(object, it[1], it[2], name)
        PROVE  \E what \in PairOf(object, ys[j], xs[i]) :
                 e = Diff(object, what[1], Exchanged(what[2]), name)
    <3>1. PICK what \in PairOf(object, ys[j], xs[i]) : it = <<what[1], Exchanged(what[2])>>
      BY <2>3
    <3>2. it[1] = what[1] /\ it[2] = Exchanged(what[2])
      BY <3>1
    <3> QED BY <2>5, <3>2
  <2> QED BY <1>1, <2>4, <2>5 DEF Told
<1>4. ASSUME NEW e
      PROVE  e \in TurnedDiffs("mirrored", DiffsOf(object, ys, xs)) <=>
             e \in TurnedDiffs("folded", DiffsOf(object, xs, ys))
  <2>1. e \in TurnedDiffs("mirrored", DiffsOf(object, ys, xs)) <=>
          \/ TurnedLoss(object, ys, xs, "SideA", e) \/ TurnedLoss(object, xs, ys, "SideB", e)
          \/ TurnedRenaming(object, ys, xs, "SideBoth", e) \/ TurnedChange("mirrored", object, ys, xs, e)
    BY <1>1, DiffsTurned
  <2>2. e \in TurnedDiffs("folded", DiffsOf(object, xs, ys)) <=>
          \/ TurnedLoss(object, xs, ys, "SideB", e) \/ TurnedLoss(object, ys, xs, "SideA", e)
          \/ TurnedRenaming(object, xs, ys, "SideBoth", e) \/ TurnedChange("folded", object, xs, ys, e)
    BY <1>1, DiffsTurned
  <2>3. TurnedRenaming(object, ys, xs, "SideBoth", e) <=> TurnedRenaming(object, xs, ys, "SideBoth", e)
    BY <1>2 DEF TurnedRenaming
  <2>4. TurnedChange("mirrored", object, ys, xs, e) <=> TurnedChange("folded", object, xs, ys, e)
    <3>1. ASSUME NEW i \in DOMAIN xs, NEW j \in DOMAIN ys, Paired(xs, ys, i, j)
          PROVE  Told("mirrored", object, ys[j], xs[i], FoldedName(object, ys[j].name), e) <=>
                 Told("folded", object, xs[i], ys[j], FoldedName(object, xs[i].name), e)
      BY <1>2, <1>3, <3>1
    <3> QED BY <1>2, <3>1 DEF TurnedChange
  <2> QED BY <2>1, <2>2, <2>3, <2>4
<1> QED BY <1>4 DEF TurnedDiffs

\* The other parts of the comparison, of any two specifications.
ConstraintsOf(xs, ys) ==
  LET found == {i \in DOMAIN xs : NamedAs(xs, ys)[i] # 0}
  IN {Diff("Constraint", "Absent", "SideB", xs[i].name) : i \in DOMAIN xs \ found}
     \cup {Diff("Constraint", "Absent", "SideA", n) :
             n \in {ys[j].name : j \in DOMAIN ys} \ {xs[i].name : i \in found}}
     \cup UNION {{Diff("Constraint", what, "SideBoth", xs[i].name) :
                    what \in ConstraintPair(xs[i], ys[NamedAs(xs, ys)[i]])} : i \in found}

GapOf(x, y, section) ==
  {Diff(section, "Unconfirmed", side, NoName) :
     side \in (IF section \in x.captured \ y.captured THEN {"SideB"} ELSE {})
              \cup (IF section \in y.captured \ x.captured THEN {"SideA"} ELSE {})}

LevelOf(x, y) ==
  {Diff("Table", f, "SideBoth", NoName) : f \in {f \in LevelFact : x.level[f] # y.level[f]}}
    \cup (IF "Comment" \in x.captured /\ "Comment" \in y.captured /\ x.comment # y.comment
          THEN {Diff("Table", "Comment", "SideBoth", NoName)} ELSE {})

DiffSpecsOf(x, y) ==
  LevelOf(x, y) \cup GapOf(x, y, "Comment") \cup DiffsOf("Column", x.columns, y.columns)
    \cup (IF "Index" \in x.captured /\ "Index" \in y.captured
          THEN DiffsOf("Index", x.indexes, y.indexes) ELSE GapOf(x, y, "Index"))
    \cup (IF "Constraint" \in x.captured /\ "Constraint" \in y.captured
          THEN ConstraintsOf(x.constraints, y.constraints) ELSE GapOf(x, y, "Constraint"))

LEMMA DiffSpecsNow == DiffSpecs = DiffSpecsOf(a, b)
<1>1. TableLevelDiffs = LevelOf(a, b) \cup GapOf(a, b, "Comment")
  BY DEF TableLevelDiffs, LevelOf, GapOf, CaptureGap, BothCaptured
<1>2. IndexDiffs = IF "Index" \in a.captured /\ "Index" \in b.captured
                   THEN DiffsOf("Index", a.indexes, b.indexes) ELSE GapOf(a, b, "Index")
  BY DiffsOfColumnsAndIndexes DEF IndexDiffs, BothCaptured, GapOf, CaptureGap
<1>3. ConstraintDiffs = IF "Constraint" \in a.captured /\ "Constraint" \in b.captured
                        THEN ConstraintsOf(a.constraints, b.constraints) ELSE GapOf(a, b, "Constraint")
  BY DEF ConstraintDiffs, ConstraintsOf, NamedAs, BothCaptured, GapOf, CaptureGap
<1>4. NamedDiffs("Column", a.columns, b.columns, ColumnPair) = DiffsOf("Column", a.columns, b.columns)
  BY DiffsOfColumnsAndIndexes
<1> QED BY <1>1, <1>2, <1>3, <1>4 DEF DiffSpecs, DiffSpecsOf

Unnamed(xs, ys) == {i \in DOMAIN xs : \A j \in DOMAIN ys : ys[j].name # xs[i].name}

ConstraintLoss(xs, ys, side, d) ==
  \E i \in Unnamed(xs, ys) : d = Diff("Constraint", "Absent", side, xs[i].name)
ConstraintChange(xs, ys, d) ==
  \E i \in DOMAIN xs : \E j \in DOMAIN ys :
    /\ xs[i].name = ys[j].name
    /\ \E what \in ConstraintPair(xs[i], ys[j]) : d = Diff("Constraint", what, "SideBoth", xs[i].name)

LEMMA ConstraintsByName ==
  ASSUME NEW xs, NamedList(xs), NEW ys, NamedList(ys), NEW d
  PROVE  d \in ConstraintsOf(xs, ys) <=>
           \/ ConstraintLoss(xs, ys, "SideB", d) \/ ConstraintLoss(ys, xs, "SideA", d)
           \/ ConstraintChange(xs, ys, d)
<1> DEFINE match == NamedAs(xs, ys)
           found == {i \in DOMAIN xs : match[i] # 0}
           Lost == {Diff("Constraint", "Absent", "SideB", xs[i].name) : i \in DOMAIN xs \ found}
           New == {Diff("Constraint", "Absent", "SideA", n) :
                     n \in {ys[j].name : j \in DOMAIN ys} \ {xs[i].name : i \in found}}
           Changed(i) == {Diff("Constraint", what, "SideBoth", xs[i].name) :
                            what \in ConstraintPair(xs[i], ys[match[i]])}
<1>1. \A i \in DOMAIN xs : /\ match[i] \in DOMAIN ys \cup {0}
                          /\ \A j \in DOMAIN ys : match[i] = j <=> xs[i].name = ys[j].name
                          /\ 0 \notin DOMAIN ys
  BY NamedAsPairs
<1> HIDE DEF match
<1>2. DOMAIN xs \ found = Unnamed(xs, ys)
  BY <1>1 DEF Unnamed
<1>3. ConstraintsOf(xs, ys) = Lost \cup New \cup UNION {Changed(i) : i \in found}
  BY DEF ConstraintsOf, match
<1>4. d \in Lost <=> \E i \in Unnamed(xs, ys) : d = Diff("Constraint", "Absent", "SideB", xs[i].name)
  BY <1>2
<1>5. \A j \in DOMAIN ys : ys[j].name \in {xs[i].name : i \in found} <=> j \notin Unnamed(ys, xs)
  <2>1. ASSUME NEW j \in DOMAIN ys
        PROVE  (\E i \in found : ys[j].name = xs[i].name) <=> \E i \in DOMAIN xs : xs[i].name = ys[j].name
    BY <1>1
  <2> HIDE DEF found
  <2> QED BY <2>1 DEF Unnamed
<1>6. d \in New <=> \E j \in Unnamed(ys, xs) : d = Diff("Constraint", "Absent", "SideA", ys[j].name)
  <2>1. d \in New <=> \E j \in DOMAIN ys : /\ ys[j].name \notin {xs[i].name : i \in found}
                                          /\ d = Diff("Constraint", "Absent", "SideA", ys[j].name)
    OBVIOUS
  <2>2. Unnamed(ys, xs) \subseteq DOMAIN ys
    BY DEF Unnamed
  <2> HIDE DEF New, found
  <2> QED BY <1>5, <2>1, <2>2
<1>7. /\ \A i \in DOMAIN xs : \A j \in DOMAIN ys : xs[i].name = ys[j].name <=> i \in found /\ match[i] = j
      /\ found \subseteq DOMAIN xs /\ \A i \in found : match[i] \in DOMAIN ys
  BY <1>1
<1>8. d \in UNION {Changed(i) : i \in found} <=>
        \E i \in DOMAIN xs : \E j \in DOMAIN ys :
          /\ xs[i].name = ys[j].name
          /\ \E what \in ConstraintPair(xs[i], ys[j]) : d = Diff("Constraint", what, "SideBoth", xs[i].name)
  <2> HIDE DEF found
  <2>1. d \in UNION {Changed(i) : i \in found} <=>
          \E i \in found : \E what \in ConstraintPair(xs[i], ys[match[i]]) :
            d = Diff("Constraint", what, "SideBoth", xs[i].name)
    OBVIOUS
  <2> HIDE DEF Changed
  <2> QED BY <1>7, <2>1
<1> HIDE DEF Lost, New, Changed, found
<1> QED BY <1>3, <1>4, <1>6, <1>8 DEF ConstraintLoss, ConstraintChange

LEMMA ConstraintsMirrored ==
  ASSUME NEW xs, NamedList(xs), NEW ys, NamedList(ys)
  PROVE  TurnedDiffs("mirrored", ConstraintsOf(ys, xs)) = TurnedDiffs("folded", ConstraintsOf(xs, ys))
<1> DEFINE D(what, side, name) == Diff("Constraint", what, side, name)
<1>1. \A how, what, side, name : Turned(how, D(what, side, name)) = D(what, TurnedSide(how, side), name)
  BY DiffTurned DEF FoldedName
<1>2. /\ TurnedSide("mirrored", "SideA") = "SideB" /\ TurnedSide("mirrored", "SideB") = "SideA"
      /\ TurnedSide("mirrored", "SideBoth") = "SideBoth" /\ \A side : TurnedSide("folded", side) = side
  BY DEF TurnedSide, Exchanged
<1>3. ASSUME NEW us, NEW vs, NEW d
      PROVE  /\ ConstraintLoss(us, vs, "SideA", d) => /\ ConstraintLoss(us, vs, "SideB", Turned("mirrored", d))
                                                     /\ Turned("mirrored", Turned("mirrored", d)) = d
                                                     /\ Turned("folded", d) = d
             /\ ConstraintLoss(us, vs, "SideB", d) => /\ ConstraintLoss(us, vs, "SideA", Turned("mirrored", d))
                                                     /\ Turned("mirrored", Turned("mirrored", d)) = d
                                                     /\ Turned("folded", d) = d
             /\ ConstraintChange(us, vs, d) => Turned("mirrored", d) = d /\ Turned("folded", d) = d
  <2>1. ASSUME ConstraintLoss(us, vs, "SideA", d)
        PROVE  /\ ConstraintLoss(us, vs, "SideB", Turned("mirrored", d))
               /\ Turned("mirrored", Turned("mirrored", d)) = d /\ Turned("folded", d) = d
    <3>1. PICK i \in Unnamed(us, vs) : d = D("Absent", "SideA", us[i].name)
      BY <2>1 DEF ConstraintLoss
    <3>2. /\ Turned("mirrored", d) = D("Absent", "SideB", us[i].name) /\ Turned("folded", d) = d
          /\ Turned("mirrored", D("Absent", "SideB", us[i].name)) = d
      <4> HIDE DEF D
      <4> QED BY <1>1, <1>2, <3>1
    <3> QED BY <3>2 DEF ConstraintLoss
  <2>2. ASSUME ConstraintLoss(us, vs, "SideB", d)
        PROVE  /\ ConstraintLoss(us, vs, "SideA", Turned("mirrored", d))
               /\ Turned("mirrored", Turned("mirrored", d)) = d /\ Turned("folded", d) = d
    <3>1. PICK i \in Unnamed(us, vs) : d = D("Absent", "SideB", us[i].name)
      BY <2>2 DEF ConstraintLoss
    <3>2. /\ Turned("mirrored", d) = D("Absent", "SideA", us[i].name) /\ Turned("folded", d) = d
          /\ Turned("mirrored", D("Absent", "SideA", us[i].name)) = d
      <4> HIDE DEF D
      <4> QED BY <1>1, <1>2, <3>1
    <3> QED BY <3>2 DEF ConstraintLoss
  <2>3. ASSUME ConstraintChange(us, vs, d)
        PROVE  Turned("mirrored", d) = d /\ Turned("folded", d) = d
    <3>1. PICK i, what : d = D(what, "SideBoth", us[i].name)
      BY <2>3 DEF ConstraintChange
    <3> HIDE DEF D
    <3> QED BY <1>1, <1>2, <3>1
  <2> QED BY <2>1, <2>2, <2>3
<1>4. ASSUME NEW d
      PROVE  ConstraintChange(xs, ys, d) <=> ConstraintChange(ys, xs, d)
  <2>1. \A i \in DOMAIN xs : \A j \in DOMAIN ys : ConstraintPair(xs[i], ys[j]) = ConstraintPair(ys[j], xs[i])
    BY DEF ConstraintPair
  <2> QED BY <2>1 DEF ConstraintChange
<1>5. ASSUME NEW d \in ConstraintsOf(ys, xs)
      PROVE  Turned("mirrored", d) \in ConstraintsOf(xs, ys)
  BY <1>3, <1>4, ConstraintsByName
<1>6. ASSUME NEW d \in ConstraintsOf(xs, ys)
      PROVE  /\ Turned("mirrored", d) \in ConstraintsOf(ys, xs)
             /\ Turned("folded", d) = d /\ Turned("mirrored", Turned("mirrored", d)) = d
  BY <1>3, <1>4, ConstraintsByName
<1>7. ASSUME NEW d \in ConstraintsOf(ys, xs)
      PROVE  Turned("folded", Turned("mirrored", d)) = Turned("mirrored", d)
  BY <1>5, <1>6
<1>8. ASSUME NEW e
      PROVE  e \in TurnedDiffs("mirrored", ConstraintsOf(ys, xs)) <=>
             e \in TurnedDiffs("folded", ConstraintsOf(xs, ys))
  BY <1>5, <1>6, <1>7 DEF TurnedDiffs
<1> QED BY <1>8 DEF TurnedDiffs

LEMMA GapMirrored ==
  ASSUME NEW x, NEW y, NEW section
  PROVE  TurnedDiffs("mirrored", GapOf(y, x, section)) = TurnedDiffs("folded", GapOf(x, y, section))
<1>1. /\ TurnedSide("mirrored", "SideA") = "SideB" /\ TurnedSide("mirrored", "SideB") = "SideA"
      /\ \A side : TurnedSide("folded", side) = side
  BY DEF TurnedSide, Exchanged
<1>2. \A how, side : Turned(how, Diff(section, "Unconfirmed", side, NoName)) =
                        Diff(section, "Unconfirmed", TurnedSide(how, side), FoldedName(section, NoName))
  BY DiffTurned
<1>0. \A how, d : TurnedDiffs(how, {d}) = {Turned(how, d)}
  BY DEF TurnedDiffs
<1>3. CASE section \in x.captured \ y.captured
  <2>1. /\ GapOf(x, y, section) = {Diff(section, "Unconfirmed", "SideB", NoName)}
        /\ GapOf(y, x, section) = {Diff(section, "Unconfirmed", "SideA", NoName)}
    BY <1>3 DEF GapOf
  <2> QED BY <1>0, <1>1, <1>2, <2>1
<1>4. CASE section \in y.captured \ x.captured
  <2>1. /\ GapOf(x, y, section) = {Diff(section, "Unconfirmed", "SideA", NoName)}
        /\ GapOf(y, x, section) = {Diff(section, "Unconfirmed", "SideB", NoName)}
    BY <1>4 DEF GapOf
  <2> QED BY <1>0, <1>1, <1>2, <2>1
<1>5. CASE section \in x.captured <=> section \in y.captured
  <2>1. GapOf(x, y, section) = {} /\ GapOf(y, x, section) = {}
    BY <1>5 DEF GapOf
  <2> QED BY <2>1 DEF TurnedDiffs
<1> QED BY <1>3, <1>4, <1>5

LEMMA LevelMirrored ==
  ASSUME NEW x, NEW y
  PROVE  TurnedDiffs("mirrored", LevelOf(y, x)) = TurnedDiffs("folded", LevelOf(x, y))
<1>1. LevelOf(x, y) = LevelOf(y, x)
  BY DEF LevelOf
<1>2. \A what : Turned("mirrored", Diff("Table", what, "SideBoth", NoName)) =
                Turned("folded", Diff("Table", what, "SideBoth", NoName))
  <2>1. TurnedSide("mirrored", "SideBoth") = "SideBoth" /\ TurnedSide("folded", "SideBoth") = "SideBoth"
    BY DEF TurnedSide, Exchanged
  <2> QED BY <2>1, DiffTurned
<1>3. \A d \in LevelOf(x, y) : \E what : d = Diff("Table", what, "SideBoth", NoName)
  BY DEF LevelOf
<1> QED BY <1>1, <1>2, <1>3 DEF TurnedDiffs

LEMMA DiffSpecsMirrored ==
  ASSUME NEW x, IsTableSpec(x), Distinct(x.constraints), NEW y, IsTableSpec(y), Distinct(y.constraints)
  PROVE  TurnedDiffs("mirrored", DiffSpecsOf(y, x)) = TurnedDiffs("folded", DiffSpecsOf(x, y))
<1>1. /\ NamedList(x.columns) /\ NamedList(x.indexes) /\ NamedList(x.constraints)
      /\ NamedList(y.columns) /\ NamedList(y.indexes) /\ NamedList(y.constraints)
      /\ \A it \in Elements(x.indexes) \cup Elements(y.indexes) : IsIndex(it)
  BY DEF IsTableSpec, NamedList
<1>2. TurnedDiffs("mirrored", DiffsOf("Column", y.columns, x.columns)) =
        TurnedDiffs("folded", DiffsOf("Column", x.columns, y.columns))
  BY <1>1, NamedMirrored
<1>3. TurnedDiffs("mirrored", DiffsOf("Index", y.indexes, x.indexes)) =
        TurnedDiffs("folded", DiffsOf("Index", x.indexes, y.indexes))
  BY <1>1, NamedMirrored
<1>4. TurnedDiffs("mirrored", ConstraintsOf(y.constraints, x.constraints)) =
        TurnedDiffs("folded", ConstraintsOf(x.constraints, y.constraints))
  BY <1>1, ConstraintsMirrored
<1>5. \A how, P, Q, R, S, T :
        TurnedDiffs(how, P \cup Q \cup R \cup S \cup T) =
          TurnedDiffs(how, P) \cup TurnedDiffs(how, Q) \cup TurnedDiffs(how, R)
            \cup TurnedDiffs(how, S) \cup TurnedDiffs(how, T)
  BY DEF TurnedDiffs
<1>6. /\ \A section : TurnedDiffs("mirrored", GapOf(y, x, section)) = TurnedDiffs("folded", GapOf(x, y, section))
      /\ TurnedDiffs("mirrored", LevelOf(y, x)) = TurnedDiffs("folded", LevelOf(x, y))
  BY GapMirrored, LevelMirrored
<1> DEFINE indexes(u, v) == IF "Index" \in u.captured /\ "Index" \in v.captured
                            THEN DiffsOf("Index", u.indexes, v.indexes) ELSE GapOf(u, v, "Index")
           constraints(u, v) == IF "Constraint" \in u.captured /\ "Constraint" \in v.captured
                                THEN ConstraintsOf(u.constraints, v.constraints)
                                ELSE GapOf(u, v, "Constraint")
<1>7. TurnedDiffs("mirrored", indexes(y, x)) = TurnedDiffs("folded", indexes(x, y))
  BY <1>3, <1>6
<1>8. TurnedDiffs("mirrored", constraints(y, x)) = TurnedDiffs("folded", constraints(x, y))
  BY <1>4, <1>6
<1>9. \A u, v : DiffSpecsOf(u, v) =
                  LevelOf(u, v) \cup GapOf(u, v, "Comment") \cup DiffsOf("Column", u.columns, v.columns)
                    \cup indexes(u, v) \cup constraints(u, v)
  BY DEF DiffSpecsOf
<1> HIDE DEF indexes, constraints
<1>10. ASSUME NEW how, NEW u, NEW v
       PROVE  TurnedDiffs(how, DiffSpecsOf(u, v)) =
                TurnedDiffs(how, LevelOf(u, v)) \cup TurnedDiffs(how, GapOf(u, v, "Comment"))
                  \cup TurnedDiffs(how, DiffsOf("Column", u.columns, v.columns))
                  \cup TurnedDiffs(how, indexes(u, v)) \cup TurnedDiffs(how, constraints(u, v))
  BY <1>5, <1>9, SMTT(40)
<1> QED BY <1>2, <1>6, <1>7, <1>8, <1>10

----------------------------------------------------------------------------
(* The theorems.                                                           *)

\* The specifications are the ones given, and the list is theirs.
DInv ==
  /\ a \in ComparedSpec /\ b \in ComparedSpec
  /\ compared \in BOOLEAN
  /\ compared => diffs = DiffSpecs

THEOREM DiffInvariant == Spec => []DInv
<1>1. Init => DInv
  BY DEF Init, DInv
<1>2. DInv /\ [Next]_specDiffVars => DInv'
  <2> SUFFICES ASSUME DInv, [Next]_specDiffVars PROVE DInv'
    OBVIOUS
  <2>1. CASE Compare
    <3>1. DiffSpecs' = DiffSpecs
      BY <2>1 DEF Compare, DiffSpecs, TableLevelDiffs, IndexDiffs, ConstraintDiffs, BothCaptured, CaptureGap
    <3> QED BY <2>1, <3>1 DEF Compare, DInv
  <2>2. CASE Swap
    BY <2>2 DEF Swap, DInv
  <2>3. CASE UNCHANGED specDiffVars
    <3>1. DiffSpecs' = DiffSpecs
      BY <2>3 DEF specDiffVars, DiffSpecs, TableLevelDiffs, IndexDiffs, ConstraintDiffs, BothCaptured, CaptureGap
    <3> QED BY <2>3, <3>1 DEF specDiffVars, DInv
  <2> QED BY <2>1, <2>2, <2>3 DEF Next
<1> QED BY <1>1, <1>2, PTL DEF Spec

\* An empty list is returned for two specifications that agree, and for no
\* others (DiffSpecs), unless a table has two constraints of one name.
THEOREM DiffIsExact ==
  ASSUME DistinctConstraints
  PROVE  Spec => []DiffExact
<1>1. DInv => DiffExact
  <2> SUFFICES ASSUME DInv, compared PROVE diffs = {} <=> SameSpec
    BY DEF DiffExact
  <2> QED BY SpecDiffAssumption, SpecsAgree DEF SpecDiffAssumption, DInv, DistinctConstraints
<1> QED BY <1>1, DiffInvariant, PTL

\* No two columns and no two indexes are compared with the same one
\* (foldCollisions), in any state, compared or not.
THEOREM MatchingIsOneToOne == Spec => []OneToOne
<1>1. DInv => OneToOne
  BY SpecDiffAssumption, MatchingInjective
     DEF SpecDiffAssumption, DInv, OneToOne, IsTableSpec, NamedList
<1> QED BY <1>1, DiffInvariant, PTL

\* A renaming by case alone is reported once for each renamed column and index,
\* and nothing else is reported with it (diffColumns, partsEqual).
THEOREM RenamingIsReportedOnce ==
  ASSUME DistinctConstraints
  PROVE  Spec => []RecasedOnce
<1>1. DInv => RecasedOnce
  BY SpecDiffAssumption, RecasedDiffs DEF SpecDiffAssumption, DInv, DistinctConstraints, RecasedOnce
<1> QED BY <1>1, DiffInvariant, PTL

\* Comparing the other way round reports the same differences with their sides
\* exchanged (DiffSpecs): foldedIndex.lookup prefers an exact spelling on the
\* side it looks in, and yet the sides do not matter.
THEOREM SidesDoNotMatter ==
  ASSUME DistinctConstraints
  PROVE  Spec => Mirrored
<1>1. DInv /\ [Next]_specDiffVars =>
        [Swap => {Mirror(d) : d \in DiffSpecs'} = {NameFolded(d) : d \in diffs}]_specDiffVars
  <2> SUFFICES ASSUME DInv, Swap PROVE {Mirror(d) : d \in DiffSpecs'} = {NameFolded(d) : d \in diffs}
    OBVIOUS
  <2>1. /\ diffs = DiffSpecsOf(a, b) /\ DiffSpecs' = DiffSpecsOf(b, a)
    <3>1. a' = b /\ b' = a /\ compared
      BY DEF Swap
    <3>2. (DiffSpecs = DiffSpecsOf(a, b))'
      BY DiffSpecsNow, PTL
    <3>3. DiffSpecs' = DiffSpecsOf(b, a)
      BY <3>1, <3>2
    <3> QED BY <3>1, <3>3, DiffSpecsNow DEF DInv
  <2>2. TurnedDiffs("mirrored", DiffSpecsOf(b, a)) = TurnedDiffs("folded", DiffSpecsOf(a, b))
    BY SpecDiffAssumption, DiffSpecsMirrored DEF SpecDiffAssumption, DInv, DistinctConstraints
  <2> QED BY <2>1, <2>2 DEF TurnedDiffs, Turned
<1> QED BY <1>1, DiffInvariant, PTL DEF Mirrored, Spec

=============================================================================
