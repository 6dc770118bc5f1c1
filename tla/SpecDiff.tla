------------------------------ MODULE SpecDiff ------------------------------
(***************************************************************************)
(* DiffSpecs (pkg/validations/spec_diff.go) and the column-type             *)
(* normalisation it compares by (spec_normalize.go): the differences        *)
(* between two table specifications, captured from two servers or built by  *)
(* a caller.  A difference keeps its kind, its side and the object it       *)
(* names; the order of the list and the rendered values are left out.       *)
(***************************************************************************)
EXTENDS Naturals, Sequences, FiniteSets

CONSTANTS
  Fold,          \* Fold[n]: the ASCII-folded spelling of column or index n
  NoName,        \* the empty column and index fields of a difference
  NoDefault,     \* a column default MySQL reports as NULL
  ComparedSpec   \* the specifications compared

VARIABLES
  a, b,      \* the two specifications
  compared,  \* DiffSpecs has returned
  diffs      \* what it reported

specDiffVars == <<a, b, compared, diffs>>

\* The facts compared field by field, of a table and of a column.
LevelFact == {"Engine", "Charset", "Collation"}
ColumnFact == {"Nullability", "Charset", "Collation", "Visibility", "Generated",
               "GenerationExpr", "AutoIncrement", "OnUpdate"}
Section == {"Comment", "Index", "Constraint"}

\* The facts of an index, and of a constraint of each kind.
IndexFact == {"Uniqueness", "Type", "Visibility"}
ConstraintFact ==
  [check |-> {"Clause", "Enforcement"}, foreignKey |-> {"Columns", "Reference", "Rule"}, unknown |-> {}]

Elements(s) == {s[i] : i \in DOMAIN s}

Distinct(xs) == \A i, j \in DOMAIN xs : xs[i].name = xs[j].name => i = j

IsColumn(c) ==
  /\ c = [name |-> c.name, ordinal |-> c.ordinal, type |-> c.type, default |-> c.default,
          expression |-> c.expression, facts |-> [f \in ColumnFact |-> c.facts[f]]]
  /\ c.type = [base |-> c.type.base, width |-> c.type.width, attributes |-> c.type.attributes]

IsIndex(x) ==
  /\ x = [name |-> x.name, parts |-> x.parts, facts |-> [f \in IndexFact |-> x.facts[f]]]
  /\ x.parts \in Seq(Elements(x.parts))
  /\ \A p \in Elements(x.parts) : p = [column |-> p.column, rest |-> p.rest]

IsConstraint(c) ==
  /\ c = [name |-> c.name, kind |-> c.kind, facts |-> [f \in ConstraintFact[c.kind] |-> c.facts[f]]]
  /\ c.kind \in DOMAIN ConstraintFact

\* TableSpec: what the fields of a specification are.  A table has no two columns
\* and no two indexes that are spelled alike; a name may have two constraints.
IsTableSpec(x) ==
  /\ x = [level |-> [f \in LevelFact |-> x.level[f]], comment |-> x.comment, columns |-> x.columns,
          indexes |-> x.indexes, constraints |-> x.constraints, captured |-> x.captured]
  /\ x.captured \subseteq Section
  /\ x.columns \in Seq(Elements(x.columns)) /\ \A c \in Elements(x.columns) : IsColumn(c)
  /\ x.indexes \in Seq(Elements(x.indexes)) /\ \A i \in Elements(x.indexes) : IsIndex(i)
  /\ x.constraints \in Seq(Elements(x.constraints)) /\ \A c \in Elements(x.constraints) : IsConstraint(c)
  /\ Distinct(x.columns) /\ Distinct(x.indexes)

ASSUME SpecDiffAssumption ==
  /\ \A n \in DOMAIN Fold : Fold[n] \in DOMAIN Fold /\ Fold[Fold[n]] = Fold[n]
  /\ \A x \in ComparedSpec : IsTableSpec(x)

Diff(object, what, side, name) ==
  [object |-> object, what |-> what, side |-> side, name |-> name]

----------------------------------------------------------------------------
(* Column types: a base, the number in parentheses (0 for none), attributes. *)

DisplayWidthBase == {"bigint", "int", "integer", "mediumint", "smallint", "tinyint", "year"}

\* A plausible slip: the BOOLEAN carve-out is forgotten.
NormalizedTypeBoolean(t) ==
  IF t.base \in DisplayWidthBase /\ "zerofill" \notin t.attributes
  THEN [t EXCEPT !.width = 0] ELSE t

\* normalizeColumnType: the legacy display width goes, unless it is tinyint(1)
\* or pads a ZEROFILL column.
NormalizedType(t) ==
  IF /\ t.base \in DisplayWidthBase
     /\ ~(t.base = "tinyint" /\ t.width = 1)
     /\ "zerofill" \notin t.attributes
  THEN [t EXCEPT !.width = 0] ELSE t

----------------------------------------------------------------------------
(* Matching objects by name.                                               *)

Last(S) == IF S = {} THEN 0 ELSE CHOOSE i \in S : \A j \in S : j <= i

\* foldCollisions: the folded names several objects of one side share.
Colliding(xs) ==
  {Fold[xs[i].name] : i \in {i \in DOMAIN xs :
     \E j \in DOMAIN xs \ {i} : Fold[xs[i].name] = Fold[xs[j].name]}}

\* A plausible slip: only the side that is looked up in is examined.
ExcludedOneSided(xs, ys) == Colliding(ys)

\* Both sides contribute, so that neither can match two objects to one.
Excluded(xs, ys) == Colliding(xs) \cup Colliding(ys)

\* foldedIndex.lookup: the exact spelling first, then an unambiguous fold.
Lookup(name, ys, excluded) ==
  LET exact == {j \in DOMAIN ys : ys[j].name = name}
      folded == {j \in DOMAIN ys : Fold[ys[j].name] = Fold[name]}
  IN IF exact # {} THEN Last(exact)
     ELSE IF Fold[name] \in excluded THEN 0
     ELSE Last(folded)

\* For each object of xs its counterpart in ys, or 0.
Matching(xs, ys) == [i \in DOMAIN xs |-> Lookup(xs[i].name, ys, Excluded(xs, ys))]

\* The differences of two lists of named objects.
NamedDiffs(object, xs, ys, Pair(_, _)) ==
  LET match == Matching(xs, ys)
      found == {i \in DOMAIN xs : match[i] # 0}
  IN {Diff(object, "Absent", "SideB", xs[i].name) : i \in DOMAIN xs \ found}
     \cup {Diff(object, "Absent", "SideA", ys[j].name) :
             j \in DOMAIN ys \ {match[i] : i \in found}}
     \cup {Diff(object, "NameCase", "SideBoth", xs[i].name) :
             i \in {i \in found : xs[i].name # ys[match[i]].name}}
     \cup UNION {{Diff(object, what[1], what[2], xs[i].name) :
                    what \in Pair(xs[i], ys[match[i]])} : i \in found}

----------------------------------------------------------------------------
(* The parts of DiffSpecs.                                                 *)

\* A plausible slip: whichever side looked, the gap is put on side B.
CaptureGapOneSided(section) ==
  IF section \in a.captured /\ section \in b.captured THEN {}
  ELSE IF section \in a.captured \cup b.captured
       THEN {Diff(section, "Unconfirmed", "SideB", NoName)}
       ELSE {}

\* sectionAgreement: the side that did not look at a section the other captured.
CaptureGap(section) ==
  {Diff(section, "Unconfirmed", side, NoName) :
     side \in (IF section \in a.captured \ b.captured THEN {"SideB"} ELSE {})
              \cup (IF section \in b.captured \ a.captured THEN {"SideA"} ELSE {})}

BothCaptured(section) == section \in a.captured /\ section \in b.captured

TableLevelDiffs ==
  {Diff("Table", f, "SideBoth", NoName) : f \in {f \in LevelFact : a.level[f] # b.level[f]}}
    \cup (IF BothCaptured("Comment") /\ a.comment # b.comment
          THEN {Diff("Table", "Comment", "SideBoth", NoName)} ELSE {})
    \cup CaptureGap("Comment")

\* defaultSide and sameDefault: whether the default is an expression counts only
\* where both sides have one.
DefaultDiff(x, y) ==
  CASE x.default = NoDefault /\ y.default = NoDefault -> {}
    [] x.default = NoDefault /\ y.default # NoDefault -> {<<"Default", "SideA">>}
    [] x.default # NoDefault /\ y.default = NoDefault -> {<<"Default", "SideB">>}
    [] OTHER -> IF x.default = y.default /\ x.expression = y.expression THEN {}
                ELSE {<<"Default", "SideBoth">>}

Unless(same, what) == IF same THEN {} ELSE {<<what, "SideBoth">>}

ColumnPair(x, y) ==
  {<<f, "SideBoth">> : f \in {f \in ColumnFact : x.facts[f] # y.facts[f]}}
    \cup Unless(NormalizedType(x.type) = NormalizedType(y.type), "Type")
    \cup Unless(x.ordinal = y.ordinal, "Order")
    \cup DefaultDiff(x, y)

\* A plausible slip: the column of a key part is compared exactly.
PartsEqualExact(ps, qs) == ps = qs

\* partsEqual: the column of a key part folds, the rest of it does not.
PartsEqual(ps, qs) ==
  /\ Len(ps) = Len(qs)
  /\ \A i \in DOMAIN ps : Fold[ps[i].column] = Fold[qs[i].column] /\ ps[i].rest = qs[i].rest

IndexPair(x, y) ==
  Unless(PartsEqual(x.parts, y.parts), "Parts")
    \cup {<<f, "SideBoth">> : f \in {f \in IndexFact : x.facts[f] # y.facts[f]}}

IndexDiffs ==
  IF BothCaptured("Index") THEN NamedDiffs("Index", a.indexes, b.indexes, IndexPair)
  ELSE CaptureGap("Index")

\* diffConstraintPair: a kind change is reported alone, and two unset kinds
\* cannot be compared.
ConstraintPair(x, y) ==
  IF x.kind # y.kind THEN {"Kind"}
  ELSE IF x.kind = "unknown" THEN {"KindUnconfirmed"}
  ELSE {f \in ConstraintFact[x.kind] : x.facts[f] # y.facts[f]}

\* Constraints match by name alone, the last of a name in b standing for it.
ConstraintDiffs ==
  LET xs == a.constraints
      ys == b.constraints
      match == [i \in DOMAIN xs |-> Last({j \in DOMAIN ys : ys[j].name = xs[i].name})]
      found == {i \in DOMAIN xs : match[i] # 0}
  IN IF BothCaptured("Constraint")
     THEN {Diff("Constraint", "Absent", "SideB", xs[i].name) : i \in DOMAIN xs \ found}
          \cup {Diff("Constraint", "Absent", "SideA", n) :
                  n \in {ys[j].name : j \in DOMAIN ys} \ {xs[i].name : i \in found}}
          \cup UNION {{Diff("Constraint", what, "SideBoth", xs[i].name) :
                         what \in ConstraintPair(xs[i], ys[match[i]])} : i \in found}
     ELSE CaptureGap("Constraint")

DiffSpecs ==
  TableLevelDiffs \cup NamedDiffs("Column", a.columns, b.columns, ColumnPair)
    \cup IndexDiffs \cup ConstraintDiffs

----------------------------------------------------------------------------
(* The comparison.                                                         *)

Init ==
  /\ a \in ComparedSpec /\ b \in ComparedSpec
  /\ compared = FALSE /\ diffs = {}

Compare ==
  /\ ~compared
  /\ compared' = TRUE
  /\ diffs' = DiffSpecs
  /\ UNCHANGED <<a, b>>

\* The specs the other way round.
Swap ==
  /\ compared
  /\ a' = b /\ b' = a
  /\ compared' = FALSE /\ diffs' = {}

Next == Compare \/ Swap

Spec == Init /\ [][Next]_specDiffVars

----------------------------------------------------------------------------
(* Properties.                                                             *)

\* Two column types define the same column: they are spelled alike, or differ
\* by a display width that says nothing (docs/COMPAT.md entry 1).
SameType(s, t) ==
  \/ s = t
  \/ /\ s.base = t.base /\ s.attributes = t.attributes
     /\ s.base \in DisplayWidthBase
     /\ "zerofill" \notin s.attributes
     /\ s.base = "tinyint" => 1 \notin {s.width, t.width}

SameColumn(x, y) ==
  /\ x.name = y.name /\ x.ordinal = y.ordinal /\ x.facts = y.facts
  /\ SameType(x.type, y.type)
  /\ x.default = y.default
  /\ x.default # NoDefault => x.expression = y.expression

SameIndex(x, y) ==
  /\ x.name = y.name /\ x.facts = y.facts
  /\ [i \in DOMAIN x.parts |-> <<Fold[x.parts[i].column], x.parts[i].rest>>] =
     [i \in DOMAIN y.parts |-> <<Fold[y.parts[i].column], y.parts[i].rest>>]

SameConstraint(x, y) ==
  /\ x.name = y.name /\ x.kind = y.kind
  /\ x.kind # "unknown"
  /\ x.facts = y.facts

\* Each object of either list has its like in the other.
SameObjects(xs, ys, Same(_, _)) ==
  /\ \A x \in Elements(xs) : \E y \in Elements(ys) : Same(x, y)
  /\ \A y \in Elements(ys) : \E x \in Elements(xs) : Same(x, y)

\* The specifications captured the same sections, and agree in them.
SameSpec ==
  /\ a.level = b.level
  /\ a.captured = b.captured
  /\ "Comment" \in a.captured => a.comment = b.comment
  /\ SameObjects(a.columns, b.columns, SameColumn)
  /\ "Index" \in a.captured => SameObjects(a.indexes, b.indexes, SameIndex)
  /\ "Constraint" \in a.captured => SameObjects(a.constraints, b.constraints, SameConstraint)

\* An empty list is trustworthy, and only it says that nothing differs: no
\* difference in a section both captured is missed, and none is made up, by
\* folding, by normalising or by matching.
DiffExact == compared => (diffs = {} <=> SameSpec)

\* DiffSpecs reports every difference between two table specifications
\* (spec_diff.go, DiffSpecs).
EmptyMeansSame == compared /\ diffs = {} => SameSpec

Exchanged(side) == CASE side = "SideA" -> "SideB" [] side = "SideB" -> "SideA" [] OTHER -> side
FoldedName(object, name) == IF object \in {"Column", "Index"} THEN Fold[name] ELSE name

\* A difference with its name folded, and with its side exchanged as well.
NameFolded(d) == Diff(d.object, d.what, d.side, FoldedName(d.object, d.name))
Mirror(d) == Diff(d.object, d.what, Exchanged(d.side), FoldedName(d.object, d.name))

\* Comparing the other way round reports the same differences with their sides
\* exchanged, so which server is called a does not matter.
Mirrored ==
  [][Swap => {Mirror(d) : d \in DiffSpecs'} = {NameFolded(d) : d \in diffs}]_specDiffVars

Injective(match) ==
  \A i, j \in DOMAIN match : match[i] = match[j] /\ match[i] # 0 => i = j

\* No two columns, and no two indexes, are compared with the same one, whatever
\* case-distinct names a caller has put into a specification (foldCollisions).
OneToOne ==
  /\ Injective(Matching(a.columns, b.columns))
  /\ Injective(Matching(a.indexes, b.indexes))

\* What a case-only renaming of columns and indexes leaves alone.
RecasedColumns(xs) == [i \in DOMAIN xs |-> [xs[i] EXCEPT !.name = Fold[@]]]
RecasedParts(ps) == [k \in DOMAIN ps |-> [ps[k] EXCEPT !.column = Fold[@]]]
RecasedIndexes(xs) ==
  [i \in DOMAIN xs |-> [xs[i] EXCEPT !.name = Fold[@], !.parts = RecasedParts(@)]]
Recased(x) ==
  [x EXCEPT !.columns = RecasedColumns(@), !.indexes = RecasedIndexes(@)]

\* A renaming by case only is reported once for each renamed object, and drags
\* in no other difference, of a key part or of an order.
RecasedOnce ==
  compared /\ Recased(a) = Recased(b) /\ Colliding(a.columns) = {} /\ Colliding(a.indexes) = {}
    /\ "Index" \in a.captured /\ (\A c \in Elements(a.constraints) : c.kind # "unknown") =>
    diffs = {Diff("Column", "NameCase", "SideBoth", a.columns[i].name) :
               i \in {i \in DOMAIN a.columns : a.columns[i].name # b.columns[i].name}}
            \cup {Diff("Index", "NameCase", "SideBoth", a.indexes[i].name) :
               i \in {i \in DOMAIN a.indexes : a.indexes[i].name # b.indexes[i].name}}

=============================================================================
