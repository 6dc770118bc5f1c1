------------------------ MODULE SchemaCompareProofs ------------------------
(***************************************************************************)
(* What an empty list of differences says of two servers' tables, for      *)
(* tables of any size and any number of DDL statements: the theorems about *)
(* the capture, once for each server, and those about the comparison.      *)
(***************************************************************************)
EXTENDS SchemaCompare, SpecCaptureProofs

Dst == INSTANCE SpecCaptureProofs WITH
         Definition <- DestinationDefinition, MaxDdl <- DestinationMaxDdl,
         table <- destTable, versions <- destVersions, request <- destRequest,
         pc <- destPc, spec <- destSpec, error <- destError
Diffs == INSTANCE SpecDiffProofs WITH ComparedSpec <- {}, a <- spec, b <- destSpec

----------------------------------------------------------------------------
(* The two modules as they stand here.                                     *)

LEMMA TablesAlike == \A t : Dst!IsTable(t) <=> IsTable(t)
BY DEF Dst!IsTable, Dst!IsColumn, Dst!IsIndex, Dst!IsConstraint, Dst!IsForeignKey, Dst!Elements,
       IsTable, IsColumn, IsIndex, IsConstraint, IsForeignKey, Elements

LEMMA DestinationAssumed ==
  /\ Loose \in BOOLEAN /\ DestinationMaxDdl \in Nat /\ Requested # Variant
  /\ \A n \in DOMAIN Rank : Rank[n] \in Nat
  /\ \A m, n \in DOMAIN Rank : Rank[m] = Rank[n] => m = n
  /\ Dst!IsTable(Neighbour) /\ \A t \in DestinationDefinition : Dst!IsTable(t)
BY SpecCaptureAssumption, SchemaCompareAssumption, TablesAlike

LEMMA DiffsAlike == Diffs!DiffSpecs = D!DiffSpecs
BY DEF Diffs!DiffSpecs, Diffs!TableLevelDiffs, Diffs!NamedDiffs, Diffs!IndexDiffs, Diffs!ConstraintDiffs,
       Diffs!Matching, Diffs!Lookup, Diffs!Excluded, Diffs!Colliding, Diffs!Last, Diffs!Diff, Diffs!BothCaptured,
       Diffs!CaptureGap, Diffs!ColumnPair, Diffs!IndexPair, Diffs!ConstraintPair, Diffs!PartsEqual, Diffs!Unless,
       Diffs!DefaultDiff, Diffs!NormalizedType, Diffs!DisplayWidthBase, Diffs!ColumnFact, Diffs!LevelFact,
       Diffs!IndexFact, Diffs!ConstraintFact,
       D!DiffSpecs, D!TableLevelDiffs, D!NamedDiffs, D!IndexDiffs, D!ConstraintDiffs,
       D!Matching, D!Lookup, D!Excluded, D!Colliding, D!Last, D!Diff, D!BothCaptured,
       D!CaptureGap, D!ColumnPair, D!IndexPair, D!ConstraintPair, D!PartsEqual, D!Unless,
       D!DefaultDiff, D!NormalizedType, D!DisplayWidthBase, D!ColumnFact, D!LevelFact,
       D!IndexFact, D!ConstraintFact

LEMMA CaptureInit == Dest!Init => Dst!Init
BY DEF Dest!Init, Dest!ZeroSpec, Dest!LevelFact, Dst!Init, Dst!ZeroSpec, Dst!LevelFact

LEMMA OrdersAlike == \A S, before : Dest!InOrder(S, before) = Dst!InOrder(S, before)
BY DEF Dest!InOrder, Dest!Cardinality, Dst!InOrder, Dst!Cardinality

LEMMA ChosenAlike == \A xs, K : Dest!Chosen(xs, K) = Dst!Chosen(xs, K)
BY OrdersAlike DEF Dest!Chosen, Dest!Places, Dest!Less, Dst!Chosen, Dst!Places, Dst!Less

LEMMA SortedAlike == \A xs, before : Dest!SortedBy(xs, before) = Dst!SortedBy(xs, before)
BY OrdersAlike DEF Dest!SortedBy, Dest!Stable, Dst!SortedBy, Dst!Stable

LEMMA FlattenedAlike == \A lists : Dest!Flattened(lists) = Dst!Flattened(lists)
BY OrdersAlike DEF Dest!Flattened, Dest!Entries, Dest!Lexical, Dst!Flattened, Dst!Entries, Dst!Lexical

LEMMA DeliveredAlike == \A own, others : Dest!Delivered(own, others) = Dst!Delivered(own, others)
BY DEF Dest!Delivered,
       Dst!Delivered

LEMMA KeptAlike == \A rows : Dest!Kept(rows) = Dst!Kept(rows)
BY ChosenAlike DEF Dest!Kept, Dest!MatchesResolved,
       Dst!Kept, Dst!MatchesResolved

LEMMA ConstraintsOfAlike == \A t, kind : Dest!ConstraintsOf(t, kind) = Dst!ConstraintsOf(t, kind)
BY ChosenAlike DEF Dest!ConstraintsOf,
       Dst!ConstraintsOf

LEMMA ByNameAlike == \A rows : Dest!InNameOrder(rows) = Dst!InNameOrder(rows)
BY SortedAlike DEF Dest!InNameOrder, Dest!ByName, Dest!Elements,
       Dst!InNameOrder, Dst!ByName, Dst!Elements

LEMMA RunsAlike == \A rows : Dest!Runs(rows) = Dst!Runs(rows)
<1> SUFFICES ASSUME NEW rows PROVE Dest!Runs(rows) = Dst!Runs(rows)
  OBVIOUS
<1>1. PICK first : first = Dest!Places({k \in DOMAIN rows : k = 1 \/ rows[k].name # rows[k - 1].name})
  OBVIOUS
<1>2. first = Dst!Places({k \in DOMAIN rows : k = 1 \/ rows[k].name # rows[k - 1].name})
  BY <1>1, OrdersAlike DEF Dest!Places, Dest!Less,
       Dst!Places, Dst!Less
<1>3. PICK run : run = [k \in DOMAIN rows |-> {i \in k..Len(rows) : \A j \in k..i : rows[j].name = rows[k].name}]
  OBVIOUS
<1> QED BY <1>1, <1>2, ChosenAlike DEF Dest!Runs, Dst!Runs

LEMMA ColumnsAlike == Dest!CapturedColumns = Dst!CapturedColumns
<1>1. \A name, t : Dest!ColumnRows(name, t) = Dst!ColumnRows(name, t)
  BY DEF Dest!ColumnRows, Dest!Extra,
       Dst!ColumnRows, Dst!Extra
<1>2. PICK sent : /\ sent = Dest!Delivered(Dest!ColumnRows(Requested, destTable), Dest!ColumnRows(Variant, Neighbour))
                  /\ sent = Dst!Delivered(Dst!ColumnRows(Requested, destTable), Dst!ColumnRows(Variant, Neighbour))
  BY <1>1, DeliveredAlike
<1>3. Dest!ByOrdinal(Dest!Elements(sent)) = Dst!ByOrdinal(Dst!Elements(sent))
  BY DEF Dest!ByOrdinal, Dest!Elements,
       Dst!ByOrdinal, Dst!Elements
<1>4. PICK rows : /\ rows = Dest!Kept(Dest!SortedBy(sent, Dest!ByOrdinal(Dest!Elements(sent))))
                  /\ rows = Dst!Kept(Dst!SortedBy(sent, Dst!ByOrdinal(Dst!Elements(sent))))
  BY <1>3, SortedAlike, KeptAlike
<1>5. Dest!CapturedColumns = [k \in DOMAIN rows |-> Dest!CapturedColumn(rows[k])]
  BY <1>2, <1>4 DEF Dest!CapturedColumns
<1>6. Dst!CapturedColumns = [k \in DOMAIN rows |-> Dst!CapturedColumn(rows[k])]
  BY <1>2, <1>4 DEF Dst!CapturedColumns
<1>7. \A row : Dest!CapturedColumn(row) = Dst!CapturedColumn(row)
  BY DEF Dest!CapturedColumn, Dest!GeneratedKind,
       Dst!CapturedColumn, Dst!GeneratedKind
<1> QED BY <1>5, <1>6, <1>7

LEMMA RowsAlike ==
  \A name, t :
    /\ Dest!IndexRows(name, t) = Dst!IndexRows(name, t)
    /\ Dest!CheckRows(name, t) = Dst!CheckRows(name, t)
    /\ Dest!ForeignKeyRows(name, t) = Dst!ForeignKeyRows(name, t)
    /\ Dest!TableRows(name, t) = Dst!TableRows(name, t)
<1> SUFFICES ASSUME NEW name, NEW t
             PROVE  /\ Dest!IndexRows(name, t) = Dst!IndexRows(name, t)
                    /\ Dest!CheckRows(name, t) = Dst!CheckRows(name, t)
                    /\ Dest!ForeignKeyRows(name, t) = Dst!ForeignKeyRows(name, t)
                    /\ Dest!TableRows(name, t) = Dst!TableRows(name, t)
  OBVIOUS
<1>1. Dest!IndexRows(name, t) = Dst!IndexRows(name, t)
  BY FlattenedAlike DEF Dest!IndexRows,
       Dst!IndexRows
<1>2. PICK checks, keys :
        /\ checks = Dest!ConstraintsOf(t, "check") /\ checks = Dst!ConstraintsOf(t, "check")
        /\ keys = Dest!ConstraintsOf(t, "foreignKey") /\ keys = Dst!ConstraintsOf(t, "foreignKey")
  BY ConstraintsOfAlike
<1>3. Dest!CheckRows(name, t) = Dst!CheckRows(name, t)
  BY <1>2 DEF Dest!CheckRows,
       Dst!CheckRows
<1>4. Dest!ForeignKeyRows(name, t) = Dst!ForeignKeyRows(name, t)
  BY <1>2, FlattenedAlike DEF Dest!ForeignKeyRows,
       Dst!ForeignKeyRows
<1>5. Dest!TableRows(name, t) = Dst!TableRows(name, t)
  BY DEF Dest!TableRows,
       Dst!TableRows
<1> QED BY <1>1, <1>3, <1>4, <1>5

LEMMA SectionsAlike ==
  /\ Dest!Resolved = Dst!Resolved
  /\ Dest!CapturedIndexes = Dst!CapturedIndexes
  /\ Dest!CapturedChecks = Dst!CapturedChecks
  /\ Dest!CapturedForeignKeys = Dst!CapturedForeignKeys
<1>1. Dest!Resolved = Dst!Resolved
  BY RowsAlike, DeliveredAlike, KeptAlike DEF Dest!Resolved,
       Dst!Resolved
<1>2. Dest!CapturedIndexes = Dst!CapturedIndexes
  <2>1. PICK runs :
          /\ runs = Dest!Runs(Dest!Kept(Dest!InNameOrder(
               Dest!Delivered(Dest!IndexRows(Requested, destTable), Dest!IndexRows(Variant, Neighbour)))))
          /\ runs = Dst!Runs(Dst!Kept(Dst!InNameOrder(
               Dst!Delivered(Dst!IndexRows(Requested, destTable), Dst!IndexRows(Variant, Neighbour)))))
    BY RowsAlike, DeliveredAlike, ByNameAlike, KeptAlike, RunsAlike
  <2> QED BY <2>1 DEF Dest!CapturedIndexes, Dest!Part,
       Dst!CapturedIndexes, Dst!Part
<1>3. Dest!CapturedChecks = Dst!CapturedChecks
  <2>1. PICK rows :
          /\ rows = Dest!Kept(Dest!InNameOrder(
               Dest!Delivered(Dest!CheckRows(Requested, destTable), Dest!CheckRows(Variant, Neighbour))))
          /\ rows = Dst!Kept(Dst!InNameOrder(
               Dst!Delivered(Dst!CheckRows(Requested, destTable), Dst!CheckRows(Variant, Neighbour))))
    BY RowsAlike, DeliveredAlike, ByNameAlike, KeptAlike
  <2> QED BY <2>1 DEF Dest!CapturedChecks,
       Dst!CapturedChecks
<1>4. Dest!CapturedForeignKeys = Dst!CapturedForeignKeys
  <2>1. PICK runs :
          /\ runs = Dest!Runs(Dest!Kept(Dest!InNameOrder(
               Dest!Delivered(Dest!ForeignKeyRows(Requested, destTable), Dest!ForeignKeyRows(Variant, Neighbour)))))
          /\ runs = Dst!Runs(Dst!Kept(Dst!InNameOrder(
               Dst!Delivered(Dst!ForeignKeyRows(Requested, destTable), Dst!ForeignKeyRows(Variant, Neighbour)))))
    BY RowsAlike, DeliveredAlike, ByNameAlike, KeptAlike, RunsAlike
  <2> QED BY <2>1 DEF Dest!CapturedForeignKeys,
       Dst!CapturedForeignKeys
<1> QED BY <1>1, <1>2, <1>3, <1>4

LEMMA SortAlike == \A cs : Dest!Sorted(cs) = Dst!Sorted(cs)
BY SortedAlike DEF Dest!Sorted, Dest!ByNameAndKind, Dest!Elements,
       Dst!Sorted, Dst!ByNameAndKind, Dst!Elements

LEMMA CaptureSteps == Dest!Next => Dst!Next
<1> SUFFICES ASSUME Dest!Next PROVE Dst!Next
  OBVIOUS
<1>1. CASE Dest!Call \/ Dest!Refuse \/ Dest!Fail \/ Dest!Ddl
  BY <1>1 DEF Dst!Next, Dst!Capture, Dest!Call, Dest!Refuse, Dest!Fail, Dest!Ddl, Dest!Return, Dest!ZeroSpec, Dest!Section, Dest!LevelFact,
       Dst!Call, Dst!Refuse, Dst!Fail, Dst!Ddl, Dst!Return, Dst!ZeroSpec, Dst!Section, Dst!LevelFact
<1>2. CASE Dest!Resolve
  BY <1>2, SectionsAlike DEF Dst!Next, Dst!Capture, Dest!Resolve, Dest!Return, Dest!ZeroSpec, Dest!LevelFact,
       Dst!Resolve, Dst!Return, Dst!ZeroSpec, Dst!LevelFact
<1>3. CASE Dest!CaptureColumns
  BY <1>3, ColumnsAlike DEF Dst!Next, Dst!Capture, Dest!CaptureColumns, Dest!Answered, Dest!After,
       Dst!CaptureColumns, Dst!Answered, Dst!After
<1>4. CASE Dest!CaptureIndexes
  BY <1>4, SectionsAlike DEF Dst!Next, Dst!Capture, Dest!CaptureIndexes, Dest!Answered, Dest!After,
       Dst!CaptureIndexes, Dst!Answered, Dst!After
<1>5. CASE Dest!CaptureCheckConstraints
  BY <1>5, SectionsAlike DEF Dst!Next, Dst!Capture, Dest!CaptureCheckConstraints, Dest!Answered, Dest!After,
       Dst!CaptureCheckConstraints, Dst!Answered, Dst!After
<1>6. CASE Dest!CaptureForeignKeyConstraints
  BY <1>6, SectionsAlike, SortAlike DEF Dst!Next, Dst!Capture, Dest!CaptureForeignKeyConstraints, Dest!Answered, Dest!After,
       Dst!CaptureForeignKeyConstraints, Dst!Answered, Dst!After
<1> QED BY <1>1, <1>2, <1>3, <1>4, <1>5, <1>6 DEF Dest!Next, Dest!Capture

----------------------------------------------------------------------------
(* Two captures, and one comparison of what they returned.                 *)

LEMMA SourceCaptured == CompareSpec => Spec
<1>1. CompareInit => Init
  BY DEF CompareInit
<1>2. [CompareNext]_compareVars => [Next]_captureVars
  BY DEF CompareNext, CaptureSource, CaptureDestination, Compare, compareVars
<1> QED BY <1>1, <1>2, PTL DEF CompareSpec, Spec

LEMMA DestinationCaptured == CompareSpec => Dst!Spec
<1>1. CompareInit => Dst!Init
  BY CaptureInit DEF CompareInit
<1>2. [CompareNext]_compareVars => [Dst!Next]_Dst!captureVars
  BY CaptureSteps DEF CompareNext, CaptureSource, CaptureDestination, Compare, compareVars, destVars, Dst!captureVars
<1> QED BY <1>1, <1>2, PTL DEF CompareSpec, Dst!Spec

\* The list is that of the two specifications, and neither changes after it.
CInv ==
  /\ compared \in BOOLEAN
  /\ compared => /\ pc = "done" /\ error = "none" /\ destPc = "done" /\ destError = "none"
                 /\ diffs = D!DiffSpecs

LEMMA DiffsLast ==
  ASSUME UNCHANGED <<spec, destSpec>>
  PROVE  D!DiffSpecs' = D!DiffSpecs
BY DEF D!DiffSpecs, D!TableLevelDiffs, D!IndexDiffs, D!ConstraintDiffs, D!BothCaptured, D!CaptureGap

LEMMA CInvariance == CompareSpec => []CInv
<1>1. CompareInit => CInv
  BY DEF CompareInit, CInv
<1>2. CInv /\ [CompareNext]_compareVars => CInv'
  <2> SUFFICES ASSUME CInv, [CompareNext]_compareVars PROVE CInv'
    OBVIOUS
  <2>1. CASE CaptureSource
    <3>1. ~compared /\ compared' = compared
      BY <2>1, DoneIsDone DEF CaptureSource, CInv
    <3> QED BY <3>1 DEF CInv
  <2>2. CASE CaptureDestination
    <3>1. destPc = "done" => ~Dst!Next
      BY DestinationAssumed, Dst!DoneIsDone
    <3>2. ~compared /\ compared' = compared
      BY <2>2, <3>1, CaptureSteps DEF CaptureDestination, CInv
    <3> QED BY <3>2 DEF CInv
  <2>3. CASE Compare
    <3>1. /\ pc = "done" /\ error = "none" /\ destPc = "done" /\ destError = "none"
          /\ UNCHANGED <<captureVars, destVars>> /\ compared' = TRUE /\ diffs' = D!DiffSpecs
      BY <2>3 DEF Compare, D!Compare
    <3>2. UNCHANGED <<pc, error, destPc, destError, spec, destSpec>>
      BY <3>1 DEF captureVars, destVars
    <3>3. D!DiffSpecs' = D!DiffSpecs
      BY <3>2, DiffsLast
    <3> QED BY <3>1, <3>2, <3>3 DEF CInv
  <2>4. CASE UNCHANGED compareVars
    <3>1. UNCHANGED <<pc, error, destPc, destError, spec, destSpec, compared, diffs>>
      BY <2>4 DEF compareVars, captureVars, destVars
    <3>2. D!DiffSpecs' = D!DiffSpecs
      BY <3>1, DiffsLast
    <3> QED BY <3>1, <3>2 DEF CInv
  <2> QED BY <2>1, <2>2, <2>3, <2>4 DEF CompareNext
<1> QED BY <1>1, <1>2, PTL DEF CompareSpec

----------------------------------------------------------------------------
(* What an empty list says of the two specifications.                      *)

\* A table whose sections a specification may hold.
TableOK(t) ==
  /\ t.level = [f \in Diffs!LevelFact |-> t.level[f]]
  /\ Diffs!NamedList(t.columns) /\ \A c \in Diffs!Elements(t.columns) : Diffs!IsColumn(c)
  /\ Diffs!NamedList(t.indexes) /\ \A i \in Diffs!Elements(t.indexes) : Diffs!IsIndex(i)
  /\ t.constraints \in Seq(Diffs!Elements(t.constraints))
  /\ \A c \in Diffs!Elements(t.constraints) : Diffs!IsConstraint(c)

LEMMA TypesAlike == \A x : D!IsTableSpec(x) <=> Diffs!IsTableSpec(x)
BY DEF D!IsTableSpec, D!IsColumn, D!IsIndex, D!IsConstraint, D!Distinct, D!Elements, D!Section,
       D!LevelFact, D!ColumnFact, D!IndexFact, D!ConstraintFact,
       Diffs!IsTableSpec, Diffs!IsColumn, Diffs!IsIndex, Diffs!IsConstraint, Diffs!Distinct, Diffs!Elements,
       Diffs!Section, Diffs!LevelFact, Diffs!ColumnFact, Diffs!IndexFact, Diffs!ConstraintFact

LEMMA TablesOK == \A t \in Definition \cup DestinationDefinition : TableOK(t)
<1> SUFFICES ASSUME NEW t \in Definition \cup DestinationDefinition PROVE TableOK(t)
  OBVIOUS
<1>1. IsTable(t)
  BY SpecCaptureAssumption, SchemaCompareAssumption
<1>2. Sorted(t.constraints) = t.constraints
  BY <1>1, HalvesSorted
<1>3. PICK x : x = SpecOf(t, Section)
  OBVIOUS
<1>4. /\ x.level = t.level /\ x.columns = t.columns /\ x.indexes = t.indexes
      /\ x.constraints = t.constraints
  BY <1>2, <1>3 DEF SpecOf, Section
<1>5. Diffs!IsTableSpec(x)
  <2>1. D!IsTableSpec(x)
    BY <1>3, SchemaCompareAssumption
  <2> QED BY <2>1, TypesAlike
<1>6. x.level = [f \in Diffs!LevelFact |-> x.level[f]]
  BY <1>5 DEF Diffs!IsTableSpec
<1> QED BY <1>4, <1>5, <1>6 DEF Diffs!IsTableSpec, Diffs!NamedList, TableOK


LEMMA SameAlike ==
  \A xs, ys : /\ Diffs!SameObjects(xs, ys, Diffs!SameColumn) <=> D!SameObjects(xs, ys, D!SameColumn)
              /\ Diffs!SameObjects(xs, ys, Diffs!SameIndex) <=> D!SameObjects(xs, ys, D!SameIndex)
              /\ Diffs!SameObjects(xs, ys, Diffs!SameConstraint) <=> D!SameObjects(xs, ys, D!SameConstraint)
BY DEF Diffs!SameObjects, Diffs!SameColumn, Diffs!SameIndex, Diffs!SameConstraint, Diffs!SameType,
       Diffs!DisplayWidthBase, Diffs!Elements,
       D!SameObjects, D!SameColumn, D!SameIndex, D!SameConstraint, D!SameType, D!DisplayWidthBase, D!Elements

LEMMA CompareAssumed ==
  /\ \A n \in DOMAIN Fold : Fold[n] \in DOMAIN Fold /\ Fold[Fold[n]] = Fold[n]
  /\ \A x \in {} : Diffs!IsTableSpec(x)
BY SchemaCompareAssumption

\* The list is empty exactly when the tables the sections were read from agree.
LEMMA SectionsCompared ==
  ASSUME NEW s, TableOK(s), NEW u, TableOK(u), NEW w, TableOK(w),
         NEW t, TableOK(t), NEW v, TableOK(v), NEW x, TableOK(x),
         request \subseteq Section, destRequest \subseteq Section,
         spec.captured = request, destSpec.captured = destRequest,
         spec.level = s.level, destSpec.level = t.level,
         "Comment" \in request => spec.comment = s.comment,
         "Comment" \in destRequest => destSpec.comment = t.comment,
         spec.columns = u.columns, destSpec.columns = v.columns,
         "Index" \in request => spec.indexes = w.indexes,
         "Index" \in destRequest => destSpec.indexes = x.indexes
  PROVE  D!DiffSpecs = {} <=>
           /\ AgreeAt(s, t, u, v, w, x)
           /\ "Comment" \in request <=> "Comment" \in destRequest
           /\ "Index" \in request <=> "Index" \in destRequest
           /\ Diffs!ConstraintDiffs = {}
<1>1. Diffs!IsOpenSpec(spec) /\ Diffs!IsOpenSpec(destSpec)
  <2>1. request \subseteq Diffs!Section /\ destRequest \subseteq Diffs!Section
    BY DEF Section, Diffs!Section
  <2> QED BY <2>1 DEF TableOK, Diffs!IsOpenSpec
<1>2. Diffs!DiffSpecs = {} <=>
        /\ spec.level = destSpec.level
        /\ "Comment" \in spec.captured <=> "Comment" \in destSpec.captured
        /\ "Comment" \in spec.captured => spec.comment = destSpec.comment
        /\ Diffs!SameObjects(spec.columns, destSpec.columns, Diffs!SameColumn)
        /\ "Index" \in spec.captured <=> "Index" \in destSpec.captured
        /\ "Index" \in spec.captured => Diffs!SameObjects(spec.indexes, destSpec.indexes, Diffs!SameIndex)
        /\ Diffs!ConstraintDiffs = {}
  BY <1>1, CompareAssumed, Diffs!SectionsAgree
<1> QED BY <1>2, DiffsAlike, SameAlike DEF AgreeAt, Asked

----------------------------------------------------------------------------
(* The theorems.                                                           *)

\* Whatever DDL runs on either server during its capture, an empty list of
\* differences says that each section agreed, as the two tables were at one
\* moment of their own captures, later sections at later moments.
THEOREM AgreementProvesMoments == CompareSpec => []AgreementOfMoments
<1>1. CInv /\ TInv /\ Dst!TInv /\ SectionsInOrder /\ Dst!SectionsInOrder => AgreementOfMoments
  <2> SUFFICES ASSUME CInv, TInv, Dst!TInv, SectionsInOrder, Dst!SectionsInOrder, compared, diffs = {}
               PROVE  \E i, j, k \in DOMAIN versions : \E l, m, n \in DOMAIN destVersions :
                        /\ i <= j /\ j <= k /\ l <= m /\ m <= n
                        /\ AgreeAt(versions[i], destVersions[l], versions[j], destVersions[m],
                                   versions[k], destVersions[n])
    BY DEF AgreementOfMoments
  <2>1. /\ pc = "done" /\ error = "none" /\ destPc = "done" /\ destError = "none" /\ D!DiffSpecs = {}
    BY DEF CInv
  <2>2. PICK i \in DOMAIN versions : \E j \in i..Len(versions) : \E k \in j..Len(versions) :
          /\ spec.level = versions[i].level
          /\ "Comment" \in request => spec.comment = versions[i].comment
          /\ spec.columns = versions[j].columns
          /\ "Index" \in request => spec.indexes = versions[k].indexes
    BY <2>1, Zenon DEF SectionsInOrder
  <2>3. PICK l \in DOMAIN destVersions : \E m \in l..Len(destVersions) : \E n \in m..Len(destVersions) :
          /\ destSpec.level = destVersions[l].level
          /\ "Comment" \in destRequest => destSpec.comment = destVersions[l].comment
          /\ destSpec.columns = destVersions[m].columns
          /\ "Index" \in destRequest => destSpec.indexes = destVersions[n].indexes
    BY <2>1, Zenon DEF Dst!SectionsInOrder
  <2>4. PICK j \in i..Len(versions) : \E k \in j..Len(versions) :
          /\ spec.columns = versions[j].columns
          /\ "Index" \in request => spec.indexes = versions[k].indexes
    BY <2>2
  <2>5. PICK m \in l..Len(destVersions) : \E n \in m..Len(destVersions) :
          /\ destSpec.columns = destVersions[m].columns
          /\ "Index" \in destRequest => destSpec.indexes = destVersions[n].indexes
    BY <2>3
  <2>k. PICK k \in j..Len(versions) : "Index" \in request => spec.indexes = versions[k].indexes
    BY <2>4
  <2>n. PICK n \in m..Len(destVersions) : "Index" \in destRequest => destSpec.indexes = destVersions[n].indexes
    BY <2>5
  <2>6. /\ versions \in Seq(Definition) /\ DOMAIN versions = 1..Len(versions) /\ Len(versions) \in Nat
        /\ request \subseteq Section /\ spec.captured = request
    BY <2>1 DEF TInv, TypeOK
  <2>7. /\ destVersions \in Seq(DestinationDefinition) /\ DOMAIN destVersions = 1..Len(destVersions)
        /\ Len(destVersions) \in Nat
        /\ destRequest \subseteq Section /\ destSpec.captured = destRequest
    BY <2>1 DEF Dst!TInv, Dst!TypeOK, Dst!Section, Section
  <2>8. /\ i \in DOMAIN versions /\ j \in DOMAIN versions /\ k \in DOMAIN versions /\ i <= j /\ j <= k
    BY <2>2, <2>4, <2>k, <2>6
  <2>9. /\ l \in DOMAIN destVersions /\ m \in DOMAIN destVersions /\ n \in DOMAIN destVersions
        /\ l <= m /\ m <= n
    BY <2>3, <2>5, <2>n, <2>7
  <2>10. /\ TableOK(versions[i]) /\ TableOK(versions[j]) /\ TableOK(versions[k])
         /\ TableOK(destVersions[l]) /\ TableOK(destVersions[m]) /\ TableOK(destVersions[n])
    BY <2>6, <2>7, <2>8, <2>9, TablesOK
  <2>11. AgreeAt(versions[i], destVersions[l], versions[j], destVersions[m], versions[k], destVersions[n])
    <3>1. PICK s, t, u, v, w, x : /\ s = versions[i] /\ u = versions[j] /\ w = versions[k]
                                  /\ t = destVersions[l] /\ v = destVersions[m] /\ x = destVersions[n]
      OBVIOUS
    <3>2. TableOK(s) /\ TableOK(t) /\ TableOK(u) /\ TableOK(v) /\ TableOK(w) /\ TableOK(x)
      BY <2>10, <3>1
    <3>3. /\ request \subseteq Section /\ destRequest \subseteq Section
          /\ spec.captured = request /\ destSpec.captured = destRequest
      BY <2>6, <2>7
    <3>4. /\ spec.level = s.level
          /\ "Comment" \in request => spec.comment = s.comment
      BY <2>2, <3>1
    <3>5. /\ destSpec.level = t.level
          /\ "Comment" \in destRequest => destSpec.comment = t.comment
      BY <2>3, <3>1
    <3>6. /\ spec.columns = u.columns
          /\ "Index" \in request => spec.indexes = w.indexes
      BY <2>4, <2>k, <3>1
    <3>7. /\ destSpec.columns = v.columns
          /\ "Index" \in destRequest => destSpec.indexes = x.indexes
      BY <2>5, <2>n, <3>1
    <3>8. D!DiffSpecs = {} => AgreeAt(s, t, u, v, w, x)
      BY <3>2, <3>3, <3>4, <3>5, <3>6, <3>7, SectionsCompared, ZenonT(60)
    <3> QED BY <2>1, <3>1, <3>8
  <2> QED BY <2>8, <2>9, <2>11
<1>2. CompareSpec => []TInv /\ []SectionsInOrder
  BY SourceCaptured, TInvariance, SpecInOrder, PTL
<1>3. CompareSpec => []Dst!TInv /\ []Dst!SectionsInOrder
  <2>1. Dst!Spec => []Dst!TInv
    BY DestinationAssumed, Dst!TInvariance
  <2>2. Dst!Spec => []Dst!SectionsInOrder
    BY DestinationAssumed, Dst!SpecInOrder
  <2> QED BY <2>1, <2>2, DestinationCaptured, PTL
<1> QED BY <1>1, <1>2, <1>3, CInvariance, PTL


\* No table of the destination has two constraints of one name, which is what
\* finding spec_diff_shared lacks: DiffSpecs keeps the last of its second side.
DestinationDistinct == \A t \in DestinationDefinition : D!Distinct(t.constraints)

\* What a call returned of a still table, field by field.
LEMMA SpecOfFields ==
  ASSUME NEW t, IsTable(t), NEW sections
  PROVE  /\ SpecOf(t, sections).level = t.level /\ SpecOf(t, sections).columns = t.columns
         /\ SpecOf(t, sections).captured = sections
         /\ "Comment" \in sections => SpecOf(t, sections).comment = t.comment
         /\ "Index" \in sections => SpecOf(t, sections).indexes = t.indexes
         /\ SpecOf(t, sections).constraints =
              IF "Constraint" \in sections THEN t.constraints ELSE <<>>
<1>1. Sorted(t.constraints) = t.constraints
  BY HalvesSorted
<1> QED BY <1>1 DEF SpecOf

LEMMA SpecOfAlike == \A t, sections : Dst!SpecOf(t, sections) = SpecOf(t, sections)
<1>1. \A S, before : Dst!InOrder(S, before) = InOrder(S, before)
  BY DEF Dst!InOrder, Dst!Cardinality, InOrder, Cardinality
<1>2. \A xs, before : Dst!SortedBy(xs, before) = SortedBy(xs, before)
  BY <1>1 DEF Dst!SortedBy, Dst!Stable, SortedBy, Stable
<1>3. \A cs : Dst!Sorted(cs) = Sorted(cs)
  BY <1>2 DEF Dst!Sorted, Dst!ByNameAndKind, Dst!Elements, Sorted, ByNameAndKind, Elements
<1> QED BY <1>3 DEF Dst!SpecOf, SpecOf

\* On two servers that keep still an empty list says that the declared tables
\* agree in every section asked for and that both were asked for the same, and
\* only then is the list empty, whatever the tables hold.
THEOREM AgreementIsExact ==
  ASSUME DestinationDistinct
  PROVE  CompareSpec => []AgreementExact
<1>1. CInv /\ TInv /\ Dst!TInv /\ QuietSpecExact /\ Dst!QuietSpecExact => AgreementExact
  <2> SUFFICES ASSUME CInv, TInv, Dst!TInv, QuietSpecExact, Dst!QuietSpecExact,
                      compared, Len(versions) = 1, Len(destVersions) = 1
               PROVE  diffs = {} <=>
                        /\ request = destRequest
                        /\ AgreeAt(table, destTable, table, destTable, table, destTable)
                        /\ Asked("Constraint") =>
                             D!SameObjects(table.constraints, destTable.constraints, D!SameConstraint)
    BY DEF AgreementExact
  <2>1. /\ pc = "done" /\ error = "none" /\ destPc = "done" /\ destError = "none" /\ diffs = D!DiffSpecs
    BY DEF CInv
  <2>2. /\ table \in Definition /\ destTable \in DestinationDefinition
        /\ request \subseteq Section /\ destRequest \subseteq Section
    BY DEF TInv, TypeOK, Dst!TInv, Dst!TypeOK, Dst!Section, Section
  <2>3. IsTable(table) /\ IsTable(destTable) /\ TableOK(table) /\ TableOK(destTable)
    BY <2>2, SpecCaptureAssumption, SchemaCompareAssumption, TablesOK
  <2>4. spec = SpecOf(table, request) /\ destSpec = SpecOf(destTable, destRequest)
    BY <2>1, SpecOfAlike DEF QuietSpecExact, Dst!QuietSpecExact
  <2>5. /\ spec.captured = request
        /\ spec.level = table.level
        /\ "Comment" \in request => spec.comment = table.comment
        /\ spec.columns = table.columns
        /\ "Index" \in request => spec.indexes = table.indexes
        /\ spec.constraints = IF "Constraint" \in request THEN table.constraints ELSE <<>>
    BY <2>3, <2>4, SpecOfFields
  <2>6. /\ destSpec.captured = destRequest
        /\ destSpec.level = destTable.level
        /\ "Comment" \in destRequest => destSpec.comment = destTable.comment
        /\ destSpec.columns = destTable.columns
        /\ "Index" \in destRequest => destSpec.indexes = destTable.indexes
        /\ destSpec.constraints = IF "Constraint" \in destRequest THEN destTable.constraints ELSE <<>>
    BY <2>3, <2>4, SpecOfFields
  <2>7. D!DiffSpecs = {} <=>
          /\ AgreeAt(table, destTable, table, destTable, table, destTable)
          /\ "Comment" \in request <=> "Comment" \in destRequest
          /\ "Index" \in request <=> "Index" \in destRequest
          /\ Diffs!ConstraintDiffs = {}
    BY <2>2, <2>3, <2>5, <2>6, SectionsCompared, ZenonT(60)
  <2>8. Diffs!ConstraintDiffs = {} <=>
          /\ "Constraint" \in request <=> "Constraint" \in destRequest
          /\ "Constraint" \in request =>
               D!SameObjects(table.constraints, destTable.constraints, D!SameConstraint)
    <3>1. /\ destSpec.constraints \in Seq(Diffs!Elements(destSpec.constraints))
          /\ Diffs!Distinct(destSpec.constraints)
          /\ \A c \in Diffs!Elements(destSpec.constraints) : Diffs!IsConstraint(c)
      BY <2>2, <2>3, <2>6 DEF TableOK, DestinationDistinct, Diffs!Distinct, D!Distinct, Diffs!Elements
    <3>2. \A c \in Diffs!Elements(spec.constraints) : Diffs!IsConstraint(c)
      BY <2>3, <2>5 DEF TableOK, Diffs!Elements
    <3>3. Diffs!ConstraintDiffs = {} <=>
            /\ "Constraint" \in spec.captured <=> "Constraint" \in destSpec.captured
            /\ "Constraint" \in spec.captured =>
                 Diffs!SameObjects(spec.constraints, destSpec.constraints, Diffs!SameConstraint)
      BY <3>1, <3>2, CompareAssumed, Diffs!ConstraintsAgreeing
    <3> QED BY <2>5, <2>6, <3>3, SameAlike
  <2>9. request = destRequest <=>
          /\ "Comment" \in request <=> "Comment" \in destRequest
          /\ "Index" \in request <=> "Index" \in destRequest
          /\ "Constraint" \in request <=> "Constraint" \in destRequest
    <3>1. request = destRequest <=> \A x \in Section : x \in request <=> x \in destRequest
      BY <2>2
    <3> QED BY <3>1 DEF Section
  <2>10. Asked("Constraint") <=> "Constraint" \in request /\ "Constraint" \in destRequest
    BY DEF Asked
  <2>11. diffs = {} <=> D!DiffSpecs = {}
    BY <2>1
  <2> HIDE DEF Asked, AgreeAt, D!DiffSpecs, D!SameObjects, Diffs!ConstraintDiffs
  <2>12. CASE request = destRequest
    <3>1. D!DiffSpecs = {} <=>
            /\ AgreeAt(table, destTable, table, destTable, table, destTable)
            /\ Diffs!ConstraintDiffs = {}
      BY ONLY <2>7, <2>12, ZenonT(60)
    <3>2. Diffs!ConstraintDiffs = {} <=>
            ("Constraint" \in request =>
               D!SameObjects(table.constraints, destTable.constraints, D!SameConstraint))
      BY ONLY <2>8, <2>12, ZenonT(60)
    <3>3. Asked("Constraint") <=> "Constraint" \in request
      BY ONLY <2>10, <2>12, ZenonT(60)
    <3> QED BY ONLY <2>11, <2>12, <3>1, <3>2, <3>3, ZenonT(60)
  <2>13. CASE request # destRequest
    <3>1. diffs # {}
      BY ONLY <2>7, <2>8, <2>9, <2>11, <2>13, ZenonT(60)
    <3> QED BY ONLY <2>13, <3>1, ZenonT(60)
  <2> QED BY ONLY <2>12, <2>13
<1>2. CompareSpec => []TInv /\ []QuietSpecExact
  BY SourceCaptured, TInvariance, QuietSpec, PTL
<1>3. CompareSpec => []Dst!TInv /\ []Dst!QuietSpecExact
  <2>1. Dst!Spec => []Dst!TInv
    BY DestinationAssumed, Dst!TInvariance
  <2>2. Dst!Spec => []Dst!QuietSpecExact
    BY DestinationAssumed, Dst!QuietSpec
  <2> QED BY <2>1, <2>2, DestinationCaptured, PTL
<1> QED BY <1>1, <1>2, <1>3, CInvariance, PTL

=============================================================================
