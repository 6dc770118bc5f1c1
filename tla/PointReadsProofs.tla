-------------------------- MODULE PointReadsProofs --------------------------
(***************************************************************************)
(* Proofs about PointReads, for every list of requests, every schema and   *)
(* any number of changes of it between the calls: what a fact is, and what *)
(* the silence of every check proves.  The invariant is that a returned    *)
(* fact is what FactsOf makes of the objects as its call read them; the    *)
(* rest is about FactsOf and the checks alone.                             *)
(***************************************************************************)
EXTENDS PointReads, ListProofs

----------------------------------------------------------------------------
(* The facts are those of the moment each was read.                        *)

IsSeen(seen) == \A n \in Name : seen[n] \in Option[n]

\* What is known of a returned fact.
AsRead(call) ==
  \E seen : seen = at[call] /\ IsSeen(seen) /\ facts[call] = FactsOf(call, seen)

PointInv ==
  /\ requested \in Seq(Name \cup {EmptyName})
  /\ objects \in [Name -> UNION {Option[n] : n \in Name}] /\ IsSeen(objects)
  /\ DOMAIN at = DOMAIN facts /\ DOMAIN facts \subseteq Elements(Call)
  /\ facts # <<>> => Valid
  /\ \A call \in DOMAIN facts : AsRead(call)
  /\ changes \in Nat
  /\ changes = 0 => \A call \in DOMAIN facts : at[call] = objects

\* A fact depends on the list of requests and on what the call saw.
LEMMA FactsFixed ==
  ASSUME requested' = requested, NEW call, NEW seen
  PROVE  FactsOf(call, seen)' = FactsOf(call, seen)
<1>1. (PointLookup' <=> PointLookup) /\ Bound' = Bound
  BY DEF PointLookup, Bound
<1>2. \A name : Copies(name)' = Copies(name)
  BY <1>1 DEF Copies
<1>3. \A name, rows : RowsOf(name, rows)' = RowsOf(name, rows)
  BY <1>2 DEF RowsOf
<1>4. \A found : OfRequest(found)' = OfRequest(found)
  BY DEF OfRequest
<1>5. \A name, o : /\ PKInfo(name, o)' = PKInfo(name, o)
                   /\ InvisibleColumns(name, o)' = InvisibleColumns(name, o)
                   /\ TableColumns(name, o)' = TableColumns(name, o)
                   /\ TriggerRows(name, o)' = TriggerRows(name, o)
  <2>1. \A name, o : PKInfo(name, o)' = PKInfo(name, o)
    BY <1>3, ZenonT(60) DEF PKInfo
  <2>2. \A name, o : /\ InvisibleColumns(name, o)' = InvisibleColumns(name, o)
                     /\ TableColumns(name, o)' = TableColumns(name, o)
    BY <1>3 DEF InvisibleColumns, TableColumns
  <2>3. \A name, o : TriggerRows(name, o)' = TriggerRows(name, o)
    BY <1>3 DEF TriggerRows
  <2> QED BY <2>1, <2>2, <2>3
<1>6. \A name, o : TriggersOf(name, o)' = TriggersOf(name, o)
  BY <1>5 DEF TriggersOf
<1>7. Triggers(seen)' = Triggers(seen)
  BY <1>6 DEF Triggers
<1> QED BY <1>4, <1>5, <1>7 DEF FactsOf

LEMMA PointInvariance == Spec => []PointInv
<1>1. Init => PointInv
  BY PointReadsAssumption DEF Init, PointInv, IsSeen
<1>2. PointInv /\ [Next]_pointVars => PointInv'
  <2> SUFFICES ASSUME PointInv, [Next]_pointVars PROVE PointInv'
    OBVIOUS
  <2>0. requested' = requested
    BY DEF Next, Read, Fail, Change, pointVars
  <2>1. ASSUME NEW call \in DOMAIN facts, at'[call] = at[call], facts'[call] = facts[call]
        PROVE  AsRead(call)'
    BY <2>0, <2>1, FactsFixed DEF PointInv, AsRead
  <2>2. ASSUME NEW k \in DOMAIN Call, Read(k) PROVE PointInv'
    <3>1. /\ facts' = With(facts, Call[k], FactsOf(Call[k], objects))
          /\ at' = With(at, Call[k], objects)
          /\ UNCHANGED <<objects, requested, failed, changes>> /\ Valid
          /\ Call[k] \notin DOMAIN facts
      BY <2>2 DEF Read, Returned
    <3>2. /\ DOMAIN facts' = DOMAIN facts \cup {Call[k]} /\ DOMAIN at' = DOMAIN facts'
          /\ facts'[Call[k]] = FactsOf(Call[k], objects) /\ at'[Call[k]] = objects
          /\ \A call \in DOMAIN facts : at'[call] = at[call] /\ facts'[call] = facts[call]
      BY <3>1 DEF PointInv, With
    <3>3. AsRead(Call[k])'
      BY <2>0, <3>2, FactsFixed DEF PointInv, AsRead
    <3>4. \A call \in DOMAIN facts' : AsRead(call)'
      BY <2>1, <3>2, <3>3
    <3>5. DOMAIN facts' \subseteq Elements(Call)
      BY <3>2 DEF PointInv, Elements
    <3> QED BY <3>1, <3>2, <3>4, <3>5 DEF PointInv, Valid, IsSeen
  <2>3. CASE Fail
    BY <2>1, <2>3 DEF Fail, PointInv, Valid, IsSeen
  <2>4. CASE Change
    <3>1. objects' \in [Name -> UNION {Option[n] : n \in Name}] /\ IsSeen(objects')
      BY <2>4 DEF Change, PointInv, IsSeen
    <3> QED BY <2>1, <2>4, <3>1 DEF Change, PointInv, Valid, IsSeen
  <2>5. CASE UNCHANGED pointVars
    BY <2>1, <2>5 DEF pointVars, PointInv, Valid, IsSeen
  <2> QED BY <2>2, <2>3, <2>4, <2>5 DEF Next
<1> QED BY <1>1, <1>2, PTL DEF Spec

----------------------------------------------------------------------------
(* What a fact holds of a requested object.                                *)

\* The names a valid list holds.
LEMMA ValidNames ==
  ASSUME requested \in Seq(Name \cup {EmptyName}), Valid
  PROVE  /\ Elements(requested) \subseteq Name
         /\ Len(requested) \in Nat /\ DOMAIN requested = 1..Len(requested)
BY DEF Valid, Elements

\* The facts are those found of the requested names.
LEMMA OfRequestHolds ==
  ASSUME requested \in Seq(Name \cup {EmptyName}), NEW found
  PROVE  Elements(OfRequest(found)) = {found[n] : n \in Elements(requested) \cap DOMAIN found}
<1>1. PICK K : K = {k \in DOMAIN requested : requested[k] \in DOMAIN found}
  OBVIOUS
<1>2. PICK kept : kept = Chosen(requested, K)
  OBVIOUS
<1>3. Len(requested) \in Nat /\ DOMAIN requested = 1..Len(requested) /\ K \in SUBSET (1..Len(requested))
  BY <1>1
<1>4. Elements(kept) = {requested[i] : i \in K}
  <2>1. PICK n \in Nat : n = Len(requested)
    BY <1>3
  <2>2. DOMAIN requested = 1..n /\ K \in SUBSET (1..n)
    BY <1>3, <2>1
  <2>3. Elements(Chosen(requested, K)) = {requested[i] : i \in K}
    BY ONLY <2>2, n \in Nat, ChosenElements
  <2> QED BY <1>2, <2>3
<1>5. {requested[i] : i \in K} = Elements(requested) \cap DOMAIN found
  BY <1>1 DEF Elements
<1>6. OfRequest(found) = [k \in DOMAIN kept |-> found[kept[k]]]
  BY <1>1, <1>2 DEF OfRequest
<1>7. Elements(OfRequest(found)) = {found[n] : n \in Elements(kept)}
  <2>1. \A x : x \in Elements(OfRequest(found)) <=> \E k \in DOMAIN kept : x = found[kept[k]]
    BY <1>6 DEF Elements
  <2>2. \A x : x \in {found[n] : n \in Elements(kept)} <=> \E k \in DOMAIN kept : x = found[kept[k]]
    BY DEF Elements
  <2> QED BY <2>1, <2>2
<1> QED BY <1>4, <1>5, <1>7

\* A requested name is bound, so that its rows come at least once.
LEMMA RequestedCopies ==
  ASSUME requested \in Seq(Name \cup {EmptyName}), NEW n \in Elements(requested)
  PROVE  Copies(n) \in Nat \ {0}
<1> DEFINE same == {k \in Bound : Folded[requested[k]] = Folded[n]}
<1>1. Len(requested) \in Nat /\ DOMAIN requested = 1..Len(requested)
  OBVIOUS
<1>2. PICK k \in 1..Len(requested) : requested[k] = n /\ \A j \in 1..Len(requested) : requested[j] = n => k <= j
  <2> DEFINE asks == {k \in 1..Len(requested) : requested[k] = n}
  <2>1. asks \in SUBSET Nat /\ asks # {}
    BY <1>1 DEF Elements
  <2>2. \E k \in asks : \A j \in asks : k <= j
    <3> HIDE DEF asks
    <3> QED BY <2>1, LeastOf
  <2> QED BY <2>2
<1>3. k \in same
  <2>1. \A j \in 1..(k - 1) : j \in 1..Len(requested) /\ ~(k <= j)
    BY <1>1, <1>2
  <2> QED BY <1>1, <1>2, <2>1 DEF Bound
<1>4. IsFiniteSet(same)
  <2>1. IsFiniteSet(1..Len(requested))
    BY <1>1, FS_Interval
  <2>2. same \subseteq 1..Len(requested)
    BY <1>1 DEF Bound
  <2> QED BY <2>1, <2>2, FS_Subset
<1>5. Cardinality(same) \in Nat \ {0}
  <2> HIDE DEF same
  <2> QED BY <1>3, <1>4, FS_CardinalityType, FS_EmptySet
<1> QED BY <1>5 DEF Copies

\* Rows that come as often as the name is bound: none is lost or invented, and
\* their number is that of the object's rows only when each comes once.
LEMMA RowsCopied ==
  ASSUME NEW name, NEW rows, rows \in Seq(Elements(rows)), Copies(name) \in Nat \ {0}
  PROVE  /\ RowsOf(name, rows) \in Seq(Elements(rows))
         /\ Len(RowsOf(name, rows)) = Len(rows) * Copies(name)
         /\ Len(RowsOf(name, rows)) = 0 <=> Len(rows) = 0
         /\ Len(RowsOf(name, rows)) = 1 => Len(rows) = 1 /\ RowsOf(name, rows)[1] = rows[1]
         /\ Elements(RowsOf(name, rows)) = Elements(rows)
<1>1. PICK c \in Nat \ {0} : c = Copies(name)
  OBVIOUS
<1>2. PICK l \in Nat : l = Len(rows) /\ DOMAIN rows = 1..l
  OBVIOUS
<1>3. l * c \in Nat
  OBVIOUS
<1>4. RowsOf(name, rows) = [k \in 1..(l * c) |-> rows[((k - 1) \div c) + 1]]
  BY <1>1, <1>2 DEF RowsOf
<1>5. ASSUME NEW k \in 1..(l * c) PROVE ((k - 1) \div c) + 1 \in 1..l
  <2>1. PICK q : q = (k - 1) \div c
    OBVIOUS
  <2>2. q \in Nat /\ c * q <= k - 1
    BY <1>3, <1>5, <2>1
  <2>3. ~(q >= l)
    <3>1. q >= l => c * q >= c * l
      BY <2>2
    <3> QED BY <1>3, <1>5, <2>2, <3>1
  <2> QED BY <2>1, <2>2, <2>3
<1>6. ASSUME NEW i \in 1..l
      PROVE  (i - 1) * c + 1 \in 1..(l * c) /\ ((((i - 1) * c + 1) - 1) \div c) + 1 = i
  <2>1. (i - 1) * c \in Nat /\ (i - 1) * c + c = i * c /\ i * c <= l * c
    OBVIOUS
  <2>2. ((i - 1) * c) \div c = i - 1
    BY <2>1
  <2> QED BY <1>3, <2>1, <2>2
<1>7. \A k \in 1..(l * c) : rows[((k - 1) \div c) + 1] \in Elements(rows)
  BY <1>2, <1>5 DEF Elements
<1>8. RowsOf(name, rows) \in Seq(Elements(rows)) /\ Len(RowsOf(name, rows)) = l * c
  BY <1>3, <1>4, <1>7
<1>9. l * c = 0 <=> l = 0
  OBVIOUS
<1>10. l * c = 1 => l = 1 /\ c = 1
  <2>1. l >= 2 => l * c >= 2
    OBVIOUS
  <2> QED BY <2>1
<1>11. l * c = 1 => RowsOf(name, rows)[1] = rows[1]
  BY <1>4, <1>10
<1>12. Elements(RowsOf(name, rows)) = Elements(rows)
  <2>1. Elements(RowsOf(name, rows)) \subseteq Elements(rows)
    BY <1>4, <1>7 DEF Elements
  <2>2. ASSUME NEW i \in 1..l PROVE rows[i] \in Elements(RowsOf(name, rows))
    BY <1>4, <1>6 DEF Elements
  <2> QED BY <1>2, <2>1, <2>2 DEF Elements
<1> QED BY <1>1, <1>2, <1>8, <1>9, <1>10, <1>11, <1>12

\* The facts of the calls, each of the objects as it read them.
LEMMA FactElements ==
  ASSUME PointInv, NEW call \in DOMAIN facts, NEW seen, seen = at[call]
  PROVE  LET asked == Elements(requested) IN
         /\ call = "Tables" =>
              Elements(facts[call]) = {TableInfo(n, seen[n]) : n \in asked \cap Existing(seen)}
         /\ call = "PrimaryKeys" =>
              Elements(facts[call]) = {PKInfo(n, seen[n]) : n \in asked \cap Bases(seen)}
         /\ call = "InvisibleColumns" =>
              Elements(facts[call]) = {InvisibleColumns(n, seen[n]) : n \in asked \cap Hiding(seen)}
         /\ call = "Columns" =>
              Elements(facts[call]) = {TableColumns(n, seen[n]) : n \in asked \cap Existing(seen)}
<1>1. requested \in Seq(Name \cup {EmptyName}) /\ facts[call] = FactsOf(call, seen)
  BY DEF PointInv, AsRead
<1>2. CASE call = "Tables"
  <2>1. PICK found : found = [n \in Existing(seen) |-> TableInfo(n, seen[n])]
    OBVIOUS
  <2>2. facts[call] = OfRequest(found)
    BY <1>1, <1>2, <2>1 DEF FactsOf
  <2>3. Elements(facts[call]) = {found[n] : n \in Elements(requested) \cap Existing(seen)}
    BY <1>1, <2>1, <2>2, OfRequestHolds
  <2> QED BY <1>2, <2>1, <2>3
<1>3. CASE call = "PrimaryKeys"
  <2>1. PICK found : found = [n \in Bases(seen) |-> PKInfo(n, seen[n])]
    OBVIOUS
  <2>2. facts[call] = OfRequest(found)
    BY <1>1, <1>3, <2>1 DEF FactsOf
  <2>3. Elements(facts[call]) = {found[n] : n \in Elements(requested) \cap Bases(seen)}
    BY <1>1, <2>1, <2>2, OfRequestHolds
  <2> QED BY <1>3, <2>1, <2>3
<1>4. CASE call = "InvisibleColumns"
  <2>1. PICK found : found = [n \in Hiding(seen) |-> InvisibleColumns(n, seen[n])]
    OBVIOUS
  <2>2. facts[call] = OfRequest(found)
    BY <1>1, <1>4, <2>1 DEF FactsOf
  <2>3. Elements(facts[call]) = {found[n] : n \in Elements(requested) \cap Hiding(seen)}
    BY <1>1, <2>1, <2>2, OfRequestHolds
  <2> QED BY <1>4, <2>1, <2>3
<1>5. CASE call = "Columns"
  <2>1. PICK found : found = [n \in Existing(seen) |-> TableColumns(n, seen[n])]
    OBVIOUS
  <2>2. facts[call] = OfRequest(found)
    BY <1>1, <1>5, <2>1 DEF FactsOf
  <2>3. Elements(facts[call]) = {found[n] : n \in Elements(requested) \cap Existing(seen)}
    BY <1>1, <2>1, <2>2, OfRequestHolds
  <2> QED BY <1>5, <2>1, <2>3
<1> QED BY <1>2, <1>3, <1>4, <1>5

\* A key fact has the columns of the key, and names a single column only when
\* the key has that one.
LEMMA KeyFact ==
  ASSUME requested \in Seq(Name \cup {EmptyName}), NEW n \in Elements(requested),
         NEW o, IsObject(o), NEW f, f = PKInfo(n, o)
  PROVE  /\ f.table = n /\ f.kind \in {"none", "single", "composite"}
         /\ f.columns \in Seq(Elements(f.columns))
         /\ Elements(f.columns) = {o.key[j].name : j \in DOMAIN o.key}
         /\ f.kind = "none" <=> Len(o.key) = 0
         /\ f.kind = "single" =>
              /\ Len(o.key) = 1 /\ f.columns[1] = o.key[1].name /\ Len(f.columns) = 1
              /\ f.isInteger <=> IsIntegerDataType(o.key[1].dataType)
<1>1. o.key \in Seq(Elements(o.key))
  BY DEF IsObject
<1>2. PICK rows : rows = RowsOf(n, o.key)
  OBVIOUS
<1>3. /\ rows \in Seq(Elements(rows)) /\ Elements(rows) = Elements(o.key)
      /\ Len(rows) = 0 <=> Len(o.key) = 0
      /\ Len(rows) = 1 => Len(o.key) = 1 /\ rows[1] = o.key[1]
  <2>1. Copies(n) \in Nat \ {0}
    BY RequestedCopies
  <2> QED BY <1>1, <1>2, <2>1, RowsCopied
<1>4. PICK columns : columns = [k \in DOMAIN rows |-> rows[k].name]
  OBVIOUS
<1>5. /\ columns \in Seq(Elements(columns)) /\ Len(columns) = Len(rows) /\ Len(rows) \in Nat
      /\ DOMAIN rows = 1..Len(rows)
  <2>1. Len(rows) \in Nat /\ DOMAIN rows = 1..Len(rows)
    BY <1>3
  <2>2. \A k \in 1..Len(rows) : columns[k] \in Elements(columns)
    BY <1>4, <2>1 DEF Elements
  <2> QED BY <1>4, <2>1, <2>2
<1>6. Elements(columns) = {o.key[j].name : j \in DOMAIN o.key}
  <2>1. \A x : x \in Elements(columns) <=> \E r \in Elements(rows) : x = r.name
    BY <1>4 DEF Elements
  <2>2. \A x : x \in {o.key[j].name : j \in DOMAIN o.key} <=> \E r \in Elements(o.key) : x = r.name
    BY SMTT(40) DEF Elements
  <2> QED BY <1>3, <2>1, <2>2, ZenonT(60)
<1>7. PICK kind : kind = PKKind(columns)
  OBVIOUS
<1>8. /\ kind \in {"none", "single", "composite"}
      /\ kind = "none" <=> Len(rows) = 0
      /\ kind = "single" <=> Len(rows) = 1
  BY <1>5, <1>7 DEF PKKind
<1>9. /\ f.table = n /\ f.kind = kind /\ f.columns = columns
      /\ f.isInteger <=> kind = "single" /\ IsIntegerDataType(rows[Len(rows)].dataType)
  BY <1>2, <1>4, <1>7 DEF PKInfo
<1>10. f.kind = "none" <=> Len(o.key) = 0
  BY <1>3, <1>8, <1>9
<1>11. ASSUME f.kind = "single"
       PROVE  /\ Len(o.key) = 1 /\ f.columns[1] = o.key[1].name /\ Len(f.columns) = 1
              /\ f.isInteger <=> IsIntegerDataType(o.key[1].dataType)
  <2>1. Len(rows) = 1 /\ Len(o.key) = 1 /\ rows[1] = o.key[1]
    BY <1>3, <1>8, <1>9, <1>11
  <2>2. columns[1] = rows[1].name /\ Len(columns) = 1
    BY <1>4, <1>5, <2>1
  <2>3. rows[Len(rows)] = o.key[1]
    BY <2>1
  <2> QED BY <1>9, <1>11, <2>1, <2>2, <2>3
<1> QED BY <1>5, <1>6, <1>8, <1>9, <1>10, <1>11

\* The two checks of the expected column share no table: a key without the
\* column is one finding, a key with another spelling of it the other, and an
\* exact one neither.
THEOREM CaseIsReportedOnce == Spec => []CaseIsOneFinding
<1>1. PointInv => CaseIsOneFinding
  <2> SUFFICES ASSUME PointInv, "PrimaryKeys" \in DOMAIN facts PROVE CaseIsOneFinding
    BY DEF CaseIsOneFinding, Returned
  <2>1. PICK seen : seen = at["PrimaryKeys"] /\ IsSeen(seen)
    BY DEF PointInv, AsRead
  <2>2. /\ requested \in Seq(Name \cup {EmptyName}) /\ Elements(requested) \subseteq Name
    BY ValidNames DEF PointInv
  <2>3. PICK F : F = Elements(facts["PrimaryKeys"])
    OBVIOUS
  <2>4. F = {PKInfo(n, seen[n]) : n \in Elements(requested) \cap Bases(seen)}
    BY <2>1, <2>3, FactElements
  <2>5. ASSUME NEW n \in Elements(requested) \cap Bases(seen), NEW f, f = PKInfo(n, seen[n])
        PROVE  /\ f.table = n
               /\ \A c, d \in Elements(f.columns) : ColumnFold[c] = ColumnFold[d] => c = d
    <3>1. IsObject(seen[n])
      BY <2>1, <2>2, PointReadsAssumption DEF IsSeen, Bases, Existing
    <3>2. f.table = n /\ Elements(f.columns) = {seen[n].key[j].name : j \in DOMAIN seen[n].key}
      <4>1. n \in Elements(requested)
        BY <2>5
      <4>2. PICK o : o = seen[n]
        OBVIOUS
      <4>3. IsObject(o) /\ f = PKInfo(n, o)
        BY <2>5, <3>1, <4>2
      <4> HIDE <2>5
      <4>4. f.table = n /\ Elements(f.columns) = {o.key[j].name : j \in DOMAIN o.key}
        BY <2>2, <4>1, <4>3, KeyFact
      <4> QED BY <4>2, <4>4
    <3> QED BY <3>1, <3>2 DEF IsObject
  <2>6. \A f, g \in F : f.table = g.table => f = g
    BY <2>4, <2>5
  <2>7. \A f \in F : \A c, d \in Elements(f.columns) : ColumnFold[c] = ColumnFold[d] => c = d
    BY <2>4, <2>5
  <2>8. /\ CheckPKMatchesExpected =
             {f.table : f \in {f \in F : Judged(f) /\ \A c \in Elements(f.columns) :
                                           ColumnFold[c] # ColumnFold[Expected[f.table]]}}
        /\ CheckPKNameCase =
             {f.table : f \in {f \in F : Judged(f) /\ \E c \in Elements(f.columns) :
                                           /\ c # Expected[f.table]
                                           /\ ColumnFold[c] = ColumnFold[Expected[f.table]]}}
    BY <2>3 DEF CheckPKMatchesExpected, CheckPKNameCase, PKs
  <2>9. CheckPKMatchesExpected \cap CheckPKNameCase = {}
    BY <2>6, <2>8
  <2>10. ASSUME NEW f \in F, Judged(f)
         PROVE  Expected[f.table] \in Elements(f.columns)
                  <=> f.table \notin CheckPKMatchesExpected \cup CheckPKNameCase
    <3>1. f.table \in CheckPKMatchesExpected
            <=> \A c \in Elements(f.columns) : ColumnFold[c] # ColumnFold[Expected[f.table]]
      BY <2>6, <2>8, <2>10
    <3>2. f.table \in CheckPKNameCase
            <=> \E c \in Elements(f.columns) : /\ c # Expected[f.table]
                                               /\ ColumnFold[c] = ColumnFold[Expected[f.table]]
      BY <2>6, <2>8, <2>10
    <3>3. CASE Expected[f.table] \in Elements(f.columns)
      BY <2>7, <3>1, <3>2, <3>3
    <3>4. CASE ~(Expected[f.table] \in Elements(f.columns))
      BY <3>1, <3>2, <3>4
    <3> QED BY <3>3, <3>4
  <2> QED BY <2>3, <2>9, <2>10 DEF CaseIsOneFinding
<1> QED BY <1>1, PointInvariance, PTL

----------------------------------------------------------------------------
(* The triggers of a requested object.                                     *)

TriggerRow(n, t) == [table |-> n, name |-> t.name, event |-> t.event, timing |-> t.timing]

\* What may stand in a list of triggers.
Sortable(rank, E) ==
  \A t \in E : t.timing \in {"BEFORE", "AFTER"} /\ rank[t.name] \in Nat

LEMMA OrderedWeakly ==
  ASSUME NEW rank, NEW E, Sortable(rank, E)
  PROVE  StrictWeak(E, TriggerOrder(rank, E))
<1>1. \A s, t \in E : <<s, t>> \in TriggerOrder(rank, E) <=> OrderedBy(rank, s, t)
  BY DEF TriggerOrder
<1>2. \A t \in E : TimingOrder(t.timing) \in {1, 2} /\ (TimingOrder(t.timing) = 1 <=> t.timing = "BEFORE")
  BY DEF Sortable, TimingOrder
<1>3. \A s, t \in E : s.timing = t.timing <=> TimingOrder(s.timing) = TimingOrder(t.timing)
  BY <1>2 DEF Sortable
<1>4. \A s, t \in E :
        OrderedBy(rank, s, t) <=> \/ TimingOrder(s.timing) < TimingOrder(t.timing)
                                  \/ /\ TimingOrder(s.timing) = TimingOrder(t.timing)
                                     /\ rank[s.name] < rank[t.name]
  BY <1>2, <1>3 DEF OrderedBy
<1>5. \A s, t \in E : OrderedBy(rank, s, t) => ~OrderedBy(rank, t, s)
  BY <1>2, <1>4 DEF Sortable
<1>6. \A s, t, u \in E : OrderedBy(rank, s, u) => OrderedBy(rank, s, t) \/ OrderedBy(rank, t, u)
  BY <1>2, <1>4 DEF Sortable
<1> QED BY <1>1, <1>5, <1>6 DEF StrictWeak

\* Triggers of different ranks are in a total order.
LEMMA OrderedTotally ==
  ASSUME NEW rank, NEW E, Sortable(rank, E),
         \A s, t \in E : rank[s.name] = rank[t.name] => s = t
  PROVE  StrictOrder(E, TriggerOrder(rank, E))
<1>1. StrictWeak(E, TriggerOrder(rank, E))
  BY OrderedWeakly
<1>2. \A s, t \in E : s # t => <<s, t>> \in TriggerOrder(rank, E) \/ <<t, s>> \in TriggerOrder(rank, E)
  <2>1. SUFFICES ASSUME NEW s \in E, NEW t \in E, s # t
                 PROVE  OrderedBy(rank, s, t) \/ OrderedBy(rank, t, s)
    BY DEF TriggerOrder
  <2>2. rank[s.name] \in Nat /\ rank[t.name] \in Nat /\ rank[s.name] # rank[t.name]
    BY <2>1 DEF Sortable
  <2> QED BY <2>1, <2>2 DEF OrderedBy, TimingOrder, Sortable
<1> QED BY <1>1, <1>2 DEF StrictWeak, StrictOrder

\* The rows of the triggers, before and after they are sorted.
LEMMA TriggersRead ==
  ASSUME requested \in Seq(Name \cup {EmptyName}), NEW n \in Elements(requested),
         NEW o, o = Absent \/ IsObject(o)
  PROVE  /\ IsFiniteSet(Firing(o)) /\ Sortable(ByteRank, Firing(o))
         /\ TriggersOf(n, o) \in Seq(Elements(TriggersOf(n, o)))
         /\ Elements(TriggersOf(n, o)) = {TriggerRow(n, t) : t \in Firing(o)}
         /\ Len(TriggersOf(n, o)) = Cardinality(Firing(o)) * Copies(n)
         /\ \A j, k \in DOMAIN TriggersOf(n, o) :
              j < k => ~OrderedBy(ByteRank, TriggersOf(n, o)[k], TriggersOf(n, o)[j])
<1>1. PICK T : T = Firing(o)
  OBVIOUS
<1>2. /\ IsFiniteSet(T) /\ Sortable(ByteRank, T) /\ Sortable(ServerRank, T)
      /\ \A s, t \in T : ServerRank[s.name] = ServerRank[t.name] => s = t
  <2>1. CASE o = Absent
    BY <1>1, <2>1, FS_EmptySet DEF Firing, Sortable
  <2>2. CASE o # Absent
    <3>1. T \subseteq o.triggers /\ IsObject(o)
      BY <1>1, <2>2 DEF Firing
    <3>2. IsFiniteSet(T)
      BY <3>1, FS_Subset DEF IsObject
    <3> QED BY <3>1, <3>2 DEF IsObject, Sortable
  <2> QED BY <2>1, <2>2
<1>3. PICK shown : shown = InOrder(T, TriggerOrder(ServerRank, T))
  OBVIOUS
<1>4. PICK m \in Nat : m = Cardinality(T)
  BY <1>2, FS_CardinalityType
<1>5. shown \in [1..m -> T] /\ \A t \in T : \E k \in 1..m : shown[k] = t
  <2>1. StrictOrder(T, TriggerOrder(ServerRank, T))
    BY <1>2, OrderedTotally
  <2> QED BY <1>2, <1>3, <1>4, <2>1, InOrderLists
<1>6. PICK each : each = [k \in 1..m |-> TriggerRow(n, shown[k])]
  OBVIOUS
<1>7. each \in Seq(Elements(each)) /\ Len(each) = m
  BY <1>6 DEF Elements
<1>8. Elements(each) = {TriggerRow(n, t) : t \in T}
  <2>1. \A x : x \in Elements(each) <=> \E k \in 1..m : x = TriggerRow(n, shown[k])
    BY <1>6 DEF Elements
  <2>2. \A x : x \in {TriggerRow(n, t) : t \in T} <=> \E t \in T : x = TriggerRow(n, t)
    OBVIOUS
  <2> QED BY <1>5, <2>1, <2>2
<1>9. PICK rows : rows = RowsOf(n, each)
  OBVIOUS
<1>10. TriggerRows(n, o) = rows
  BY <1>1, <1>3, <1>5, <1>6, <1>9 DEF TriggerRows, TriggerRow
<1>11. /\ rows \in Seq(Elements(each)) /\ Elements(rows) = Elements(each) /\ Len(rows) = m * Copies(n)
  <2>1. Copies(n) \in Nat \ {0}
    BY RequestedCopies
  <2> QED BY <1>7, <1>9, <2>1, RowsCopied
<1>12. PICK before : before = TriggerOrder(ByteRank, Elements(rows))
  OBVIOUS
<1>13. Sortable(ByteRank, Elements(rows))
  BY <1>2, <1>8, <1>11 DEF Sortable, TriggerRow
<1>14. PICK l \in Nat : l = Len(rows) /\ DOMAIN rows = 1..l
  BY <1>11
<1>15. PICK sorted : sorted = SortedBy(rows, before)
  OBVIOUS
<1>16. /\ sorted \in Seq(Elements(rows)) /\ Len(sorted) = l
       /\ Elements(sorted) = Elements(rows)
       /\ \A j, k \in 1..l : j < k => <<sorted[k], sorted[j]>> \notin before
  <2>1. StrictWeak(Elements(rows), before)
    BY <1>12, <1>13, OrderedWeakly
  <2> QED BY <1>14, <1>15, <2>1, SortedLists
<1>17. TriggersOf(n, o) = sorted
  BY <1>10, <1>12, <1>15 DEF TriggersOf, SortTriggers
<1>18. \A j, k \in DOMAIN sorted : j < k => ~OrderedBy(ByteRank, sorted[k], sorted[j])
  <2>1. DOMAIN sorted = 1..l /\ \A k \in 1..l : sorted[k] \in Elements(rows)
    BY <1>16
  <2> QED BY <1>12, <1>16, <2>1 DEF TriggerOrder
<1> QED BY <1>1, <1>2, <1>4, <1>8, <1>11, <1>14, <1>16, <1>17, <1>18

\* The trigger fact holds the triggers of the requested names, and no others.
LEMMA TriggerFact ==
  ASSUME requested \in Seq(Name \cup {EmptyName}), Valid, NEW seen, IsSeen(seen)
  PROVE  /\ Triggers(seen) \in Seq(Elements(Triggers(seen)))
         /\ \A n \in Elements(requested) : \A t \in Firing(seen[n]) :
              TriggerRow(n, t) \in Elements(Triggers(seen))
         /\ \A x \in Elements(Triggers(seen)) :
              \E n \in Elements(requested) : \E t \in Firing(seen[n]) : x = TriggerRow(n, t)
<1>1. PICK l \in Nat : DOMAIN requested = 1..l
  OBVIOUS
<1>2. PICK lists : lists = [k \in 1..l |-> TriggersOf(requested[k], seen[requested[k]])]
  OBVIOUS
<1>3. ASSUME NEW k \in 1..l
      PROVE  /\ Elements(lists[k]) = {TriggerRow(requested[k], t) : t \in Firing(seen[requested[k]])}
             /\ \E m \in Nat : DOMAIN lists[k] = 1..m
  <2>1. PICK n : n = requested[k]
    OBVIOUS
  <2>2. n \in Elements(requested) /\ n \in Name
    BY <1>1, <2>1, ValidNames DEF Elements
  <2>3. PICK o : o = seen[n]
    OBVIOUS
  <2>4. o = Absent \/ IsObject(o)
    BY <2>2, <2>3, PointReadsAssumption DEF IsSeen
  <2>5. lists[k] = TriggersOf(n, o)
    BY <1>2, <2>1, <2>3
  <2>6. lists[k] \in Seq(Elements(lists[k])) /\ Elements(lists[k]) = {TriggerRow(n, t) : t \in Firing(o)}
    BY <2>2, <2>4, <2>5, TriggersRead
  <2> QED BY <2>1, <2>3, <2>6
<1>4. Triggers(seen) = Flattened(lists)
  BY <1>1, <1>2 DEF Triggers
<1>5. /\ DOMAIN Flattened(lists) = 1..Cardinality(Entries(lists)) /\ Cardinality(Entries(lists)) \in Nat
      /\ \A i \in 1..l : \A x \in Elements(lists[i]) : x \in Elements(Flattened(lists))
      /\ \A x \in Elements(Flattened(lists)) : \E i \in 1..l : x \in Elements(lists[i])
  <2>1. DOMAIN lists = 1..l
    BY <1>2
  <2> QED BY <1>3, <2>1, FlattenedElements
<1>6. Triggers(seen) \in Seq(Elements(Triggers(seen)))
  <2>1. PICK c \in Nat : DOMAIN Flattened(lists) = 1..c
    BY <1>5
  <2>2. Flattened(lists) = [k \in 1..c |-> Flattened(lists)[k]]
    BY <2>1 DEF Flattened
  <2> QED BY <1>4, <2>1, <2>2 DEF Elements
<1>7. ASSUME NEW n \in Elements(requested), NEW t \in Firing(seen[n])
      PROVE  TriggerRow(n, t) \in Elements(Triggers(seen))
  <2>1. PICK k \in 1..l : n = requested[k]
    BY <1>1 DEF Elements
  <2>2. TriggerRow(n, t) \in Elements(lists[k])
    BY <1>3, <2>1
  <2> QED BY <1>4, <1>5, <2>2
<1>8. ASSUME NEW x \in Elements(Triggers(seen))
      PROVE  \E n \in Elements(requested) : \E t \in Firing(seen[n]) : x = TriggerRow(n, t)
  <2>1. PICK k \in 1..l : x \in Elements(lists[k])
    BY <1>4, <1>5
  <2>2. requested[k] \in Elements(requested)
    BY <1>1 DEF Elements
  <2> QED BY <1>3, <2>1, <2>2
<1> QED BY <1>6, <1>7, <1>8

----------------------------------------------------------------------------
(* What the silence of every check proves.                                 *)

\* A silent presence check over the trigger fact: no requested object fires.
LEMMA SilentTriggers ==
  ASSUME PointInv, "Triggers" \in DOMAIN facts, NEW seen, seen = at["Triggers"],
         CheckTriggersPresent(facts["Triggers"], Event) = <<>>, NEW n \in Elements(requested)
  PROVE  Firing(seen[n]) = {}
<1>1. SUFFICES ASSUME NEW t \in Firing(seen[n]) PROVE FALSE
  OBVIOUS
<1>2. PICK found : found = facts["Triggers"]
  OBVIOUS
<1>3. /\ found = Triggers(seen) /\ IsSeen(seen) /\ Valid /\ requested \in Seq(Name \cup {EmptyName})
  <2>1. found = FactsOf("Triggers", seen) /\ IsSeen(seen)
    BY <1>2 DEF PointInv, AsRead
  <2>2. FactsOf("Triggers", seen) = Triggers(seen)
    BY DEF FactsOf
  <2>3. facts # <<>>
    OBVIOUS
  <2> QED BY <2>1, <2>2, <2>3 DEF PointInv
<1>4. found \in Seq(Elements(found)) /\ TriggerRow(n, t) \in Elements(found)
  BY <1>3, TriggerFact
<1>5. PICK l \in Nat : DOMAIN found = 1..l
  BY <1>4
<1>6. PICK K : K = {k \in DOMAIN found : found[k].event = Event}
  OBVIOUS
<1>7. PICK i \in K : TRUE
  <2>1. PICK i \in DOMAIN found : found[i] = TriggerRow(n, t)
    BY <1>4 DEF Elements
  <2>2. found[i].event = Event
    BY <1>1, <2>1 DEF TriggerRow, Firing
  <2> QED BY <1>6, <2>1, <2>2
<1>8. PICK trg : trg = Chosen(found, K)
  OBVIOUS
<1>9. PICK m \in Nat \ {0} : DOMAIN trg = 1..m
  <2>1. K \in SUBSET (1..l)
    BY <1>5, <1>6
  <2>2. DOMAIN trg = 1..Cardinality(K) /\ Cardinality(K) \in Nat /\ IsFiniteSet(K)
    BY <1>5, <1>8, <2>1, ChosenElements, PlacesInOrder
  <2> QED BY <1>7, <2>2, FS_EmptySet
<1>10. PICK firsts : firsts = {k \in DOMAIN trg : \A j \in 1..(k - 1) : trg[j].table # trg[k].table}
  OBVIOUS
<1>11. firsts \in SUBSET (1..m) /\ 1 \in firsts
  BY <1>9, <1>10
<1>12. DOMAIN Chosen(trg, firsts) = 1..Cardinality(firsts) /\ Cardinality(firsts) \in Nat \ {0}
  <2>1. DOMAIN Chosen(trg, firsts) = 1..Cardinality(firsts) /\ Cardinality(firsts) \in Nat /\ IsFiniteSet(firsts)
    <3>1. m \in Nat
      OBVIOUS
    <3> QED BY <3>1, <1>9, <1>11, ChosenElements, PlacesInOrder
  <2> QED BY <1>11, <2>1, FS_EmptySet
<1>13. DOMAIN CheckTriggersPresent(found, Event) = DOMAIN Chosen(trg, firsts)
  BY <1>6, <1>8, <1>10 DEF CheckTriggersPresent
<1>14. 1 \in DOMAIN CheckTriggersPresent(found, Event)
  BY <1>12, <1>13
<1>15. CheckTriggersPresent(found, Event) = <<>>
  BY <1>2
<1> QED BY <1>14, <1>15

\* Silent key checks: a requested base table is identified by one integer
\* column, spelled as expected.
LEMMA SilentKeys ==
  ASSUME PointInv, "PrimaryKeys" \in DOMAIN facts, NEW seen, seen = at["PrimaryKeys"],
         CheckPKExists = {}, CheckPKSingleColumn = {}, CheckPKIntegerType = {},
         CheckPKMatchesExpected = {}, CheckPKNameCase = {},
         NEW n \in Elements(requested), n \in Bases(seen)
  PROVE  SoundKey(seen[n]) /\ Expected[n] \in {NoColumn, seen[n].key[1].name}
<1>1. /\ IsSeen(seen) /\ Valid /\ requested \in Seq(Name \cup {EmptyName}) /\ n \in Name
  BY ValidNames DEF PointInv, AsRead
<1>2. PICK o : o = seen[n]
  OBVIOUS
<1>3. IsObject(o)
  BY <1>1, <1>2, PointReadsAssumption DEF IsSeen, Bases, Existing
<1>4. PICK f : f = PKInfo(n, o)
  OBVIOUS
<1>5. f \in Elements(facts["PrimaryKeys"])
  BY <1>2, <1>4, FactElements
<1>6. /\ f.table = n /\ f.kind \in {"none", "single", "composite"}
      /\ f.kind = "single" =>
           /\ Len(o.key) = 1 /\ f.columns[1] = o.key[1].name /\ Len(f.columns) = 1
           /\ f.isInteger <=> IsIntegerDataType(o.key[1].dataType)
      /\ f.columns \in Seq(Elements(f.columns))
  BY <1>1, <1>3, <1>4, KeyFact
<1>7. f.kind = "single" /\ f.isInteger
  BY <1>5, <1>6 DEF CheckPKExists, CheckPKSingleColumn, CheckPKIntegerType, PKs
<1>8. SoundKey(o)
  BY <1>6, <1>7 DEF SoundKey
<1>9. ASSUME Expected[n] # NoColumn PROVE o.key[1].name = Expected[n]
  <2>1. Judged(f)
    BY <1>6, <1>7, <1>9 DEF Judged
  <2>2. \A c \in Elements(f.columns) : c = o.key[1].name
    BY <1>6, <1>7 DEF Elements
  <2>3. \E c \in Elements(f.columns) : ColumnFold[c] = ColumnFold[Expected[f.table]]
    BY <1>5, <2>1 DEF CheckPKMatchesExpected, PKs
  <2>4. \A c \in Elements(f.columns) : ColumnFold[c] = ColumnFold[Expected[f.table]] => c = Expected[f.table]
    BY <1>5, <2>1 DEF CheckPKNameCase, PKs
  <2> QED BY <1>6, <2>2, <2>3, <2>4
<1> QED BY <1>2, <1>8, <1>9

\* A silent existence check: every requested object was there.
LEMMA SilentTables ==
  ASSUME PointInv, "Tables" \in DOMAIN facts, NEW seen, seen = at["Tables"],
         CheckTablesExist = {}, NEW n \in Elements(requested)
  PROVE  n \in Existing(seen) /\ TableInfo(n, seen[n]) \in Elements(facts["Tables"])
<1>1. PICK f \in Elements(facts["Tables"]) : f.table = n
  BY DEF CheckTablesExist
<1>2. PICK m \in Elements(requested) \cap Existing(seen) : f = TableInfo(m, seen[m])
  BY FactElements
<1>3. m = n
  BY <1>1, <1>2 DEF TableInfo
<1> QED BY <1>1, <1>2, <1>3

LEMMA AllReturned ==
  ASSUME Done
  PROVE  {"Tables", "PrimaryKeys", "InvisibleColumns", "Columns", "Triggers"} \subseteq DOMAIN facts
<1>1. /\ 1 \in DOMAIN Call /\ 2 \in DOMAIN Call /\ 3 \in DOMAIN Call /\ 4 \in DOMAIN Call /\ 5 \in DOMAIN Call
      /\ Call[1] = "Tables" /\ Call[2] = "PrimaryKeys" /\ Call[3] = "InvisibleColumns"
      /\ Call[4] = "Columns" /\ Call[5] = "Triggers"
  BY DEF Call
<1> QED BY <1>1 DEF Done, Returned

\* A preflight without findings while the schema changes: each part holds of the
\* moment its own call read.
THEOREM ClearanceOfMoments == Spec => []ClearedWhenRead
<1>1. PointInv => ClearedWhenRead
  <2> SUFFICES ASSUME PointInv, Cleared, NEW n \in Elements(requested)
               PROVE  /\ at["Tables"][n] # Absent
                      /\ Firing(at["Triggers"][n]) = {}
                      /\ LET o == at["PrimaryKeys"][n] IN
                         IF o # Absent /\ o.type = "BASE TABLE"
                         THEN SoundKey(o) /\ Expected[n] \in {NoColumn, o.key[1].name}
                         ELSE at["Tables"][n].type = "BASE TABLE" => at["PrimaryKeys"][n] # at["Tables"][n]
    BY DEF ClearedWhenRead
  <2>1. /\ {"Tables", "PrimaryKeys", "Triggers"} \subseteq DOMAIN facts
        /\ CheckTablesExist = {} /\ CheckPKExists = {} /\ CheckPKSingleColumn = {}
        /\ CheckPKIntegerType = {} /\ CheckPKMatchesExpected = {} /\ CheckPKNameCase = {}
        /\ CheckTriggersPresent(facts["Triggers"], Event) = <<>>
    BY AllReturned DEF Cleared
  <2>2. at["Tables"][n] # Absent
    BY <2>1, SilentTables DEF Existing
  <2>3. Firing(at["Triggers"][n]) = {}
    BY <2>1, SilentTriggers
  <2>4. n \in Name
    BY <2>1, ValidNames DEF PointInv
  <2>5. PICK seen : seen = at["PrimaryKeys"]
    OBVIOUS
  <2>6. CASE n \in Bases(seen)
    <3>1. SoundKey(seen[n]) /\ Expected[n] \in {NoColumn, seen[n].key[1].name}
      BY <2>1, <2>5, <2>6, SilentKeys
    <3> QED BY <2>2, <2>3, <2>5, <2>6, <3>1 DEF Bases, Existing
  <2>7. CASE n \notin Bases(seen)
    BY <2>2, <2>3, <2>4, <2>5, <2>7 DEF Bases, Existing
  <2> QED BY <2>6, <2>7
<1> QED BY <1>1, PointInvariance, PTL

\* A preflight without findings over a schema that keeps still: every requested
\* object is a view, or an InnoDB table identified by the one integer column
\* the caller expects, shows every column it has, and fires no trigger.
THEOREM ClearanceIsFit == Spec => []ClearedMeansFit
<1>1. PointInv => ClearedMeansFit
  <2> SUFFICES ASSUME PointInv, Cleared, changes = 0, NEW n \in Elements(requested)
               PROVE  /\ n \in Existing(objects)
                      /\ n \in Bases(objects) =>
                           /\ objects[n].engine = "InnoDB"
                           /\ SoundKey(objects[n])
                           /\ Firing(objects[n]) = {}
                           /\ Expected[n] \in {NoColumn, objects[n].key[1].name}
                      /\ \A c \in Elements(objects[n].columns) : ~c.invisible
    BY DEF ClearedMeansFit
  <2>1. /\ {"Tables", "PrimaryKeys", "InvisibleColumns", "Triggers"} \subseteq DOMAIN facts
        /\ CheckTablesExist = {} /\ CheckPKExists = {} /\ CheckPKSingleColumn = {}
        /\ CheckPKIntegerType = {} /\ CheckPKMatchesExpected = {} /\ CheckPKNameCase = {}
        /\ CheckStorageEngine = {} /\ CheckInvisibleColumns = {}
        /\ CheckTriggersPresent(facts["Triggers"], Event) = <<>>
    BY AllReturned DEF Cleared
  <2>2. \A call \in DOMAIN facts : at[call] = objects
    BY DEF PointInv
  <2>3. n \in Existing(objects) /\ TableInfo(n, objects[n]) \in Elements(facts["Tables"])
    <3>1. at["Tables"] = objects
      BY <2>1, <2>2
    <3> QED BY <2>1, <3>1, SilentTables
  <2>4. ASSUME n \in Bases(objects)
        PROVE  /\ objects[n].engine = "InnoDB" /\ SoundKey(objects[n]) /\ Firing(objects[n]) = {}
               /\ Expected[n] \in {NoColumn, objects[n].key[1].name}
    <3>1. objects[n].engine = "InnoDB"
      <4>1. PICK f \in Elements(facts["Tables"]) : f = TableInfo(n, objects[n])
        BY <2>3
      <4>2. f.type = "BASE TABLE" /\ f.engine = objects[n].engine
        BY <2>4, <4>1 DEF TableInfo, Bases
      <4> QED BY <2>1, <4>1, <4>2 DEF CheckStorageEngine
    <3>2. at["Triggers"] = objects /\ at["PrimaryKeys"] = objects
      BY <2>1, <2>2
    <3>3. Firing(objects[n]) = {}
      BY <2>1, <3>2, SilentTriggers
    <3>4. SoundKey(objects[n]) /\ Expected[n] \in {NoColumn, objects[n].key[1].name}
      BY <2>1, <2>4, <3>2, SilentKeys
    <3> QED BY <3>1, <3>3, <3>4
  <2>5. ASSUME NEW c \in Elements(objects[n].columns) PROVE ~c.invisible
    <3>1. at["InvisibleColumns"] = objects
      BY <2>1, <2>2
    <3>2. n \notin Hiding(objects)
      <4>1. SUFFICES ASSUME n \in Hiding(objects) PROVE FALSE
        OBVIOUS
      <4>2. InvisibleColumns(n, objects[n]) \in Elements(facts["InvisibleColumns"])
        BY <2>1, <3>1, <4>1, FactElements
      <4> QED BY <2>1, <4>2 DEF CheckInvisibleColumns, InvisibleColumns
    <3>3. PICK columns : columns = objects[n].columns
      OBVIOUS
    <3>4. columns \in Seq(Elements(columns))
      BY <2>3, <3>3, PointReadsAssumption DEF PointInv, IsSeen, Existing, IsObject
    <3>5. PICK l \in Nat : DOMAIN columns = 1..l
      BY <3>4
    <3>6. PICK K : K = {k \in DOMAIN columns : columns[k].invisible}
      OBVIOUS
    <3>7. Chosen(columns, K) = <<>>
      BY <2>3, <3>2, <3>3, <3>6 DEF Hiding, HiddenColumns
    <3>8. Elements(Chosen(columns, K)) = {columns[i] : i \in K}
      BY <3>5, <3>6, ChosenElements
    <3>9. K = {}
      <4>1. Elements(<<>>) = {}
        BY DEF Elements
      <4> QED BY <3>7, <3>8, <4>1
    <3> QED BY <2>5, <3>3, <3>6, <3>9 DEF Elements
  <2> QED BY <2>3, <2>4, <2>5
<1> QED BY <1>1, PointInvariance, PTL

----------------------------------------------------------------------------
(* The two shapes of the statement return the same facts, where no two     *)
(* spellings of a name are equal to the server.                            *)

ExactNames == \A m, n \in Name : Folded[m] = Folded[n] => m = n

\* One of the names bound equals a requested one: itself.
LEMMA OneCopy ==
  ASSUME ExactNames, requested \in Seq(Name \cup {EmptyName}), Valid, NEW n \in Elements(requested)
  PROVE  Copies(n) = 1
<1> DEFINE same == {k \in Bound : Folded[requested[k]] = Folded[n]}
           asks == {k \in 1..Len(requested) : requested[k] = n}
<1>1. /\ Len(requested) \in Nat /\ DOMAIN requested = 1..Len(requested)
      /\ n \in Name /\ \A k \in 1..Len(requested) : requested[k] \in Name
  BY ValidNames DEF Elements
<1>2. same = {k \in asks : \A j \in 1..(k - 1) : requested[j] # n}
  BY <1>1 DEF ExactNames, Bound
<1>3. PICK k \in asks : \A j \in asks : k <= j
  <2>1. asks \in SUBSET Nat /\ asks # {}
    BY <1>1 DEF Elements
  <2> HIDE DEF asks
  <2> QED BY <2>1, LeastOf
<1>4. same = {k}
  <2>1. \A j \in 1..(k - 1) : j \in 1..Len(requested) /\ ~(k <= j)
    BY <1>1, <1>3
  <2>2. \A j \in asks : j # k => k \in 1..(j - 1)
    BY <1>1, <1>3
  <2>3. \A j \in same : j = k
    BY <1>2, <1>3, <2>2
  <2>4. k \in same
    BY <1>2, <1>3, <2>1
  <2> QED BY <2>3, <2>4
<1>5. Cardinality(same) = 1
  <2> HIDE DEF same
  <2> QED BY <1>4, FS_Singleton
<1> QED BY <1>5 DEF Copies

LEMMA RowsOnce ==
  ASSUME NEW name, Copies(name) = 1, NEW rows, rows \in Seq(Elements(rows))
  PROVE  RowsOf(name, rows) = rows
<1>1. PICK l \in Nat : l = Len(rows) /\ rows = [k \in 1..l |-> rows[k]]
  OBVIOUS
<1>2. l * 1 = l /\ \A k \in 1..l : ((k - 1) \div 1) + 1 = k
  OBVIOUS
<1> QED BY <1>1, <1>2 DEF RowsOf

\* The facts come in the order of the requests found.
LEMMA OfRequestInOrder ==
  ASSUME requested \in Seq(Name \cup {EmptyName}), NEW found,
         \A n \in DOMAIN found : found[n].table = n,
         NEW K, K = {k \in DOMAIN requested : requested[k] \in DOMAIN found}
  PROVE  [k \in DOMAIN OfRequest(found) |-> OfRequest(found)[k].table] = Chosen(requested, K)
<1>1. PICK l \in Nat : DOMAIN requested = 1..l
  OBVIOUS
<1>2. PICK kept : kept = Chosen(requested, K)
  OBVIOUS
<1>3. PICK m \in Nat : DOMAIN kept = 1..m /\ kept = [k \in 1..m |-> kept[k]]
  <2>1. K \in SUBSET (1..l)
    BY <1>1
  <2>2. kept \in Seq(Elements(requested)) /\ Len(kept) = Cardinality(K) /\ Cardinality(K) \in 0..l
    BY <1>1, <1>2, <2>1, ChosenElements
  <2>3. kept = [k \in 1..Len(kept) |-> kept[k]] /\ Len(kept) \in Nat /\ DOMAIN kept = 1..Len(kept)
    BY <2>2
  <2> QED BY <2>3
<1>4. \A k \in 1..m : kept[k] \in DOMAIN found
  <2>1. Elements(kept) = {requested[i] : i \in K}
    BY <1>1, <1>2, ChosenElements
  <2> QED BY <1>3, <2>1 DEF Elements
<1>5. OfRequest(found) = [k \in 1..m |-> found[kept[k]]]
  BY <1>2, <1>3 DEF OfRequest
<1>6. [k \in DOMAIN OfRequest(found) |-> OfRequest(found)[k].table] = [k \in 1..m |-> kept[k]]
  BY <1>4, <1>5
<1> QED BY <1>2, <1>3, <1>6

\* The invisible columns of an object, counted.
LEMMA HiddenOf ==
  ASSUME NEW o, IsObject(o)
  PROVE  /\ HiddenColumns(o) \in Seq(Elements(HiddenColumns(o)))
         /\ Len(HiddenColumns(o)) = Cardinality({k \in DOMAIN o.columns : o.columns[k].invisible})
         /\ HiddenColumns(o) # <<>> <=> \E c \in Elements(o.columns) : c.invisible
<1>1. PICK columns : columns = o.columns
  OBVIOUS
<1>2. PICK l \in Nat : DOMAIN columns = 1..l
  BY <1>1 DEF IsObject
<1>3. PICK K : K = {k \in DOMAIN columns : columns[k].invisible}
  OBVIOUS
<1>4. PICK hidden : hidden = Chosen(columns, K)
  OBVIOUS
<1>5. /\ hidden \in Seq(Elements(columns)) /\ Len(hidden) = Cardinality(K)
      /\ Elements(hidden) = {columns[i] : i \in K}
  BY <1>2, <1>3, <1>4, ChosenElements
<1>6. hidden \in Seq(Elements(hidden))
  BY <1>5 DEF Elements
<1>7. hidden # <<>> <=> Elements(hidden) # {}
  <2>1. Elements(<<>>) = {}
    BY DEF Elements
  <2>2. hidden # <<>> => 1 \in DOMAIN hidden
    BY <1>5
  <2> QED BY <2>1, <2>2 DEF Elements
<1>8. K # {} <=> \E c \in Elements(columns) : c.invisible
  BY <1>3 DEF Elements
<1>9. HiddenColumns(o) = hidden
  BY <1>1, <1>3, <1>4 DEF HiddenColumns
<1> QED BY <1>1, <1>3, <1>5, <1>6, <1>7, <1>8, <1>9

\* What the second conjunct of ShapeNeverDecides says of a fact.
FactOf(call, f, o) ==
  /\ call = "Columns" => f.columns = o.columns
  /\ call = "InvisibleColumns" =>
       Len(f.columns) = Cardinality({k \in DOMAIN o.columns : o.columns[k].invisible})
  /\ call = "PrimaryKeys" =>
       /\ f.columns = [k \in DOMAIN o.key |-> o.key[k].name]
       /\ (f.kind = "single" /\ f.isInteger) <=> SoundKey(o)

\* What a call reads of an object when its rows come once.
LEMMA ReadOnce ==
  ASSUME ExactNames, requested \in Seq(Name \cup {EmptyName}), Valid,
         NEW n \in Elements(requested), NEW o, IsObject(o)
  PROVE  /\ PKInfo(n, o).table = n /\ FactOf("PrimaryKeys", PKInfo(n, o), o)
         /\ InvisibleColumns(n, o).table = n
         /\ FactOf("InvisibleColumns", InvisibleColumns(n, o), o)
         /\ TableColumns(n, o).table = n /\ FactOf("Columns", TableColumns(n, o), o)
<1>1. Copies(n) = 1
  BY OneCopy
<1>2. o.columns \in Seq(Elements(o.columns)) /\ o.key \in Seq(Elements(o.key))
  BY DEF IsObject
<1>3. RowsOf(n, o.columns) = o.columns /\ RowsOf(n, o.key) = o.key
  BY <1>1, <1>2, RowsOnce
<1>4. RowsOf(n, HiddenColumns(o)) = HiddenColumns(o)
  BY <1>1, HiddenOf, RowsOnce
<1>5. TableColumns(n, o).table = n /\ FactOf("Columns", TableColumns(n, o), o)
  BY <1>3 DEF TableColumns, FactOf
<1>6. InvisibleColumns(n, o).table = n /\ FactOf("InvisibleColumns", InvisibleColumns(n, o), o)
  BY <1>4, HiddenOf DEF InvisibleColumns, FactOf
<1>7. PKInfo(n, o).table = n /\ FactOf("PrimaryKeys", PKInfo(n, o), o)
  <2>1. PICK key : key = o.key
    OBVIOUS
  <2>2. PICK l \in Nat : l = Len(key) /\ DOMAIN key = 1..l
    BY <1>2, <2>1
  <2>3. PICK columns : columns = [k \in DOMAIN key |-> key[k].name]
    OBVIOUS
  <2>4. Len(columns) = l
    BY <2>2, <2>3
  <2>5. PICK f : f = PKInfo(n, o)
    OBVIOUS
  <2>6. /\ f.table = n /\ f.columns = columns /\ f.kind = PKKind(columns)
        /\ f.isInteger <=> f.kind = "single" /\ IsIntegerDataType(key[Len(key)].dataType)
    BY <1>3, <2>1, <2>3, <2>5 DEF PKInfo
  <2>7. f.kind = "single" <=> l = 1
    BY <2>2, <2>4, <2>6 DEF PKKind
  <2>8. (f.kind = "single" /\ f.isInteger) <=> SoundKey(o)
    BY <2>1, <2>2, <2>6, <2>7 DEF SoundKey
  <2> QED BY <2>1, <2>3, <2>5, <2>6, <2>8 DEF FactOf
<1> QED BY <1>5, <1>6, <1>7

\* Whichever shape the statement had and however often a name was requested,
\* every fact holds each column of its object once and in order, for the
\* objects of exactly the requested spellings: the predicates only narrow,
\* they never decide.
THEOREM ShapeOnlyNarrows == ASSUME ExactNames PROVE Spec => []ShapeNeverDecides
<1> DEFINE Wanted(call, seen, n) ==
      /\ seen[n] # Absent
      /\ call = "PrimaryKeys" => seen[n].type = "BASE TABLE"
      /\ call = "InvisibleColumns" => \E c \in Elements(seen[n].columns) : c.invisible
<1>1. PointInv => ShapeNeverDecides
  <2> SUFFICES ASSUME PointInv, NEW call \in DOMAIN facts \ {"Triggers"}, NEW seen, seen = at[call]
               PROVE  /\ [k \in DOMAIN facts[call] |-> facts[call][k].table] =
                           Chosen(requested, {k \in DOMAIN requested : Wanted(call, seen, requested[k])})
                      /\ \A f \in Elements(facts[call]) : FactOf(call, f, seen[f.table])
    BY DEF ShapeNeverDecides, Returned, FactOf
  <2>1. /\ IsSeen(seen) /\ Valid /\ requested \in Seq(Name \cup {EmptyName})
        /\ facts[call] = FactsOf(call, seen)
        /\ call \in {"Tables", "PrimaryKeys", "InvisibleColumns", "Columns"}
    <3>1. IsSeen(seen) /\ facts[call] = FactsOf(call, seen)
      BY DEF PointInv, AsRead
    <3>2. call \in Elements(Call) /\ facts # <<>>
      BY DEF PointInv
    <3>3. call \in {"Tables", "PrimaryKeys", "InvisibleColumns", "Columns"}
      BY <3>2 DEF Call, Elements
    <3> QED BY <3>1, <3>2, <3>3 DEF PointInv
  <2>2. Elements(requested) \subseteq Name /\ \A k \in DOMAIN requested : requested[k] \in Elements(requested)
    BY <2>1, ValidNames DEF Elements
  <2>3. \A n \in Existing(seen) : IsObject(seen[n])
    BY <2>1, PointReadsAssumption DEF IsSeen, Existing
  <2>4. PICK f : /\ call = "Tables" => f = [n \in Existing(seen) |-> TableInfo(n, seen[n])]
                 /\ call = "PrimaryKeys" => f = [n \in Bases(seen) |-> PKInfo(n, seen[n])]
                 /\ call = "InvisibleColumns" => f = [n \in Hiding(seen) |-> InvisibleColumns(n, seen[n])]
                 /\ call = "Columns" => f = [n \in Existing(seen) |-> TableColumns(n, seen[n])]
    BY <2>1
  <2>5. facts[call] = OfRequest(f)
    BY <2>1, <2>4 DEF FactsOf
  <2>6. DOMAIN f \subseteq Existing(seen) /\ \A n \in Name : n \in DOMAIN f <=> Wanted(call, seen, n)
    <3>1. \A n \in Existing(seen) : n \in Hiding(seen) <=> \E c \in Elements(seen[n].columns) : c.invisible
      BY <2>3, HiddenOf DEF Hiding
    <3> QED BY <2>1, <2>4, <3>1 DEF Existing, Bases, Hiding
  <2>7. \A n \in DOMAIN f : f[n].table = n
    <3>1. \A n, o : /\ TableInfo(n, o).table = n /\ InvisibleColumns(n, o).table = n
                    /\ TableColumns(n, o).table = n
      BY DEF TableInfo, InvisibleColumns, TableColumns
    <3>2. \A n, o : PKInfo(n, o).table = n
      BY DEF PKInfo
    <3>3. call = "Tables" \/ call = "Columns" => \A n \in DOMAIN f : f[n].table = n
      BY <2>4, <3>1
    <3>4. call = "PrimaryKeys" => \A n \in DOMAIN f : f[n].table = n
      BY <2>4, <3>2
    <3>5. call = "InvisibleColumns" => \A n \in DOMAIN f : f[n].table = n
      BY <2>4, <3>1
    <3> QED BY <2>1, <3>3, <3>4, <3>5
  <2>8. \A n \in Elements(requested) \cap DOMAIN f : FactOf(call, f[n], seen[n])
    <3> SUFFICES ASSUME NEW n \in Elements(requested), n \in DOMAIN f PROVE FactOf(call, f[n], seen[n])
      OBVIOUS
    <3>1. PICK o : o = seen[n]
      OBVIOUS
    <3>2. IsObject(o)
      BY <2>3, <2>6, <3>1
    <3>3. /\ FactOf("PrimaryKeys", PKInfo(n, o), o) /\ FactOf("InvisibleColumns", InvisibleColumns(n, o), o)
          /\ FactOf("Columns", TableColumns(n, o), o)
      BY <2>1, <3>2, ReadOnce
    <3>4. CASE call = "Tables"
      BY <3>4 DEF FactOf
    <3>5. CASE call = "PrimaryKeys"
      BY <2>4, <3>1, <3>3, <3>5
    <3>6. CASE call = "InvisibleColumns"
      BY <2>4, <3>1, <3>3, <3>6
    <3>7. CASE call = "Columns"
      BY <2>4, <3>1, <3>3, <3>7
    <3> QED BY <2>1, <3>4, <3>5, <3>6, <3>7
  <2>9. [k \in DOMAIN facts[call] |-> facts[call][k].table] =
          Chosen(requested, {k \in DOMAIN requested : Wanted(call, seen, requested[k])})
    <3>1. PICK K : K = {k \in DOMAIN requested : requested[k] \in DOMAIN f}
      OBVIOUS
    <3>2. K = {k \in DOMAIN requested : Wanted(call, seen, requested[k])}
      BY <2>2, <2>6, <3>1
    <3> HIDE DEF Wanted
    <3> QED BY <2>1, <2>5, <2>7, <3>1, <3>2, OfRequestInOrder
  <2>10. Elements(facts[call]) = {f[n] : n \in Elements(requested) \cap DOMAIN f}
    BY <2>1, <2>5, OfRequestHolds
  <2>11. \A x \in Elements(facts[call]) : FactOf(call, x, seen[x.table])
    BY <2>7, <2>8, <2>10
  <2> QED BY <2>9, <2>11
<1> QED BY <1>1, PointInvariance, PTL

----------------------------------------------------------------------------
(* The order of the trigger fact and of its check.  A list of triggers is a *)
(* list of lists, one for every request, read through its entries.          *)

TableOf(found, n) == {p \in DOMAIN found : found[p].table = n}
Firsts(found) == {p \in DOMAIN found : \A j \in 1..(p - 1) : found[j].table # found[p].table}
Finding(found, n) == [table |-> n, facts |-> SortTriggers(Chosen(found, TableOf(found, n)))]

\* The findings are those of the first triggers of a table, in their order.
FirstAt(findings, found, m, place) ==
  /\ \A p \in Firsts(found) : \E k \in 1..m : place[k] = p
  /\ \A j, k \in 1..m : j < k => place[j] < place[k]
  /\ findings = [k \in 1..m |-> Finding(found, found[place[k]].table)]

LEMMA FindingsAt ==
  ASSUME NEW c \in Nat, NEW found, found = [p \in 1..c |-> found[p]],
         NEW event, \A p \in 1..c : found[p].event = event,
         NEW findings, findings = CheckTriggersPresent(found, event)
  PROVE  \E m \in Nat : \E place \in [1..m -> Firsts(found)] :
           FirstAt(findings, found, m, place)
<1>1. {k \in DOMAIN found : found[k].event = event} = 1..c /\ DOMAIN found = 1..c
  OBVIOUS
<1>2. Chosen(found, 1..c) = found
  BY ChosenAll
<1>3. PICK firsts : firsts = Firsts(found)
  OBVIOUS
<1>4. PICK heads : heads = Chosen(found, firsts)
  OBVIOUS
<1>5. CheckTriggersPresent(found, event) =
        [k \in DOMAIN heads |-> Finding(found, heads[k].table)]
  <2>1. CheckTriggersPresent(found, event) =
          [k \in DOMAIN heads |->
            [table |-> heads[k].table,
             facts |-> SortTriggers(Chosen(found, {p \in DOMAIN found : found[p].table = heads[k].table}))]]
    <3>1. PICK trg : trg = Chosen(found, {k \in DOMAIN found : found[k].event = event})
      OBVIOUS
    <3>2. trg = found
      BY <1>1, <1>2, <3>1
    <3>3. {k \in DOMAIN trg : \A j \in 1..(k - 1) : trg[j].table # trg[k].table} = firsts
      BY <1>3, <3>2 DEF Firsts
    <3>4. CheckTriggersPresent(found, event) =
            [k \in DOMAIN Chosen(trg, {k \in DOMAIN trg : \A j \in 1..(k - 1) : trg[j].table # trg[k].table}) |->
              [table |-> Chosen(trg, {q \in DOMAIN trg : \A j \in 1..(q - 1) : trg[j].table # trg[q].table})[k].table,
               facts |-> SortTriggers(Chosen(trg, {p \in DOMAIN trg :
                  trg[p].table = Chosen(trg, {q \in DOMAIN trg : \A j \in 1..(q - 1) : trg[j].table # trg[q].table})[k].table}))]]
      BY ONLY <3>1 DEF CheckTriggersPresent
    <3> QED BY <1>4, <3>2, <3>3, <3>4
  <2> QED BY <2>1 DEF Finding, TableOf
<1>6. PICK place : place = Places(firsts)
  OBVIOUS
<1>7. PICK m \in Nat : m = Cardinality(firsts)
  <2>1. firsts \in SUBSET (1..c)
    BY <1>1, <1>3 DEF Firsts
  <2> QED BY <2>1, PlacesInOrder
<1>8. /\ place \in [1..m -> firsts] /\ \A p \in firsts : \E k \in 1..m : place[k] = p
      /\ \A j, k \in 1..m : j < k => place[j] < place[k]
  <2>1. firsts \in SUBSET (1..c)
    BY <1>1, <1>3 DEF Firsts
  <2> QED BY <1>6, <1>7, <2>1, PlacesInOrder
<1>9. heads = [k \in 1..m |-> found[place[k]]]
  BY <1>4, <1>6, <1>8 DEF Chosen
<1>10. CheckTriggersPresent(found, event) = [k \in 1..m |-> Finding(found, found[place[k]].table)]
  BY <1>5, <1>9
<1>11. FirstAt(findings, found, m, place)
  BY <1>3, <1>8, <1>10 DEF FirstAt
<1> QED BY <1>3, <1>7, <1>8, <1>11

\* Lists, each of the triggers of the name asked for at its place.
Grouped(lists, l, asked) ==
  /\ DOMAIN lists = 1..l
  /\ \A i \in 1..l : \E m \in Nat : DOMAIN lists[i] = 1..m
  /\ \A i \in 1..l : \A j \in DOMAIN lists[i] : lists[i][j].table = asked[i]
  /\ \A i, j \in 1..l : asked[i] = asked[j] => lists[i] = lists[j]

\* The places K of found hold the triggers of one list, count entries in all.
Gathered(found, K, list, c, count) ==
  /\ found = [p \in 1..c |-> found[p]] /\ K \in SUBSET (1..c)
  /\ Elements(Chosen(found, K)) = Elements(list)
  /\ Cardinality(K) = count

\* The triggers of one name: all those of its lists, and as many.
LEMMA TableTriggers ==
  ASSUME NEW l \in Nat, NEW asked, NEW lists, Grouped(lists, l, asked),
         NEW c \in Nat, NEW entry \in [1..c -> Entries(lists)], Through(lists, l, c, entry),
         NEW i \in 1..l, NEW size \in Nat, DOMAIN lists[i] = 1..size
  PROVE  Gathered(Flattened(lists), TableOf(Flattened(lists), asked[i]), lists[i], c,
                  Cardinality({j \in 1..l : asked[j] = asked[i]}) * size)
<1>1. PICK found : found = Flattened(lists)
  OBVIOUS
<1>2. PICK n : n = asked[i]
  OBVIOUS
<1>3. PICK K : K = TableOf(found, n)
  OBVIOUS
<1>4. /\ found = [p \in 1..c |-> lists[entry[p][1]][entry[p][2]]]
      /\ \A p \in 1..c : /\ entry[p] = <<entry[p][1], entry[p][2]>>
                         /\ entry[p][1] \in 1..l /\ entry[p][2] \in DOMAIN lists[entry[p][1]]
                         /\ found[p].table = asked[entry[p][1]]
  BY <1>1 DEF Through, Grouped
<1>5. K = {p \in 1..c : asked[entry[p][1]] = n} /\ K \in SUBSET (1..c)
  BY <1>3, <1>4 DEF TableOf
<1>6. \A j \in 1..l : asked[j] = n => lists[j] = lists[i]
  BY <1>2 DEF Grouped
<1>7. Elements(Chosen(found, K)) = Elements(lists[i])
  <2>1. Elements(Chosen(found, K)) = {found[p] : p \in K}
    <3>1. DOMAIN found = 1..c
      BY <1>4
    <3> QED BY <1>5, <3>1, ChosenElements, SMTT(40)
  <2>2. ASSUME NEW p \in K PROVE found[p] \in Elements(lists[i])
    BY <1>4, <1>5, <1>6 DEF Elements
  <2>3. ASSUME NEW j \in DOMAIN lists[i] PROVE \E p \in K : found[p] = lists[i][j]
    <3>1. PICK p \in 1..c : entry[p] = <<i, j>>
      BY DEF Through
    <3> QED BY <1>2, <1>4, <1>5, <3>1
  <2>4. \A x : x \in {found[p] : p \in K} <=> x \in Elements(lists[i])
    BY <2>2, <2>3 DEF Elements
  <2> QED BY <2>1, <2>4
<1>8. PICK A : A = {j \in 1..l : asked[j] = n}
  OBVIOUS
<1>9. Cardinality(K) = Cardinality(A) * size
  <2>1. PICK e : e = [p \in K |-> entry[p]]
    OBVIOUS
  <2>2. PICK B : B = A \X (1..size)
    OBVIOUS
  <2>3. \A p \in K : entry[p] \in B
    <3>1. SUFFICES ASSUME NEW p \in K PROVE entry[p] \in B
      OBVIOUS
    <3>2. PICK j : j = entry[p][1]
      OBVIOUS
    <3>3. p \in 1..c /\ j \in A /\ lists[j] = lists[i]
      BY <1>4, <1>5, <1>6, <1>8, <3>1, <3>2
    <3>4. PICK k : k = entry[p][2]
      OBVIOUS
    <3>5. entry[p] = <<j, k>> /\ k \in 1..size
      BY <1>4, <3>2, <3>3, <3>4
    <3>6. <<j, k>> \in A \X (1..size)
      BY <3>3, <3>5
    <3> QED BY <2>2, <3>5, <3>6
  <2>4. \A b \in B : \E p \in K : entry[p] = b
    <3>0. SUFFICES ASSUME NEW b \in B PROVE \E p \in K : entry[p] = b
      OBVIOUS
    <3>1. PICK j \in A : \E k \in 1..size : b = <<j, k>>
      BY <2>2
    <3>5. PICK k \in 1..size : b = <<j, k>>
      BY <3>1
    <3>2. j \in 1..l /\ asked[j] = n /\ k \in DOMAIN lists[j]
      BY <1>6, <1>8, <3>1
    <3>3. PICK p \in 1..c : entry[p] = <<j, k>>
      BY <3>2 DEF Through
    <3> QED BY <1>5, <3>2, <3>3, <3>5
  <2>5. \A p, q \in K : entry[p] = entry[q] => p = q
    <3>1. SUFFICES ASSUME NEW p \in K, NEW q \in K, entry[p] = entry[q], p < q PROVE FALSE
      BY <1>5
    <3>2. p \in 1..c /\ q \in 1..c /\ entry[q][1] \in Int /\ entry[q][2] \in Int
      BY <1>5, <3>1 DEF Through
    <3>3. entry[p][1] < entry[q][1] \/ (entry[p][1] = entry[q][1] /\ entry[p][2] < entry[q][2])
      BY <3>1, <3>2 DEF Through
    <3> QED BY <3>1, <3>2, <3>3
  <2>6. e \in Bijection(K, B)
    BY <2>1, <2>3, <2>4, <2>5 DEF Bijection, Injection, Surjection, IsInjective
  <2>7. IsFiniteSet(1..l) /\ IsFiniteSet(1..c) /\ IsFiniteSet(1..size) /\ Cardinality(1..size) = size
    BY FS_Interval
  <2>8. IsFiniteSet(A) /\ IsFiniteSet(K)
    BY <1>5, <1>8, <2>7, FS_Subset
  <2>9. Cardinality(B) = Cardinality(A) * size
    BY <2>2, <2>7, <2>8, FS_Product
  <2>10. Cardinality(B) = Cardinality(K)
    BY <2>6, <2>8, FS_Bijection DEF ExistsBijection
  <2> QED BY <2>9, <2>10
<1>10. found = [p \in 1..c |-> found[p]]
  BY <1>4
<1> QED BY <1>1, <1>2, <1>3, <1>5, <1>7, <1>8, <1>9, <1>10 DEF Gathered

\* The first trigger of a name stands in the list of its first request, and the
\* first triggers of two names come in the order of those requests.
FirstAsks(found, lists, l, asked, entry) ==
  /\ \A i \in 1..l : DOMAIN lists[i] # {} =>
       \E p \in Firsts(found) : found[p].table = asked[i]
  /\ \A p \in Firsts(found) :
       /\ entry[p][1] \in 1..l /\ found[p].table = asked[entry[p][1]]
       /\ DOMAIN lists[entry[p][1]] # {}
       /\ \A j \in 1..l : asked[j] = asked[entry[p][1]] => entry[p][1] <= j
  /\ \A p, q \in Firsts(found) : p < q => entry[p][1] < entry[q][1]

LEMMA FirstsInOrder ==
  ASSUME NEW l \in Nat, NEW asked, NEW lists, Grouped(lists, l, asked),
         NEW c \in Nat, NEW entry \in [1..c -> Entries(lists)], Through(lists, l, c, entry),
         NEW found, found = Flattened(lists)
  PROVE  FirstAsks(found, lists, l, asked, entry)
<1>1. /\ DOMAIN found = 1..c
      /\ \A p \in 1..c : /\ entry[p][1] \in 1..l /\ entry[p][2] \in DOMAIN lists[entry[p][1]]
                         /\ entry[p][2] \in Nat
                         /\ found[p].table = asked[entry[p][1]]
  BY DEF Through, Grouped
<1>2. /\ \A i \in 1..l : \A j \in DOMAIN lists[i] : \E p \in 1..c : entry[p] = <<i, j>>
      /\ \A p, q \in 1..c :
           p < q <=> \/ entry[p][1] < entry[q][1]
                     \/ entry[p][1] = entry[q][1] /\ entry[p][2] < entry[q][2]
  BY DEF Through
<1>3. ASSUME NEW i \in 1..l, DOMAIN lists[i] # {}
      PROVE  \E p \in Firsts(found) : found[p].table = asked[i]
  <2> DEFINE P == {p \in 1..c : found[p].table = asked[i]}
  <2>1. P \in SUBSET Nat /\ P # {}
    <3>1. PICK j \in DOMAIN lists[i] : TRUE
      BY <1>3
    <3>2. PICK p \in 1..c : entry[p] = <<i, j>>
      BY <1>2
    <3> QED BY <1>1, <3>2
  <2>2. PICK p \in P : \A q \in P : p <= q
    <3> HIDE DEF P
    <3> QED BY <2>1, LeastOf
  <2>3. \A q \in 1..(p - 1) : q \in 1..c /\ ~(p <= q)
    BY <2>2
  <2> QED BY <1>1, <2>2, <2>3 DEF Firsts
<1>4. ASSUME NEW p \in Firsts(found), NEW j \in 1..l, asked[j] = asked[entry[p][1]]
      PROVE  entry[p][1] <= j
  <2>1. SUFFICES ASSUME j < entry[p][1] PROVE FALSE
    BY <1>1 DEF Firsts
  <2>2. p \in 1..c /\ lists[j] = lists[entry[p][1]]
    BY <1>1, <1>4 DEF Firsts, Grouped
  <2>3. PICK q \in 1..c : entry[q] = <<j, entry[p][2]>>
    BY <1>1, <1>2, <2>2, ZenonT(60)
  <2>4. q < p
    BY <1>2, <2>1, <2>2, <2>3
  <2>5. found[q].table = found[p].table
    BY <1>1, <1>4, <2>2, <2>3
  <2> QED BY <2>2, <2>4, <2>5 DEF Firsts
<1>5. ASSUME NEW p \in Firsts(found), NEW q \in Firsts(found), p < q
      PROVE  entry[p][1] < entry[q][1]
  <2>1. p \in 1..c /\ q \in 1..c /\ found[p].table # found[q].table
    BY <1>1, <1>5 DEF Firsts
  <2>2. entry[p][1] # entry[q][1]
    BY <1>1, <2>1
  <2> QED BY <1>2, <1>5, <2>1, <2>2
<1>6. ASSUME NEW p \in Firsts(found)
      PROVE  /\ entry[p][1] \in 1..l /\ found[p].table = asked[entry[p][1]]
             /\ DOMAIN lists[entry[p][1]] # {}
  BY <1>1 DEF Firsts
<1> QED BY <1>3, <1>4, <1>5, <1>6 DEF FirstAsks

\* A name asked for once: its triggers among all are its list.
LEMMA OneList ==
  ASSUME NEW l \in Nat, NEW asked, NEW lists, Grouped(lists, l, asked),
         NEW c \in Nat, NEW entry \in [1..c -> Entries(lists)], Through(lists, l, c, entry),
         NEW found, found = Flattened(lists),
         NEW i \in 1..l, \A j \in 1..l : asked[j] = asked[i] => j = i,
         lists[i] \in Seq(Elements(lists[i]))
  PROVE  Chosen(found, TableOf(found, asked[i])) = lists[i]
<1>1. /\ found = [p \in 1..c |-> lists[entry[p][1]][entry[p][2]]]
      /\ \A p \in 1..c : entry[p][1] \in 1..l /\ found[p].table = asked[entry[p][1]]
  BY DEF Through, Grouped
<1>2. PICK K : K = TableOf(found, asked[i])
  OBVIOUS
<1>3. FromOne(entry, c, i, K)
  <2>1. \A p \in 1..c : found[p].table = asked[i] <=> entry[p][1] = i
    BY <1>1
  <2>2. DOMAIN found = 1..c
    BY <1>1
  <2> QED BY <1>2, <2>1, <2>2 DEF TableOf, FromOne
<1>4. Chosen(Flattened(lists), K) = lists[i]
  BY <1>3, OneOfLists
<1> QED BY <1>2, <1>4

\* A payload: the triggers T, size entries in all, BEFORE ahead of AFTER and
\* then by bytes.
PayloadFor(payload, T, size) ==
  /\ DOMAIN payload = 1..size /\ Len(payload) = size
  /\ {t.name : t \in Elements(payload)} = {t.name : t \in T}
  /\ \A i, j \in DOMAIN payload : i < j =>
       IF payload[i].timing = payload[j].timing
       THEN ByteRank[payload[i].name] <= ByteRank[payload[j].name]
       ELSE payload[i].timing = "BEFORE"

\* The triggers of one table, sorted.
LEMMA Payload ==
  ASSUME NEW T, Sortable(ByteRank, T), NEW n, NEW xs, NEW size \in Nat, DOMAIN xs = 1..size,
         Elements(xs) = {TriggerRow(n, t) : t \in T}, NEW payload, payload = SortTriggers(xs)
  PROVE  PayloadFor(payload, T, size)
<1>1. PICK E : E = Elements(xs)
  OBVIOUS
<1>2. PICK before : before = TriggerOrder(ByteRank, E)
  OBVIOUS
<1>3. Sortable(ByteRank, E)
  BY <1>1 DEF Sortable, TriggerRow
<1>4. payload = SortedBy(xs, before)
  BY <1>1, <1>2 DEF SortTriggers
<1>5. /\ payload \in Seq(E) /\ Len(payload) = size /\ Elements(payload) = E
      /\ \A j, k \in 1..size : j < k => <<payload[k], payload[j]>> \notin before
  <2>1. StrictWeak(Elements(xs), before)
    BY <1>1, <1>2, <1>3, OrderedWeakly
  <2>2. PICK sorted : sorted = SortedBy(xs, before)
    OBVIOUS
  <2>3. /\ sorted \in Seq(Elements(xs)) /\ Len(sorted) = size /\ Elements(sorted) = Elements(xs)
        /\ \A j, k \in 1..size : j < k => <<sorted[k], sorted[j]>> \notin before
    BY <2>1, <2>2, SortedLists
  <2> QED BY <1>1, <1>4, <2>2, <2>3
<1>6. DOMAIN payload = 1..size
  BY <1>5
<1>7. {t.name : t \in Elements(payload)} = {t.name : t \in T}
  <2>1. \A x : x \in {t.name : t \in Elements(payload)} <=> \E t \in T : x = TriggerRow(n, t).name
    BY <1>1, <1>5
  <2>2. \A t : TriggerRow(n, t).name = t.name
    BY DEF TriggerRow
  <2> QED BY <2>1, <2>2, SMTT(40)
<1>8. ASSUME NEW i \in 1..size, NEW j \in 1..size, i < j
      PROVE  IF payload[i].timing = payload[j].timing
             THEN ByteRank[payload[i].name] <= ByteRank[payload[j].name]
             ELSE payload[i].timing = "BEFORE"
  <2>1. payload[i] \in E /\ payload[j] \in E
    BY <1>5, <1>6
  <2>2. ~OrderedBy(ByteRank, payload[j], payload[i])
    BY <1>2, <1>5, <1>8, <2>1 DEF TriggerOrder
  <2>3. /\ payload[i].timing \in {"BEFORE", "AFTER"} /\ payload[j].timing \in {"BEFORE", "AFTER"}
        /\ ByteRank[payload[i].name] \in Nat /\ ByteRank[payload[j].name] \in Nat
    BY <1>3, <2>1 DEF Sortable
  <2>4. CASE payload[i].timing = payload[j].timing
    BY <2>2, <2>3, <2>4 DEF OrderedBy
  <2>5. CASE payload[i].timing # payload[j].timing
    BY <2>2, <2>3, <2>5 DEF OrderedBy, TimingOrder
  <2> QED BY <2>4, <2>5
<1>9. \A i, j \in DOMAIN payload : i < j =>
        IF payload[i].timing = payload[j].timing
        THEN ByteRank[payload[i].name] <= ByteRank[payload[j].name]
        ELSE payload[i].timing = "BEFORE"
  BY ONLY <1>6, <1>8
<1>10. Len(payload) = size
  BY <1>5
<1> QED BY <1>6, <1>7, <1>9, <1>10 DEF PayloadFor

\* The triggers T of the name n in firing order.
ListOf(xs, n, T) ==
  /\ Sortable(ByteRank, T) /\ Cardinality(T) \in Nat /\ (T = {} <=> Cardinality(T) = 0)
  /\ xs = [k \in 1..Cardinality(T) |-> xs[k]]
  /\ Elements(xs) = {TriggerRow(n, t) : t \in T}
  /\ \A k \in 1..Cardinality(T) : xs[k].event = Event
  /\ \A j, k \in 1..Cardinality(T) : j < k => ~OrderedBy(ByteRank, xs[k], xs[j])

\* Such a list is sorted already.
LEMMA PayloadAlready ==
  ASSUME NEW T, NEW n, NEW xs, ListOf(xs, n, T)
  PROVE  SortTriggers(xs) = xs
<1>1. PICK E : E = Elements(xs)
  OBVIOUS
<1>2. PICK before : before = TriggerOrder(ByteRank, E)
  OBVIOUS
<1>3. Sortable(ByteRank, E)
  BY <1>1 DEF Sortable, TriggerRow, ListOf
<1>4. StrictWeak(E, before)
  BY <1>2, <1>3, OrderedWeakly
<1>5. PICK size \in Nat : size = Cardinality(T) /\ xs = [k \in 1..size |-> xs[k]]
  BY DEF ListOf
<1>6. \A j, k \in 1..size : j < k => <<xs[k], xs[j]>> \notin before
  <2>1. \A j, k \in 1..size : j < k => ~OrderedBy(ByteRank, xs[k], xs[j])
    BY <1>5 DEF ListOf
  <2> QED BY <1>2, <2>1 DEF TriggerOrder
<1>7. SortedBy(xs, before) = xs
  BY <1>1, <1>4, <1>5, <1>6, SortedAlready
<1> QED BY <1>1, <1>2, <1>7 DEF SortTriggers

\* What the trigger fact is read from.
ListsOf(seen, lists) ==
  /\ lists = [k \in DOMAIN requested |-> TriggersOf(requested[k], seen[requested[k]])]
  /\ Grouped(lists, Len(requested), requested)
  /\ \A i \in DOMAIN requested : ListOf(lists[i], requested[i], Firing(seen[requested[i]]))

LEMMA TriggerLists ==
  ASSUME ExactNames, requested \in Seq(Name \cup {EmptyName}), Valid, NEW seen, IsSeen(seen),
         NEW lists, lists = [k \in DOMAIN requested |-> TriggersOf(requested[k], seen[requested[k]])]
  PROVE  ListsOf(seen, lists)
<1>1. ASSUME NEW i \in DOMAIN requested, NEW n, n = requested[i], NEW T, T = Firing(seen[n])
      PROVE  ListOf(lists[i], n, T)
  <2>1. n \in Elements(requested) /\ n \in Name
    BY <1>1, ValidNames DEF Elements
  <2>2. PICK o : o = seen[n]
    OBVIOUS
  <2>3. o = Absent \/ IsObject(o)
    BY <2>1, <2>2, PointReadsAssumption DEF IsSeen
  <2>4. PICK xs : xs = TriggersOf(n, o)
    OBVIOUS
  <2>5. Copies(n) = 1
    BY <2>1, OneCopy
  <2>6. /\ IsFiniteSet(T) /\ Sortable(ByteRank, T)
        /\ xs \in Seq(Elements(xs)) /\ Elements(xs) = {TriggerRow(n, t) : t \in T}
        /\ Len(xs) = Cardinality(T) * Copies(n)
        /\ \A j, k \in DOMAIN xs : j < k => ~OrderedBy(ByteRank, xs[k], xs[j])
    BY <1>1, <2>1, <2>2, <2>3, <2>4, TriggersRead
  <2>7. PICK c \in Nat : c = Cardinality(T)
    BY <2>6, FS_CardinalityType
  <2>8. T = {} <=> c = 0
    BY <2>6, <2>7, FS_EmptySet
  <2>9. Len(xs) = c /\ DOMAIN xs = 1..c /\ xs = [k \in 1..c |-> xs[k]]
    BY <2>5, <2>6, <2>7
  <2>10. \A k \in 1..c : xs[k].event = Event
    <3>1. \A t \in T : TriggerRow(n, t).event = Event
      BY <1>1 DEF Firing, TriggerRow
    <3>2. \A k \in 1..c : xs[k] \in Elements(xs)
      BY <2>9 DEF Elements
    <3> QED BY <2>6, <3>1, <3>2
  <2>11. lists[i] = xs
    BY <1>1, <2>2, <2>4
  <2>12. ListOf(xs, n, T)
    BY <2>6, <2>7, <2>8, <2>9, <2>10 DEF ListOf
  <2> QED BY <2>11, <2>12
<1>2. PICK l \in Nat : l = Len(requested) /\ DOMAIN requested = 1..l
  OBVIOUS
<1>3. ASSUME NEW i \in 1..l PROVE ListOf(lists[i], requested[i], Firing(seen[requested[i]]))
  BY <1>1, <1>2
<1>4. Grouped(lists, l, requested)
  <2>1. DOMAIN lists = 1..l /\ \A i, j \in 1..l : requested[i] = requested[j] => lists[i] = lists[j]
    BY <1>2
  <2>2. ASSUME NEW i \in 1..l
        PROVE  /\ \E m \in Nat : DOMAIN lists[i] = 1..m
               /\ \A j \in DOMAIN lists[i] : lists[i][j].table = requested[i]
    <3>1. PICK xs : xs = lists[i]
      OBVIOUS
    <3>2. PICK n : n = requested[i]
      OBVIOUS
    <3>3. PICK T : T = Firing(seen[n])
      OBVIOUS
    <3>4. ListOf(xs, n, T)
      BY <1>3, <3>1, <3>2, <3>3
    <3>5. \A t : TriggerRow(n, t).table = n
      BY DEF TriggerRow
    <3>6. \A j \in DOMAIN xs : xs[j].table = n
      <4>1. \A x \in Elements(xs) : x.table = n
        BY <3>4, <3>5 DEF ListOf
      <4> QED BY <4>1 DEF Elements
    <3>7. \E m \in Nat : DOMAIN xs = 1..m
      BY <3>4 DEF ListOf
    <3> QED BY <3>1, <3>2, <3>6, <3>7
  <2> QED BY <2>1, <2>2 DEF Grouped
<1> QED BY <1>2, <1>3, <1>4 DEF ListsOf

\* The findings are those of the first requests of the tables with triggers, the
\* requests g, in their order.
ByAsk(findings, found, lists, l, m, g) ==
  /\ g \in [1..m -> 1..l] /\ \A j, k \in 1..m : j < k => g[j] < g[k]
  /\ findings = [k \in 1..m |-> Finding(found, requested[g[k]])]
  /\ \A k \in 1..m : DOMAIN lists[g[k]] # {}
  /\ \A k \in 1..m : \A j \in 1..l : requested[j] = requested[g[k]] => g[k] <= j
  /\ \A i \in 1..l : DOMAIN lists[i] # {} => \E k \in 1..m : requested[g[k]] = requested[i]

LEMMA FindingsByAsk ==
  ASSUME NEW l \in Nat, NEW lists, Grouped(lists, l, requested),
         \A i \in 1..l : \A j \in DOMAIN lists[i] : lists[i][j].event = Event,
         NEW found, found = Flattened(lists),
         NEW findings, findings = CheckTriggersPresent(found, Event)
  PROVE  \E m \in Nat : \E g \in [1..m -> 1..l] : ByAsk(findings, found, lists, l, m, g)
<1>1. PICK c \in Nat : \E entry \in [1..c -> Entries(lists)] : Through(lists, l, c, entry)
  BY FlattenedEntries DEF Grouped
<1>2. PICK entry \in [1..c -> Entries(lists)] : Through(lists, l, c, entry)
  BY <1>1
<1>3. found = [p \in 1..c |-> found[p]] /\ \A p \in 1..c : found[p].event = Event
  <2>1. found = [p \in 1..c |-> lists[entry[p][1]][entry[p][2]]]
    BY <1>2 DEF Through
  <2>2. \A p \in 1..c : entry[p][1] \in 1..l /\ entry[p][2] \in DOMAIN lists[entry[p][1]]
    BY <1>2 DEF Through
  <2> QED BY <2>1, <2>2
<1>4. PICK m \in Nat : \E place \in [1..m -> Firsts(found)] : FirstAt(findings, found, m, place)
  BY <1>3, FindingsAt, ZenonT(60)
<1>5. PICK place \in [1..m -> Firsts(found)] :
        /\ \A p \in Firsts(found) : \E k \in 1..m : place[k] = p
        /\ \A j, k \in 1..m : j < k => place[j] < place[k]
        /\ findings = [k \in 1..m |-> Finding(found, found[place[k]].table)]
  BY <1>4 DEF FirstAt
<1>6. /\ \A i \in 1..l : DOMAIN lists[i] # {} =>
           \E p \in Firsts(found) : found[p].table = requested[i]
      /\ \A p \in Firsts(found) :
           /\ entry[p][1] \in 1..l /\ found[p].table = requested[entry[p][1]]
           /\ DOMAIN lists[entry[p][1]] # {}
           /\ \A j \in 1..l : requested[j] = requested[entry[p][1]] => entry[p][1] <= j
      /\ \A p, q \in Firsts(found) : p < q => entry[p][1] < entry[q][1]
  <2>1. FirstAsks(found, lists, l, requested, entry)
    BY <1>2, FirstsInOrder
  <2> QED BY <2>1 DEF FirstAsks
<1>7. PICK g : g = [k \in 1..m |-> entry[place[k]][1]]
  OBVIOUS
<1>8. \A k \in 1..m : place[k] \in Firsts(found) /\ g[k] = entry[place[k]][1]
  BY <1>5, <1>7
<1>9. \A k \in 1..m : g[k] \in 1..l /\ found[place[k]].table = requested[g[k]] /\ DOMAIN lists[g[k]] # {}
  BY <1>6, <1>8
<1>10. \A k \in 1..m : \A j \in 1..l : requested[j] = requested[g[k]] => g[k] <= j
  BY <1>6, <1>8
<1>11. \A i \in 1..l : DOMAIN lists[i] # {} => \E k \in 1..m : requested[g[k]] = requested[i]
  <2> SUFFICES ASSUME NEW i \in 1..l, DOMAIN lists[i] # {}
               PROVE  \E k \in 1..m : requested[g[k]] = requested[i]
    OBVIOUS
  <2>1. \A h \in 1..l : DOMAIN lists[h] # {} => \E p \in Firsts(found) : found[p].table = requested[h]
    BY ONLY <1>6
  <2>2. PICK p \in Firsts(found) : found[p].table = requested[i]
    BY <2>1
  <2>3. PICK k \in 1..m : place[k] = p
    BY <1>5
  <2> QED BY <1>9, <2>2, <2>3
<1>12. findings = [k \in 1..m |-> Finding(found, requested[g[k]])]
  BY <1>5, <1>9
<1>13. \A j, k \in 1..m : j < k => g[j] < g[k]
  BY <1>5, <1>6, <1>8
<1>14. g \in [1..m -> 1..l]
  BY <1>7, <1>9
<1>15. ByAsk(findings, found, lists, l, m, g)
  BY <1>9, <1>10, <1>11, <1>12, <1>13, <1>14 DEF ByAsk
<1> QED BY <1>14, <1>15

\* The payload of a finding: the triggers of its table as often as it was asked for.
LEMMA PayloadOf ==
  ASSUME NEW l \in Nat, NEW lists, Grouped(lists, l, requested), NEW found, found = Flattened(lists),
         NEW i \in 1..l, NEW T, ListOf(lists[i], requested[i], T),
         NEW payload, payload = SortTriggers(Chosen(found, TableOf(found, requested[i])))
  PROVE  PayloadFor(payload, T, Cardinality(T) * Cardinality({j \in 1..l : requested[j] = requested[i]}))
<1>1. PICK c \in Nat : \E entry \in [1..c -> Entries(lists)] : Through(lists, l, c, entry)
  BY FlattenedEntries DEF Grouped
<1>2. PICK entry \in [1..c -> Entries(lists)] : Through(lists, l, c, entry)
  BY <1>1
<1>3. PICK n : n = requested[i]
  OBVIOUS
<1>4. PICK size \in Nat : size = Cardinality(T) /\ DOMAIN lists[i] = 1..size
  BY DEF ListOf
<1>5. PICK A : A = {j \in 1..l : requested[j] = requested[i]}
  OBVIOUS
<1>6. PICK a \in Nat : a = Cardinality(A)
  <2>1. IsFiniteSet(1..l)
    BY FS_Interval
  <2>2. A \subseteq 1..l
    BY <1>5
  <2>3. IsFiniteSet(A)
    BY <2>1, <2>2, FS_Subset
  <2> QED BY <2>3, FS_CardinalityType
<1>7. PICK K : K = TableOf(found, n)
  OBVIOUS
<1>8. /\ found = [p \in 1..c |-> found[p]] /\ K \in SUBSET (1..c)
      /\ Elements(Chosen(found, K)) = Elements(lists[i])
      /\ Cardinality(K) = a * size
  <2>1. Gathered(Flattened(lists), TableOf(Flattened(lists), requested[i]), lists[i], c,
                 Cardinality({j \in 1..l : requested[j] = requested[i]}) * size)
    BY <1>2, <1>4, TableTriggers
  <2> QED BY <2>1, <1>3, <1>5, <1>6, <1>7 DEF Gathered
<1>9. PICK xs : xs = Chosen(found, K)
  OBVIOUS
<1>10. DOMAIN xs = 1..(a * size) /\ a * size \in Nat
  <2>1. DOMAIN xs = 1..Cardinality(K) /\ Cardinality(K) \in 0..c
    BY <1>8, <1>9, ChosenElements
  <2> QED BY <1>8, <2>1
<1>11. PICK all \in Nat : all = a * size /\ all = size * a
  BY <1>10
<1>12. Sortable(ByteRank, T) /\ Elements(xs) = {TriggerRow(n, t) : t \in T}
  BY <1>3, <1>8, <1>9 DEF ListOf
<1>13. payload = SortTriggers(xs) /\ DOMAIN xs = 1..all
  BY <1>3, <1>7, <1>9, <1>10, <1>11
<1>14. PayloadFor(payload, T, all)
  BY <1>12, <1>13, Payload
<1>15. all = Cardinality(T) * Cardinality({j \in 1..l : requested[j] = requested[i]})
  BY <1>4, <1>5, <1>6, <1>11
<1> QED BY <1>14, <1>15

\* A list as long as it has elements repeats none.
LEMMA NoRepeat ==
  ASSUME NEW xs, NEW l \in Nat, DOMAIN xs = 1..l, Cardinality(Elements(xs)) = l
  PROVE  \A i, j \in 1..l : xs[i] = xs[j] => i = j
<1>1. PICK S : S = Elements(xs)
  OBVIOUS
<1>2. PICK f : f = [k \in 1..l |-> xs[k]]
  OBVIOUS
<1>3. f \in Surjection(1..l, S)
  BY <1>1, <1>2 DEF Surjection, Elements
<1>4. IsFiniteSet(1..l) /\ Cardinality(1..l) = l
  BY FS_Interval
<1>5. IsFiniteSet(S)
  BY <1>3, <1>4, FS_Surjection
<1>6. f \in Injection(1..l, S)
  <2>1. PICK D : D = 1..l
    OBVIOUS
  <2>2. IsFiniteSet(D) /\ Cardinality(D) = Cardinality(S) /\ f \in Surjection(D, S)
    BY <1>1, <1>3, <1>4, <2>1
  <2>3. f \in Injection(D, S)
    BY <1>5, <2>2, FS_SurjSameCardinalityImpliesInj
  <2> QED BY <2>1, <2>3
<1> QED BY <1>2, <1>6 DEF Injection, IsInjective

AsksFor(n) == {k \in DOMAIN requested : requested[k] = n}
FirstAskFor(n) == CHOOSE k \in AsksFor(n) : \A j \in AsksFor(n) : k <= j

\* The trigger fact and its check agree on the order and lose nothing: there is
\* a finding for each requested table with a trigger of the event as it was
\* read, in the order of the requests, and its payload holds each of them as
\* often as the table was requested, BEFORE ahead of AFTER and then by bytes;
\* without repeats the payloads are the fact itself.
THEOREM TriggerOrdersKept == ASSUME ExactNames PROVE Spec => []TriggerOrdersAgree
<1>1. PointInv => TriggerOrdersAgree
  <2> SUFFICES ASSUME PointInv, "Triggers" \in DOMAIN facts PROVE TriggerOrdersAgree
    BY DEF TriggerOrdersAgree, Returned
  <2>1. PICK seen : seen = at["Triggers"]
    OBVIOUS
  <2>2. /\ IsSeen(seen) /\ Valid /\ requested \in Seq(Name \cup {EmptyName})
        /\ facts["Triggers"] = Triggers(seen)
    <3>1. facts["Triggers"] = FactsOf("Triggers", seen) /\ IsSeen(seen)
      BY <2>1 DEF PointInv, AsRead
    <3>2. FactsOf("Triggers", seen) = Triggers(seen)
      BY DEF FactsOf
    <3>3. facts # <<>>
      OBVIOUS
    <3> QED BY <3>1, <3>2, <3>3 DEF PointInv
  <2>3. PICK l \in Nat : l = Len(requested) /\ DOMAIN requested = 1..l
    BY <2>2
  <2>4. PICK lists : lists = [k \in DOMAIN requested |-> TriggersOf(requested[k], seen[requested[k]])]
    OBVIOUS
  <2>5. /\ Grouped(lists, l, requested) /\ DOMAIN lists = 1..l
        /\ \A i \in 1..l : ListOf(lists[i], requested[i], Firing(seen[requested[i]]))
    <3>1. ListsOf(seen, lists)
      BY <2>2, <2>4, TriggerLists
    <3> QED BY <2>3, <2>4, <3>1 DEF ListsOf
  <2>6. PICK found : found = facts["Triggers"] /\ found = Flattened(lists)
    BY <2>2, <2>4 DEF Triggers
  <2>7. PICK findings : findings = CheckTriggersPresent(found, Event)
    OBVIOUS
  <2>8. \A i \in 1..l : /\ \A j \in DOMAIN lists[i] : lists[i][j].event = Event
                        /\ DOMAIN lists[i] # {} <=> Firing(seen[requested[i]]) # {}
    <3> SUFFICES ASSUME NEW i \in 1..l
                 PROVE  /\ \A j \in DOMAIN lists[i] : lists[i][j].event = Event
                        /\ DOMAIN lists[i] # {} <=> Firing(seen[requested[i]]) # {}
      OBVIOUS
    <3>1. PICK T : T = Firing(seen[requested[i]])
      OBVIOUS
    <3>2. PICK xs : xs = lists[i]
      OBVIOUS
    <3>3. ListOf(xs, requested[i], T)
      BY <2>5, <3>1, <3>2
    <3>4. /\ DOMAIN xs = 1..Cardinality(T) /\ Cardinality(T) \in Nat
          /\ T = {} <=> Cardinality(T) = 0
          /\ \A j \in 1..Cardinality(T) : xs[j].event = Event
      BY <3>3 DEF ListOf
    <3>5. DOMAIN xs # {} <=> T # {}
      BY <3>4
    <3> QED BY <3>1, <3>2, <3>4, <3>5
  <2>9. PICK m \in Nat : \E g \in [1..m -> 1..l] : ByAsk(findings, found, lists, l, m, g)
    BY <2>5, <2>6, <2>7, <2>8, FindingsByAsk
  <2>10. PICK g \in [1..m -> 1..l] : ByAsk(findings, found, lists, l, m, g)
    BY <2>9
  <2>11. /\ \A j, k \in 1..m : j < k => g[j] < g[k]
         /\ findings = [k \in 1..m |-> Finding(found, requested[g[k]])]
         /\ \A k \in 1..m : Firing(seen[requested[g[k]]]) # {}
    BY <2>8, <2>10 DEF ByAsk
  <2>12. \A k \in 1..m : \A j \in 1..l : requested[j] = requested[g[k]] => g[k] <= j
    BY <2>10 DEF ByAsk
  <2>13. \A i \in 1..l : Firing(seen[requested[i]]) # {} => \E k \in 1..m : requested[g[k]] = requested[i]
    BY <2>8, <2>10 DEF ByAsk
  <2>14. \A k \in 1..m : /\ findings[k].table = requested[g[k]]
                         /\ findings[k].facts = SortTriggers(Chosen(found, TableOf(found, requested[g[k]])))
    BY <2>11 DEF Finding
  <2>15. DOMAIN findings = 1..m
    BY <2>11
  <2>16. {findings[k].table : k \in DOMAIN findings} = {n \in Elements(requested) : Firing(seen[n]) # {}}
    <3>1. ASSUME NEW k \in 1..m
          PROVE  findings[k].table \in Elements(requested) /\ Firing(seen[findings[k].table]) # {}
      BY <2>3, <2>11, <2>14 DEF Elements
    <3>2. ASSUME NEW n \in Elements(requested), Firing(seen[n]) # {}
          PROVE  \E k \in 1..m : findings[k].table = n
      <4>1. PICK i \in 1..l : n = requested[i]
        BY <2>3 DEF Elements
      <4> QED BY <2>13, <2>14, <3>2, <4>1
    <3>3. \A x : x \in {findings[k].table : k \in DOMAIN findings}
                  <=> x \in {n \in Elements(requested) : Firing(seen[n]) # {}}
      BY <2>15, <3>1, <3>2
    <3> QED BY <3>3
  <2>17. \A k \in 1..m : FirstAskFor(findings[k].table) = g[k]
    <3> SUFFICES ASSUME NEW k \in 1..m PROVE FirstAskFor(findings[k].table) = g[k]
      OBVIOUS
    <3>1. PICK A : A = AsksFor(findings[k].table)
      OBVIOUS
    <3>2. g[k] \in A /\ A \subseteq 1..l /\ \A j \in A : g[k] <= j
      BY <2>3, <2>12, <2>14, <3>1 DEF AsksFor
    <3>3. \A x \in A : (\A j \in A : x <= j) => x = g[k]
      BY <3>2
    <3> QED BY <3>1, <3>2, <3>3 DEF FirstAskFor
  <2>18. \A j, k \in DOMAIN findings : j < k => FirstAskFor(findings[j].table) < FirstAskFor(findings[k].table)
    BY <2>11, <2>15, <2>17
  <2>19. \A k \in 1..m : PayloadFor(findings[k].facts, Firing(seen[findings[k].table]),
           Cardinality(Firing(seen[findings[k].table])) * Cardinality(AsksFor(findings[k].table)))
    <3> SUFFICES ASSUME NEW k \in 1..m
                 PROVE  PayloadFor(findings[k].facts, Firing(seen[findings[k].table]),
                          Cardinality(Firing(seen[findings[k].table])) * Cardinality(AsksFor(findings[k].table)))
      OBVIOUS
    <3>1. PICK i \in 1..l : i = g[k]
      OBVIOUS
    <3>2. PICK T : T = Firing(seen[requested[i]])
      OBVIOUS
    <3>3. PICK payload : payload = SortTriggers(Chosen(found, TableOf(found, requested[i])))
      OBVIOUS
    <3>4. ListOf(lists[i], requested[i], T)
      BY <2>5, <3>2
    <3>5. PayloadFor(payload, T, Cardinality(T) * Cardinality({j \in 1..l : requested[j] = requested[i]}))
      BY <2>5, <2>6, <3>3, <3>4, PayloadOf
    <3>6. findings[k].table = requested[i] /\ findings[k].facts = payload
      BY <2>14, <3>1, <3>3
    <3>7. AsksFor(requested[i]) = {j \in 1..l : requested[j] = requested[i]}
      BY <2>3 DEF AsksFor
    <3> QED BY <3>2, <3>5, <3>6, <3>7
  <2>20. Cardinality(Elements(requested)) = Len(requested) =>
           found = Flattened([k \in DOMAIN findings |-> findings[k].facts])
    <3> SUFFICES ASSUME Cardinality(Elements(requested)) = l
                 PROVE  found = Flattened([k \in DOMAIN findings |-> findings[k].facts])
      BY <2>3
    <3>1. \A i, j \in 1..l : requested[i] = requested[j] => i = j
      BY <2>3, NoRepeat
    <3>2. \A k \in 1..m : findings[k].facts = lists[g[k]]
      <4> SUFFICES ASSUME NEW k \in 1..m PROVE findings[k].facts = lists[g[k]]
        OBVIOUS
      <4>1. PICK i \in 1..l : i = g[k]
        OBVIOUS
      <4>2. PICK T : T = Firing(seen[requested[i]])
        OBVIOUS
      <4>3. PICK xs : xs = lists[i]
        OBVIOUS
      <4>4. ListOf(xs, requested[i], T)
        BY <2>5, <4>2, <4>3
      <4>5. PICK size \in Nat : size = Cardinality(T)
        BY <4>4 DEF ListOf
      <4>6. xs = [j \in 1..size |-> xs[j]]
        BY <4>4, <4>5 DEF ListOf
      <4>7. \A j \in 1..l : requested[j] = requested[i] => j = i
        BY <3>1
      <4>8. PICK c \in Nat : \E entry \in [1..c -> Entries(lists)] : Through(lists, l, c, entry)
        BY <2>5, FlattenedEntries DEF Grouped
      <4>9. PICK entry \in [1..c -> Entries(lists)] : Through(lists, l, c, entry)
        BY <4>8
      <4>10. Chosen(found, TableOf(found, requested[i])) = lists[i]
        <5>1. lists[i] \in Seq(Elements(lists[i]))
          <6>1. xs \in Seq(Elements(xs))
            <7>1. PICK E : E = Elements(xs)
              OBVIOUS
            <7>2. \A j \in 1..size : xs[j] \in E
              BY <4>6, <7>1 DEF Elements
            <7>3. xs \in [1..size -> E]
              BY ONLY <4>6, <7>2
            <7>4. \A S : \A f \in [1..size -> S] : f \in Seq(S)
              OBVIOUS
            <7> QED BY <7>1, <7>3, <7>4
          <6> QED BY <4>3, <6>1
        <5>2. Grouped(lists, l, requested) /\ found = Flattened(lists)
          BY <2>5, <2>6
        <5> QED BY <4>7, <4>9, <5>1, <5>2, OneList, SMTT(40)
      <4>11. SortTriggers(xs) = xs
        BY <4>4, PayloadAlready
      <4> QED BY <2>14, <4>1, <4>3, <4>10, <4>11
    <3>3. \A i \in 1..l : DOMAIN lists[i] # {} => \E k \in 1..m : g[k] = i
      <4> SUFFICES ASSUME NEW i \in 1..l, DOMAIN lists[i] # {} PROVE \E k \in 1..m : g[k] = i
        OBVIOUS
      <4>1. PICK k \in 1..m : requested[g[k]] = requested[i]
        BY <2>8, <2>13
      <4> QED BY <3>1, <4>1
    <3>4. \A i \in 1..l : \E n \in Nat : DOMAIN lists[i] = 1..n
      BY <2>5 DEF Grouped
    <3>5. Flattened([k \in 1..m |-> lists[g[k]]]) = Flattened(lists)
      BY <2>5, <2>11, <3>3, <3>4, FlattenedSome
    <3>6. [k \in DOMAIN findings |-> findings[k].facts] = [k \in 1..m |-> lists[g[k]]]
      BY <2>15, <3>2
    <3> QED BY <2>6, <3>5, <3>6
  <2> QED
    <3>1. facts["Triggers"] = found /\ seen = at["Triggers"] /\ findings = CheckTriggersPresent(found, Event)
      BY <2>1, <2>6, <2>7
    <3>2. {CheckTriggersPresent(facts["Triggers"], Event)[k].table :
             k \in DOMAIN CheckTriggersPresent(facts["Triggers"], Event)}
          = {n \in Elements(requested) : Firing(at["Triggers"][n]) # {}}
      BY <2>16, <3>1
    <3>3. \A j, k \in DOMAIN CheckTriggersPresent(facts["Triggers"], Event) : j < k =>
            FirstAskFor(CheckTriggersPresent(facts["Triggers"], Event)[j].table)
              < FirstAskFor(CheckTriggersPresent(facts["Triggers"], Event)[k].table)
      BY <2>18, <3>1
    <3>4. \A k \in DOMAIN CheckTriggersPresent(facts["Triggers"], Event) :
            PayloadFor(CheckTriggersPresent(facts["Triggers"], Event)[k].facts,
              Firing(at["Triggers"][CheckTriggersPresent(facts["Triggers"], Event)[k].table]),
              Cardinality(Firing(at["Triggers"][CheckTriggersPresent(facts["Triggers"], Event)[k].table]))
                * Cardinality(AsksFor(CheckTriggersPresent(facts["Triggers"], Event)[k].table)))
      BY <2>15, <2>19, <3>1
    <3>5. \A k \in DOMAIN CheckTriggersPresent(facts["Triggers"], Event) :
           LET table == CheckTriggersPresent(facts["Triggers"], Event)[k].table
               payload == CheckTriggersPresent(facts["Triggers"], Event)[k].facts
           IN /\ {t.name : t \in Elements(payload)} = {t.name : t \in Firing(at["Triggers"][table])}
              /\ Len(payload) = Cardinality(Firing(at["Triggers"][table])) * Cardinality(AsksFor(table))
              /\ \A i, j \in DOMAIN payload : i < j =>
                   IF payload[i].timing = payload[j].timing
                   THEN ByteRank[payload[i].name] <= ByteRank[payload[j].name]
                   ELSE payload[i].timing = "BEFORE"
      BY <3>4 DEF PayloadFor
    <3>6. Cardinality(Elements(requested)) = Len(requested) =>
            facts["Triggers"] = Flattened([k \in DOMAIN CheckTriggersPresent(facts["Triggers"], Event) |->
                                            CheckTriggersPresent(facts["Triggers"], Event)[k].facts])
      BY <2>20, <3>1
    <3> QED BY <3>2, <3>3, <3>5, <3>6 DEF TriggerOrdersAgree, Returned, AsksFor, FirstAskFor
<1> QED BY <1>1, PointInvariance, PTL

=============================================================================
