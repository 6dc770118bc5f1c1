----------------------------- MODULE PointReads -----------------------------
(***************************************************************************)
(* The facts of one statement each over a list of requested tables, Tables,  *)
(* PrimaryKeys, InvisibleColumns, Columns and Triggers                      *)
(* (pkg/validations/tables.go, checks_pk.go, columns.go,                    *)
(* checks_triggers.go), the two shapes of their statement (predicate.go),   *)
(* and the checks a preflight runs over what they return, while objects     *)
(* come, go and become visible between the calls.  In a schema no           *)
(* information_schema column can hold every name is Absent, and that answer *)
(* needs no statement.  Which triggers the account may see is TriggerGate's *)
(* question.                                                                *)
(***************************************************************************)
EXTENDS Lists

CONSTANTS
  Name,             \* spellings of object names
  Folded,           \* the names the server's collation equates: Folded[n]
  Unrepresentable,  \* spellings no information_schema name column can hold
  Option,           \* Option[n]: the objects n may denote, Absent among them
  Absent,           \* no object, or none the account may see
  Request,          \* the lists of names requested
  EmptyName,        \* the empty name, which a list may hold by mistake
  Expected,         \* Expected[n]: the key column the caller expects of n, or NoColumn
  NoColumn,
  ColumnFold,       \* ColumnFold[c]: the ASCII-folded spelling of column c
  Event,            \* the trigger event asked about, as the server spells it
  ByteRank,         \* ByteRank[t]: the place of trigger name t in byte order
  ServerRank,       \* ServerRank[t]: its place in the server's own collation
  MaxPointLookup,   \* maxPointLookupTables
  MaxChanges        \* bound: changes of the schema during the preflight

\* What a name may denote: a list of columns, a list of key columns, no two equal
\* but for their case, and triggers, no two of one name.
IsObject(o) ==
  /\ o.columns \in Seq(Elements(o.columns)) /\ o.key \in Seq(Elements(o.key))
  /\ \A c \in Elements(o.columns) : c.invisible \in BOOLEAN
  /\ \A j, k \in DOMAIN o.key : ColumnFold[o.key[j].name] = ColumnFold[o.key[k].name] => j = k
  /\ IsFiniteSet(o.triggers)
  /\ \A t \in o.triggers :
       /\ t.timing \in {"BEFORE", "AFTER"}
       /\ ByteRank[t.name] \in Nat /\ ServerRank[t.name] \in Nat
  /\ \A s, t \in o.triggers :
       ByteRank[s.name] = ByteRank[t.name] \/ ServerRank[s.name] = ServerRank[t.name] => s = t

ASSUME PointReadsAssumption ==
  /\ Unrepresentable \subseteq Name /\ \A n \in Name : Absent \in Option[n]
  /\ \A n \in Unrepresentable : Option[n] = {Absent}
  /\ \A n \in Name : \A o \in Option[n] \ {Absent} : IsObject(o)
  /\ EmptyName \notin Name
  /\ Request \subseteq Seq(Name \cup {EmptyName})
  /\ MaxPointLookup \in Nat /\ MaxChanges \in Nat

VARIABLES
  objects,    \* the object each name denotes for this account
  requested,  \* the list given to every call
  facts,      \* what each call returned
  at,         \* the objects as each call read them
  failed,     \* a call returned an error, and the preflight stopped
  changes     \* changes of the schema so far

pointVars == <<objects, requested, facts, at, failed, changes>>

\* The calls of a preflight, in the order docs/validations.md makes them.
Call == <<"Tables", "PrimaryKeys", "InvisibleColumns", "Columns", "Triggers">>
Returned == DOMAIN facts
Done == \A k \in DOMAIN Call : Call[k] \in Returned

----------------------------------------------------------------------------
(* The statement.                                                          *)

\* requestedObjects: the derived table of distinct names joined for equality,
\* unless a name cannot be bound or there are too many of them.
PointLookup ==
  /\ Elements(requested) \cap Unrepresentable = {}
  /\ Cardinality(Elements(requested)) <= MaxPointLookup

\* A plausible slip: a name is bound as often as it is requested.
BoundEvery == DOMAIN requested

\* narrowNames: the positions whose names become parameters, each name once.
Bound == {k \in DOMAIN requested : \A j \in 1..(k - 1) : requested[j] # requested[k]}

\* How often the statement returns each row of an object: once for every name
\* bound that equals its own, or once in a scan of the schema.
Copies(name) ==
  IF PointLookup THEN Cardinality({k \in Bound : Folded[requested[k]] = Folded[name]}) ELSE 1

\* The rows read for an object, of which rows has one copy each.
RowsOf(name, rows) ==
  [k \in 1..(Len(rows) * Copies(name)) |-> rows[((k - 1) \div Copies(name)) + 1]]

\* What a call sees of the schema is a function seen from names to objects.
Existing(seen) == {n \in Name : seen[n] # Absent}
Bases(seen) == {n \in Existing(seen) : seen[n].type = "BASE TABLE"}

\* The facts in requested order, one for every position whose exact name has one
\* among those found.
OfRequest(found) ==
  LET kept == Chosen(requested, {k \in DOMAIN requested : requested[k] \in DOMAIN found})
  IN [k \in DOMAIN kept |-> found[kept[k]]]

----------------------------------------------------------------------------
(* The facts.                                                              *)

IsIntegerDataType(type) == type \in {"tinyint", "smallint", "mediumint", "int", "integer", "bigint"}

TableInfo(name, o) == [table |-> name, type |-> o.type, engine |-> o.engine]

\* A plausible slip: the kind of a key is that of its first row.
PKKindFirst(columns) == IF columns = <<>> THEN "none" ELSE "single"

PKKind(columns) ==
  CASE Len(columns) = 0 -> "none" [] Len(columns) = 1 -> "single" [] OTHER -> "composite"

\* The columns in key order; type and sign are those of a single column only.
PKInfo(name, o) ==
  LET rows == RowsOf(name, o.key)
      kind == PKKind([k \in DOMAIN rows |-> rows[k].name])
  IN [table |-> name, kind |-> kind, columns |-> [k \in DOMAIN rows |-> rows[k].name],
      dataType |-> IF kind = "single" THEN rows[Len(rows)].dataType ELSE "",
      isInteger |-> kind = "single" /\ IsIntegerDataType(rows[Len(rows)].dataType)]

HiddenColumns(o) == Chosen(o.columns, {k \in DOMAIN o.columns : o.columns[k].invisible})
Hiding(seen) == {n \in Existing(seen) : HiddenColumns(seen[n]) # <<>>}
InvisibleColumns(name, o) == [table |-> name, columns |-> RowsOf(name, HiddenColumns(o))]

TableColumns(name, o) == [table |-> name, columns |-> RowsOf(name, o.columns)]

TimingOrder(timing) == CASE timing = "BEFORE" -> 1 [] timing = "AFTER" -> 2 [] OTHER -> 3

\* The order the server sorts a table's triggers in, and the order of sortTriggers.
OrderedBy(rank, left, right) ==
  IF left.timing # right.timing THEN TimingOrder(left.timing) < TimingOrder(right.timing)
  ELSE rank[left.name] < rank[right.name]
TriggerOrder(rank, T) == {p \in T \X T : OrderedBy(rank, p[1], p[2])}

\* The triggers of the event asked about that an object has.
Firing(o) == IF o = Absent THEN {} ELSE {t \in o.triggers : t.event = Event}

TriggerRows(name, o) ==
  LET shown == InOrder(Firing(o), TriggerOrder(ServerRank, Firing(o)))
  IN RowsOf(name, [k \in DOMAIN shown |->
       [table |-> name, name |-> shown[k].name, event |-> shown[k].event, timing |-> shown[k].timing]])

SortTriggers(rows) == SortedBy(rows, TriggerOrder(ByteRank, Elements(rows)))

\* A plausible slip: the statement's ORDER BY is relied upon.
TriggersOfAsRead(name, o) == TriggerRows(name, o)

TriggersOf(name, o) == SortTriggers(TriggerRows(name, o))

\* One entry for each trigger of each requested position.
Triggers(seen) ==
  Flattened([k \in DOMAIN requested |-> TriggersOf(requested[k], seen[requested[k]])])

FactsOf(call, seen) ==
  CASE call = "Tables" -> OfRequest([n \in Existing(seen) |-> TableInfo(n, seen[n])])
    [] call = "PrimaryKeys" -> OfRequest([n \in Bases(seen) |-> PKInfo(n, seen[n])])
    [] call = "InvisibleColumns" -> OfRequest([n \in Hiding(seen) |-> InvisibleColumns(n, seen[n])])
    [] call = "Columns" -> OfRequest([n \in Existing(seen) |-> TableColumns(n, seen[n])])
    [] call = "Triggers" -> Triggers(seen)

----------------------------------------------------------------------------
(* The checks, as the names their findings are about.                      *)

CheckTablesExist == Elements(requested) \ {f.table : f \in Elements(facts["Tables"])}

\* A plausible slip: no engine is taken to mean a view.
CheckStorageEngineNamed ==
  {f.table : f \in {f \in Elements(facts["Tables"]) : f.type = "BASE TABLE" /\ f.engine \notin {"InnoDB", ""}}}

\* Engines compare with ASCII case folded; the expected engine is InnoDB.
CheckStorageEngine ==
  {f.table : f \in {f \in Elements(facts["Tables"]) : f.type = "BASE TABLE" /\ f.engine # "InnoDB"}}

PKs(P(_)) == {f.table : f \in {f \in Elements(facts["PrimaryKeys"]) : P(f)}}
CheckPKExists == PKs(LAMBDA f : f.kind = "none")
CheckPKSingleColumn == PKs(LAMBDA f : f.kind = "composite")
CheckPKIntegerType == PKs(LAMBDA f : f.kind = "single" /\ ~f.isInteger)

Judged(f) == Expected[f.table] # NoColumn /\ f.kind # "none"

\* matchesPKColumn: a column that is the expected one, or folds to it.
CheckPKMatchesExpected ==
  PKs(LAMBDA f : /\ Judged(f)
                 /\ \A c \in Elements(f.columns) : ColumnFold[c] # ColumnFold[Expected[f.table]])

\* A plausible slip: any difference from the expected column counts.
CheckPKNameCaseAny ==
  PKs(LAMBDA f : Judged(f) /\ \E c \in Elements(f.columns) : c # Expected[f.table])

\* hasCaseOnlyPKColumn: a column that folds to the expected one and is not it.
CheckPKNameCase ==
  PKs(LAMBDA f : /\ Judged(f)
                 /\ \E c \in Elements(f.columns) : /\ c # Expected[f.table]
                                                   /\ ColumnFold[c] = ColumnFold[Expected[f.table]])

CheckInvisibleColumns == {f.table : f \in Elements(facts["InvisibleColumns"])}

\* The tables in the order they first appear among the triggers of the event,
\* each with its triggers sorted anew.
CheckTriggersPresent(found, event) ==
  LET trg == Chosen(found, {k \in DOMAIN found : found[k].event = event})
      firsts == {k \in DOMAIN trg : \A j \in 1..(k - 1) : trg[j].table # trg[k].table}
      heads == Chosen(trg, firsts)
      Of(t) == Chosen(trg, {k \in DOMAIN trg : trg[k].table = t})
  IN [k \in DOMAIN heads |->
       [table |-> heads[k].table, facts |-> SortTriggers(Of(heads[k].table))]]

\* Every check is silent.
Cleared ==
  /\ Done
  /\ CheckTablesExist \cup CheckStorageEngine \cup CheckPKExists \cup CheckPKSingleColumn
     \cup CheckPKIntegerType \cup CheckPKMatchesExpected \cup CheckPKNameCase
     \cup CheckInvisibleColumns = {}
  /\ CheckTriggersPresent(facts["Triggers"], Event) = <<>>

----------------------------------------------------------------------------
(* The preflight.                                                          *)

Init ==
  /\ objects \in [Name -> UNION {Option[n] : n \in Name}]
  /\ \A n \in Name : objects[n] \in Option[n]
  /\ requested \in Request
  /\ facts = <<>> /\ at = <<>> /\ failed = FALSE /\ changes = 0

With(f, key, value) == [k \in DOMAIN f \cup {key} |-> IF k = key THEN value ELSE f[k]]

\* Inspector.validate: one empty name refuses the list, before any statement.
Valid == EmptyName \notin Elements(requested)

Read(k) ==
  /\ ~failed /\ Valid
  /\ Call[k] \notin Returned /\ \A l \in 1..(k - 1) : Call[l] \in Returned
  /\ facts' = With(facts, Call[k], FactsOf(Call[k], objects))
  /\ at' = With(at, Call[k], objects)
  /\ UNCHANGED <<objects, requested, failed, changes>>

\* A list that is not valid, no Querier or schema, a failed statement, a row
\* that does not scan.
Fail ==
  /\ ~failed /\ ~Done
  /\ failed' = TRUE
  /\ UNCHANGED <<objects, requested, facts, at, changes>>

\* DDL, or a grant or revocation that changes what the account may see.
Change ==
  /\ changes < MaxChanges
  /\ \E n \in Name : \E o \in Option[n] \ {objects[n]} : objects' = [objects EXCEPT ![n] = o]
  /\ changes' = changes + 1
  /\ UNCHANGED <<requested, facts, at, failed>>

Next == (\E k \in DOMAIN Call : Read(k)) \/ Fail \/ Change

Spec == Init /\ [][Next]_pointVars

----------------------------------------------------------------------------
(* Properties.                                                             *)

\* A key as the server had it: its columns, and that it is one integer column.
SoundKey(o) == Len(o.key) = 1 /\ IsIntegerDataType(o.key[1].dataType)

\* Whichever shape the statement had and however often a name was requested,
\* every fact holds each column of its object once and in order, for the
\* objects of exactly the requested spellings: the predicates only narrow,
\* they never decide (docs/COMPAT.md entry 8; predicate.go, narrowNames).
ShapeNeverDecides ==
  \A call \in Returned \ {"Triggers"} :
    LET then == at[call]
        Wanted(n) == /\ then[n] # Absent
                     /\ call = "PrimaryKeys" => then[n].type = "BASE TABLE"
                     /\ call = "InvisibleColumns" => \E c \in Elements(then[n].columns) : c.invisible
    IN /\ [k \in DOMAIN facts[call] |-> facts[call][k].table] =
            Chosen(requested, {k \in DOMAIN requested : Wanted(requested[k])})
       /\ \A f \in Elements(facts[call]) :
            /\ call = "Columns" => f.columns = then[f.table].columns
            /\ call = "InvisibleColumns" => Len(f.columns) =
                 Cardinality({k \in DOMAIN then[f.table].columns : then[f.table].columns[k].invisible})
            /\ call = "PrimaryKeys" =>
                 /\ f.columns = [k \in DOMAIN then[f.table].key |-> then[f.table].key[k].name]
                 /\ (f.kind = "single" /\ f.isInteger) <=> SoundKey(then[f.table])

\* A preflight without findings over a schema that keeps still: every requested
\* object is a view, or an InnoDB table identified by the one integer column
\* the caller expects, spelled as expected, shows every column it has to
\* SELECT *, and fires no trigger for the event.
ClearedMeansFit ==
  Cleared /\ changes = 0 =>
    \A n \in Elements(requested) :
      /\ n \in Existing(objects)
      /\ n \in Bases(objects) =>
           /\ objects[n].engine = "InnoDB"
           /\ SoundKey(objects[n])
           /\ Firing(objects[n]) = {}
           /\ Expected[n] \in {NoColumn, objects[n].key[1].name}
      /\ \A c \in Elements(objects[n].columns) : ~c.invisible

\* What is left of it while the schema changes: each part holds of the moment
\* its own call read, and a base table that was there for the first call and
\* has no key facts was gone, or no longer a table, by the second.
ClearedWhenRead ==
  Cleared =>
    \A n \in Elements(requested) :
      /\ at["Tables"][n] # Absent
      /\ Firing(at["Triggers"][n]) = {}
      /\ LET o == at["PrimaryKeys"][n] IN
         IF o # Absent /\ o.type = "BASE TABLE"
         THEN SoundKey(o) /\ Expected[n] \in {NoColumn, o.key[1].name}
         ELSE at["Tables"][n].type = "BASE TABLE" => at["PrimaryKeys"][n] # at["Tables"][n]

\* The trigger fact and its check agree on the order and lose nothing: there is
\* a finding for each requested table with a trigger of the event as it was
\* read, in the order of the requests, and its payload holds each of them as
\* often as the table was requested, BEFORE ahead of AFTER and then by bytes;
\* without repeats the payloads are the fact itself (checks_triggers.go,
\* sortTriggers: "so the two agree by construction").
TriggerOrdersAgree ==
  "Triggers" \in Returned =>
    LET findings == CheckTriggersPresent(facts["Triggers"], Event)
        Asks(n) == {k \in DOMAIN requested : requested[k] = n}
        FirstAsk(n) == CHOOSE k \in Asks(n) : \A j \in Asks(n) : k <= j
        Names(trg) == {t.name : t \in trg}
    IN /\ {findings[k].table : k \in DOMAIN findings} =
            {n \in Elements(requested) : Firing(at["Triggers"][n]) # {}}
       /\ \A j, k \in DOMAIN findings : j < k => FirstAsk(findings[j].table) < FirstAsk(findings[k].table)
       /\ \A k \in DOMAIN findings :
            LET table == findings[k].table
                payload == findings[k].facts
            IN /\ Names(Elements(payload)) = Names(Firing(at["Triggers"][table]))
               /\ Len(payload) = Cardinality(Firing(at["Triggers"][table])) * Cardinality(Asks(table))
               /\ \A i, j \in DOMAIN payload : i < j =>
                    IF payload[i].timing = payload[j].timing
                    THEN ByteRank[payload[i].name] <= ByteRank[payload[j].name]
                    ELSE payload[i].timing = "BEFORE"
       /\ Cardinality(Elements(requested)) = Len(requested) =>
            facts["Triggers"] = Flattened([k \in DOMAIN findings |-> findings[k].facts])

\* The two checks of the expected column share no table: a key without the
\* column is one finding, a key with another spelling of it the other, and an
\* exact one neither (CheckPKMatchesExpected, CheckPKNameCase).
CaseIsOneFinding ==
  "PrimaryKeys" \in Returned =>
    /\ CheckPKMatchesExpected \cap CheckPKNameCase = {}
    /\ \A f \in Elements(facts["PrimaryKeys"]) :
         Judged(f) => (Expected[f.table] \in Elements(f.columns) <=>
                         f.table \notin CheckPKMatchesExpected \cup CheckPKNameCase)

=============================================================================
