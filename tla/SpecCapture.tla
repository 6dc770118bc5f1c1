---------------------------- MODULE SpecCapture ----------------------------
(***************************************************************************)
(* Inspector.TableSpec (pkg/validations/spec_capture.go, spec_normalize.go):*)
(* one table described by up to five statements over information_schema,    *)
(* while DDL may replace, drop or recreate it between any two of them.      *)
(***************************************************************************)
EXTENDS Lists

CONSTANTS
  Requested,   \* the table the ref names
  Variant,     \* another spelling of it, the name of a second table
  Definition,  \* what the requested name may denote: a table, a view, nothing
  Neighbour,   \* the definition of the table named Variant
  Loose,       \* whether the server's collation delivers the rows of both
  Rank,        \* the order of index and constraint names
  MaxDdl       \* bound: DDL statements from the call on

IsColumn(c) ==
  /\ c = [f \in DOMAIN c |-> c[f]] /\ c.facts = [f \in DOMAIN c.facts |-> c.facts[f]]
  /\ c.ordinal \in Nat /\ c.expression \in BOOLEAN
  /\ c.facts["AutoIncrement"] \in BOOLEAN /\ c.facts["OnUpdate"] \in BOOLEAN
  /\ c.facts["Visibility"] \in {"visible", "invisible"}
  /\ c.facts["Generated"] \in {"none", "virtual", "stored"}

\* An index has at least one part.
IsIndex(x) ==
  /\ x = [name |-> x.name, facts |-> x.facts, parts |-> x.parts]
  /\ x.parts \in Seq(Elements(x.parts)) /\ x.parts # <<>>
  /\ \A p \in Elements(x.parts) :
       /\ p = [column |-> p.column,
               rest |-> [prefix |-> p.rest.prefix, descending |-> p.rest.descending]]
       /\ p.rest.descending \in BOOLEAN

\* A foreign key has at least one column, each with the column it refers to.
IsForeignKey(c) ==
  /\ c.facts = [Columns |-> c.facts.Columns, Reference |-> c.facts.Reference, Rule |-> c.facts.Rule]
  /\ c.facts.Columns \in Seq(Elements(c.facts.Columns)) /\ c.facts.Columns # <<>>
  /\ c.facts.Reference = <<c.facts.Reference[1],
       [i \in DOMAIN c.facts.Columns |-> c.facts.Reference[2][i]]>>
IsConstraint(c) ==
  /\ c = [name |-> c.name, kind |-> c.kind, facts |-> c.facts]
  /\ c.kind \in {"check", "foreignKey"} /\ (c.kind = "foreignKey" => IsForeignKey(c))

\* Columns stand in the order of their ordinals, indexes and constraints in the
\* order of their names, of which a check and a foreign key may share one.
IsTable(t) ==
  /\ t.type \in {"BASE TABLE", "VIEW", "none"}
  /\ t.columns \in Seq(Elements(t.columns)) /\ t.indexes \in Seq(Elements(t.indexes))
  /\ t.constraints \in Seq(Elements(t.constraints))
  /\ \A c \in Elements(t.columns) : IsColumn(c)
  /\ \A x \in Elements(t.indexes) : IsIndex(x) /\ x.name \in DOMAIN Rank
  /\ \A c \in Elements(t.constraints) : IsConstraint(c) /\ c.name \in DOMAIN Rank
  /\ \A j, k \in DOMAIN t.columns : j < k => t.columns[j].ordinal < t.columns[k].ordinal
  /\ \A j, k \in DOMAIN t.indexes : j < k => Rank[t.indexes[j].name] < Rank[t.indexes[k].name]
  /\ \A j, k \in DOMAIN t.constraints : j < k =>
       \/ Rank[t.constraints[j].name] < Rank[t.constraints[k].name]
       \/ /\ t.constraints[j].name = t.constraints[k].name
          /\ t.constraints[j].kind = "check" /\ t.constraints[k].kind = "foreignKey"

ASSUME SpecCaptureAssumption ==
  /\ Loose \in BOOLEAN /\ MaxDdl \in Nat /\ Requested # Variant
  /\ \A n \in DOMAIN Rank : Rank[n] \in Nat
  /\ \A m, n \in DOMAIN Rank : Rank[m] = Rank[n] => m = n
  /\ IsTable(Neighbour) /\ \A t \in Definition : IsTable(t)

VARIABLES
  table,     \* what the requested name denotes now
  versions,  \* what it has denoted since the call began, oldest first
  request,   \* the optional sections asked for
  pc,        \* the next statement, "idle" or "done"
  spec,      \* the specification as captured so far
  error      \* the error returned

captureVars == <<table, versions, request, pc, spec, error>>

Section == {"Comment", "Index", "Constraint"}
LevelFact == {"Engine", "Charset", "Collation"}
ZeroSpec == [level |-> [f \in LevelFact |-> ""], comment |-> "", columns |-> <<>>, indexes |-> <<>>,
             constraints |-> <<>>, captured |-> {}]

----------------------------------------------------------------------------
(* The rows of information_schema.                                         *)

\* The rows of the name asked for, and where the collation lets them in those of
\* its neighbour.
Delivered(own, others) == IF Loose THEN own \o others ELSE own

TableRows(name, t) == IF t.type = "none" THEN <<>> ELSE <<[table |-> name, definition |-> t]>>

\* COLUMNS.EXTRA, the phrases that apply to a column.
Extra(c) ==
  {phrase \in {"AUTO_INCREMENT", "DEFAULT_GENERATED", "INVISIBLE", "ON UPDATE",
               "VIRTUAL GENERATED", "STORED GENERATED"} :
     CASE phrase = "AUTO_INCREMENT" -> c.facts["AutoIncrement"]
       [] phrase = "DEFAULT_GENERATED" -> c.expression
       [] phrase = "INVISIBLE" -> c.facts["Visibility"] = "invisible"
       [] phrase = "ON UPDATE" -> c.facts["OnUpdate"]
       [] phrase = "VIRTUAL GENERATED" -> c.facts["Generated"] = "virtual"
       [] OTHER -> c.facts["Generated"] = "stored"}

ColumnRows(name, t) ==
  [k \in DOMAIN t.columns |-> [table |-> name, column |-> t.columns[k], extra |-> Extra(t.columns[k])]]
ByOrdinal(R) == {p \in R \X R : p[1].column.ordinal < p[2].column.ordinal}

\* One row for each key part; COLLATION is "D" for a descending one.
IndexRows(name, t) ==
  Flattened([k \in DOMAIN t.indexes |->
    LET x == t.indexes[k] IN
    [i \in DOMAIN x.parts |->
       [table |-> name, name |-> x.name, seq |-> i, facts |-> x.facts,
        column |-> x.parts[i].column, subPart |-> x.parts[i].rest.prefix,
        collation |-> IF x.parts[i].rest.descending THEN "D" ELSE "A"]]])

ConstraintsOf(t, kind) == Chosen(t.constraints, {k \in DOMAIN t.constraints : t.constraints[k].kind = kind})

CheckRows(name, t) ==
  LET checks == ConstraintsOf(t, "check")
  IN [k \in DOMAIN checks |-> [table |-> name, name |-> checks[k].name, seq |-> 1,
                               facts |-> checks[k].facts]]

\* One row for each column of a foreign key.
ForeignKeyRows(name, t) ==
  LET keys == ConstraintsOf(t, "foreignKey")
  IN Flattened([k \in DOMAIN keys |->
       [i \in DOMAIN keys[k].facts.Columns |->
          [table |-> name, name |-> keys[k].name, seq |-> i, rule |-> keys[k].facts.Rule,
           column |-> keys[k].facts.Columns[i], refTable |-> keys[k].facts.Reference[1],
           refColumn |-> keys[k].facts.Reference[2][i]]]])

ByName(R) ==
  {p \in R \X R : \/ Rank[p[1].name] < Rank[p[2].name]
                  \/ p[1].name = p[2].name /\ p[1].seq < p[2].seq}
InNameOrder(rows) == SortedBy(rows, ByName(Elements(rows)))

----------------------------------------------------------------------------
(* What TableSpec makes of the rows.                                       *)

\* A plausible slip: the predicate of the statement is trusted.
MatchesResolvedAlways(row) == TRUE

MatchesResolved(row) == row.table = Requested

Kept(rows) == Chosen(rows, {k \in DOMAIN rows : MatchesResolved(rows[k])})

\* A plausible slip: DEFAULT_GENERATED holds the word GENERATED.
GeneratedKindByWord(extra) ==
  CASE "VIRTUAL GENERATED" \in extra -> "virtual"
    [] "STORED GENERATED" \in extra \/ "DEFAULT_GENERATED" \in extra -> "stored"
    [] OTHER -> "none"

GeneratedKind(extra) ==
  CASE "VIRTUAL GENERATED" \in extra -> "virtual"
    [] "STORED GENERATED" \in extra /\ "VIRTUAL GENERATED" \notin extra -> "stored"
    [] OTHER -> "none"

\* parseColumnExtra, beside the fields a row holds as they are.
CapturedColumn(row) ==
  [row.column EXCEPT
     !.expression = "DEFAULT_GENERATED" \in row.extra,
     !.facts = [@ EXCEPT !["AutoIncrement"] = "AUTO_INCREMENT" \in row.extra,
                         !["Visibility"] = IF "INVISIBLE" \in row.extra THEN "invisible" ELSE "visible",
                         !["OnUpdate"] = "ON UPDATE" \in row.extra,
                         !["Generated"] = GeneratedKind(row.extra)]]

CapturedColumns ==
  LET sent == Delivered(ColumnRows(Requested, table), ColumnRows(Variant, Neighbour))
      rows == Kept(SortedBy(sent, ByOrdinal(Elements(sent))))
  IN [k \in DOMAIN rows |-> CapturedColumn(rows[k])]

\* A plausible slip: a run ends only where the next one begins.
RunsUnflushed(rows) ==
  LET first == Places({k \in DOMAIN rows : k = 1 \/ rows[k].name # rows[k - 1].name})
  IN [r \in 1..(Len(first) - 1) |-> SubSeq(rows, first[r], first[r + 1] - 1)]

\* The maximal runs of consecutive rows of one name.
Runs(rows) ==
  LET first == Places({k \in DOMAIN rows : k = 1 \/ rows[k].name # rows[k - 1].name})
      run(k) == {i \in k..Len(rows) : \A j \in k..i : rows[j].name = rows[k].name}
  IN [r \in DOMAIN first |-> Chosen(rows, run(first[r]))]

\* A plausible slip: SUB_PART is not carried over.
PartNoPrefix(row) ==
  [column |-> row.column, rest |-> [prefix |-> 0, descending |-> row.collation = "D"]]

Part(row) ==
  [column |-> row.column, rest |-> [prefix |-> row.subPart, descending |-> row.collation = "D"]]

CapturedIndexes ==
  LET runs == Runs(Kept(InNameOrder(
                Delivered(IndexRows(Requested, table), IndexRows(Variant, Neighbour)))))
  IN [k \in DOMAIN runs |->
        [name |-> runs[k][1].name, facts |-> runs[k][1].facts,
         parts |-> [i \in DOMAIN runs[k] |-> Part(runs[k][i])]]]

CapturedChecks ==
  LET rows == Kept(InNameOrder(
                Delivered(CheckRows(Requested, table), CheckRows(Variant, Neighbour))))
  IN [k \in DOMAIN rows |-> [name |-> rows[k].name, kind |-> "check", facts |-> rows[k].facts]]

CapturedForeignKeys ==
  LET runs == Runs(Kept(InNameOrder(
                Delivered(ForeignKeyRows(Requested, table), ForeignKeyRows(Variant, Neighbour)))))
  IN [k \in DOMAIN runs |->
        [name |-> runs[k][1].name, kind |-> "foreignKey",
         facts |-> [Columns |-> [i \in DOMAIN runs[k] |-> runs[k][i].column],
                    Reference |-> <<runs[k][1].refTable, [i \in DOMAIN runs[k] |-> runs[k][i].refColumn]>>,
                    Rule |-> runs[k][1].rule]]]

\* sortConstraints: by name, a CHECK before a foreign key of its name.
ByNameAndKind(C) ==
  {p \in C \X C : \/ Rank[p[1].name] < Rank[p[2].name]
                  \/ p[1].name = p[2].name /\ p[1].kind = "check" /\ p[2].kind # "check"}
Sorted(constraints) == SortedBy(constraints, ByNameAndKind(Elements(constraints)))

----------------------------------------------------------------------------
(* The call.                                                               *)

Init ==
  /\ table \in Definition
  /\ versions = <<table>> /\ request = {}
  /\ pc = "idle" /\ spec = ZeroSpec /\ error = "none"

Call ==
  /\ pc = "idle"
  /\ request' \in SUBSET Section
  /\ pc' = "resolve"
  /\ versions' = <<table>>
  /\ UNCHANGED <<table, spec, error>>

Return(err) == pc' = "done" /\ error' = err /\ spec' = ZeroSpec

\* An unusable Inspector, an empty part of the ref, or a spelling no name in
\* MySQL can have, for which no statement is issued.
Refuse ==
  /\ pc = "idle"
  /\ \/ Return("InvalidInspector")
     \/ Return("InvalidTableRef")
     \/ table.type = "none" /\ Return("NotFound")
  /\ versions' = <<table>>
  /\ UNCHANGED <<table, request>>

Resolved == Kept(Delivered(TableRows(Requested, table), TableRows(Variant, Neighbour)))

Resolve ==
  /\ pc = "resolve"
  /\ LET rows == Resolved
         found == rows[Len(rows)].definition
     IN IF rows = <<>> THEN Return("NotFound")
        ELSE IF found.type # "BASE TABLE" THEN Return("Unsupported")
        ELSE /\ spec' = [ZeroSpec EXCEPT
                           !.level = found.level, !.captured = request,
                           !.comment = IF "Comment" \in request THEN found.comment ELSE ""]
             /\ pc' = "columns" /\ error' = error
  /\ UNCHANGED <<table, versions, request>>

After(stage) ==
  LET constraints == IF "Constraint" \in request THEN "checks" ELSE "done"
  IN CASE stage = "columns" -> IF "Index" \in request THEN "indexes" ELSE constraints
       [] stage = "indexes" -> constraints
       [] stage = "checks" -> "foreignKeys"
       [] stage = "foreignKeys" -> "done"

Answered(stage) ==
  /\ pc = stage /\ pc' = After(stage)
  /\ UNCHANGED <<table, versions, request, error>>

CaptureColumns == Answered("columns") /\ spec' = [spec EXCEPT !.columns = CapturedColumns]
CaptureIndexes == Answered("indexes") /\ spec' = [spec EXCEPT !.indexes = CapturedIndexes]
CaptureCheckConstraints ==
  Answered("checks") /\ spec' = [spec EXCEPT !.constraints = CapturedChecks]
CaptureForeignKeyConstraints ==
  Answered("foreignKeys") /\ spec' = [spec EXCEPT !.constraints = Sorted(@ \o CapturedForeignKeys)]

\* A statement that fails, a row that does not scan, an iteration cut short.
Fail ==
  /\ pc \notin {"idle", "done"}
  /\ Return("Failed")
  /\ UNCHANGED <<table, versions, request>>

\* ALTER, DROP, CREATE or RENAME of what the name denotes.  What comes after the
\* call cannot affect it.
Ddl ==
  /\ pc \notin {"idle", "done"} /\ Len(versions) <= MaxDdl
  /\ table' \in Definition \ {table}
  /\ versions' = Append(versions, table')
  /\ UNCHANGED <<request, pc, spec, error>>

Capture ==
  \/ Call \/ Refuse \/ Resolve \/ Fail
  \/ CaptureColumns \/ CaptureIndexes \/ CaptureCheckConstraints \/ CaptureForeignKeyConstraints

Next == Capture \/ Ddl

Spec == Init /\ [][Next]_captureVars

----------------------------------------------------------------------------
(* Properties.                                                             *)

Only(t, kind) == Sorted(ConstraintsOf(t, kind))

\* The whole of a table, as far as sections are asked for.
SpecOf(t, sections) ==
  [level |-> t.level, columns |-> t.columns, captured |-> sections,
   comment |-> IF "Comment" \in sections THEN t.comment ELSE "",
   indexes |-> IF "Index" \in sections THEN t.indexes ELSE <<>>,
   constraints |-> IF "Constraint" \in sections THEN Sorted(t.constraints) ELSE <<>>]

\* A call goes through its statements in order, and an error comes with no
\* specification, never with the part of one already read.
TypeOK ==
  /\ table \in Definition /\ versions \in Seq(Definition) /\ table = versions[Len(versions)]
  /\ request \subseteq Section
  /\ pc \in {"idle", "resolve", "columns", "indexes", "checks", "foreignKeys", "done"}
  /\ error \in {"none", "InvalidInspector", "InvalidTableRef", "NotFound", "Unsupported", "Failed"}
  /\ spec.captured \in {{}, request}
  /\ error # "none" => pc = "done" /\ spec = ZeroSpec

\* While no DDL runs the specification is the table's, row for row, of the
\* exact spelling, in the sections asked for; a table that is not there, and a
\* view, are errors of their own, and no other table yields them (TableSpec).
QuietSpecExact ==
  pc = "done" /\ Len(versions) = 1 =>
    /\ error = "none" => table.type = "BASE TABLE" /\ spec = SpecOf(table, request)
    /\ error = "NotFound" => table.type = "none"
    /\ error = "Unsupported" => table.type = "VIEW"

\* Each statement's rows amount to the section as the table has it at that
\* moment of the call, whatever rows of a neighbour the collation lets in: no row
\* is lost or split between two objects, and every phrase of EXTRA is one fact.
RowsFaithful ==
  pc \notin {"idle", "done"} =>
    /\ Resolved = TableRows(Requested, table)
    /\ CapturedColumns = table.columns
    /\ CapturedIndexes = table.indexes
    /\ CapturedChecks = Only(table, "check")
    /\ CapturedForeignKeys = Only(table, "foreignKey")
    /\ Sorted(Only(table, "check") \o Only(table, "foreignKey")) = Sorted(table.constraints)

\* Under DDL each section is still that of one moment of the call, and no
\* section is older than one read before it.
SectionsInOrder ==
  pc = "done" /\ error = "none" =>
    \E i \in DOMAIN versions : \E j \in i..Len(versions) : \E k \in j..Len(versions) :
    \E l \in k..Len(versions) : \E m \in l..Len(versions) :
      /\ versions[i].type = "BASE TABLE" /\ spec.level = versions[i].level
      /\ "Comment" \in request => spec.comment = versions[i].comment
      /\ spec.columns = versions[j].columns
      /\ "Index" \in request => spec.indexes = versions[k].indexes
      /\ "Constraint" \in request =>
           spec.constraints = Sorted(Only(versions[l], "check") \o Only(versions[m], "foreignKey"))

=============================================================================
