---------------------------- MODULE MCPointReads ----------------------------
(***************************************************************************)
(* items and Items are two tables; items denotes tables with every defect   *)
(* the checks look for, a view, or nothing, and supplementary nothing ever. *)
(***************************************************************************)
EXTENDS PointReads

CONSTANTS items, Items, supplementary, id, ID, note

MCName == {items, Items, supplementary}
Exact == [n \in MCName |-> n]
MCColumnFold == [c \in {id, ID, note, NoColumn} |-> IF c = ID THEN id ELSE c]
MCExpected == [n \in MCName |-> IF n = items THEN id ELSE NoColumn]

Column(n, type, invisible) == [name |-> n, dataType |-> type, invisible |-> invisible]
Object(type, engine, columns, key) ==
  [type |-> type, engine |-> engine, columns |-> columns, key |-> key, triggers |-> {}]
Trigger(n, event, timing) == [name |-> n, event |-> event, timing |-> timing]
Having(o, triggers) == [o EXCEPT !.triggers = triggers]

IntId == Column(id, "int", FALSE)
Note == Column(note, "varchar", FALSE)
Table(columns, key) == Object("BASE TABLE", "InnoDB", columns, key)
Fit == Table(<<IntId, Note>>, <<IntId>>)
\* The server's collation puts a_trg ahead of B_trg, bytes do not.
MCByteRank == [n \in {"B_trg", "a_trg", "c_trg"} |-> CASE n = "B_trg" -> 1 [] n = "a_trg" -> 2 [] OTHER -> 3]
MCServerRank == [n \in {"B_trg", "a_trg", "c_trg"} |-> CASE n = "a_trg" -> 1 [] n = "B_trg" -> 2 [] OTHER -> 3]
Triggered ==
  Having(Fit, {Trigger("B_trg", "DELETE", "BEFORE"), Trigger("a_trg", "DELETE", "BEFORE")})
Mixed == Having(Fit, {Trigger("B_trg", "DELETE", "AFTER"), Trigger("c_trg", "DELETE", "BEFORE"),
                      Trigger("a_trg", "INSERT", "BEFORE")})
Inserting == Having(Fit, {Trigger("a_trg", "INSERT", "BEFORE")})
Other == Having(Table(<<Note>>, <<Note>>), {Trigger("c_trg", "DELETE", "AFTER")})
MCTables ==
  {Fit, Object("BASE TABLE", "MyISAM", <<IntId>>, <<IntId>>), Object("BASE TABLE", "", <<IntId>>, <<IntId>>),
   Table(<<IntId>>, <<>>), Table(<<IntId, Note>>, <<Note, IntId>>),
   Table(<<Column(ID, "bigint", FALSE)>>, <<Column(ID, "bigint", FALSE)>>),
   Table(<<Column(id, "char", FALSE)>>, <<Column(id, "char", FALSE)>>),
   Table(<<Column(note, "int", FALSE)>>, <<Column(note, "int", FALSE)>>),
   Table(<<IntId, Column(note, "varchar", TRUE)>>, <<IntId>>),
   Object("VIEW", "", <<IntId, Note>>, <<>>), Triggered, Mixed, Inserting}
MCOption == [n \in MCName |-> CASE n = items -> MCTables \cup {Absent}
                                [] n = Items -> {Absent, Other} [] OTHER -> {Absent}]

MCRequest ==
  {<<>>, <<items>>, <<items, items>>, <<Items, items>>, <<items, Items, items>>,
   <<items, supplementary>>, <<Items, supplementary, items>>, <<items, EmptyName>>}

=============================================================================
