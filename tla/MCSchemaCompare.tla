-------------------------- MODULE MCSchemaCompare --------------------------
(***************************************************************************)
(* On the source the name denotes nothing, a view, a table without indexes  *)
(* whose constraints share a name, or one with every kind of column, index  *)
(* part and constraint.  On the destination it denotes nothing, that last   *)
(* table, or one that differs from it: in a column; in all sections but the *)
(* columns, which an older server shows with a display width; in an index's *)
(* direction and by a constraint.                                           *)
(***************************************************************************)
EXTENDS SchemaCompare

CONSTANTS items, Items, id, name, full, PRIMARY, ix, chk, fk, other, none, noDefault, now

MCFold == [n \in {id, name, full, PRIMARY, ix, none} |-> n]
MCRank == [n \in {PRIMARY, chk, fk, ix} |->
             CASE n = PRIMARY -> 1 [] n = chk -> 2 [] n = fk -> 3 [] OTHER -> 4]

Level(engine) == [f \in LevelFact |-> IF f = "Engine" THEN engine ELSE "utf8mb4"]

Facts(generated, onUpdate, visibility, auto) ==
  [f \in {"Nullability", "Charset", "Collation", "Visibility", "Generated",
          "GenerationExpr", "AutoIncrement", "OnUpdate"} |->
     CASE f = "Visibility" -> visibility [] f = "Generated" -> generated
       [] f = "AutoIncrement" -> auto [] f = "OnUpdate" -> onUpdate [] OTHER -> "plain"]

Column(n, ordinal, width, default, expression, facts) ==
  [name |-> n, ordinal |-> ordinal, type |-> [base |-> "int", width |-> width, attributes |-> {}],
   default |-> default, expression |-> expression, facts |-> facts]
Key(width) == Column(id, 1, width, noDefault, FALSE, Facts("none", FALSE, "visible", TRUE))
Stamp(expression) == Column(name, 2, 0, now, expression, Facts("none", TRUE, "visible", FALSE))
Derived(ordinal, kind) == Column(full, ordinal, 0, noDefault, FALSE, Facts(kind, FALSE, "invisible", FALSE))

KeyPart(c, prefix, descending) ==
  [column |-> c, rest |-> [prefix |-> prefix, descending |-> descending]]
Index(n, parts, unique) ==
  [name |-> n, parts |-> parts, facts |-> [Uniqueness |-> unique, Type |-> "BTREE", Visibility |-> TRUE]]
Check(n, clause) ==
  [name |-> n, kind |-> "check", facts |-> [Clause |-> clause, Enforcement |-> TRUE]]
ForeignKey(n, columns) ==
  [name |-> n, kind |-> "foreignKey",
   facts |-> [Columns |-> columns, Reference |-> <<other, columns>>, Rule |-> "cascade"]]

Define(type, engine, comment, columns, indexes, constraints) ==
  [type |-> type, level |-> Level(engine), comment |-> comment, columns |-> columns,
   indexes |-> indexes, constraints |-> constraints]

Indexes(prefix, descending) ==
  <<Index(PRIMARY, <<KeyPart(id, 0, FALSE), KeyPart(name, prefix, descending)>>, TRUE),
    Index(ix, <<KeyPart(name, 0, TRUE)>>, FALSE)>>

Nothing == Define("none", "", "", <<>>, <<>>, <<>>)
View == Define("VIEW", "", "view", <<Key(0)>>, <<>>, <<>>)
Small == Define("BASE TABLE", "MyISAM", "small", <<Key(0), Stamp(TRUE), Derived(3, "virtual")>>, <<>>,
                <<Check(chk, "small"), Check(fk, "a"), ForeignKey(fk, <<id, name>>)>>)
Large == Define("BASE TABLE", "InnoDB", "large", <<Key(0), Stamp(TRUE), Derived(3, "virtual")>>,
                Indexes(5, TRUE), <<Check(chk, "a"), ForeignKey(fk, <<id, name>>), ForeignKey(ix, <<name>>)>>)
MCDefinition == {Nothing, View, Small, Large}

MCNeighbour ==
  Define("BASE TABLE", "Neighbour", "neighbour", <<Derived(1, "stored")>>,
         <<Index(PRIMARY, <<KeyPart(full, 0, FALSE)>>, TRUE)>>, <<Check(chk, "b"), ForeignKey(fk, <<full>>)>>)

\* The respects are spread over the sections, which are asked for apart.
MCDestinationDefinition ==
  {Nothing, Large, [Large EXCEPT !.columns[2] = Stamp(FALSE)],
   [Large EXCEPT !.columns[1] = Key(11), !.comment = "other", !.indexes = Indexes(0, TRUE),
                 !.constraints[1] = Check(chk, "b")],
   [Large EXCEPT !.indexes = Indexes(5, FALSE), !.constraints = SubSeq(@, 1, 2)]}

=============================================================================
