----------------------------- MODULE MCSpecDiff -----------------------------
(***************************************************************************)
(* Specifications for TLC to compare: one base specification, and others    *)
(* that differ from it in one respect at a time or in names that collide;   *)
(* Id is a case variant of the column id, and IX of the index ix.           *)
(***************************************************************************)
EXTENDS SpecDiff

CONSTANTS id, Id, qty, ix, IX, none, noDefault, empty, now

MCFold == [n \in {id, Id, qty, ix, IX, none} |-> IF n = Id THEN id ELSE IF n = IX THEN ix ELSE n]

Type(base, width, attributes) == [base |-> base, width |-> width, attributes |-> attributes]
PlainFacts == [f \in ColumnFact |-> "plain"]
Column(name, ordinal, type, default, expression, facts) ==
  [name |-> name, ordinal |-> ordinal, type |-> type, default |-> default,
   expression |-> expression, facts |-> facts]
C(name, ordinal) == Column(name, ordinal, Type("int", 0, {}), noDefault, FALSE, PlainFacts)

MCColumns ==
  {<<C(n, 1)>> : n \in {id, Id, qty}}
    \cup {<<C(n, 1), C(m, 2)>> : <<n, m>> \in {nm \in {id, Id, qty} \X {id, Id, qty} : nm[1] # nm[2]}}
    \cup {<<C(nm[1], 1), C(nm[2], 2), C(nm[3], 3)>> : nm \in
             {nm \in {id, Id, qty} \X {id, Id, qty} \X {id, Id, qty} : Cardinality({nm[1], nm[2], nm[3]}) = 3}}
    \cup {<<Column(id, 1, Type(base, width, attributes), noDefault, FALSE, PlainFacts)>> :
            base \in {"int", "tinyint", "decimal"}, width \in {0, 1, 4},
            attributes \in {{}, {"unsigned", "zerofill"}}}
    \cup {<<Column(id, 1, Type("int", 0, {}), d, expression, PlainFacts)>> :
            d \in {noDefault, empty, now}, expression \in BOOLEAN}
    \cup {<<Column(n, 1, Type("int", 0, {}), noDefault, FALSE,
                   [PlainFacts EXCEPT !["Nullability"] = "other"])>> : n \in {id, Id}}

Part(column, rest) == [column |-> column, rest |-> rest]
Index(name, parts, unique) ==
  [name |-> name, parts |-> parts, facts |-> [Uniqueness |-> unique, Type |-> "BTREE", Visibility |-> TRUE]]

MCIndexes ==
  {<<Index(n, <<Part(c, "asc")>>, FALSE)>> : n \in {ix, IX}, c \in {id, Id}}
    \cup {<<>>, <<Index(ix, <<Part(id, "desc")>>, FALSE)>>, <<Index(ix, <<Part(id, "asc")>>, TRUE)>>,
          <<Index(ix, <<Part(id, "asc"), Part(qty, "asc")>>, FALSE)>>,
          <<Index(ix, <<Part(id, "asc")>>, FALSE), Index(IX, <<Part(id, "asc")>>, FALSE)>>}

Check(name, clause) ==
  [name |-> name, kind |-> "check", facts |-> [Clause |-> clause, Enforcement |-> TRUE]]
ForeignKey(name, rules) ==
  [name |-> name, kind |-> "foreignKey", facts |-> [Columns |-> id, Reference |-> qty, Rule |-> rules]]
Unset(name) == [name |-> name, kind |-> "unknown", facts |-> <<>>]

MCConstraints ==
  {<<>>, <<Unset(ix)>>, <<Check(ix, "clause")>>, <<Check(ix, "other")>>, <<ForeignKey(ix, "cascade")>>,
   <<ForeignKey(ix, "restrict")>>, <<Check(ix, "clause"), ForeignKey(IX, "cascade")>>,
   <<Check(IX, "clause"), ForeignKey(ix, "cascade")>>}

\* A CHECK and a foreign key of one name, which MySQL permits.
SharedConstraints ==
  {<<Check(ix, "clause"), ForeignKey(ix, "cascade")>>, <<Check(ix, "clause")>>,
   <<ForeignKey(ix, "cascade")>>, <<>>}

Base == [level |-> [f \in LevelFact |-> "plain"], comment |-> "text",
         columns |-> <<C(id, 1)>>, indexes |-> <<>>, constraints |-> <<>>,
         captured |-> Section]

MCComparedSpec ==
  {[Base EXCEPT !.columns = cs] : cs \in MCColumns}
    \cup {[Base EXCEPT !.columns = <<C(n, 1)>>, !.indexes = xs] : n \in {id, Id}, xs \in MCIndexes}
    \cup {[Base EXCEPT !.constraints = cs] : cs \in MCConstraints}
    \cup {[Base EXCEPT !.comment = IF "Comment" \in sections THEN text ELSE "none",
                       !.captured = sections] :
            text \in {"text", "more"}, sections \in SUBSET Section}
    \cup {[Base EXCEPT !.level["Engine"] = "other"]}

SharedSpec == {[Base EXCEPT !.constraints = cs] : cs \in SharedConstraints}

=============================================================================
