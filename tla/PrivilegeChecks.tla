--------------------------- MODULE PrivilegeChecks ---------------------------
(***************************************************************************)
(* The checks that judge a list with the privilege fact,                    *)
(* CheckTablePrivileges and CheckSchemaPrivileges                           *)
(* (pkg/validations/checks_privileges.go; CheckTriggerVisibility is the     *)
(* former for TRIGGER).  The two scans of the fact that depend on the       *)
(* schema alone are made once for the whole list of tables, and only when   *)
(* some table needs them (grants.go, schemaScanMemo).                       *)
(***************************************************************************)
EXTENDS Grants, Lists

CONSTANTS
  TableRequest,  \* [schema, tables, priv]: calls of CheckTablePrivileges
  SchemaRequest  \* [schema, privs]: calls of CheckSchemaPrivileges

ASSUME RequestAssumption ==
  /\ Table # {}
  /\ \A r \in TableRequest :
       r.schema \in Schema /\ r.tables \in Seq(Table) /\ r.priv \in AnyPrivilege
  /\ \A r \in SchemaRequest : r.schema \in Schema /\ r.privs \in Seq(AnyPrivilege)

\* schemaScanMemo: each scan is the empty set until it was made, and then the
\* set of its one answer.
NoMemo == [pattern |-> {}, variant |-> {}]

\* A plausible slip: a scan that was not needed is remembered as negative.
ScanOnceEager(needed, known, answer) == IF known = {} THEN {needed /\ answer} ELSE known

ScanOnce(needed, known, answer) == IF needed /\ known = {} THEN {answer} ELSE known

\* Grants.tableState with its memo; each downgrade looks at what the one before
\* it left.
TableStateMemo(f, schema, table, priv, memo) ==
  LET exact == Resolve(f, priv, {SourcesAt(f.table, <<schema, table, priv>>),
                                 SourcesAt(f.schema, <<schema, priv>>)})
      patterned == exact = "Absent" /\ ~f.partialRevokes
      pattern == ScanOnce(patterned, memo.pattern, SchemaPatternCovers(f, schema, priv))
      named == Downgrade(Downgrade(exact, patterned /\ TRUE \in pattern),
                         SourcesAt(f.column, <<schema, table, priv>>) # {})
      variant == ScanOnce(named = "Absent", memo.variant, SchemaCaseVariantMatches(f, schema, priv))
  IN [state |-> Downgrade(named, TRUE \in variant \/ TableCaseVariantMatches(f, schema, table, priv)),
      memo |-> [pattern |-> pattern, variant |-> variant]]

\* The findings of a list, one for each position whose state is not GrantPresent.
Findings(items, states) ==
  Chosen([k \in DOMAIN items |-> [item |-> items[k], state |-> states[k]]],
         {k \in DOMAIN items : states[k] # "Present"})

\* One table of the loop: what is remembered so far, and what was found.
Visit(f, schema, priv, loop, table) ==
  LET judged == TableStateMemo(f, schema, table, priv, loop.memo)
      found == [item |-> table, state |-> judged.state]
  IN [memo |-> judged.memo,
      findings |-> IF judged.state = "Present" THEN loop.findings
                   ELSE Append(loop.findings, found)]

CheckTablePrivileges(f, schema, tables, priv) ==
  LET upto[k \in 0..Len(tables)] ==
        IF k = 0 THEN [memo |-> NoMemo, findings |-> <<>>]
        ELSE Visit(f, schema, priv, upto[k - 1], tables[k])
  IN upto[Len(tables)].findings

CheckSchemaPrivileges(f, schema, privs) ==
  Findings(privs, [k \in DOMAIN privs |-> SchemaState(f, schema, privs[k])])

----------------------------------------------------------------------------
(* Properties.                                                             *)

\* The questions a list of tables, or of privileges, amounts to.
TableQuestions(r) ==
  [k \in DOMAIN r.tables |->
     [scope |-> "table", schema |-> r.schema, table |-> r.tables[k], priv |-> r.priv]]

SchemaQuestions(r) ==
  [k \in DOMAIN r.privs |->
     [scope |-> "schema", schema |-> r.schema, table |-> CHOOSE t \in Table : TRUE, priv |-> r.privs[k]]]

\* What a list of questions deserves: the questions not promised present, in
\* their order and as often as they were asked, each with its promised state.
PromisedFindings(items, questions) ==
  Findings(items, [k \in DOMAIN items |-> Promised(questions[k])])

\* On a still server the findings of a list are those of its items asked one at
\* a time, in order and with repeats: nothing the checks remember of one table
\* reaches another's answer.  A fact that was never completed reports every
\* item as unknown (checks_privileges.go; doc.go, fail closed).
FindingsExact ==
  /\ pc = "done" /\ kinds = {} =>
       /\ \A r \in TableRequest :
            CheckTablePrivileges(fact, r.schema, r.tables, r.priv) =
              PromisedFindings(r.tables, TableQuestions(r))
       /\ \A r \in SchemaRequest :
            CheckSchemaPrivileges(fact, r.schema, r.privs) =
              PromisedFindings(r.privs, SchemaQuestions(r))
  /\ pc = "failed" =>
       \A r \in TableRequest :
         CheckTablePrivileges(fact, r.schema, r.tables, r.priv) =
           [k \in DOMAIN r.tables |-> [item |-> r.tables[k], state |-> "Unknown"]]

=============================================================================
