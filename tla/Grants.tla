------------------------------- MODULE Grants -------------------------------
(***************************************************************************)
(* Inspector.Grants and the answers of the assembled fact                  *)
(* (pkg/validations/grants.go).  The fact is read by seven statements with *)
(* nothing but the caller's Querier between them: CURRENT_USER(), the      *)
(* enabled roles, @@global.partial_revokes, then the global, schema, table *)
(* and column privilege tables.  Each statement runs on a session the      *)
(* Querier picks, sees the server as it is at that instant, and may fail.  *)
(***************************************************************************)
EXTENDS PrivilegeServer

CONSTANTS
  Asked,         \* the questions whose answers are checked
  GranteeText,   \* GranteeText[a]: formatCurrentUserGrantee of a's CURRENT_USER()
  NoText         \* a grantee text no row carries

\* An account whose host contains '@' is formatted into a text that is not its
\* own; docs/LIMITATIONS.md says it then matches none of its rows.
ASSUME GranteeTextAssumption ==
  /\ NoText \notin Grantee
  /\ Asked \subseteq Question
  /\ GranteeText \in [Grantee -> Grantee \cup {NoText}]
  /\ \A g \in Grantee : GranteeText[g] \in {g, NoText}

VARIABLES
  pc,        \* the statement the call runs next, or how it ended
  fact,      \* the Grants value under construction, and returned
  held       \* history: questions that were certainly true at some moment

vars == <<serverVars, pc, fact, held>>

Affinity == {"opaque", "pool", "pinned"}
Source == {"account", "role", "anonymous"}
GrantState == {"Unknown", "Present", "Absent", "Unconfirmed"}

Reading == {"currentUser", "enabledRoles", "partialRevokes", "global", "schema",
            "table", "column"}
Stage == {"idle", "done", "failed"} \cup Reading

\* The zero Grants a call returns with an error.
ZeroGrants ==
  [populated |-> FALSE, affinity |-> "opaque", partialRevokes |-> FALSE,
   account |-> NoText, roles |-> {}, global |-> {}, schema |-> {}, table |-> {},
   column |-> {}]

GlobalKey == AnyPrivilege
SchemaKey == Schema \X AnyPrivilege
TableKey == Schema \X Table \X AnyPrivilege

\* Each map from a key to a bit set of sources is a set of <<key, source>>.
FactType ==
  [populated: BOOLEAN, affinity: Affinity, partialRevokes: BOOLEAN,
   account: Grantee \cup {NoText}, roles: SUBSET Grantee,
   global: SUBSET (GlobalKey \X Source), schema: SUBSET (SchemaKey \X Source),
   table: SUBSET (TableKey \X Source), column: SUBSET (TableKey \X Source)]

----------------------------------------------------------------------------
(* The pure answers of the fact.                                           *)

SourcesAt(map, key) == {src \in Source : <<key, src>> \in map}

\* sourceFor: the account first, then an enabled role, then a blank user.
SourceFor(f, grantee) ==
  IF grantee = f.account THEN "account"
  ELSE IF grantee \in f.roles THEN "role"
  ELSE IF grantee \in Anonymous THEN "anonymous"
  ELSE "none"

\* A plausible slip: the Querier's affinity is not consulted.
StateForSourcesOpaque(f, sources) ==
  IF "account" \in sources THEN "Present"
  ELSE IF sources = {} THEN "Absent"
  ELSE "Unconfirmed"

StateForSources(f, sources) ==
  IF "account" \in sources /\ f.affinity \in {"pinned", "pool"} THEN "Present"
  ELSE IF sources = {} THEN "Absent"
  ELSE "Unconfirmed"

\* Plausible slips: a global SELECT is trusted under partial revokes; every
\* row is assumed visible.
BroadVisibilityUnderRevokes(f) ==
  \/ "account" \in SourcesAt(f.schema, <<MySqlSchema, Select>>)
  \/ "account" \in SourcesAt(f.global, Select)

BroadVisibilityAssumed(f) == f.populated

BroadVisibility(f) ==
  \/ "account" \in SourcesAt(f.schema, <<MySqlSchema, Select>>)
  \/ ~f.partialRevokes /\ "account" \in SourcesAt(f.global, Select)

\* A plausible slip: a global grant is proof even under partial revokes.
ResolveTrustingGlobal(f, priv, specific) ==
  LET states == {StateForSources(f, sources) :
                   sources \in specific \cup {SourcesAt(f.global, priv)}}
      undecidable == f.roles # {} \/ f.affinity # "pinned" \/ ~BroadVisibility(f)
  IN IF priv \notin Privilege \/ ~f.populated THEN "Unknown"
     ELSE IF "Present" \in states THEN "Present"
     ELSE IF "Unconfirmed" \in states \/ undecidable THEN "Unconfirmed"
     ELSE "Absent"

Resolve(f, priv, specific) ==
  LET global == SourcesAt(f.global, priv)
      states == {StateForSources(f, sources) : sources \in specific}
                  \cup (IF f.partialRevokes
                        THEN {IF global = {} THEN "Absent" ELSE "Unconfirmed"}
                        ELSE {StateForSources(f, global)})
      undecidable == \/ f.roles # {}
                     \/ f.affinity # "pinned"
                     \/ ~BroadVisibility(f)
  IN IF priv \notin Privilege \/ ~f.populated THEN "Unknown"
     ELSE IF "Present" \in states THEN "Present"
     ELSE IF "Unconfirmed" \in states \/ undecidable THEN "Unconfirmed"
     ELSE "Absent"

\* schemaPatternCovers: another stored schema name matches as a pattern.
SchemaPatternCovers(f, schema, priv) ==
  \E stored \in Schema \ {schema} :
    <<stored, schema>> \in Covers /\ SourcesAt(f.schema, <<stored, priv>>) # {}

SchemaCaseVariantMatches(f, schema, priv) ==
  \E stored \in Schema \ {schema} :
    /\ SchemaFold[stored] = SchemaFold[schema]
    /\ SourcesAt(f.schema, <<stored, priv>>) # {}

TableCaseVariantMatches(f, schema, table, priv) ==
  \E s \in Schema, t \in Table :
    /\ <<s, t>> # <<schema, table>>
    /\ SchemaFold[s] = SchemaFold[schema]
    /\ TableFold[t] = TableFold[table]
    /\ \/ SourcesAt(f.table, <<s, t, priv>>) # {}
       \/ SourcesAt(f.column, <<s, t, priv>>) # {}

\* A downgrade only ever turns an absence into uncertainty.
Downgrade(state, weaker) == IF state = "Absent" /\ weaker THEN "Unconfirmed" ELSE state

Global(f, priv) == Resolve(f, priv, {})

SchemaState(f, schema, priv) ==
  Downgrade(Resolve(f, priv, {SourcesAt(f.schema, <<schema, priv>>)}),
            \/ ~f.partialRevokes /\ SchemaPatternCovers(f, schema, priv)
            \/ SchemaCaseVariantMatches(f, schema, priv))

\* A plausible slip: column grants do not weaken an absence.
TableStateNoColumns(f, schema, table, priv) ==
  Downgrade(Resolve(f, priv, {SourcesAt(f.table, <<schema, table, priv>>),
                              SourcesAt(f.schema, <<schema, priv>>)}),
            \/ ~f.partialRevokes /\ SchemaPatternCovers(f, schema, priv)
            \/ SchemaCaseVariantMatches(f, schema, priv)
            \/ TableCaseVariantMatches([f EXCEPT !.column = {}], schema, table, priv))

TableState(f, schema, table, priv) ==
  Downgrade(Resolve(f, priv, {SourcesAt(f.table, <<schema, table, priv>>),
                              SourcesAt(f.schema, <<schema, priv>>)}),
            \/ ~f.partialRevokes /\ SchemaPatternCovers(f, schema, priv)
            \/ SourcesAt(f.column, <<schema, table, priv>>) # {}
            \/ SchemaCaseVariantMatches(f, schema, priv)
            \/ TableCaseVariantMatches(f, schema, table, priv))

Answer(f, q) ==
  CASE q.scope = "global" -> Global(f, q.priv)
    [] q.scope = "schema" -> SchemaState(f, q.schema, q.priv)
    [] OTHER -> TableState(f, q.schema, q.table, q.priv)

----------------------------------------------------------------------------
(* The read.                                                               *)

\* classifyQuerier: a *sql.Conn or *sql.Tx is one session, a *sql.DB is any
\* session of the same account, and anything else may be any session at all.
Serving(affinity) ==
  {s \in Session : CASE affinity = "pinned" -> s = Work
                     [] affinity = "pool" -> AccountOf[s] = AccountOf[Work]
                     [] OTHER -> TRUE}

\* The rows a privilege-table statement returns.  The WHERE on GRANTEE is left
\* out when the grantee list cannot be bound (granteePredicate, narrow = FALSE);
\* only the schema statement asks for the blank users too.
Delivered(scope, s, wide, narrow) ==
  {row \in Shown(s, wide) :
     /\ row.scope = scope
     /\ narrow => \/ row.grantee \in {fact.account} \cup fact.roles
                  \/ scope = "schema" /\ row.grantee \in Anonymous}

\* The rows the scan loop records: a supported privilege, of a grantee it knows;
\* a blank user counts at schema scope only.
Recorded(scope, rows) ==
  {row \in rows :
     /\ row.priv \in Privilege
     /\ SourceFor(fact, row.grantee) # "none"
     /\ scope # "schema" => SourceFor(fact, row.grantee) # "anonymous"}

RowsRead(scope, s, wide, narrow) == Recorded(scope, Delivered(scope, s, wide, narrow))

Init ==
  /\ ServerInit
  /\ pc = "idle"
  /\ fact = ZeroGrants
  /\ held = {}

Call(affinity) ==
  /\ pc = "idle"
  /\ pc' = "currentUser"
  /\ fact' = [ZeroGrants EXCEPT !.affinity = affinity]
  /\ held' = {q \in Asked : Held(q)}
  /\ UNCHANGED serverVars

\* Inspector.validate: a nil Querier or an empty schema runs no statement.
Refuse ==
  /\ pc = "idle"
  /\ pc' = "failed"
  /\ UNCHANGED <<serverVars, fact, held>>

ReadCurrentUser(s) ==
  /\ pc = "currentUser"
  /\ pc' = "enabledRoles"
  /\ fact' = [fact EXCEPT !.account = GranteeText[AccountOf[s]]]
  /\ UNCHANGED <<serverVars, held>>

ReadEnabledRoles(s) ==
  /\ pc = "enabledRoles"
  /\ pc' = "partialRevokes"
  /\ fact' = [fact EXCEPT !.roles = activeRoles[s]]
  /\ UNCHANGED <<serverVars, held>>

ReadPartialRevokes ==
  /\ pc = "partialRevokes"
  /\ pc' = "global"
  /\ fact' = [fact EXCEPT !.partialRevokes = partialRevokes]
  /\ UNCHANGED <<serverVars, held>>

ReadGlobalGrants(s, wide, narrow) ==
  /\ pc = "global"
  /\ MayBeWide(s, wide)
  /\ pc' = "schema"
  /\ fact' = [fact EXCEPT !.global =
       {<<row.priv, SourceFor(fact, row.grantee)>> :
          row \in RowsRead("global", s, wide, narrow)}]
  /\ UNCHANGED <<serverVars, held>>

ReadSchemaGrants(s, wide, narrow) ==
  /\ pc = "schema"
  /\ MayBeWide(s, wide)
  /\ pc' = "table"
  /\ fact' = [fact EXCEPT !.schema =
       {<<<<row.schema, row.priv>>, SourceFor(fact, row.grantee)>> :
          row \in RowsRead("schema", s, wide, narrow)}]
  /\ UNCHANGED <<serverVars, held>>

ReadTableGrants(s, wide, narrow) ==
  /\ pc = "table"
  /\ MayBeWide(s, wide)
  /\ pc' = "column"
  /\ fact' = [fact EXCEPT !.table =
       {<<<<row.schema, row.table, row.priv>>, SourceFor(fact, row.grantee)>> :
          row \in RowsRead("table", s, wide, narrow)}]
  /\ UNCHANGED <<serverVars, held>>

\* The last statement; only now is the fact populated.
ReadColumnGrants(s, wide, narrow) ==
  /\ pc = "column"
  /\ MayBeWide(s, wide)
  /\ pc' = "done"
  /\ fact' = [fact EXCEPT !.populated = TRUE, !.column =
       {<<<<row.schema, row.table, row.priv>>, SourceFor(fact, row.grantee)>> :
          row \in RowsRead("column", s, wide, narrow)}]
  /\ UNCHANGED <<serverVars, held>>

\* A plausible slip: a failing statement returns what was read so far.
FailKeepingFact ==
  /\ pc \in Reading
  /\ pc' = "failed"
  /\ fact' = [fact EXCEPT !.populated = TRUE]
  /\ UNCHANGED <<serverVars, held>>

\* Any statement may fail, to run, to scan or to iterate; the call returns the
\* zero Grants and an error.
Fail ==
  /\ pc \in Reading
  /\ pc' = "failed"
  /\ fact' = ZeroGrants
  /\ UNCHANGED <<serverVars, held>>

Statement ==
  \E s \in Serving(fact.affinity) :
    \/ ReadCurrentUser(s)
    \/ ReadEnabledRoles(s)
    \/ ReadPartialRevokes
    \/ \E wide, narrow \in BOOLEAN :
         \/ ReadGlobalGrants(s, wide, narrow)
         \/ ReadSchemaGrants(s, wide, narrow)
         \/ ReadTableGrants(s, wide, narrow)
         \/ ReadColumnGrants(s, wide, narrow)

\* The server changes between statements, and while the caller uses the fact.
Environment ==
  /\ pc \in Reading \cup {"done"}
  /\ ServerChange
  /\ held' = held \cup {q \in Asked : Held(q)'}
  /\ UNCHANGED <<pc, fact>>

Next ==
  \/ \E affinity \in Affinity : Call(affinity)
  \/ Refuse
  \/ Statement
  \/ Fail
  \/ Environment

Spec == Init /\ [][Next]_vars

----------------------------------------------------------------------------
(* Properties.                                                             *)

\* The state of the call and of the server stay within their types, and a fact
\* is populated exactly when all seven statements were answered.
TypeOK ==
  /\ ServerTypeOK
  /\ pc \in Stage
  /\ fact \in FactType
  /\ held \in SUBSET Asked
  /\ fact.populated <=> pc = "done"

Present(q) == Answer(fact, q) = "Present"
Absent(q) == Answer(fact, q) = "Absent"

\* GrantPresent is not withdrawn by anything but a loss: as long as no grant was
\* revoked or restricted since the first of the seven statements, whatever else
\* changed between them and whichever pooled session answered, Work is authorised.
PresentSoundWithoutLoss ==
  \A q \in Asked :
    Present(q) /\ kinds \cap {"revoke", "revokeSelect", "restrict"} = {} => Held(q)

\* Under any changes but a switch of partial_revokes, GrantPresent was true at
\* some moment of the read: the fact never combines two statements into an
\* authorisation that the server never gave.
PresentHeldAtSomeMoment ==
  \A q \in Asked :
    Present(q) /\ kinds \cap {"partialOn", "partialOff"} = {} => q \in held

\* GrantAbsent survives concurrent revocations other than of SELECT, on which
\* the visibility of other accounts' rows rests: when nothing was gained, no
\* role switched and partial_revokes untouched since the first statement, no row
\* the server might apply to Work exists, shown to the account or not.
AbsentSoundWithoutGain ==
  \A q \in Asked : Absent(q) /\ kinds \subseteq {"revoke", "restrict"} => ~MayHold(q)

\* What docs/validations.md (Privileges and session affinity) promises, stated
\* over the server: present from the account's own exact grant, absent only for
\* a pinned, role-free session that provably sees every row, else unconfirmed.
Promised(q) ==
  LET own == GranteeText[AccountOf[Work]] = AccountOf[Work]
      me == AccountOf[Work]
      proven == ~partialRevokes /\ RowOf(me, "global", q.schema, q.table, q.priv)
      named == \/ q.scope \in {"schema", "table"} /\ RowOf(me, "schema", q.schema, q.table, q.priv)
               \/ q.scope = "table" /\ RowOf(me, "table", q.schema, q.table, q.priv)
      seesAll == \/ RowOf(me, "schema", MySqlSchema, MySqlSchema, Select)
                 \/ ~partialRevokes /\ RowOf(me, "global", MySqlSchema, MySqlSchema, Select)
  IN IF q.priv \notin Privilege THEN "Unknown"
     ELSE IF own /\ fact.affinity # "opaque" /\ (proven \/ named) THEN "Present"
     ELSE IF own /\ fact.affinity = "pinned" /\ activeRoles[Work] = {} /\ seesAll
             /\ ~MayHold(q)
          THEN "Absent"
     ELSE "Unconfirmed"

\* With nothing changing during the read, the seven statements amount to one
\* snapshot, and every answer is exactly the promised one: neither weaker nor
\* stronger.
QuietAnswerExact ==
  pc = "done" /\ kinds = {} => \A q \in Asked : Answer(fact, q) = Promised(q)

=============================================================================
