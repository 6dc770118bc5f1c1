-------------------------- MODULE PrivilegeServer --------------------------
(***************************************************************************)
(* The MySQL server as pkg/validations sees it while it assembles a        *)
(* privilege fact: the rows of the four privilege tables, the schema       *)
(* restrictions kept outside them, @@global.partial_revokes, and the roles *)
(* enabled in every session.  None of it is code of this repository; it is *)
(* the environment the queries of grants.go are written against            *)
(* (docs/COMPAT.md entries 4, 11, 12 and 25 to 27), and it changes between *)
(* any two statements of a read.                                           *)
(***************************************************************************)
EXTENDS Naturals, FiniteSets

CONSTANTS
  Session,      \* server sessions a Querier may run a statement on
  Work,         \* the session that will do the work the answers are about
  Grantee,      \* accounts, roles and anonymous accounts
  Role,         \* the grantees that are roles
  Anonymous,    \* the grantees with a blank user, ''@host
  AccountOf,    \* AccountOf[s]: the account session s is authenticated as
  RoleSet,      \* the sets of roles a session may enable with SET ROLE
  InitialRoles, \* the enabled roles, by session, a read may start from
  RoleClosure,  \* RoleClosure[r]: r and the roles granted to it, nested
  Schema,       \* schema names, requested or stored; stored ones may be patterns
  MySqlSchema,  \* the schema called mysql
  Table,        \* table names
  Covers,       \* <<pattern, name>>: pattern matches name as a LIKE pattern
  SchemaFold,   \* SchemaFold[s]: the case-folded spelling of s
  TableFold,    \* TableFold[t]: the case-folded spelling of t
  AnyPrivilege, \* privilege types a row may carry
  Privilege,    \* the static privileges the library supports
  Select,       \* SELECT
  Row,          \* the grant rows that may ever exist
  Restriction,  \* <<account, schema, priv>> restrictions that may ever exist
  InitialGrants, \* the sets of rows a read may start from
  MaxChanges    \* bound: server changes explored during one read

Scope == {"global", "schema", "table", "column"}

RowType == [scope: Scope, grantee: Grantee, schema: Schema, table: Table,
            priv: AnyPrivilege]

ASSUME ServerAssumption ==
  /\ Work \in Session
  /\ Role \subseteq Grantee
  /\ Anonymous \subseteq Grantee
  /\ AccountOf \in [Session -> Grantee]
  /\ RoleSet \subseteq SUBSET Role
  /\ InitialRoles \subseteq [Session -> SUBSET Role]
  /\ RoleClosure \in [Role -> SUBSET Role]
  /\ \A r \in Role : r \in RoleClosure[r]
  /\ MySqlSchema \in Schema
  /\ Covers \subseteq Schema \X Schema
  /\ DOMAIN SchemaFold = Schema
  /\ DOMAIN TableFold = Table
  /\ Privilege \subseteq AnyPrivilege
  /\ Select \in Privilege
  /\ Row \subseteq RowType
  /\ InitialGrants \subseteq SUBSET Row
  /\ Restriction \subseteq Grantee \X Schema \X AnyPrivilege
  /\ MaxChanges \in Nat

VARIABLES
  grants,         \* rows now in the privilege tables
  restricted,     \* restrictions in mysql.user.User_attributes
  partialRevokes, \* @@global.partial_revokes
  activeRoles,    \* activeRoles[s]: ENABLED_ROLES of session s
  kinds,          \* history: the kinds of change made during the read
  changes         \* history: how many changes were made during the read

serverVars == <<grants, restricted, partialRevokes, activeRoles, kinds, changes>>

Kind == {"grant", "revoke", "revokeSelect", "restrict", "unrestrict",
         "partialOn", "partialOff", "role"}

ServerTypeOK ==
  /\ grants \in SUBSET Row
  /\ restricted \in SUBSET Restriction
  /\ partialRevokes \in BOOLEAN
  /\ activeRoles \in [Session -> SUBSET Role]
  /\ kinds \in SUBSET Kind
  /\ changes \in 0..MaxChanges
  /\ restricted # {} => partialRevokes

----------------------------------------------------------------------------
(* What the server lets the account of a session do, and see.              *)

RowOf(g, scope, s, t, p) ==
  \E row \in grants :
    /\ row.grantee = g
    /\ row.scope = scope
    /\ row.priv = p
    /\ scope # "global" => row.schema = s
    /\ scope \in {"table", "column"} => row.table = t

\* A question a caller asks of the assembled fact: Global, Schema or Table.
Question == [scope: {"global", "schema", "table"}, schema: Schema, table: Table,
             priv: AnyPrivilege]

\* An account is certainly authorised, by a grant of its own that names the
\* object exactly and that no restriction takes away.
HeldBy(me, q) ==
  \/ /\ q.scope = "table"
     /\ RowOf(me, "table", q.schema, q.table, q.priv)
  \/ /\ q.scope \in {"schema", "table"}
     /\ RowOf(me, "schema", q.schema, q.table, q.priv)
  \/ /\ RowOf(me, "global", q.schema, q.table, q.priv)
     /\ \A r \in restricted :
          r[1] = me /\ r[3] = q.priv => q.scope # "global" /\ r[2] # q.schema

Held(q) == HeldBy(AccountOf[Work], q)

\* Roles whose privileges a session enjoys: the enabled ones and those nested
\* under them, which ENABLED_ROLES does not list.
EffectiveRoles(s) == UNION {RoleClosure[r] : r \in activeRoles[s]}

\* A stored schema name may be read as the requested one: the same name, a
\* case variant, or, unless partial revokes make it literal, a pattern.
SchemaMayMatch(stored, asked) ==
  \/ SchemaFold[stored] = SchemaFold[asked]
  \/ ~partialRevokes /\ <<stored, asked>> \in Covers

\* Some row exists that the server may apply to Work for this question.
\* Anonymous rows apply to a named session at schema scope only.
MayHold(q) ==
  \E row \in grants :
    /\ row.priv = q.priv
    /\ \/ row.grantee = AccountOf[Work]
       \/ row.grantee \in EffectiveRoles(Work)
       \/ row.grantee \in Anonymous /\ row.scope = "schema"
    /\ \/ row.scope = "global"
       \/ /\ row.scope = "schema"
          /\ q.scope \in {"schema", "table"}
          /\ SchemaMayMatch(row.schema, q.schema)
       \/ /\ row.scope \in {"table", "column"}
          /\ q.scope = "table"
          /\ SchemaFold[row.schema] = SchemaFold[q.schema]
          /\ TableFold[row.table] = TableFold[q.table]

\* Other accounts' privilege rows are shown to an account with a direct SELECT
\* on the mysql schema that no restriction takes away.
SeesOthers(s) ==
  \/ RowOf(AccountOf[s], "schema", MySqlSchema, MySqlSchema, Select)
  \/ /\ RowOf(AccountOf[s], "global", MySqlSchema, MySqlSchema, Select)
     /\ <<AccountOf[s], MySqlSchema, Select>> \notin restricted

\* The rows a privilege table shows to session s.  A role may widen what is
\* shown, without the library being able to tell (wide).
Shown(s, wide) == {row \in grants : wide \/ row.grantee = AccountOf[s]}

MayBeWide(s, wide) ==
  /\ SeesOthers(s) => wide
  /\ wide => SeesOthers(s) \/ activeRoles[s] # {}

----------------------------------------------------------------------------
(* What administrators, and the owner of a session, change meanwhile.      *)

\* A restriction narrows a global grant of the same account.
Restrictable(r, rows) ==
  \E row \in rows : row.scope = "global" /\ row.grantee = r[1] /\ row.priv = r[3]

ServerInit ==
  /\ grants \in InitialGrants
  /\ partialRevokes \in BOOLEAN
  /\ restricted \in SUBSET {r \in Restriction : partialRevokes /\ Restrictable(r, grants)}
  /\ activeRoles \in InitialRoles
  /\ kinds = {}
  /\ changes = 0

Changed(k) ==
  /\ changes < MaxChanges
  /\ changes' = changes + 1
  /\ kinds' = kinds \cup {k}

GrantRow(row) ==
  /\ row \notin grants
  /\ Changed("grant")
  /\ grants' = grants \cup {row}
  /\ UNCHANGED <<restricted, partialRevokes, activeRoles>>

\* Revoking a global grant takes its restrictions along.
RevokeRow(row) ==
  /\ row \in grants
  /\ Changed(IF row.priv = Select THEN "revokeSelect" ELSE "revoke")
  /\ grants' = grants \ {row}
  /\ restricted' = {r \in restricted : Restrictable(r, grants \ {row})}
  /\ UNCHANGED <<partialRevokes, activeRoles>>

\* A partial revoke needs the variable on, and a global grant to restrict.
AddRestriction(r) ==
  /\ partialRevokes
  /\ r \notin restricted
  /\ Restrictable(r, grants)
  /\ Changed("restrict")
  /\ restricted' = restricted \cup {r}
  /\ UNCHANGED <<grants, partialRevokes, activeRoles>>

DropRestriction(r) ==
  /\ r \in restricted
  /\ Changed("unrestrict")
  /\ restricted' = restricted \ {r}
  /\ UNCHANGED <<grants, partialRevokes, activeRoles>>

EnablePartialRevokes ==
  /\ ~partialRevokes
  /\ Changed("partialOn")
  /\ partialRevokes' = TRUE
  /\ UNCHANGED <<grants, restricted, activeRoles>>

\* The server refuses to turn the variable off while a restriction exists.
DisablePartialRevokes ==
  /\ partialRevokes
  /\ restricted = {}
  /\ Changed("partialOff")
  /\ partialRevokes' = FALSE
  /\ UNCHANGED <<grants, restricted, activeRoles>>

SetRole(s, roles) ==
  /\ roles # activeRoles[s]
  /\ Changed("role")
  /\ activeRoles' = [activeRoles EXCEPT ![s] = roles]
  /\ UNCHANGED <<grants, restricted, partialRevokes>>

ServerChange ==
  \/ \E row \in Row : GrantRow(row)
  \/ \E row \in Row : RevokeRow(row)
  \/ \E r \in Restriction : AddRestriction(r)
  \/ \E r \in Restriction : DropRestriction(r)
  \/ EnablePartialRevokes
  \/ DisablePartialRevokes
  \/ \E s \in Session, roles \in RoleSet : SetRole(s, roles)

=============================================================================
