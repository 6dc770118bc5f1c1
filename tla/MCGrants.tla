------------------------------ MODULE MCGrants ------------------------------
(***************************************************************************)
(* Instances of Grants for TLC.  The schema s is asked about; p is a stored *)
(* pattern that covers it, S a case variant of it.  The table t is asked   *)
(* about, T is its case variant, u another table.  The session w does the work as account a, *)
(* w2 is another session of a, and o belongs to another account b.  The    *)
(* account x has an '@' in its host.  Role r has role n granted to it.     *)
(***************************************************************************)
EXTENDS PrivilegeChecks

CONSTANTS w, w2, o, a, b, x, r, n, anon, none, s, S, p, mysql, t, T, u,
          WorkAccount  \* a; x tries an account no formatted grantee matches

MCSession == {w, w2, o}
MCGrantee == {a, b, x, r, n, anon}
MCAccountOf == [q \in MCSession |-> IF q = o THEN b ELSE WorkAccount]
MCRoleClosure == [q \in {r, n} |-> IF q = r THEN {r, n} ELSE {n}]
MCInitialRoles == [MCSession -> {{}, {r}}]
OneInitialRoles == {[q \in MCSession |-> IF q = v THEN {r} ELSE {}] : v \in {w, w2, none}}
MCSchema == {s, S, p, mysql}
MCCovers == {<<p, s>>, <<p, S>>}
MCSchemaFold == [q \in MCSchema |-> IF q = S THEN s ELSE q]
MCTableFold == [q \in {t, T, u} |-> IF q = u THEN u ELSE t]
MCGranteeText == [g \in MCGrantee |-> IF g = x THEN none ELSE g]
MCAnyPrivilege == {"SELECT", "TRIGGER", "PROCESS"}
MCPrivilege == {"SELECT", "TRIGGER"}
MCRestriction == {<<WorkAccount, s, "TRIGGER">>, <<WorkAccount, mysql, "SELECT">>}

R(scope, g, schema, table, priv) ==
  [scope |-> scope, grantee |-> g, schema |-> schema, table |-> table, priv |-> priv]

\* Rows that bear on visibility, and rows that bear on TRIGGER on s.t.
MCVisibilityRow ==
  {R("global", WorkAccount, mysql, t, "SELECT"), R("schema", WorkAccount, mysql, t, "SELECT"),
   R("schema", r, mysql, t, "SELECT")}
MCTriggerRow ==
  {R("global", g, mysql, t, "TRIGGER") : g \in {WorkAccount, r, anon, b}}
    \cup {R("schema", g, s, t, "TRIGGER") : g \in {WorkAccount, r, n, anon, b}}
    \cup {R("schema", WorkAccount, z, t, "TRIGGER") : z \in {S, p}}
    \cup {R("schema", anon, p, t, "TRIGGER")}
    \cup {R("table", g, s, t, "TRIGGER") : g \in {WorkAccount, anon, b}}
    \cup {R("table", WorkAccount, z, T, "TRIGGER") : z \in {s, S}}
    \cup {R("column", WorkAccount, s, z, "TRIGGER") : z \in {t, T}}
MCRow == MCVisibilityRow \cup MCTriggerRow \cup {R("global", WorkAccount, mysql, t, "PROCESS")}

MCInitialGrants ==
  {{q1, q2, q3} : q1 \in MCVisibilityRow, q2, q3 \in MCRow}
    \cup {{}} \cup {{q1, q2} : q1, q2 \in MCTriggerRow}

\* A smaller world for reads overtaken by several changes.
FewRow ==
  {R("global", a, mysql, t, "SELECT"), R("schema", a, mysql, t, "SELECT"),
   R("global", a, mysql, t, "TRIGGER"), R("schema", a, s, t, "TRIGGER"),
   R("table", a, s, t, "TRIGGER"), R("table", b, s, t, "TRIGGER"),
   R("schema", anon, s, t, "TRIGGER")}
FewInitialGrants == {{q1, q2} : q1, q2 \in FewRow} \cup {{}}

MCAsked ==
  {q \in Question : /\ q.priv \in MCAnyPrivilege
                    /\ q.schema = s /\ q.table = t}

\* A memo made for one table serves the next; requests repeat tables.
MCTableRequest ==
  {[schema |-> s, tables |-> tables, priv |-> priv] :
     tables \in {<<t, u, t>>, <<u, T>>}, priv \in {"TRIGGER"}}
    \cup {[schema |-> s, tables |-> <<u>>, priv |-> "PROCESS"]}
MCSchemaRequest == {[schema |-> s, privs |-> <<"TRIGGER", "PROCESS", "SELECT", "TRIGGER">>]}

=============================================================================
