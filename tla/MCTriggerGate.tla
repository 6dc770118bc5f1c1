--------------------------- MODULE MCTriggerGate ---------------------------
(***************************************************************************)
(* An instance of TriggerGate for TLC.  The session w does the work as      *)
(* account a, w2 is another session of a, o belongs to account b; tables t  *)
(* and u are requested, and each may have triggers.                         *)
(***************************************************************************)
EXTENDS TriggerGate

CONSTANTS w, w2, o, a, b, r, anon, none, s, mysql, t, u

MCSession == {w, w2, o}
MCGrantee == {a, b, r, anon}
MCAccountOf == [q \in MCSession |-> IF q = o THEN b ELSE a]
MCRoleClosure == [q \in {r} |-> {r}]
MCInitialRoles == {[q \in MCSession |-> {}]}
MCSchemaFold == [q \in {s, mysql} |-> q]
MCTableFold == [q \in {t, u} |-> q]
MCGranteeText == [g \in MCGrantee |-> g]

R(scope, g, schema, table, priv) ==
  [scope |-> scope, grantee |-> g, schema |-> schema, table |-> table, priv |-> priv]

MCRow ==
  {R("global", a, mysql, t, "TRIGGER"), R("table", a, s, t, "TRIGGER"),
   R("table", b, s, t, "TRIGGER"), R("schema", anon, s, t, "TRIGGER")}
MCInitialGrants == {{q} : q \in MCRow} \cup {{}}
MCRestriction == {<<a, s, "TRIGGER">>}
MCAsked == {TableQuestion(q) : q \in {t, u}}

On(table, event) == [table |-> table, event |-> event]
MCTrigger == {On(t, "INSERT"), On(t, "UPDATE"), On(u, "DELETE")}
MCInitialTriggers == {{On(t, "UPDATE")}, {On(t, "INSERT"), On(u, "DELETE")}}

=============================================================================
