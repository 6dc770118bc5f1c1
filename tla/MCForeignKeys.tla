--------------------------- MODULE MCForeignKeys ---------------------------
(***************************************************************************)
(* Instances of ForeignKeys for TLC.  The Inspector is bound to schema a,  *)
(* whose tables are p, c and d; b is another schema with tables of the     *)
(* same names.  Schema z is one whose name holds a slash: the text of z.p  *)
(* is split into a schema and a table that are not its own (lost).         *)
(***************************************************************************)
EXTENDS ForeignKeys

CONSTANTS a, b, z, p, c, d, lost

N(schema, table) == <<schema, table>>
K(name, child, parent, cascade) ==
  [name |-> name, child |-> child, parent |-> parent, cascade |-> cascade]

MCIdentity == {a, b} \X {p, c, d}
MCSplitName == [n \in MCIdentity |-> n]
MCKey ==
  {K("inside", N(a, c), N(a, p), FALSE), K("sibling", N(a, d), N(a, p), TRUE),
   K("foreign", N(b, c), N(a, p), FALSE), K("away", N(a, c), N(b, p), FALSE)}
MCMalformed == {k \in MCKey : k.name = "away"}
MCRequest ==
  {[kind |-> kind, tables |-> {p, c}] : kind \in {"incoming", "outgoing", "within"}}
    \cup {[kind |-> "incoming", tables |-> {p, c, d}], [kind |-> "incoming", tables |-> {}],
          [kind |-> "invalid", tables |-> {p}]}

SlashIdentity == {z} \X {p, c}
SlashSplitName == [n \in SlashIdentity |-> <<lost, n>>]
SlashKey ==
  {K("inside", N(z, c), N(z, p), FALSE), K("self", N(z, p), N(z, p), TRUE),
   K("back", N(z, p), N(z, c), FALSE)}
SlashRequest == {[kind |-> kind, tables |-> {p}] : kind \in {"incoming", "outgoing", "within"}}

=============================================================================
