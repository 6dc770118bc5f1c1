--------------------------- MODULE MCReplicaGate ---------------------------
(***************************************************************************)
(* Two channels, each healthy, broken, late or stopped, and two ticks.      *)
(***************************************************************************)
EXTENDS ReplicaGate

MCMaxSeconds == {-1, 1}
R(io, sql, lag) == [io |-> io, sql |-> sql, lag |-> lag]
MCReport ==
  {R("Yes", "Yes", 1), R("Yes", "Yes", 2), R("Connecting", "Yes", 0), R("Yes", "No", Unknown)}

Rows(name) == [name : {name}, report : MCReport]
MCList ==
  {<<>>} \cup {<<a>> : a \in Rows("") \cup Rows("orders")}
    \cup {<<a, b>> : a \in Rows(""), b \in Rows("orders")}

=============================================================================
