--------------------------- MODULE MCServerReads ---------------------------
(***************************************************************************)
(* Four-bit machine words: every value of each driver type and some beyond, *)
(* in any one column of a fact whose other columns are well formed; any two *)
(* columns that do not decode; column lists the server reorders, extends,   *)
(* repeats a name in, or leaves one out of; and result sets of no row, or   *)
(* of up to three rows of which any may not decode.                         *)
(***************************************************************************)
EXTENDS ServerReads

C(form, n, word) == [form |-> form, n |-> n, word |-> word]
Numbers ==
  {C("int64", n, "") : n \in -8..7} \cup {C("uint64", n, "") : n \in 0..15}
    \cup {C("float64", n, "") : n \in -34..34} \cup {C("float64", 0, v) : v \in {"NaN", "Inf"}}
    \cup {C(f, n, "") : f \in {"string", "bytes"}, n \in -17..17}
Words == {C(f, 0, v) : f \in {"string", "bytes"}, v \in {"ON", "OFF", "on", "Yes", "empty"}}
Others == {C("bool", 0, ""), C("bool", 1, ""), C("nil", 0, ""), C("time", 0, "")}
Bad == C("time", 0, "")

MCFitCell == [t \in {"string", "int", "uint64", "uint32", "uint16", "bool", "nullInt64"} |->
                CASE t = "string" -> C("bytes", 0, "name") [] t = "bool" -> C("string", 0, "ON")
                  [] OTHER -> C("int64", 1, "")]
MCPositionCell == [n \in 0..MaxPosition |->
  {C("int64", n, ""), C("uint64", n, ""), C("float64", 2 * n, ""), C("bytes", n, ""), C("nil", 0, "")}]
MCBound == {-8, -1, 0, 1, 6, 7}

SingleOp == Op \ {"BinaryLogStatus"}
Names(op) == [k \in DOMAIN Columns(op) |-> Columns(op)[k][1]]
Fit(op) == [k \in DOMAIN Columns(op) |-> MCFitCell[Columns(op)[k][2]]]
Set(op, header, rows) == [op |-> op, header |-> header, rows |-> rows]
Row(op, header, values) == Set(op, header, <<values>>)
Backwards(seq) == [k \in DOMAIN seq |-> seq[Len(seq) + 1 - k]]
Without(seq, i) == SubSeq(seq, 1, i - 1) \o SubSeq(seq, i + 1, Len(seq))

OneOdd(op) ==
  UNION {{Row(op, Names(op), [Fit(op) EXCEPT ![k] = c]) :
            c \in IF Columns(op)[k][2] = "string" THEN Words \cup Others ELSE Numbers \cup Words \cup Others} :
           k \in DOMAIN Columns(op)}
TwoBad(op) ==
  {Row(op, Names(op), [Fit(op) EXCEPT ![j] = Bad, ![k] = Bad]) : j, k \in DOMAIN Columns(op)}
\* Beside an anonymous row, and with the columns the other way round.
Anonymous(op) ==
  IF ~NamesMember(op) THEN {}
  ELSE {Row(op, Names(op), [Fit(op) EXCEPT ![2] = C("string", 0, "empty"), ![k] = Bad]) :
          k \in DOMAIN Columns(op)}
OddHeader(op) ==
  IF op \in ByPosition THEN {}
  ELSE {Row(op, Backwards(Names(op)), Backwards([Fit(op) EXCEPT ![k] = C("bytes", 3, "")])) :
          k \in DOMAIN Columns(op)}
    \cup {Row(op, Without(Names(op), k), Without(Fit(op), k)) : k \in DOMAIN Columns(op)}
    \cup {Row(op, Without(Without(Names(op), 3), 2), Without(Without(Fit(op), 3), 2))}
    \cup {Row(op, Append(Names(op), x), Append(Fit(op), Bad)) : x \in Listed(Names(op)) \cup {"extra"}}
    \cup {Row(op, <<x>> \o Names(op), <<c>> \o Fit(op)) :
            x \in Listed(Names(op)) \cup {"extra"}, c \in {Bad, C("bytes", 3, "")}}
\* The rows of distinct channels and members, whose columns from some one on do
\* not decode.
NamedRow(op, word, from) ==
  [k \in DOMAIN Columns(op) |->
     IF k >= from THEN Bad
     ELSE IF Columns(op)[k][2] = "string" THEN C("bytes", 0, word) ELSE Fit(op)[k]]
Sets(op) ==
  LET any(word) == {NamedRow(op, word, from) : from \in 1..Len(Columns(op)) + 1}
      good(word) == NamedRow(op, word, Len(Columns(op)) + 1)
  IN {Set(op, Names(op), rows) : rows \in {<<>>} \cup {<<a, b>> : a \in any("name"), b \in any("other")}
                                        \cup {<<good("name"), good("other"), c>> : c \in any("third")}}
       \cup (IF op \in ByPosition THEN {} ELSE {Set(op, Without(Names(op), k), <<>>) : k \in DOMAIN Names(op)})

MCReply == UNION {OneOdd(op) \cup TwoBad(op) \cup Anonymous(op) \cup OddHeader(op) \cup Sets(op) : op \in SingleOp}

=============================================================================
