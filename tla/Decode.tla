------------------------------- MODULE Decode -------------------------------
(***************************************************************************)
(* The decoders of pkg/replication (decode.go) and the checks that hold a   *)
(* decoded number against the caller's bound (checks.go,                    *)
(* group_replication_checks.go), over machine integers: a conversion wraps  *)
(* wherever the code does not guard it.                                     *)
(***************************************************************************)
EXTENDS Integers

CONSTANTS
  Wide, Half, Quarter,   \* 2^64, 2^32 and 2^16
  Platform,              \* the values of the platform's int: 2^64 or 2^32
  Null                   \* an invalid sql.NullInt64

\* Each width is even and no wider than the next.
ASSUME DecodeAssumption ==
  /\ {Wide, Half, Quarter, Platform} \subseteq Nat \ {0}
  /\ Wide % 2 = 0 /\ Platform % 2 = 0
  /\ Quarter <= Half /\ Half <= Wide /\ Platform <= Wide
  /\ Null \notin Int

Error(why) == [ok |-> FALSE, value |-> why]
Ok(value) == [ok |-> TRUE, value |-> value]

MaxSigned(width) == width \div 2 - 1
MinSigned(width) == -(width \div 2)
AsSigned(n, width) == ((n + width \div 2) % width) - width \div 2
AsUnsigned(n, width) == n % width

(* A cell has the driver type form and holds n; a float holds n halves and   *)
(* text is decimal; word is any other text, or the float's NaN or infinity. *)
Form == {"int64", "uint64", "float64", "string", "bytes", "bool", "nil", "time"}
Cell ==
  {c \in [form : Form, n : Int, word : STRING] :
     /\ c.form = "int64" => c.n \in MinSigned(Wide)..MaxSigned(Wide)
     /\ c.form = "uint64" => c.n \in 0..Wide - 1
     /\ c.form = "bool" => c.n \in {0, 1}}
NoText == <<0, "empty">>  \* the empty string, decoded
IsText(c) == c.form \in {"string", "bytes"}

\* Whether the cell is an integer, and which.
Numeric(c) ==
  \/ c.form \in {"int64", "uint64"}
  \/ IsText(c) /\ c.word = ""
  \/ c.form = "float64" /\ c.word = "" /\ c.n % 2 = 0
Number(c) == IF c.form = "float64" THEN c.n \div 2 ELSE c.n

----------------------------------------------------------------------------
(* The decoders.                                                           *)

\* A plausible slip: the bound is math.MaxInt64, which float64 rounds to 2^63.
Float64ToInt64Rounded(c) ==
  IF c.word # "" \/ c.n % 2 # 0 THEN Error("unrecognized")
  ELSE IF c.n < 2 * MinSigned(Wide) \/ c.n > Wide THEN Error("range")
  ELSE Ok(AsSigned(c.n \div 2, Wide))

Float64ToInt64(c) ==
  IF c.word # "" \/ c.n % 2 # 0 THEN Error("unrecognized")
  ELSE IF c.n < 2 * MinSigned(Wide) \/ c.n >= Wide THEN Error("range")
  ELSE Ok(AsSigned(c.n \div 2, Wide))

Float64ToUint64(c) ==
  IF c.word # "" \/ c.n % 2 # 0 THEN Error("unrecognized")
  ELSE IF c.n < 0 \/ c.n >= 2 * Wide THEN Error("range")
  ELSE Ok(AsUnsigned(c.n \div 2, Wide))

Parse(c, low, high) ==
  IF c.word = "" /\ c.n >= low /\ c.n <= high THEN Ok(c.n) ELSE Error("malformed")

DecodeInt64(c) ==
  CASE c.form = "int64" -> Ok(c.n)
    [] c.form = "uint64" -> IF c.n > MaxSigned(Wide) THEN Error("range") ELSE Ok(AsSigned(c.n, Wide))
    [] c.form = "float64" -> Float64ToInt64(c)
    [] IsText(c) -> Parse(c, MinSigned(Wide), MaxSigned(Wide))
    [] c.form = "nil" -> Error("NULL")
    [] c.form \in {"bool", "time"} -> Error("type")

\* decodeInt: a round trip through the platform's int.
DecodeInt(c) ==
  LET wide == DecodeInt64(c) IN
  IF wide.ok /\ AsSigned(wide.value, Platform) # wide.value THEN Error("range") ELSE wide

DecodeUint64(c) ==
  CASE c.form = "uint64" -> Ok(c.n)
    [] c.form = "int64" -> IF c.n < 0 THEN Error("range") ELSE Ok(AsUnsigned(c.n, Wide))
    [] c.form = "float64" -> Float64ToUint64(c)
    [] IsText(c) -> Parse(c, 0, Wide - 1)
    [] c.form = "nil" -> Error("NULL")
    [] c.form \in {"bool", "time"} -> Error("type")

\* decodeUint32, decodeUint16.
Narrow(c, width) ==
  LET wide == DecodeUint64(c) IN
  IF ~wide.ok THEN wide
  ELSE IF wide.value > width - 1 THEN Error("range") ELSE Ok(AsUnsigned(wide.value, width))

DecodeBool(c) ==
  CASE c.form = "bool" -> Ok(c.n = 1)
    [] c.form \in {"int64", "uint64"} -> IF c.n \in {0, 1} THEN Ok(c.n = 1) ELSE Error("unrecognized")
    [] IsText(c) -> IF c.word \in {"ON", "OFF"} THEN Ok(c.word = "ON")
                    ELSE IF c.word = "" /\ c.n \in {0, 1} THEN Ok(c.n = 1) ELSE Error("unrecognized")
    [] c.form = "nil" -> Error("NULL")
    [] c.form \in {"float64", "time"} -> Error("type")

\* sql.NullInt64: invalid only for SQL NULL.
DecodeNullInt64(c) == IF c.form = "nil" THEN Ok(Null) ELSE DecodeInt64(c)

DecodeString(c) ==
  CASE IsText(c) -> Ok(<<c.n, c.word>>)
    [] c.form = "nil" -> Error("NULL")
    [] ~IsText(c) /\ c.form # "nil" -> Error("type")

Decoded(c, t) ==
  CASE t = "string" -> DecodeString(c)
    [] t = "int64" -> DecodeInt64(c)
    [] t = "int" -> DecodeInt(c)
    [] t = "uint64" -> DecodeUint64(c)
    [] t = "uint32" -> Narrow(c, Half)
    [] t = "uint16" -> Narrow(c, Quarter)
    [] t = "bool" -> DecodeBool(c)
    [] t = "nullInt64" -> DecodeNullInt64(c)

----------------------------------------------------------------------------
(* The checks of a number against a bound: TRUE is a finding.              *)

\* A plausible slip: the counter is narrowed to the type of the bound.
DepthFindingNarrowed(depth, max) == max < 0 \/ AsSigned(depth, Wide) > max

\* queueFindings: an unsigned counter against a signed bound.
DepthFinding(depth, max) == max < 0 \/ depth > AsUnsigned(max, Wide)

\* CheckSecondsBehindSourceWithin.
LagFinding(lag, max) == lag = Null \/ (max < 0 \/ lag > max)

=============================================================================
