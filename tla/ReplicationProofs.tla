-------------------------- MODULE ReplicationProofs --------------------------
(***************************************************************************)
(* Proofs about pkg/replication.  Reading a fact, for machine words of      *)
(* every width, every value a driver may deliver and every result set: a    *)
(* decoder succeeds exactly when its Go type can hold the cell, and then    *)
(* returns the number that was sent; a result set becomes a fact exactly    *)
(* when all of it can; and a check of a bound decides on the server's       *)
(* number.  BinaryLogStatus, whose answers and errors hold whatever the     *)
(* server does meanwhile.  And the two gates that decide whether a batch    *)
(* runs: the job loop over the replica's channels, for any lists of         *)
(* channels, any bounds and any number of ticks, and the Group Replication  *)
(* gate, for any servers and any views.                                     *)
(***************************************************************************)
EXTENDS ServerReads, ReplicaGate, GroupGate, SequenceTheorems, WellFoundedInduction, TLAPS

----------------------------------------------------------------------------
(* Machine words.                                                          *)

LEMMA ModInRange ==
  ASSUME NEW w \in Nat \ {0}, NEW n \in 0..w - 1
  PROVE  n % w = n
OBVIOUS

LEMMA ModRange ==
  ASSUME NEW w \in Nat \ {0}, NEW n \in Int
  PROVE  n % w \in 0..w - 1
OBVIOUS

LEMMA Even ==
  ASSUME NEW w \in Nat \ {0}, w % 2 = 0
  PROVE  w \div 2 \in Nat /\ w = 2 * (w \div 2) /\ w \div 2 >= 1
OBVIOUS

LEMMA HalfOf ==
  ASSUME NEW n \in Int, n % 2 = 0
  PROVE  n = 2 * (n \div 2) /\ n \div 2 \in Int
OBVIOUS

\* A number the width can hold survives the conversion, and only such a number.
LEMMA SignedFits ==
  ASSUME NEW w \in Nat \ {0}, w % 2 = 0, NEW n \in Int
  PROVE  AsSigned(n, w) = n <=> n \in MinSigned(w)..MaxSigned(w)
<1> DEFINE h == w \div 2
<1>1. h \in Nat /\ w = 2 * h
  BY Even
<1>2. (n + h) % w \in 0..w - 1
  BY <1>1, ModRange
<1>3. CASE n \in MinSigned(w)..MaxSigned(w)
  <2>1. n + h \in 0..w - 1
    BY <1>1, <1>3 DEF MinSigned, MaxSigned
  <2>2. (n + h) % w = n + h
    BY <2>1, ModInRange
  <2> QED BY <1>1, <1>3, <2>2 DEF AsSigned
<1>4. CASE n \notin MinSigned(w)..MaxSigned(w)
  <2> DEFINE r == (n + h) % w
  <2>1. AsSigned(n, w) = r - h
    BY DEF AsSigned
  <2> HIDE DEF r, h
  <2>2. r - h \in MinSigned(w)..MaxSigned(w)
    BY <1>1, <1>2 DEF MinSigned, MaxSigned, r, h
  <2> QED BY <1>4, <2>1, <2>2
<1> QED BY <1>3, <1>4

----------------------------------------------------------------------------
(* The decoders.                                                           *)

\* What a decoder of numbers between low and high should do with a cell.
DecodesNumber(d, c, low, high) ==
  IF Numeric(c) /\ Number(c) \in low..high THEN d = Ok(Number(c)) ELSE \E why : d = Error(why)

LEMMA CellType ==
  ASSUME NEW c \in Cell
  PROVE  /\ c.form \in Form /\ c.n \in Int
         /\ Number(c) \in Int
         /\ c.form = "int64" => c.n \in MinSigned(Wide)..MaxSigned(Wide)
         /\ c.form = "uint64" => c.n \in 0..Wide - 1
         /\ c.form = "bool" => c.n \in {0, 1}
BY DEF Cell, Number

LEMMA Widths ==
  /\ Wide \in Nat \ {0} /\ Half \in Nat \ {0} /\ Quarter \in Nat \ {0} /\ Platform \in Nat \ {0}
  /\ Wide % 2 = 0 /\ Platform % 2 = 0
  /\ Quarter <= Half /\ Half <= Wide /\ Platform <= Wide
  /\ Wide \div 2 \in Nat /\ Wide = 2 * (Wide \div 2)
BY DecodeAssumption, Even

LEMMA Int64Decodes ==
  ASSUME NEW c \in Cell
  PROVE  DecodesNumber(DecodeInt64(c), c, MinSigned(Wide), MaxSigned(Wide))
<1>1. CASE c.form = "int64"
  BY <1>1, CellType DEF DecodesNumber, DecodeInt64, Numeric, Number, IsText
<1>2. CASE c.form = "uint64"
  <2>1. c.n \in 0..Wide - 1
    BY <1>2, CellType
  <2>2. c.n \in MinSigned(Wide)..MaxSigned(Wide) <=> ~(c.n > MaxSigned(Wide))
    BY <2>1, Widths DEF MinSigned, MaxSigned
  <2>3. ~(c.n > MaxSigned(Wide)) => AsSigned(c.n, Wide) = c.n
    BY <2>1, <2>2, Widths, SignedFits
  <2> QED BY <1>2, <2>2, <2>3 DEF DecodesNumber, DecodeInt64, Numeric, Number, IsText
<1>3. CASE c.form = "float64"
  <2>1. DecodeInt64(c) = Float64ToInt64(c)
    BY <1>3 DEF DecodeInt64, IsText
  <2>2. CASE c.word # "" \/ c.n % 2 # 0
    BY <1>3, <2>1, <2>2 DEF DecodesNumber, Float64ToInt64, Numeric, Number, IsText
  <2>3. CASE c.word = "" /\ c.n % 2 = 0
    <3>1. c.n \in Int /\ c.n = 2 * (c.n \div 2) /\ c.n \div 2 \in Int
      BY <2>3, CellType, HalfOf
    <3>2. c.n \div 2 \in MinSigned(Wide)..MaxSigned(Wide) <=> ~(c.n < 2 * MinSigned(Wide) \/ c.n >= Wide)
      BY <3>1, Widths DEF MinSigned, MaxSigned
    <3>3. c.n \div 2 \in MinSigned(Wide)..MaxSigned(Wide) => AsSigned(c.n \div 2, Wide) = c.n \div 2
      BY <3>1, Widths, SignedFits
    <3>4. Numeric(c) /\ Number(c) = c.n \div 2
      BY <1>3, <2>3 DEF Numeric, Number
    <3> QED BY <2>1, <2>3, <3>2, <3>3, <3>4 DEF DecodesNumber, Float64ToInt64
  <2> QED BY <2>2, <2>3
<1>4. CASE IsText(c)
  <2>1. DecodeInt64(c) = Parse(c, MinSigned(Wide), MaxSigned(Wide))
    BY <1>4 DEF DecodeInt64, IsText
  <2>2. (c.n >= MinSigned(Wide) /\ c.n <= MaxSigned(Wide)) <=> c.n \in MinSigned(Wide)..MaxSigned(Wide)
    BY CellType, Widths DEF MinSigned, MaxSigned
  <2>3. Numeric(c) <=> c.word = ""
    BY <1>4 DEF Numeric, IsText
  <2>4. Number(c) = c.n
    BY <1>4 DEF Number, IsText
  <2> QED BY <2>1, <2>2, <2>3, <2>4 DEF DecodesNumber, Parse
<1>5. CASE c.form \in {"nil", "bool", "time"}
  BY <1>5 DEF DecodesNumber, DecodeInt64, Numeric, IsText
<1> QED BY <1>1, <1>2, <1>3, <1>4, <1>5, CellType DEF Form, IsText

LEMMA Uint64Decodes ==
  ASSUME NEW c \in Cell
  PROVE  DecodesNumber(DecodeUint64(c), c, 0, Wide - 1)
<1>1. CASE c.form = "uint64"
  BY <1>1, CellType DEF DecodesNumber, DecodeUint64, Numeric, Number, IsText
<1>2. CASE c.form = "int64"
  <2>1. c.n \in MinSigned(Wide)..MaxSigned(Wide)
    BY <1>2, CellType
  <2>2. c.n \in 0..Wide - 1 <=> ~(c.n < 0)
    BY <2>1, Widths DEF MinSigned, MaxSigned
  <2>3. ~(c.n < 0) => AsUnsigned(c.n, Wide) = c.n
    BY <2>1, <2>2, Widths, ModInRange DEF AsUnsigned
  <2> QED BY <1>2, <2>2, <2>3 DEF DecodesNumber, DecodeUint64, Numeric, Number, IsText
<1>3. CASE c.form = "float64"
  <2>1. DecodeUint64(c) = Float64ToUint64(c)
    BY <1>3 DEF DecodeUint64, IsText
  <2>2. CASE c.word # "" \/ c.n % 2 # 0
    BY <1>3, <2>1, <2>2 DEF DecodesNumber, Float64ToUint64, Numeric, Number, IsText
  <2>3. CASE c.word = "" /\ c.n % 2 = 0
    <3>1. c.n \in Int /\ c.n = 2 * (c.n \div 2) /\ c.n \div 2 \in Int
      BY <2>3, CellType, HalfOf
    <3>2. c.n \div 2 \in 0..Wide - 1 <=> ~(c.n < 0 \/ c.n >= 2 * Wide)
      BY <3>1, Widths
    <3>3. c.n \div 2 \in 0..Wide - 1 => AsUnsigned(c.n \div 2, Wide) = c.n \div 2
      BY <3>1, Widths, ModInRange DEF AsUnsigned
    <3>4. Numeric(c) /\ Number(c) = c.n \div 2
      BY <1>3, <2>3 DEF Numeric, Number
    <3> QED BY <2>1, <2>3, <3>2, <3>3, <3>4 DEF DecodesNumber, Float64ToUint64
  <2> QED BY <2>2, <2>3
<1>4. CASE IsText(c)
  <2>1. DecodeUint64(c) = Parse(c, 0, Wide - 1)
    BY <1>4 DEF DecodeUint64, IsText
  <2>2. (c.n >= 0 /\ c.n <= Wide - 1) <=> c.n \in 0..Wide - 1
    BY CellType, Widths
  <2>3. Numeric(c) <=> c.word = ""
    BY <1>4 DEF Numeric, IsText
  <2>4. Number(c) = c.n
    BY <1>4 DEF Number, IsText
  <2> QED BY <2>1, <2>2, <2>3, <2>4 DEF DecodesNumber, Parse
<1>5. CASE c.form \in {"nil", "bool", "time"}
  BY <1>5 DEF DecodesNumber, DecodeUint64, Numeric, IsText
<1> QED BY <1>1, <1>2, <1>3, <1>4, <1>5, CellType DEF Form, IsText

LEMMA OkOrError ==
  /\ \A v : Ok(v).ok = TRUE /\ Ok(v).value = v
  /\ \A why : Error(why).ok = FALSE
BY DEF Ok, Error

LEMMA IntDecodes ==
  ASSUME NEW c \in Cell
  PROVE  DecodesNumber(DecodeInt(c), c, MinSigned(Platform), MaxSigned(Platform))
<1> DEFINE wide == DecodeInt64(c)
<1>1. MinSigned(Platform) >= MinSigned(Wide) /\ MaxSigned(Platform) <= MaxSigned(Wide)
  BY Widths, Even DEF MinSigned, MaxSigned
<1>2. /\ MinSigned(Wide) \in Int /\ MaxSigned(Wide) \in Int
      /\ MinSigned(Platform) \in Int /\ MaxSigned(Platform) \in Int
  BY Widths DEF MinSigned, MaxSigned
<1>3. Number(c) \in Int
  BY CellType
<1>4. CASE Numeric(c) /\ Number(c) \in MinSigned(Wide)..MaxSigned(Wide)
  <2>1. wide = Ok(Number(c))
    BY <1>4, Int64Decodes DEF DecodesNumber
  <2>2. wide.ok /\ wide.value = Number(c)
    BY <2>1, OkOrError
  <2>3. AsSigned(Number(c), Platform) = Number(c) <=> Number(c) \in MinSigned(Platform)..MaxSigned(Platform)
    BY <1>3, Widths, SignedFits
  <2> QED BY <1>4, <2>1, <2>2, <2>3 DEF DecodesNumber, DecodeInt
<1>5. CASE ~(Numeric(c) /\ Number(c) \in MinSigned(Wide)..MaxSigned(Wide))
  <2>1. PICK why : wide = Error(why)
    BY <1>5, Int64Decodes DEF DecodesNumber
  <2>2. DecodeInt(c) = wide
    BY <2>1, OkOrError DEF DecodeInt
  <2>3. ~(Numeric(c) /\ Number(c) \in MinSigned(Platform)..MaxSigned(Platform))
    BY <1>1, <1>2, <1>3, <1>5
  <2> QED BY <2>1, <2>2, <2>3 DEF DecodesNumber
<1> QED BY <1>4, <1>5

LEMMA NarrowDecodes ==
  ASSUME NEW c \in Cell, NEW width \in Nat \ {0}, width <= Wide
  PROVE  DecodesNumber(Narrow(c, width), c, 0, width - 1)
<1> DEFINE wide == DecodeUint64(c)
<1>1. Number(c) \in Int
  BY CellType
<1>2. CASE Numeric(c) /\ Number(c) \in 0..Wide - 1
  <2>1. wide = Ok(Number(c))
    BY <1>2, Uint64Decodes DEF DecodesNumber
  <2>2. wide.ok /\ wide.value = Number(c)
    BY <2>1, OkOrError
  <2>3. Number(c) > width - 1 <=> Number(c) \notin 0..width - 1
    BY <1>1, <1>2, Widths
  <2>4. Number(c) \in 0..width - 1 => AsUnsigned(Number(c), width) = Number(c)
    BY <1>1, ModInRange DEF AsUnsigned
  <2>5. Narrow(c, width) = IF Number(c) > width - 1 THEN Error("range") ELSE Ok(AsUnsigned(Number(c), width))
    BY <2>2 DEF Narrow
  <2> QED BY <1>2, <2>3, <2>4, <2>5 DEF DecodesNumber
<1>3. CASE ~(Numeric(c) /\ Number(c) \in 0..Wide - 1)
  <2>1. PICK why : wide = Error(why)
    BY <1>3, Uint64Decodes DEF DecodesNumber
  <2>2. Narrow(c, width) = wide
    BY <2>1, OkOrError DEF Narrow
  <2>3. ~(Numeric(c) /\ Number(c) \in 0..width - 1)
    BY <1>1, <1>3, Widths
  <2> QED BY <2>1, <2>2, <2>3 DEF DecodesNumber
<1> QED BY <1>2, <1>3

\* A decoder succeeds exactly when its Go type holds the cell, with its value.
LEMMA DecodesExactly ==
  ASSUME NEW c \in Cell, NEW t \in DecoderType
  PROVE  IF Holds(c, t) THEN Decoded(c, t) = Ok(Value(c, t)) ELSE \E why : Decoded(c, t) = Error(why)
<1>1. CASE t = "string"
  BY <1>1, CellType DEF Holds, Value, Decoded, DecodeString, IsText, Form
<1>2. CASE t = "bool"
  <2>1. Decoded(c, t) = DecodeBool(c)
    BY <1>2 DEF Decoded
  <2>2. CASE c.form = "bool"
    BY <1>2, <2>1, <2>2 DEF Holds, Value, DecodeBool, IsText
  <2>3. CASE c.form \in {"int64", "uint64"}
    BY <1>2, <2>1, <2>3 DEF Holds, Value, DecodeBool, IsText, Numeric, Number
  <2>4. CASE IsText(c)
    <3>1. c.form # "float64" /\ c.form \notin {"bool", "int64", "uint64", "nil", "time"}
      BY <2>4 DEF IsText
    <3>2. DecodeBool(c) = IF c.word \in {"ON", "OFF"} THEN Ok(c.word = "ON")
                          ELSE IF c.word = "" /\ c.n \in {0, 1} THEN Ok(c.n = 1) ELSE Error("unrecognized")
      BY <2>4, <3>1 DEF DecodeBool
    <3>3. Holds(c, t) <=> c.word \in {"ON", "OFF"} \/ (c.word = "" /\ c.n \in {0, 1})
      BY <1>2, <2>4, <3>1 DEF Holds, Numeric, Number
    <3>4. Value(c, t) = IF c.word # "" THEN c.word = "ON" ELSE c.n = 1
      BY <1>2, <2>4 DEF Value
    <3> QED BY <2>1, <3>2, <3>3, <3>4
  <2>5. CASE c.form \in {"nil", "float64", "time"}
    BY <1>2, <2>1, <2>5 DEF Holds, DecodeBool, IsText, Numeric, Number
  <2> QED BY <2>2, <2>3, <2>4, <2>5, CellType DEF Form, IsText
<1>3. CASE t \in {"int", "uint64", "uint32", "uint16"}
  <2> DEFINE range == GoRange(t)
  <2>1. \E low, high \in Int : range = low..high /\ DecodesNumber(Decoded(c, t), c, low, high)
    <3>1. CASE t = "int"
      <4>1. MinSigned(Platform) \in Int /\ MaxSigned(Platform) \in Int
        BY Widths DEF MinSigned, MaxSigned
      <4>2. range = MinSigned(Platform)..MaxSigned(Platform) /\ Decoded(c, t) = DecodeInt(c)
        BY <3>1 DEF GoRange, Decoded
      <4> QED BY <4>1, <4>2, IntDecodes
    <3>2. CASE t = "uint64"
      BY <3>2, Uint64Decodes, Widths DEF GoRange, Decoded
    <3>3. CASE t = "uint32"
      <4>1. 0 \in Int /\ Half - 1 \in Int /\ Half \in Nat \ {0} /\ Half <= Wide
        BY Widths
      <4>2. range = 0..Half - 1 /\ Decoded(c, t) = Narrow(c, Half)
        BY <3>3 DEF GoRange, Decoded
      <4>3. DecodesNumber(Narrow(c, Half), c, 0, Half - 1)
        BY <4>1, NarrowDecodes
      <4> QED BY <4>1, <4>2, <4>3
    <3>4. CASE t = "uint16"
      <4>1. 0 \in Int /\ Quarter - 1 \in Int /\ Quarter \in Nat \ {0} /\ Quarter <= Wide
        BY Widths
      <4>2. range = 0..Quarter - 1 /\ Decoded(c, t) = Narrow(c, Quarter)
        BY <3>4 DEF GoRange, Decoded
      <4>3. DecodesNumber(Narrow(c, Quarter), c, 0, Quarter - 1)
        BY <4>1, NarrowDecodes
      <4> QED BY <4>1, <4>2, <4>3
    <3> QED BY <1>3, <3>1, <3>2, <3>3, <3>4
  <2>2. Holds(c, t) <=> Numeric(c) /\ Number(c) \in range
    BY <1>3 DEF Holds
  <2>3. Numeric(c) => Value(c, t) = Number(c)
    BY <1>3 DEF Value, Numeric, IsText
  <2> HIDE DEF range
  <2> QED BY <2>1, <2>2, <2>3 DEF DecodesNumber
<1>4. CASE t = "nullInt64"
  <2>1. Decoded(c, t) = DecodeNullInt64(c)
    BY <1>4 DEF Decoded
  <2>2. CASE c.form = "nil"
    BY <1>4, <2>1, <2>2 DEF Holds, Value, DecodeNullInt64
  <2>3. CASE c.form # "nil"
    <3>1. Decoded(c, t) = DecodeInt64(c)
      BY <2>1, <2>3 DEF DecodeNullInt64
    <3>2. Holds(c, t) <=> Numeric(c) /\ Number(c) \in MinSigned(Wide)..MaxSigned(Wide)
      BY <1>4, <2>3 DEF Holds, GoRange
    <3>3. Value(c, t) = Number(c)
      BY <1>4, <2>3 DEF Value
    <3> QED BY <3>1, <3>2, <3>3, Int64Decodes DEF DecodesNumber
  <2> QED BY <2>2, <2>3
<1> QED BY <1>1, <1>2, <1>3, <1>4 DEF DecoderType

----------------------------------------------------------------------------
(* The columns of a fact.                                                  *)

\* What the reading relies on about the columns of a fact.
ColumnsFit(columns) ==
  /\ Len(columns) \in Nat \ {0} /\ DOMAIN columns = 1..Len(columns)
  /\ \A k \in DOMAIN columns : columns[k][2] \in DecoderType
  /\ \A j, k \in DOMAIN columns : columns[j][1] = columns[k][1] => j = k

\* Distinct names make fit columns.
LEMMA TypedFits ==
  ASSUME NEW names, Len(names) \in Nat \ {0}, DOMAIN names = 1..Len(names),
         \A j, k \in DOMAIN names : names[j] = names[k] => j = k,
         NEW types, \A x \in DOMAIN types : types[x] \in DecoderType
  PROVE  /\ ColumnsFit(Typed(names, types))
         /\ Len(Typed(names, types)) = Len(names)
         /\ \A k \in DOMAIN names :
              /\ Typed(names, types)[k][1] = names[k]
              /\ Typed(names, types)[k][2] = IF names[k] \in DOMAIN types THEN types[names[k]] ELSE "string"
<1> DEFINE columns == Typed(names, types)
<1>1. DOMAIN columns = 1..Len(names)
  BY DEF Typed
<1>2. \A k \in DOMAIN columns :
        columns[k] = <<names[k], IF names[k] \in DOMAIN types THEN types[names[k]] ELSE "string">>
  BY DEF Typed
<1>3. Len(columns) = Len(names)
  BY <1>1, <1>2
<1>4. \A k \in DOMAIN columns :
        (IF names[k] \in DOMAIN types THEN types[names[k]] ELSE "string") \in DecoderType
  BY DEF DecoderType
<1> HIDE DEF columns
<1>5. ColumnsFit(columns)
  BY <1>1, <1>2, <1>3, <1>4 DEF ColumnsFit
<1> QED BY <1>1, <1>2, <1>3, <1>5 DEF columns

LEMMA AllFit == \A op \in Op : ColumnsFit(Columns(op))
<1>1. ColumnsFit(LogBinColumns)
  BY TypedFits DEF LogBinColumns, DecoderType
<1>2. ColumnsFit(GTIDColumns)
  BY TypedFits DEF GTIDColumns, DecoderType
<1>3. ColumnsFit(ConfigColumns)
  BY TypedFits DEF ConfigColumns, DecoderType
<1>4. ColumnsFit(BinaryLogColumns)
  BY TypedFits DEF BinaryLogColumns, DecoderType
<1>5. ColumnsFit(ReplicaColumns)
  BY TypedFits DEF ReplicaColumns, DecoderType
<1>6. ColumnsFit(ChannelColumns)
  <2> DEFINE names == <<"Channel", "Replica_IO_Running", "Replica_SQL_Running",
                       "Seconds_Behind_Source", "Last_IO_Errno", "Last_IO_Error", "Last_SQL_Errno",
                       "Last_SQL_Error", "Retrieved_Gtid_Set", "Executed_Gtid_Set", "Source_Host",
                       "Source_Port">>
             types == [Seconds_Behind_Source |-> "nullInt64", Last_IO_Errno |-> "int", Last_SQL_Errno
                       |-> "int", Source_Port |-> "uint16"]
  <2>1. Len(names) = 12 /\ DOMAIN names = 1..12
    OBVIOUS
  <2>2. \A j, k \in DOMAIN names : names[j] = names[k] => j = k
    OBVIOUS
  <2>3. \A x \in DOMAIN types : types[x] \in DecoderType
    BY DEF DecoderType
  <2>4. ChannelColumns = Typed(names, types)
    BY DEF ChannelColumns
  <2> HIDE DEF names, types
  <2>5. Len(names) \in Nat \ {0} /\ DOMAIN names = 1..Len(names)
    BY <2>1
  <2> QED BY <2>2, <2>3, <2>4, <2>5, TypedFits
<1>7. ColumnsFit(MemberColumns)
  <2> DEFINE names == <<"Channel", "MEMBER_ID", "MEMBER_HOST", "MEMBER_PORT", "MEMBER_STATE",
                       "MEMBER_ROLE", "MEMBER_VERSION", "MEMBER_STACK", "IS_SELF">>
             types == [MEMBER_PORT |-> "nullInt64", IS_SELF |-> "bool"]
  <2>1. Len(names) = 9 /\ DOMAIN names = 1..9
    OBVIOUS
  <2>2. \A j, k \in DOMAIN names : names[j] = names[k] => j = k
    OBVIOUS
  <2>3. \A x \in DOMAIN types : types[x] \in DecoderType
    BY DEF DecoderType
  <2>4. MemberColumns = Typed(names, types)
    BY DEF MemberColumns
  <2> HIDE DEF names, types
  <2>5. Len(names) \in Nat \ {0} /\ DOMAIN names = 1..Len(names)
    BY <2>1
  <2> QED BY <2>2, <2>3, <2>4, <2>5, TypedFits
<1>8. ColumnsFit(StatsColumns)
  <2> DEFINE names == <<"Channel", "MEMBER_ID", "VIEW_ID", "IN_QUEUE", "CHECKED", "CONFLICTS",
                       "VALIDATING", "IN_APPLIER_QUEUE", "APPLIED", "IS_SELF">>
             types == [IN_QUEUE |-> "uint64", CHECKED |-> "uint64", CONFLICTS |-> "uint64", VALIDATING
                       |-> "uint64", IN_APPLIER_QUEUE |-> "uint64", APPLIED |-> "uint64", IS_SELF |->
                       "bool"]
  <2>1. Len(names) = 10 /\ DOMAIN names = 1..10
    OBVIOUS
  <2>2. \A j, k \in DOMAIN names : names[j] = names[k] => j = k
    OBVIOUS
  <2>3. \A x \in DOMAIN types : types[x] \in DecoderType
    BY DEF DecoderType
  <2>4. StatsColumns = Typed(names, types)
    BY DEF StatsColumns
  <2> HIDE DEF names, types
  <2>5. Len(names) \in Nat \ {0} /\ DOMAIN names = 1..Len(names)
    BY <2>1
  <2> QED BY <2>2, <2>3, <2>4, <2>5, TypedFits
<1> QED
  BY <1>1, <1>2, <1>3, <1>4, <1>5, <1>6, <1>7, <1>8 DEF Op, Columns

\* The columns that properties and error messages single out.
LEMMA NamedColumns ==
  /\ \A op \in Op : NamesChannel(op) => Columns(op)[1] = <<"Channel", "string">> /\ 1 \in DOMAIN Columns(op)
  /\ \A op \in Op : NamesMember(op) => Columns(op)[2] = <<"MEMBER_ID", "string">> /\ 2 \in DOMAIN Columns(op)
  /\ Columns("GroupMemberStats")[8] = <<"IN_APPLIER_QUEUE", "uint64">>
  /\ 8 \in DOMAIN Columns("GroupMemberStats")
  /\ Columns("ReplicaStatus")[4] = <<"Seconds_Behind_Source", "nullInt64">>
  /\ 4 \in DOMAIN Columns("ReplicaStatus")
  /\ Columns("BinaryLogStatus")[2] = <<"Position", "uint64">>
  /\ 2 \in DOMAIN Columns("BinaryLogStatus")
<1>1. /\ ChannelColumns[1] = <<"Channel", "string">> /\ 1 \in DOMAIN ChannelColumns
      /\ ChannelColumns[4] = <<"Seconds_Behind_Source", "nullInt64">> /\ 4 \in DOMAIN ChannelColumns
  BY DEF ChannelColumns, Typed
<1>2. /\ MemberColumns[1] = <<"Channel", "string">> /\ 1 \in DOMAIN MemberColumns
      /\ MemberColumns[2] = <<"MEMBER_ID", "string">> /\ 2 \in DOMAIN MemberColumns
  BY DEF MemberColumns, Typed
<1>3. /\ StatsColumns[1] = <<"Channel", "string">> /\ 1 \in DOMAIN StatsColumns
      /\ StatsColumns[2] = <<"MEMBER_ID", "string">> /\ 2 \in DOMAIN StatsColumns
      /\ StatsColumns[8] = <<"IN_APPLIER_QUEUE", "uint64">> /\ 8 \in DOMAIN StatsColumns
  BY DEF StatsColumns, Typed
<1>4. BinaryLogColumns[2] = <<"Position", "uint64">> /\ 2 \in DOMAIN BinaryLogColumns
  BY DEF BinaryLogColumns, Typed
<1> QED BY <1>1, <1>2, <1>3, <1>4 DEF Columns, NamesChannel, NamesMember

\* indexColumns looks for every column of a fact, and for no other.
LEMMA PromisedNames ==
  ASSUME NEW op \in Op
  PROVE  /\ DOMAIN Promised(op) = DOMAIN Columns(op)
         /\ Listed(Promised(op)) = {Columns(op)[k][1] : k \in DOMAIN Columns(op)}
<1> DEFINE names == [k \in DOMAIN Columns(op) |-> Columns(op)[k][1]]
<1>1. DOMAIN names = DOMAIN Columns(op) /\ Listed(names) = {Columns(op)[k][1] : k \in DOMAIN Columns(op)}
  BY DEF Listed
<1>2. CASE op # "GroupMemberStats"
  BY <1>1, <1>2 DEF Promised
<1>3. CASE op = "GroupMemberStats"
  <2>1. 2 \in DOMAIN names /\ 3 \in DOMAIN names
    BY <1>3 DEF Columns, StatsColumns, Typed
  <2> HIDE DEF names
  <2>2. Promised(op) = [names EXCEPT ![2] = names[3], ![3] = names[2]]
    BY <1>3 DEF Promised, names
  <2>3. DOMAIN Promised(op) = DOMAIN names
    BY <2>2
  <2>4. Listed(Promised(op)) = Listed(names)
    BY <2>1, <2>2, <2>3 DEF Listed
  <2> QED BY <1>1, <2>3, <2>4
<1> QED BY <1>2, <1>3

----------------------------------------------------------------------------
(* Finding a column, and the first of several.                             *)

LEMMA LeastOf ==
  ASSUME NEW S \in SUBSET Nat, S # {}
  PROVE  \E k \in S : \A j \in S : k <= j
<1>1. PICK k \in S : \A j \in S : ~(<<j, k>> \in OpToRel(<, Nat))
  BY NatLessThanWellFounded, WFMin
<1>2. \A j \in S : ~(j < k)
  BY <1>1 DEF OpToRel
<1> QED BY <1>2

LEMMA FirstLeast ==
  ASSUME NEW S \in SUBSET Nat, S # {}
  PROVE  First(S) \in S /\ \A j \in S : First(S) <= j
BY LeastOf DEF First

LEMMA PositionLeast ==
  ASSUME NEW header \in Seq(STRING), NEW name \in Listed(header)
  PROVE  /\ Position(header, name) \in DOMAIN header
         /\ header[Position(header, name)] = name
         /\ \A i \in DOMAIN header :
              header[i] = name /\ (\A j \in 1..i - 1 : header[j] # name) <=> i = Position(header, name)
<1> DEFINE S == {i \in DOMAIN header : header[i] = name}
           p == Position(header, name)
<1>1. DOMAIN header = 1..Len(header) /\ Len(header) \in Nat
  OBVIOUS
<1>2. S \in SUBSET Nat /\ S # {}
  BY <1>1 DEF Listed
<1>3. \E k \in S : \A j \in S : k <= j
  BY <1>2, LeastOf
<1>4. p \in S /\ \A j \in S : p <= j
  BY <1>3 DEF Position
<1> HIDE DEF p
<1>5. ASSUME NEW i \in DOMAIN header
      PROVE  header[i] = name /\ (\A j \in 1..i - 1 : header[j] # name) <=> i = p
  <2>1. ASSUME header[i] = name, \A j \in 1..i - 1 : header[j] # name PROVE i = p
    BY <1>1, <1>4, <2>1
  <2>2. ASSUME i = p PROVE header[i] = name /\ \A j \in 1..i - 1 : header[j] # name
    BY <1>1, <1>4, <2>2
  <2> QED BY <2>1, <2>2
<1> QED BY <1>4, <1>5 DEF p

----------------------------------------------------------------------------
(* A result set and the fact made of it.                                   *)

HeaderRow(r) == [DOMAIN r.header -> Cell]

LEMMA ReplyShape ==
  ASSUME reply \in Reply
  PROVE  /\ reply.op \in Op /\ reply.op # "BinaryLogStatus"
         /\ reply.header \in Seq(STRING) /\ reply.rows \in Seq(HeaderRow(reply))
         /\ reply.op \in ByPosition =>
              reply.header = [k \in DOMAIN Columns(reply.op) |-> Columns(reply.op)[k][1]]
         /\ RowsScanned \in Seq(HeaderRow(reply))
         /\ RowsScanned = <<>> <=> reply.rows = <<>>
<1>1. WellFormed(reply)
  BY ReadsAssumption
<1>2. reply.rows \in Seq(HeaderRow(reply))
  BY <1>1 DEF WellFormed, HeaderRow
<1>3. reply.rows # <<>> => Head(reply.rows) \in HeaderRow(reply)
  BY <1>2
<1>4. /\ RowsScanned \in Seq(HeaderRow(reply))
      /\ RowsScanned = <<>> <=> reply.rows = <<>>
  BY <1>2, <1>3 DEF RowsScanned, Scanned
<1> QED BY <1>1, <1>2, <1>4 DEF WellFormed

\* Every column of a complete result set is read where its name first occurs.
LEMMA ColumnAt ==
  ASSUME reply \in Reply, Complete, NEW k \in DOMAIN Columns(reply.op)
  PROVE  /\ Columns(reply.op)[k][1] \in Listed(reply.header)
         /\ At(reply.op, reply.header, k) = Position(reply.header, Columns(reply.op)[k][1])
         /\ At(reply.op, reply.header, k) \in DOMAIN reply.header
<1> DEFINE op == reply.op
           header == reply.header
           name == Columns(op)[k][1]
<1>1. op \in Op /\ header \in Seq(STRING) /\ ColumnsFit(Columns(op))
  BY ReplyShape, AllFit
<1>2. CASE op \in ByPosition
  <2>1. header = [i \in DOMAIN Columns(op) |-> Columns(op)[i][1]]
    BY <1>2, ReplyShape
  <2>2. k \in DOMAIN header /\ header[k] = name
    BY <2>1
  <2>3. name \in Listed(header)
    BY <2>2 DEF Listed
  <2>4. \A j \in 1..k - 1 : header[j] # name
    <3> SUFFICES ASSUME NEW j \in 1..k - 1 PROVE header[j] # name
      OBVIOUS
    <3>1. j \in DOMAIN Columns(op) /\ j # k
      BY <1>1 DEF ColumnsFit
    <3> QED BY <1>1, <2>1, <3>1 DEF ColumnsFit
  <2>5. k = Position(header, name)
    BY <1>1, <2>2, <2>3, <2>4, PositionLeast
  <2> QED BY <1>2, <2>2, <2>3, <2>5 DEF At
<1>3. CASE op \notin ByPosition
  <2>1. name \in Listed(header)
    BY <1>1, <1>3, PromisedNames DEF Complete
  <2> QED BY <1>1, <1>3, <2>1, PositionLeast DEF At
<1> QED BY <1>2, <1>3

\* A column decodes exactly when its Go type holds what the row carries there.
LEMMA ColumnExact ==
  ASSUME reply \in Reply, Complete, NEW k \in DOMAIN Columns(reply.op), NEW values \in HeaderRow(reply)
  PROVE  LET t == Columns(reply.op)[k][2]
             c == values[At(reply.op, reply.header, k)]
         IN /\ c \in Cell /\ t \in DecoderType
            /\ Holds(c, t) <=> Decoded(c, t).ok
            /\ Holds(c, t) <=> Carries(values, Columns(reply.op)[k][1], t, Holds)
            /\ Decoded(c, t).ok => Decoded(c, t).value = Value(c, t)
<1> DEFINE t == Columns(reply.op)[k][2]
           name == Columns(reply.op)[k][1]
           i == At(reply.op, reply.header, k)
           c == values[i]
<1>1. /\ name \in Listed(reply.header) /\ i = Position(reply.header, name)
      /\ i \in DOMAIN reply.header
  BY ColumnAt
<1>2. c \in Cell
  BY <1>1 DEF HeaderRow
<1>3. t \in DecoderType
  BY ReplyShape, AllFit DEF ColumnsFit
<1> HIDE DEF t, c
<1>4. Holds(c, t) <=> Decoded(c, t).ok
  BY <1>2, <1>3, DecodesExactly, OkOrError
<1>5. Decoded(c, t).ok => Decoded(c, t).value = Value(c, t)
  BY <1>2, <1>3, <1>4, DecodesExactly, OkOrError
<1> HIDE DEF i, name
<1>6. Carries(values, name, t, Holds) <=> Holds(values[i], t)
  BY <1>1, ReplyShape, PositionLeast DEF Carries
<1> QED BY <1>2, <1>3, <1>4, <1>5, <1>6 DEF t, c, i, name

\* A row decodes exactly when each column does.
LEMMA RowExact ==
  ASSUME reply \in Reply, Complete, NEW values \in HeaderRow(reply)
  PROVE  RowHolds(values) <=> Undecoded(reply.op, reply.header, values) = {}
BY ColumnExact DEF RowHolds, Undecoded

LEMMA MissingMeansIncomplete ==
  ASSUME reply \in Reply
  PROVE  LET missing == {k \in DOMAIN Promised(reply.op) :
                           reply.op \notin ByPosition /\ Promised(reply.op)[k] \notin Listed(reply.header)}
         IN missing = {} <=> Complete
BY DEF Complete, Listed

\* The four ways a result set ends.
Bad == {i \in DOMAIN RowsScanned : Undecoded(reply.op, reply.header, RowsScanned[i]) # {}}
Decided == fact = DecodedRows(reply.op, reply.header, reply.rows)
NoFirstRow == reply.op \in ByPosition /\ RowsScanned = <<>>

LEMMA ScannedShape ==
  ASSUME reply \in Reply
  PROVE  /\ DOMAIN RowsScanned \in SUBSET Nat /\ DOMAIN RowsScanned = 1..Len(RowsScanned)
         /\ Len(RowsScanned) \in Nat
         /\ \A i \in DOMAIN RowsScanned : RowsScanned[i] \in HeaderRow(reply)
<1>1. RowsScanned \in Seq(HeaderRow(reply))
  BY ReplyShape
<1> HIDE DEF RowsScanned
<1> QED BY <1>1

LEMMA IncompleteFact ==
  ASSUME reply \in Reply, Decided, ~Complete
  PROVE  \E k \in DOMAIN Promised(reply.op) :
           /\ Promised(reply.op)[k] \notin Listed(reply.header)
           /\ fact = Failure(NoText, NoText, Promised(reply.op)[k])
<1> DEFINE missing == {k \in DOMAIN Promised(reply.op) :
                         reply.op \notin ByPosition /\ Promised(reply.op)[k] \notin Listed(reply.header)}
<1>1. missing # {}
  BY MissingMeansIncomplete
<1>2. missing \in SUBSET Nat
  BY ReplyShape, AllFit, PromisedNames DEF ColumnsFit
<1>3. First(missing) \in missing
  BY <1>1, <1>2, FirstLeast
<1>4. fact = Failure(NoText, NoText, Promised(reply.op)[First(missing)])
  BY <1>1 DEF Decided, DecodedRows
<1> QED BY <1>3, <1>4

LEMMA CompleteFact ==
  ASSUME reply \in Reply, Decided, Complete
  PROVE  /\ NoFirstRow => fact = Failure(NoText, NoText, NoText)
         /\ ~NoFirstRow /\ Bad = {} =>
              fact = Fact([i \in DOMAIN RowsScanned |-> DecodedRow(reply.op, reply.header, RowsScanned[i])])
         /\ ~NoFirstRow /\ Bad # {} =>
              fact = RowFailure(reply.op, reply.header, RowsScanned[First(Bad)],
                                First(Undecoded(reply.op, reply.header, RowsScanned[First(Bad)])))
<1> DEFINE missing == {k \in DOMAIN Promised(reply.op) :
                         reply.op \notin ByPosition /\ Promised(reply.op)[k] \notin Listed(reply.header)}
<1>1. missing = {}
  BY MissingMeansIncomplete
<1>2. DecodedRows(reply.op, reply.header, reply.rows) =
        IF NoFirstRow THEN Failure(NoText, NoText, NoText)
        ELSE IF Bad = {} THEN Fact([i \in DOMAIN RowsScanned |-> DecodedRow(reply.op, reply.header, RowsScanned[i])])
        ELSE RowFailure(reply.op, reply.header, RowsScanned[First(Bad)],
                        First(Undecoded(reply.op, reply.header, RowsScanned[First(Bad)])))
  BY <1>1 DEF DecodedRows, NoFirstRow, Bad, RowsScanned
<1> QED BY <1>2 DEF Decided

LEMMA OkOrFailure ==
  /\ \A rows : Fact(rows).ok = TRUE /\ Fact(rows).rows = rows
  /\ \A ch, mem, col : /\ Failure(ch, mem, col).ok = FALSE /\ Failure(ch, mem, col).channel = ch
                       /\ Failure(ch, mem, col).member = mem /\ Failure(ch, mem, col).column = col
BY DEF Fact, Failure

LEMMA BadRows ==
  ASSUME reply \in Reply, Complete
  PROVE  Bad = {i \in DOMAIN RowsScanned : ~RowHolds(RowsScanned[i])}
BY RowExact, ScannedShape DEF Bad

LEMMA FactOk ==
  ASSUME reply \in Reply, Decided
  PROVE  fact.ok <=> Complete /\ ~NoFirstRow /\ Bad = {}
<1>1. CASE ~Complete
  BY <1>1, IncompleteFact, OkOrFailure
<1>2. CASE Complete /\ (NoFirstRow \/ Bad = {})
  BY <1>2, CompleteFact, OkOrFailure
<1>3. CASE Complete /\ ~NoFirstRow /\ Bad # {}
  BY <1>3, CompleteFact, OkOrFailure DEF RowFailure
<1> QED BY <1>1, <1>2, <1>3

\* A field of a fact is what its row carries under the field's name.
LEMMA FieldExact ==
  ASSUME reply \in Reply, Decided, fact.ok,
         NEW i \in DOMAIN RowsScanned, NEW k \in DOMAIN Columns(reply.op)
  PROVE  \E at \in DOMAIN reply.header :
           /\ \A j \in DOMAIN reply.header :
                reply.header[j] = Columns(reply.op)[k][1]
                  /\ (\A l \in 1..j - 1 : reply.header[l] # Columns(reply.op)[k][1]) <=> j = at
           /\ RowsScanned[i][at] \in Cell /\ Holds(RowsScanned[i][at], Columns(reply.op)[k][2])
           /\ fact.rows[i][k] = Value(RowsScanned[i][at], Columns(reply.op)[k][2])
<1> DEFINE name == Columns(reply.op)[k][1]
           t == Columns(reply.op)[k][2]
           at == At(reply.op, reply.header, k)
           c == RowsScanned[i][at]
<1>1. Complete /\ ~NoFirstRow /\ Bad = {}
  BY FactOk
<1>2. fact.rows = [l \in DOMAIN RowsScanned |-> DecodedRow(reply.op, reply.header, RowsScanned[l])]
  BY <1>1, CompleteFact, OkOrFailure
<1>3. RowsScanned[i] \in HeaderRow(reply) /\ RowHolds(RowsScanned[i])
  BY <1>1, BadRows, ScannedShape
<1>4. /\ name \in Listed(reply.header) /\ at = Position(reply.header, name) /\ at \in DOMAIN reply.header
  BY <1>1, ColumnAt
<1>5. c \in Cell /\ Holds(c, t) /\ Decoded(c, t).ok
  BY <1>1, <1>3, ColumnExact DEF RowHolds
<1>6. Decoded(c, t).value = Value(c, t)
  BY <1>1, <1>3, <1>5, ColumnExact
<1>7. fact.rows[i][k] = Decoded(c, t).value
  BY <1>2 DEF DecodedRow
<1> HIDE DEF at, name, t
<1>8. \A j \in DOMAIN reply.header :
        reply.header[j] = name /\ (\A l \in 1..j - 1 : reply.header[l] # name) <=> j = at
  BY <1>4, ReplyShape, PositionLeast
<1> QED BY <1>4, <1>5, <1>6, <1>7, <1>8 DEF name, t

LEMMA FactExact ==
  ASSUME reply \in Reply, Decided
  PROVE  FactFaithful
<1>1. fact.ok <=> /\ Complete /\ \A i \in DOMAIN RowsScanned : RowHolds(RowsScanned[i])
                  /\ reply.op \in ByPosition => reply.rows # <<>>
  BY FactOk, BadRows, ReplyShape DEF NoFirstRow
<1>2. ASSUME fact.ok
      PROVE  Len(fact.rows) = Len(RowsScanned)
  <2>1. fact.rows = [i \in DOMAIN RowsScanned |-> DecodedRow(reply.op, reply.header, RowsScanned[i])]
    BY <1>2, FactOk, CompleteFact, OkOrFailure
  <2> QED BY <2>1, ScannedShape
<1>3. ASSUME fact.ok, NEW i \in DOMAIN RowsScanned, NEW k \in DOMAIN Columns(reply.op)
      PROVE  Carries(RowsScanned[i], Columns(reply.op)[k][1], Columns(reply.op)[k][2],
                     LAMBDA c, t : fact.rows[i][k] = Value(c, t))
  BY <1>3, FieldExact DEF Carries
<1> QED BY <1>1, <1>2, <1>3 DEF FactFaithful

\* A depth no larger than a bound, in whichever type each of them is.
LEMMA QueueExact ==
  ASSUME NEW depth \in 0..Wide - 1, NEW bound \in MinSigned(Wide)..MaxSigned(Wide)
  PROVE  ~DepthFinding(depth, bound) <=> depth <= bound
<1>1. bound \in Int /\ depth \in Int /\ depth >= 0
  BY Widths DEF MinSigned, MaxSigned
<1>2. CASE bound < 0
  BY <1>1, <1>2 DEF DepthFinding
<1>3. CASE bound >= 0
  <2>1. bound \in 0..Wide - 1
    BY <1>1, <1>3, Widths DEF MaxSigned
  <2>2. AsUnsigned(bound, Wide) = bound
    BY <2>1, Widths, ModInRange DEF AsUnsigned
  <2> QED BY <1>1, <1>3, <2>2 DEF DepthFinding
<1> QED BY <1>1, <1>2, <1>3

LEMMA ChecksExact ==
  ASSUME reply \in Reply, Decided
  PROVE  BoundsExact
<1> SUFFICES ASSUME fact.ok, NEW bound \in Bound, NEW i \in DOMAIN RowsScanned
             PROVE  /\ reply.op = "GroupMemberStats" =>
                         (~DepthFinding(fact.rows[i][8], bound) <=>
                            Carries(RowsScanned[i], "IN_APPLIER_QUEUE", "uint64", LAMBDA c, t : Number(c) <= bound))
                    /\ reply.op = "ReplicaStatus" =>
                         (~LagFinding(fact.rows[i][4], bound) <=>
                            Carries(RowsScanned[i], "Seconds_Behind_Source", "nullInt64",
                                    LAMBDA c, t : c.form # "nil" /\ bound >= 0 /\ Number(c) <= bound))
  BY DEF BoundsExact
<1>1. bound \in MinSigned(Wide)..MaxSigned(Wide) /\ bound \in Int
  BY ReadsAssumption, Widths DEF MinSigned, MaxSigned
<1>2. CASE reply.op = "GroupMemberStats"
  <2>1. PICK at \in DOMAIN reply.header :
          /\ \A j \in DOMAIN reply.header :
               reply.header[j] = "IN_APPLIER_QUEUE"
                 /\ (\A l \in 1..j - 1 : reply.header[l] # "IN_APPLIER_QUEUE") <=> j = at
          /\ RowsScanned[i][at] \in Cell /\ Holds(RowsScanned[i][at], "uint64")
          /\ fact.rows[i][8] = Value(RowsScanned[i][at], "uint64")
    BY <1>2, FieldExact, NamedColumns
  <2> DEFINE c == RowsScanned[i][at]
  <2>2. Number(c) \in 0..Wide - 1 /\ fact.rows[i][8] = Number(c)
    BY <2>1 DEF Holds, Value, GoRange, Numeric, IsText
  <2>3. Carries(RowsScanned[i], "IN_APPLIER_QUEUE", "uint64", LAMBDA d, t : Number(d) <= bound)
          <=> Number(c) <= bound
    BY <2>1 DEF Carries
  <2> HIDE DEF c
  <2> QED BY <1>1, <1>2, <2>2, <2>3, QueueExact
<1>3. CASE reply.op = "ReplicaStatus"
  <2>1. PICK at \in DOMAIN reply.header :
          /\ \A j \in DOMAIN reply.header :
               reply.header[j] = "Seconds_Behind_Source"
                 /\ (\A l \in 1..j - 1 : reply.header[l] # "Seconds_Behind_Source") <=> j = at
          /\ RowsScanned[i][at] \in Cell /\ Holds(RowsScanned[i][at], "nullInt64")
          /\ fact.rows[i][4] = Value(RowsScanned[i][at], "nullInt64")
    BY <1>3, FieldExact, NamedColumns
  <2> DEFINE c == RowsScanned[i][at]
  <2>2. Number(c) \in Int /\ fact.rows[i][4] = IF c.form = "nil" THEN Null ELSE Number(c)
    BY <2>1, CellType DEF Value
  <2>3. Carries(RowsScanned[i], "Seconds_Behind_Source", "nullInt64",
                LAMBDA d, t : d.form # "nil" /\ bound >= 0 /\ Number(d) <= bound)
          <=> c.form # "nil" /\ bound >= 0 /\ Number(c) <= bound
    BY <2>1 DEF Carries
  <2> HIDE DEF c
  <2> DEFINE lag == fact.rows[i][4]
  <2>4. lag = (IF c.form = "nil" THEN Null ELSE Number(c)) /\ Number(c) \in Int /\ Null \notin Int
    BY <2>2, DecodeAssumption
  <2>5. LagFinding(lag, bound) <=> lag = Null \/ bound < 0 \/ lag > bound
    BY DEF LagFinding
  <2> HIDE DEF lag
  <2>6. ~LagFinding(lag, bound) <=> c.form # "nil" /\ bound >= 0 /\ Number(c) <= bound
    <3>1. CASE c.form = "nil"
      BY <2>4, <2>5, <3>1
    <3>2. CASE c.form # "nil"
      <4>1. lag = Number(c) /\ lag \in Int /\ lag # Null
        BY <2>4, <3>2
      <4> QED BY <1>1, <2>5, <3>2, <4>1
    <3> QED BY <3>1, <3>2
  <2> QED BY <1>3, <2>3, <2>6 DEF lag
<1> QED BY <1>2, <1>3

----------------------------------------------------------------------------
(* What an error names.                                                    *)

CarriesText(values, name, text) ==
  Carries(values, name, "string", LAMBDA c, t : Holds(c, t) /\ Value(c, t) = text)

\* A text that decodes is the one the row carries under that name.
LEMMA TextColumn ==
  ASSUME reply \in Reply, Complete, NEW values \in HeaderRow(reply),
         NEW m \in DOMAIN Columns(reply.op), NEW name, Columns(reply.op)[m] = <<name, "string">>,
         NEW text, text = Decoded(values[At(reply.op, reply.header, m)], "string").value
  PROVE  /\ m \notin Undecoded(reply.op, reply.header, values) <=> Carries(values, name, "string", Holds)
         /\ m \notin Undecoded(reply.op, reply.header, values) =>
              CarriesText(values, name, text)
<1> DEFINE at == At(reply.op, reply.header, m)
           c == values[at]
<1>1. Columns(reply.op)[m][1] = name /\ Columns(reply.op)[m][2] = "string"
  OBVIOUS
<1>2. /\ Holds(c, "string") <=> Decoded(c, "string").ok
      /\ Holds(c, "string") <=> Carries(values, name, "string", Holds)
      /\ Decoded(c, "string").ok => Decoded(c, "string").value = Value(c, "string")
  BY <1>1, ColumnExact
<1>3. m \notin Undecoded(reply.op, reply.header, values) <=> Decoded(c, "string").ok
  BY <1>1 DEF Undecoded
<1>4. /\ name \in Listed(reply.header) /\ at = Position(reply.header, name) /\ at \in DOMAIN reply.header
  BY <1>1, ColumnAt
<1> HIDE DEF at
<1>5. /\ reply.header[at] = name /\ \A j \in 1..at - 1 : reply.header[j] # name
  BY <1>4, ReplyShape, PositionLeast
<1>6. Holds(c, "string") /\ Value(c, "string") = text =>
        CarriesText(values, name, text)
  BY <1>4, <1>5 DEF Carries, CarriesText
<1> QED BY <1>2, <1>3, <1>6 DEF at

\* The row an error is about is the first that does not decode.
LEMMA FirstBad ==
  ASSUME reply \in Reply, Complete, Bad # {}
  PROVE  /\ First(Bad) \in DOMAIN RowsScanned /\ ~RowHolds(RowsScanned[First(Bad)])
         /\ \A i \in DOMAIN RowsScanned :
              ~RowHolds(RowsScanned[i]) /\ (\A j \in 1..i - 1 : RowHolds(RowsScanned[j]))
                <=> i = First(Bad)
<1>1. Bad \in SUBSET Nat
  BY ScannedShape DEF Bad
<1>2. First(Bad) \in Bad /\ \A j \in Bad : First(Bad) <= j
  BY <1>1, FirstLeast
<1>3. DOMAIN RowsScanned = 1..Len(RowsScanned) /\ Len(RowsScanned) \in Nat
  BY ScannedShape
<1>4. \A i \in DOMAIN RowsScanned : i \in Bad <=> ~RowHolds(RowsScanned[i])
  BY BadRows
<1> DEFINE b == First(Bad)
<1>5. b \in DOMAIN RowsScanned /\ b \in Bad
  BY <1>2 DEF Bad
<1> HIDE DEF b
<1>6. ASSUME NEW i \in DOMAIN RowsScanned
      PROVE  ~RowHolds(RowsScanned[i]) /\ (\A j \in 1..i - 1 : RowHolds(RowsScanned[j])) <=> i = b
  <2>1. ASSUME ~RowHolds(RowsScanned[i]), \A j \in 1..i - 1 : RowHolds(RowsScanned[j]) PROVE i = b
    <3>1. b <= i
      BY <1>2, <1>4, <2>1 DEF b
    <3>2. b \notin 1..i - 1
      BY <1>4, <1>5, <2>1
    <3> QED BY <1>3, <1>5, <3>1, <3>2
  <2>2. ASSUME i = b PROVE ~RowHolds(RowsScanned[i]) /\ \A j \in 1..i - 1 : RowHolds(RowsScanned[j])
    <3>1. \A j \in 1..i - 1 : j \in DOMAIN RowsScanned /\ ~(b <= j)
      BY <1>3, <2>2
    <3> QED BY <1>2, <1>4, <1>5, <2>2, <3>1 DEF b
  <2> QED BY <2>1, <2>2
<1> QED BY <1>4, <1>5, <1>6 DEF b

LEMMA IncompleteNames ==
  ASSUME reply \in Reply, Decided, ~Complete
  PROVE  /\ fact.channel = NoText /\ fact.member = NoText
         /\ \E c \in Listed(Columns(reply.op)) :
              /\ c[1] = fact.column
              /\ \A values : ~Carries(values, c[1], c[2], Holds)
<1>1. PICK k \in DOMAIN Promised(reply.op) :
        /\ Promised(reply.op)[k] \notin Listed(reply.header)
        /\ fact = Failure(NoText, NoText, Promised(reply.op)[k])
  BY IncompleteFact
<1>2. Promised(reply.op)[k] \in Listed(Promised(reply.op))
  BY DEF Listed
<1>3. PICK m \in DOMAIN Columns(reply.op) : Columns(reply.op)[m][1] = Promised(reply.op)[k]
  BY <1>2, ReplyShape, PromisedNames
<1>4. Columns(reply.op)[m] \in Listed(Columns(reply.op))
  BY DEF Listed
<1>5. \A values : ~Carries(values, Columns(reply.op)[m][1], Columns(reply.op)[m][2], Holds)
  BY <1>1, <1>3 DEF Carries, Listed
<1> QED BY <1>1, <1>3, <1>4, <1>5, OkOrFailure

LEMMA FailureExact ==
  ASSUME reply \in Reply, Decided
  PROVE  FailureNamesRow
<1> SUFFICES ASSUME ~fact.ok, RowsScanned # <<>> PROVE FailureNamesRow
  BY DEF FailureNamesRow
<1> DEFINE Blames(i) == /\ Complete => ~RowHolds(RowsScanned[i])
                        /\ \A j \in 1..i - 1 : Complete /\ RowHolds(RowsScanned[j])
           blamed == CHOOSE i \in DOMAIN RowsScanned : Blames(i)
           values == RowsScanned[blamed]
           hasText(name, text) == CarriesText(values, name, text)
           legible(name) == Carries(values, name, "string", Holds)
           Claim == /\ \E c \in Listed(Columns(reply.op)) :
                         c[1] = fact.column /\ ~Carries(values, c[1], c[2], Holds)
                    /\ fact.channel # NoText => hasText("Channel", fact.channel)
                    /\ fact.member # NoText => hasText("MEMBER_ID", fact.member)
                    /\ Complete /\ NamesChannel(reply.op) /\ legible("Channel") =>
                         /\ hasText("Channel", fact.channel)
                         /\ reply.op # "ReplicaStatus" /\ legible("MEMBER_ID") => hasText("MEMBER_ID", fact.member)
<1>1. CASE ~Complete
  <2>1. Claim
    BY <1>1, IncompleteNames
  <2> QED BY <2>1 DEF FailureNamesRow, CarriesText
<1>2. CASE Complete
  <2> DEFINE op == reply.op
             undecoded == Undecoded(op, reply.header, values)
             k == First(undecoded)
             Text(m) == Decoded(values[At(op, reply.header, m)], "string").value
  <2>1. ~NoFirstRow /\ Bad # {}
    BY <1>2, FactOk DEF NoFirstRow
  <2>2. \A i \in DOMAIN RowsScanned : Blames(i) <=> i = First(Bad)
    BY <1>2, <2>1, FirstBad
  <2>3. blamed = First(Bad) /\ blamed \in DOMAIN RowsScanned /\ ~RowHolds(values)
    BY <1>2, <2>1, <2>2, FirstBad
  <2>4. values \in HeaderRow(reply)
    BY <2>3, ScannedShape
  <2>5. fact = RowFailure(op, reply.header, values, k)
    BY <1>2, <2>1, <2>3, CompleteFact
  <2> HIDE DEF blamed
  <2>6. undecoded # {} /\ undecoded \in SUBSET DOMAIN Columns(op) /\ op \in Op
    BY <1>2, <2>3, <2>4, RowExact, ReplyShape DEF Undecoded
  <2>7. /\ k \in undecoded /\ k \in Nat /\ k \in DOMAIN Columns(op) /\ k >= 1
        /\ \A j \in undecoded : k <= j
    <3>1. undecoded \in SUBSET Nat /\ \A j \in DOMAIN Columns(op) : j \in Nat /\ j >= 1
      BY <2>6, AllFit DEF ColumnsFit
    <3> HIDE DEF undecoded
    <3> QED BY <2>6, <3>1, FirstLeast
  <2>8. /\ fact.column = Columns(op)[k][1]
        /\ fact.channel = IF NamesChannel(op) /\ k > 1 THEN Text(1) ELSE NoText
        /\ fact.member = IF NamesMember(op) /\ k > 2 THEN Text(2) ELSE NoText
    BY <2>5, OkOrFailure DEF RowFailure
  <2>9. \E c \in Listed(Columns(op)) : c[1] = fact.column /\ ~Carries(values, c[1], c[2], Holds)
    <3>1. ~Carries(values, Columns(op)[k][1], Columns(op)[k][2], Holds)
      BY <1>2, <2>4, <2>7, ColumnExact DEF Undecoded
    <3>2. Columns(op)[k] \in Listed(Columns(op))
      BY <2>7 DEF Listed
    <3> QED BY <2>8, <3>1, <3>2
  <2>10. ASSUME NamesChannel(op)
         PROVE  /\ 1 \notin undecoded <=> legible("Channel")
                /\ 1 \notin undecoded => hasText("Channel", Text(1))
    <3>1. Columns(reply.op)[1] = <<"Channel", "string">> /\ 1 \in DOMAIN Columns(reply.op)
      BY <2>6, <2>10, NamedColumns
    <3>2. \A text : text = Text(1) =>
            /\ 1 \notin undecoded <=> legible("Channel")
            /\ 1 \notin undecoded => hasText("Channel", text)
      <4> SUFFICES ASSUME NEW text, text = Decoded(values[At(reply.op, reply.header, 1)], "string").value
                   PROVE  /\ 1 \notin Undecoded(reply.op, reply.header, values)
                               <=> Carries(values, "Channel", "string", Holds)
                          /\ 1 \notin Undecoded(reply.op, reply.header, values) =>
                               CarriesText(values, "Channel", text)
        OBVIOUS
      <4> HIDE DEF values
      <4> QED BY <1>2, <2>4, <3>1, TextColumn
    <3> QED BY <3>2
  <2>11. ASSUME NamesMember(op)
         PROVE  /\ 2 \notin undecoded <=> legible("MEMBER_ID")
                /\ 2 \notin undecoded => hasText("MEMBER_ID", Text(2))
    <3>1. Columns(reply.op)[2] = <<"MEMBER_ID", "string">> /\ 2 \in DOMAIN Columns(reply.op)
      BY <2>6, <2>11, NamedColumns
    <3>2. \A text : text = Text(2) =>
            /\ 2 \notin undecoded <=> legible("MEMBER_ID")
            /\ 2 \notin undecoded => hasText("MEMBER_ID", text)
      <4> SUFFICES ASSUME NEW text, text = Decoded(values[At(reply.op, reply.header, 2)], "string").value
                   PROVE  /\ 2 \notin Undecoded(reply.op, reply.header, values)
                               <=> Carries(values, "MEMBER_ID", "string", Holds)
                          /\ 2 \notin Undecoded(reply.op, reply.header, values) =>
                               CarriesText(values, "MEMBER_ID", text)
        OBVIOUS
      <4> HIDE DEF values
      <4> QED BY <1>2, <2>4, <3>1, TextColumn
    <3> QED BY <3>2
  <2>12. NamesChannel(op) /\ op # "ReplicaStatus" => NamesMember(op)
    BY DEF NamesMember, NamesChannel
  <2>13. (k > 1 <=> 1 \notin undecoded) /\ (k > 2 => 2 \notin undecoded) /\ (1 \notin undecoded /\ 2 \notin undecoded => k > 2)
    <3> HIDE DEF undecoded
    <3> QED BY <2>7
  <2> HIDE DEF undecoded, k, Text, hasText, legible, op
  <2>14. fact.channel # NoText => hasText("Channel", fact.channel)
    BY <2>8, <2>10, <2>13
  <2>15. fact.member # NoText => hasText("MEMBER_ID", fact.member)
    BY <2>8, <2>11, <2>13
  <2>16. NamesChannel(op) /\ legible("Channel") => hasText("Channel", fact.channel)
    BY <2>8, <2>10, <2>13
  <2>17. NamesChannel(op) /\ legible("Channel") /\ op # "ReplicaStatus" /\ legible("MEMBER_ID") =>
           hasText("MEMBER_ID", fact.member)
    BY <2>8, <2>10, <2>11, <2>12, <2>13
  <2>18. Claim
    BY <2>9, <2>14, <2>15, <2>16, <2>17 DEF op
  <2> QED BY <2>18 DEF FailureNamesRow, CarriesText, hasText, legible, blamed
<1> QED BY <1>1, <1>2

----------------------------------------------------------------------------
(* A fact of one statement.                                                *)

\* What a fact was made of stays what it was made of.
ReadInv == Replied => readPc = "done" /\ reply \in Reply /\ Decided

LEMMA ReadInitially == ReadInit => ReadInv
BY DEF ReadInit, ReadInv, Replied

LEMMA ReadStep == ReadInv /\ [ReadNext]_readVars => ReadInv'
<1> SUFFICES ASSUME ReadInv, [ReadNext]_readVars PROVE ReadInv'
  OBVIOUS
<1> USE DEF ReadInv, Replied, Decided
<1>1. CASE Refuse
  BY <1>1 DEF Refuse, Return
<1>2. CASE ReadFact
  BY <1>2 DEF ReadFact, Return
<1>3. CASE Call
  BY <1>3 DEF Call
<1>4. CASE Succeed("primary") \/ Succeed("fallback")
  BY <1>4 DEF Succeed
<1>5. CASE PrimaryFails
  BY <1>5 DEF PrimaryFails, Return
<1>6. CASE FallbackFails
  BY <1>6 DEF FallbackFails, Return
<1>7. CASE Iterate
  BY <1>7 DEF Iterate, Return
<1>8. CASE ParseRow
  <2>1. reply' = NoRow
    BY <1>8 DEF ParseRow
  <2> QED BY <2>1
<1>9. CASE Write \/ EndContext \/ Revoke
  BY <1>9 DEF Write, EndContext, Revoke, Under
<1>10. CASE UNCHANGED readVars
  BY <1>10 DEF readVars
<1> QED BY <1>1, <1>2, <1>3, <1>4, <1>5, <1>6, <1>7, <1>8, <1>9, <1>10 DEF ReadNext, Statement

LEMMA ReadInvExact == ReadInv => FactFaithful /\ FailureNamesRow /\ BoundsExact
BY FactExact, FailureExact, ChecksExact DEF ReadInv, FactFaithful, FailureNamesRow, BoundsExact

\* Over machine words of every even width, every result set the driver may
\* deliver and every order, repetition and addition of its columns, a fact is
\* returned exactly when each of its rows fits its Go types, and then holds every
\* row with what the server sent under each name (decode.go, indexColumns).
THEOREM FactIsFaithful == ReadSpec => []FactFaithful
BY ReadInitially, ReadStep, ReadInvExact, PTL DEF ReadSpec

\* An error names a column to blame, of the first row that has one, and the
\* channel and member of that row only, whenever they can be read
\* (decodeChannelStatus, decodeGroupMember, nameMember).
THEOREM FailureIsNamed == ReadSpec => []FailureNamesRow
BY ReadInitially, ReadStep, ReadInvExact, PTL DEF ReadSpec

\* Whatever bound of an int64 the caller gives, a queue clears its check exactly
\* when the server's unsigned counter is within it, and a lag when it is known
\* and within it (CheckApplierQueueWithin, CheckSecondsBehindSourceWithin).
THEOREM BoundsAreExact == ReadSpec => []BoundsExact
BY ReadInitially, ReadStep, ReadInvExact, PTL DEF ReadSpec

----------------------------------------------------------------------------
(* BinaryLogStatus.                                                        *)

\* The result set of one row that ParseRow decodes.
StatusHeader == [k \in DOMAIN Columns("BinaryLogStatus") |-> Columns("BinaryLogStatus")[k][1]]
StatusRow(cell) ==
  [k \in DOMAIN Columns("BinaryLogStatus") |->
     IF k = 2 THEN cell ELSE FitCell[Columns("BinaryLogStatus")[k][2]]]
StatusFact(cell) == DecodedRows("BinaryLogStatus", StatusHeader, <<StatusRow(cell)>>)

\* A position is decoded exactly, from the column it is in, or not at all.
LEMMA PositionExact ==
  ASSUME NEW cell \in Cell, StatusFact(cell).ok
  PROVE  Numeric(cell) /\ StatusFact(cell).rows[1][2] = Number(cell)
<1> DEFINE op == "BinaryLogStatus"
           missing == {k \in DOMAIN Promised(op) :
                         op \notin ByPosition /\ Promised(op)[k] \notin Listed(StatusHeader)}
           scanned == <<StatusRow(cell)>>
           bad == {i \in DOMAIN scanned : Undecoded(op, StatusHeader, scanned[i]) # {}}
           first == scanned[First(bad)]
<1>1. op \in Op /\ op \notin ByPosition /\ ColumnsFit(Columns(op))
  BY AllFit DEF Op, ByPosition
<1>2. Columns(op)[2] = <<"Position", "uint64">> /\ 2 \in DOMAIN Columns(op)
  BY NamedColumns
<1>3. Columns(op)[2][1] = "Position" /\ Columns(op)[2][2] = "uint64"
  BY <1>2
<1>4. At(op, StatusHeader, 2) = 2
  <2>1. DOMAIN StatusHeader = DOMAIN Columns(op) /\ StatusHeader[2] = "Position"
    BY <1>2, <1>3 DEF StatusHeader
  <2>2. \A j \in DOMAIN StatusHeader : StatusHeader[j] = "Position" => j = 2
    BY <1>1, <1>2, <1>3, <2>1 DEF StatusHeader, ColumnsFit
  <2>3. Position(StatusHeader, "Position") = 2
    BY <1>2, <2>1, <2>2 DEF Position
  <2> QED BY <1>1, <1>3, <2>3 DEF At
<1>5. Scanned(op, scanned) = scanned
  BY <1>1 DEF Scanned
<1>6. StatusFact(cell) =
        IF missing # {} THEN Failure(NoText, NoText, Promised(op)[First(missing)])
        ELSE IF op \in ByPosition /\ scanned = <<>> THEN Failure(NoText, NoText, NoText)
        ELSE IF bad = {} THEN Fact([i \in DOMAIN scanned |-> DecodedRow(op, StatusHeader, scanned[i])])
        ELSE RowFailure(op, StatusHeader, first, First(Undecoded(op, StatusHeader, first)))
  BY <1>5 DEF StatusFact, DecodedRows
<1>7. \A header, values, k : RowFailure(op, header, values, k).ok = FALSE
  BY OkOrFailure DEF RowFailure
<1>8. bad = {} /\ StatusFact(cell).rows = [i \in DOMAIN scanned |-> DecodedRow(op, StatusHeader, scanned[i])]
  BY <1>6, <1>7, OkOrFailure
<1>9. Undecoded(op, StatusHeader, StatusRow(cell)) = {}
  BY <1>8
<1>10. StatusFact(cell).rows[1] = DecodedRow(op, StatusHeader, StatusRow(cell))
  BY <1>8
<1>11. StatusRow(cell)[2] = cell
  BY <1>2 DEF StatusRow
<1>12. Decoded(cell, "uint64").ok /\ StatusFact(cell).rows[1][2] = Decoded(cell, "uint64").value
  BY <1>2, <1>3, <1>4, <1>9, <1>10, <1>11 DEF Undecoded, DecodedRow
<1>13. Holds(cell, "uint64") /\ Decoded(cell, "uint64") = Ok(Value(cell, "uint64"))
  BY <1>12, DecodesExactly, OkOrError DEF DecoderType
<1>14. Numeric(cell) /\ cell.form # "nil"
  BY <1>13 DEF Holds, Numeric, IsText
<1> QED BY <1>12, <1>13, <1>14, OkOrError DEF Value

\* While the call runs: the row is of a moment of the call, and the statement
\* that failed first did so for a cause that the second cannot share.
CallInv ==
  /\ version \in Version /\ began = 0 /\ position \in 0..MaxPosition
  /\ row \in 0..MaxPosition \cup {NoRow}
  /\ row # NoRow => logging /\ row <= position
  /\ readPc = "rows" /\ row = NoRow => ~logging
  /\ readPc = "row" => row # NoRow
  /\ readPc \in {"idle", "primary"} => causes = {}
  /\ readPc = "fallback" =>
       \E cause \in causes : cause[2] = "parse" => version = "8.0"
  /\ AnswersProve /\ ErrorHasCause

LEMMA CallInitially == ReadInit => CallInv
BY ReadsAssumption DEF ReadInit, CallInv, AnswersProve, ErrorHasCause

LEMMA CallStep == CallInv /\ [ReadNext]_readVars => CallInv'
<1> SUFFICES ASSUME CallInv, [ReadNext]_readVars PROVE CallInv'
  OBVIOUS
<1> USE DEF CallInv, server
<1>1. CASE Refuse
  BY <1>1 DEF Refuse, Return, AnswersProve, ErrorHasCause
<1>2. CASE ReadFact
  BY <1>2 DEF ReadFact, Return, AnswersProve, ErrorHasCause
<1>3. CASE Call
  BY <1>3 DEF Call, AnswersProve, ErrorHasCause
<1>4. ASSUME NEW statement \in {"primary", "fallback"}, Succeed(statement) PROVE CallInv'
  <2>1. row' = IF logging THEN position ELSE NoRow
    BY <1>4 DEF Succeed
  <2>2. position \in Nat /\ NoRow \notin Nat
    BY ReadsAssumption
  <2> QED BY <1>4, <2>1, <2>2 DEF Succeed, AnswersProve, ErrorHasCause
<1>5. CASE PrimaryFails
  <2>1. PICK cause \in Cause("primary") :
          /\ causes' = {<<"primary", cause>>}
          /\ IF FallsBack(cause) THEN readPc' = "fallback" /\ UNCHANGED result ELSE Return("error")
    BY <1>5 DEF PrimaryFails
  <2>2. cause = "parse" => version = "8.0"
    BY <2>1 DEF Cause, Parses
  <2>3. ~FallsBack(cause) => context = "ended"
    BY <2>1 DEF FallsBack, Cause
  <2>4. <<"primary", cause>> \in causes' /\ <<"primary", cause>>[2] = cause
    BY <2>1
  <2>5. CASE FallsBack(cause)
    BY <1>5, <2>1, <2>2, <2>4, <2>5 DEF PrimaryFails, AnswersProve, ErrorHasCause
  <2>6. CASE ~FallsBack(cause)
    BY <1>5, <2>1, <2>3, <2>6 DEF PrimaryFails, Return, AnswersProve, ErrorHasCause
  <2> QED BY <2>5, <2>6
<1>6. CASE FallbackFails
  <2>1. PICK cause \in Cause("fallback") : causes' = Joined(cause)
    BY <1>6 DEF FallbackFails
  <2>2. PICK former \in causes : former[2] = "parse" => version = "8.0"
    BY <1>6 DEF FallbackFails
  <2>3. cause = "parse" => version = "8.4"
    BY <2>1, ReadsAssumption DEF Cause, Parses
  <2>4. former \in causes' /\ <<"fallback", cause>> \in causes' /\ <<"fallback", cause>>[2] = cause
    BY <2>1 DEF Joined
  <2>5. \E c \in causes' : c[2] # "parse"
    BY <2>2, <2>3, <2>4
  <2> QED BY <1>6, <2>5 DEF FallbackFails, Return, AnswersProve, ErrorHasCause
<1>7. CASE Iterate
  <2>1. <<"rows", "transport">>[2] # "parse"
    OBVIOUS
  <2> QED BY <1>7, <2>1 DEF Iterate, Return, AnswersProve, ErrorHasCause
<1>8. CASE ParseRow
  <2>1. PICK cell \in PositionCell[row] : fact' = StatusFact(cell)
    BY <1>8 DEF ParseRow, StatusFact, StatusHeader, StatusRow
  <2>2. /\ UNCHANGED <<version, logging, position, began, row, context>> /\ readPc' = "done"
        /\ \/ fact'.ok /\ result' = "status" /\ UNCHANGED causes
           \/ result' = "error" /\ causes' = causes \cup {<<"row", IF fact'.ok THEN "transport" ELSE "decode">>}
    BY <1>8 DEF ParseRow, Return
  <2>3. row \in 0..MaxPosition /\ logging /\ row <= position
    BY <1>8 DEF ParseRow
  <2>4. cell \in Cell /\ (Numeric(cell) => Number(cell) = row)
    BY <2>1, <2>3, ReadsAssumption
  <2>5. fact'.ok => fact'.rows[1][2] = row
    BY <2>1, <2>4, PositionExact
  <2>6. AnswersProve'
    BY <2>2, <2>3, <2>5, ReadsAssumption DEF AnswersProve
  <2>7. ErrorHasCause'
    <3>1. \A why \in {"transport", "decode"} : <<"row", why>>[2] # "parse"
      OBVIOUS
    <3> QED BY <2>2, <3>1 DEF ErrorHasCause
  <2> QED BY <2>2, <2>6, <2>7
<1>9. CASE Write
  <2>1. position \in Nat /\ position' = position + 1 /\ position' \in 0..MaxPosition
    BY <1>9, ReadsAssumption DEF Write
  <2>2. row # NoRow => row \in Nat /\ row <= position'
    BY <2>1
  <2> QED BY <1>9, <2>1, <2>2 DEF Write, Under, AnswersProve, ErrorHasCause
<1>10. CASE EndContext \/ Revoke
  BY <1>10 DEF EndContext, Revoke, Under, AnswersProve, ErrorHasCause
<1>11. CASE UNCHANGED readVars
  BY <1>11 DEF readVars, AnswersProve, ErrorHasCause
<1> QED BY <1>1, <1>2, <1>3, <1>4, <1>5, <1>6, <1>7, <1>8, <1>9, <1>10, <1>11 DEF ReadNext, Statement

\* However much is written during the call and in whatever form the driver
\* delivers it, a status is a position the log had since the call began, and no
\* status means that the server writes no log (BinaryLogStatus, parseStatusRow).
THEOREM AnswersAreProved == ReadSpec => []AnswersProve
<1>1. CallInv => AnswersProve
  BY DEF CallInv
<1> QED BY <1>1, CallInitially, CallStep, PTL DEF ReadSpec

\* Whatever the version, an error under a live context names its decisive cause:
\* never only the rejection of a spelling the server lacks (BinaryLogStatus,
\* docs/COMPAT.md entry 20).
THEOREM ErrorsNameTheirCause == ReadSpec => []ErrorHasCause
<1>1. CallInv => ErrorHasCause
  BY DEF CallInv
<1> QED BY <1>1, CallInitially, CallStep, PTL DEF ReadSpec

----------------------------------------------------------------------------
(* The job loop: a batch is proved by the whole result of one statement,   *)
(* the first failure of a read is the one returned, and the read implements *)
(* the promise of a list fact.                                             *)

Row == [name : STRING, report : Report]
ReadFailure == {"query", "columns", "scan", "decode", "iterate", "close"}

\* Between two rows what was decoded and what the driver holds are the result.
RowsInv ==
  pc = "rows" =>
    /\ error = "none" /\ failures = <<>>
    /\ read \in Seq(Row) /\ pending \in Seq(Row)
    /\ read \o pending = snapshot

\* From the end of the rows on, the read is whole or its first failure is kept.
Outcome ==
  IF failures = <<>> THEN error = "none" /\ read = snapshot
  ELSE error = Head(failures) /\ read = <<>>

RInv ==
  /\ channels \in List /\ maxSeconds \in Int /\ snapshot \in Seq(Row)
  /\ failures \in Seq(ReadFailure)
  /\ pc \notin {"rows", "close"} => open = FALSE
  /\ pc = "query" =>
       error = "none" /\ failures = <<>> /\ read = <<>> /\ snapshot = <<>>
  /\ RowsInv
  /\ pc \in {"close", "returned"} => Outcome
  /\ pc = "batch" => failures = <<>> /\ read = snapshot /\ ~Findings(Filtered(read))

LEMMA InitRInv == Init => RInv
BY ReplicaAssumption DEF Init, RInv, RowsInv, ReadFailure, Row

\* The one step that moves a row from the driver to the result.
LEMMA RowMoves ==
  ASSUME RInv, ReadRow
  PROVE  RInv'
<1>1. /\ pending \in Seq(Row) /\ pending # <<>> /\ read \in Seq(Row)
      /\ read \o pending = snapshot
  BY DEF RInv, RowsInv, ReadRow
<1>2. /\ Head(pending) \in Row /\ Tail(pending) \in Seq(Row)
      /\ pending = <<Head(pending)>> \o Tail(pending)
  BY <1>1, HeadTailProperties
<1>3. Append(read, Head(pending)) = read \o <<Head(pending)>>
  BY <1>1, <1>2, AppendIsConcat
<1>4. (read \o <<Head(pending)>>) \o Tail(pending) = read \o (<<Head(pending)>> \o Tail(pending))
  BY <1>1, <1>2, ConcatAssociative
<1>5. read' \o pending' = snapshot
  BY <1>1, <1>2, <1>3, <1>4 DEF ReadRow
<1>6. read' \in Seq(Row)
  BY <1>1, <1>2 DEF ReadRow
<1>7. QED
  BY <1>2, <1>5, <1>6 DEF ReadRow, RInv, RowsInv, jobVars

LEMMA QueryKeeps ==
  ASSUME RInv, Query
  PROVE  RInv'
<1>1. channels \in Seq(Row)
  BY ReplicaAssumption DEF RInv, Row
<1>2. <<>> \o channels = channels
  BY <1>1, ConcatEmptySeq
<1>3. QED
  BY <1>1, <1>2 DEF Query, RInv, RowsInv, jobVars

\* Whatever fails while the rows are read, nothing failed before it.
LEMMA FirstFailure ==
  ASSUME RInv, RowFails \/ RowsEnd
  PROVE  RInv'
<1>1. error = "none" /\ failures = <<>> /\ read \in Seq(Row) /\ read \o pending = snapshot
  BY DEF RInv, RowsInv, RowFails, RowsEnd
<1>2. \A why \in ReadFailure : /\ Append(failures, why) \in Seq(ReadFailure)
                           /\ Append(failures, why) # <<>>
                           /\ Head(Append(failures, why)) = why
  BY <1>1
<1>3. pending = <<>> => read = snapshot
  BY <1>1, ConcatEmptySeq
<1>4. QED
  BY <1>1, <1>2, <1>3 DEF RowFails, RowsEnd, RInv, RowsInv, Outcome, jobVars, ReadFailure

LEMMA CloseKeeps ==
  ASSUME RInv, Close
  PROVE  RInv'
<1>1. Outcome /\ failures \in Seq(ReadFailure)
  BY DEF RInv, Close
<1>2. /\ Append(failures, "close") \in Seq(ReadFailure) /\ Append(failures, "close") # <<>>
      /\ failures = <<>> => Head(Append(failures, "close")) = "close"
      /\ failures # <<>> => Head(Append(failures, "close")) = Head(failures)
  BY <1>1 DEF ReadFailure
<1>3. failures # <<>> => Head(failures) \in ReadFailure
  BY <1>1
<1>4. QED
  BY <1>1, <1>2, <1>3 DEF Close, Kept, RInv, RowsInv, Outcome, jobVars, ReadFailure

LEMMA NextRInv == RInv /\ [Next]_loopVars => RInv'
<1> SUFFICES ASSUME RInv, [Next]_loopVars
             PROVE  RInv'
  OBVIOUS
<1>1. CASE Tick
  BY <1>1 DEF Tick, RInv, RowsInv, ReadFailure
<1>2. CASE Cancel \/ Unread \/ Pause \/ BatchDone
  BY <1>2 DEF Cancel, Unread, Pause, BatchDone, RInv, RowsInv, jobVars
<1>3. CASE Query
  BY <1>3, QueryKeeps
<1>4. CASE QueryFails
  <2>1. <<"query">> \in Seq(ReadFailure) /\ Head(<<"query">>) = "query" /\ <<"query">> # <<>>
    BY DEF ReadFailure
  <2>2. QED
    BY <1>4, <2>1 DEF QueryFails, RInv, RowsInv, Outcome, jobVars
<1>5. CASE ReadRow
  BY <1>5, RowMoves
<1>6. CASE RowFails \/ RowsEnd
  BY <1>6, FirstFailure
<1>7. CASE Close
  BY <1>7, CloseKeeps
<1>8. CASE RunBatch
  <2>1. error = "none" /\ Outcome /\ failures \in Seq(ReadFailure)
    BY <1>8 DEF RunBatch, RInv
  <2>2. failures = <<>>
    BY <2>1 DEF Outcome, ReadFailure
  <2>3. Findings(Filtered(read))' = Findings(Filtered(read))
    BY <1>8 DEF RunBatch, jobVars, Findings, Filtered, Unconfigured, NotRunning, Behind
  <2>4. QED
    BY <1>8, <2>1, <2>2, <2>3 DEF RunBatch, RInv, RowsInv, Outcome, jobVars
<1>9. CASE ChangeChannel
  BY <1>9 DEF ChangeChannel, RInv, RowsInv, jobVars
<1>10. CASE UNCHANGED loopVars
  BY <1>10 DEF loopVars, RInv, RowsInv, Outcome, Findings, Filtered, Unconfigured, NotRunning, Behind
<1>11. QED
  BY <1>1, <1>2, <1>3, <1>4, <1>5, <1>6, <1>7, <1>8, <1>9, <1>10 DEF Next, Loop

THEOREM ReadInvariant == Spec => []RInv
BY InitRInv, NextRInv, PTL DEF Spec

\* What the three checks leave unreported is what the batch relies on.
LEMMA NoFindings ==
  ASSUME RInv, ~Findings(Filtered(snapshot))
  PROVE  /\ \E i \in DOMAIN snapshot : wanted \in {"all", snapshot[i].name}
         /\ \A i \in DOMAIN snapshot : wanted \in {"all", snapshot[i].name} =>
              LET report == snapshot[i].report
              IN  /\ report.io = "Yes" /\ report.sql = "Yes"
                  /\ report.lag # Unknown /\ report.lag <= maxSeconds /\ maxSeconds >= 0
<1>1. Filtered(snapshot) # {}
  BY DEF Findings, Unconfigured
<1>2. \E i \in DOMAIN snapshot : wanted \in {"all", snapshot[i].name}
  BY <1>1 DEF Filtered
<1>3. ASSUME NEW i \in DOMAIN snapshot, wanted \in {"all", snapshot[i].name}
      PROVE  /\ snapshot[i].report.io = "Yes" /\ snapshot[i].report.sql = "Yes"
             /\ snapshot[i].report.lag # Unknown
             /\ snapshot[i].report.lag <= maxSeconds /\ maxSeconds >= 0
  <2>1. snapshot[i] \in Filtered(snapshot)
    BY <1>3 DEF Filtered
  <2>2. snapshot[i].report.io = "Yes" /\ snapshot[i].report.sql = "Yes"
    BY <2>1 DEF Findings, NotRunning
  <2>3. ~(maxSeconds < 0 \/ (snapshot[i].report.lag # Unknown => snapshot[i].report.lag > maxSeconds))
    BY <2>1 DEF Findings, Behind
  <2>4. snapshot[i].report \in Report
    <3>1. snapshot \in Seq(Row) /\ i \in 1..Len(snapshot)
      BY <1>3 DEF RInv
    <3>2. snapshot[i] \in Row
      BY <3>1, ElementOfSeq
    <3>3. QED
      BY <3>2 DEF Row
  <2>5. snapshot[i].report.lag \in Int /\ maxSeconds \in Int
    BY <2>3, <2>4, ReplicaAssumption DEF RInv
  <2>6. QED
    BY <2>2, <2>3, <2>5
<1>4. QED
  BY <1>2, <1>3

\* A batch of the job runs only on the whole result of one statement in which
\* the channels asked about run within the bound (docs/replication.md, "Consuming
\* from a job loop").
THEOREM BatchIsProved == Spec => []BatchProved
<1>1. RInv => BatchProved
  <2>1. ASSUME RInv, pc = "batch" PROVE read = snapshot /\ ~Findings(Filtered(snapshot))
    BY <2>1 DEF RInv
  <2>2. QED
    BY <2>1, NoFindings DEF BatchProved
<1>2. QED
  BY <1>1, ReadInvariant, PTL

\* The error of a read is its first failure, and no channel comes with one
\* (parseReplicaStatus).
THEOREM FirstFailureKept == Spec => []FirstFailureReturned
<1>1. RInv => FirstFailureReturned
  BY DEF RInv, Outcome, FirstFailureReturned
<1>2. QED
  BY <1>1, ReadInvariant, PTL

\* A result set holds the connection for the length of one read only, whatever
\* failed in it, so the next tick's statement is never kept waiting by the last
\* one's: TickAnswered's safety part (parseReplicaStatus, the deferred close).
THEOREM ConnectionReturned == Spec => [](pc = "query" => ~open)
<1>1. RInv => (pc = "query" => ~open)
  BY DEF RInv
<1>2. QED
  BY <1>1, ReadInvariant, PTL

LEMMA StepKeepsListPromise ==
  RInv /\ RInv' /\ [Next]_loopVars => [Promise!Next]_<<channels, Phase, snapshot, Answer>>
<1> SUFFICES ASSUME RInv, RInv', [Next]_loopVars
             PROVE  Promise!Next \/ UNCHANGED <<channels, Phase, snapshot, Answer>>
  OBVIOUS
<1>1. CASE Tick
  BY <1>1 DEF Tick, Promise!Next, Promise!Ask, Promise!NoAnswer, Phase, Answer
<1>2. CASE Cancel
  BY <1>2 DEF Cancel, Phase, Answer
<1>3. CASE Unread \/ Pause \/ BatchDone
  BY <1>3 DEF Unread, Pause, BatchDone, Promise!Next, Promise!Dismiss, Promise!NoAnswer, Phase, Answer
<1>4. CASE Query
  BY <1>4 DEF Query, Promise!Next, Promise!Look, Phase, Answer
<1>5. CASE QueryFails
  BY <1>5 DEF QueryFails, RInv, Promise!Next, Promise!AnswerError, Phase, Answer
<1>6. CASE ReadRow \/ RowFails \/ RowsEnd
  BY <1>6 DEF ReadRow, RowFails, RowsEnd, Phase, Answer
<1>7. CASE Close
  <2>1. Outcome' /\ failures' \in Seq(ReadFailure) /\ pc = "close" /\ pc' = "returned"
    BY <1>7 DEF Close, RInv
  <2>2. CASE failures' = <<>>
    BY <1>7, <2>1, <2>2 DEF Close, Outcome, Promise!Next, Promise!AnswerList, Phase, Answer
  <2>3. CASE failures' # <<>>
    <3>1. error' # "none" /\ read' = <<>>
      BY <2>1, <2>3 DEF Outcome, ReadFailure
    <3>2. QED
      BY <1>7, <2>1, <3>1 DEF Close, Promise!Next, Promise!AnswerError, Phase, Answer
  <2>4. QED
    BY <2>2, <2>3
<1>8. CASE RunBatch
  BY <1>8 DEF RunBatch, Phase, Answer
<1>9. CASE ChangeChannel
  BY <1>9 DEF ChangeChannel, jobVars, Promise!Next, Promise!Change, Phase, Answer
<1>10. CASE UNCHANGED loopVars
  BY <1>10 DEF loopVars, Phase, Answer
<1>11. QED
  BY <1>1, <1>2, <1>3, <1>4, <1>5, <1>6, <1>7, <1>8, <1>9, <1>10 DEF Next, Loop

\* The row-by-row read with its failures implements the promise of a list fact:
\* the whole list of one moment, or an error and no list.
THEOREM ReadKeepsPromise == Spec => KeepsListPromise
<1>1. Init => Promise!Init
  BY DEF Init, Promise!Init, Promise!NoAnswer, Phase, Answer
<1>2. RInv /\ RInv' /\ [Next]_loopVars => [Promise!Next]_(Promise!listVars)
  BY StepKeepsListPromise DEF Promise!listVars
<1>3. QED
  BY <1>1, <1>2, ReadInvariant, PTL DEF Spec, KeepsListPromise, Promise!Spec

----------------------------------------------------------------------------
(* The group gate: what a member list and a member's own row, read one     *)
(* after the other, prove of the moments of the two reads.                 *)

\* The server stays one: a member sees itself, and an expelled one sees a peer it
\* cannot reach.
ServerOK ==
  /\ plugin \in {"", "DISABLED", "ACTIVE"}
  /\ group \in {"never", "stopped", "member", "expelled"}
  /\ view \in [Member -> MemberState]
  /\ backlog \in [Member -> SUBSET Queue]
  /\ changes \in Nat
  /\ group \in {"member", "expelled"} => view[Self] # "absent"
  /\ group = "expelled" => \E m \in Member : view[m] = "UNREACHABLE"

\* Each row this server holds of another is of a member of its view, and one
\* without a backlog is a copy of a moment at which that member had none.
CopiesOK ==
  \A c \in copies :
    /\ Running /\ c.id \in Viewed /\ c.id # Self
    /\ c.running /\ c.queues \in SUBSET Queue
    /\ c.queues = {} => c.id \in idleOnce

\* The server is in the majority of a group whose view is ONLINE throughout.
Healthy == plugin = "ACTIVE" /\ group = "member" /\ \A m \in Viewed : view[m] = "ONLINE"

\* The moments of the GroupReplication call so far.
FactOK ==
  /\ factPc \in {"idle", "status", "name", "done"}
  /\ factPc \in {"idle", "status", "name"} => groupFact.name = FALSE
  /\ factPc \in {"status", "name"} =>
       /\ Configured => wasConfigured
       /\ ~Configured => wasUnconfigured
  /\ NameProvesMoment

\* What the members read left for the stats read to build on.
GateOK ==
  /\ gatePc \in {"idle", "members", "stats", "done"}
  /\ gatePc # "done" => verdict = "none"
  /\ gatePc \in {"members", "stats", "done"} => gateBegan \in Nat /\ gateBegan <= changes
  /\ gatePc = "stats" =>
       /\ ~LocalMemberFinding(members) /\ ~MembersFinding(members) => healthy
       /\ changes = gateBegan => members = MemberRows /\ healthy = Healthy
  /\ PassedProves
  /\ QuietVerdictExact

GInv == ServerOK /\ CopiesOK /\ FactOK /\ GateOK

LEMMA InitGInv == GroupInit => GInv
<1> SUFFICES ASSUME GroupInit PROVE GInv
  OBVIOUS
<1>1. ServerOK
  <2>1. view \in [Member -> MemberState] /\ view[Self] = "ONLINE"
    BY GroupAssumption DEF GroupInit, Alone, MemberState
  <2>2. backlog \in [Member -> SUBSET Queue]
    BY DEF GroupInit, Queue
  <2>3. QED
    BY <2>1, <2>2 DEF GroupInit, ServerOK
<1>2. FactOK
  BY DEF GroupInit, FactOK, NameProvesMoment
<1>3. GateOK
  BY DEF GroupInit, GateOK, PassedProves, QuietVerdictExact
<1>4. CopiesOK
  <2>1. ASSUME NEW c \in copies
        PROVE  group = "member" /\ \E m \in Viewed \ {Self} : c = Counters(m, backlog[m])
    BY <2>1 DEF GroupInit
  <2>2. group = "member" => Running
    BY DEF GroupInit, Running
  <2>3. \A m \in Viewed : backlog[m] = {} /\ Running => m \in idleOnce
    BY DEF GroupInit
  <2>4. \A m \in Viewed : backlog[m] \in SUBSET Queue
    BY <1>1 DEF ServerOK, Viewed
  <2>5. QED
    BY <2>1, <2>2, <2>3, <2>4 DEF CopiesOK, Counters
<1>5. QED
  BY <1>1, <1>2, <1>3, <1>4 DEF GInv

----------------------------------------------------------------------------
(* What the tables say of the server.                                       *)

\* The two member checks are silent about the rows of a moment exactly when the
\* server was healthy at it.
LEMMA MemberChecksExact ==
  ASSUME ServerOK
  PROVE  ~LocalMemberFinding(MemberRows) /\ ~MembersFinding(MemberRows) <=> Healthy
<1>1. CASE plugin # "ACTIVE"
  <2>1. MemberRows = {}
    BY <1>1 DEF MemberRows, Running
  <2>2. QED
    BY <1>1, <2>1 DEF LocalMemberFinding, Healthy
<1>2. CASE plugin = "ACTIVE" /\ group \in {"never", "stopped"}
  <2>1. \A r \in MemberRows : r.state = "OFFLINE"
    BY <1>2 DEF MemberRows, Running
  <2>2. QED
    BY <1>2, <2>1 DEF LocalMemberFinding, Healthy
<1>3. CASE plugin = "ACTIVE" /\ group \in {"member", "expelled"}
  <2>1. MemberRows = {[id |-> m, state |-> view[m], self |-> m = Self] : m \in Viewed}
    BY <1>3 DEF MemberRows, Running
  <2>2. MembersFinding(MemberRows) <=> \E m \in Viewed : view[m] # "ONLINE"
    <3>1. ASSUME NEW r \in MemberRows, r.state # "ONLINE"
          PROVE  \E m \in Viewed : view[m] # "ONLINE"
      BY <2>1, <3>1
    <3>2. ASSUME NEW m \in Viewed, view[m] # "ONLINE"
          PROVE  \E r \in MemberRows : r.state # "ONLINE"
      <4>1. [id |-> m, state |-> view[m], self |-> m = Self] \in MemberRows
        BY <2>1
      <4>2. QED
        BY <3>2, <4>1
    <3>3. QED
      BY <3>1, <3>2 DEF MembersFinding
  <2>3. LocalMemberFinding(MemberRows) => view[Self] # "ONLINE"
    <3>1. Self \in Viewed
      BY <1>3, GroupAssumption DEF ServerOK, Viewed
    <3>2. [id |-> Self, state |-> view[Self], self |-> Self = Self] \in MemberRows
      BY <2>1, <3>1
    <3>3. QED
      BY <3>2 DEF LocalMemberFinding
  <2>4. group = "expelled" => \E m \in Viewed : view[m] # "ONLINE"
    BY DEF ServerOK, Viewed
  <2>5. Self \in Viewed
    BY <1>3, GroupAssumption DEF ServerOK, Viewed
  <2>6. QED
    BY <1>3, <2>2, <2>3, <2>4, <2>5 DEF Healthy
<1>4. QED
  BY <1>1, <1>2, <1>3 DEF ServerOK

\* The queue checks are silent exactly when no row has a backlog.
LEMMA QueueChecksExact ==
  ASSUME ServerOK, CopiesOK, NEW rows \in StatsRows
  PROVE  (\E q \in Queue : QueueFinding(rows, q)) <=> \E r \in rows : r.queues # {}
<1>1. \A r \in rows : r.queues \in SUBSET Queue
  <2>1. CASE Running
    <3>1. rows \in SUBSET (copies \cup {Counters(Self, backlog[Self])})
      BY <2>1 DEF StatsRows, Running
    <3>2. backlog[Self] \in SUBSET Queue
      BY GroupAssumption DEF ServerOK
    <3>3. \A c \in copies : c.queues \in SUBSET Queue
      BY DEF CopiesOK
    <3>4. Counters(Self, backlog[Self]).queues = backlog[Self]
      BY DEF Counters
    <3>5. QED
      BY <3>1, <3>2, <3>3, <3>4
  <2>2. CASE ~Running
    <3>1. \/ plugin # "ACTIVE"
          \/ plugin = "ACTIVE" /\ group \in {"never", "stopped"}
      BY <2>2 DEF Running, ServerOK
    <3>2. \A r \in rows : r.queues = {}
      BY <2>2, <3>1 DEF StatsRows
    <3>3. QED
      BY <3>2
  <2>3. QED
    BY <2>1, <2>2
<1>2. ASSUME NEW q \in Queue, QueueFinding(rows, q)
      PROVE  \E r \in rows : r.queues # {}
  BY <1>2 DEF QueueFinding
<1>3. ASSUME NEW r \in rows, r.queues # {}
      PROVE  \E q \in Queue : QueueFinding(rows, q)
  <2>1. PICK q \in r.queues : TRUE
    BY <1>3
  <2>2. q \in Queue
    BY <1>1, <2>1
  <2>3. QED
    BY <2>1, <2>2 DEF QueueFinding
<1>4. QED
  BY <1>2, <1>3

\* A running row is one of a member of the view, of this server with the queues
\* it has, of another with those it had at some moment of the view.
LEMMA RunningRow ==
  ASSUME ServerOK, CopiesOK, NEW rows \in StatsRows, NEW r \in rows, r.running
  PROVE  /\ Running /\ r.id \in Viewed
         /\ r.queues = {} => IF r.id = Self THEN backlog[r.id] = {} ELSE r.id \in idleOnce
<1>1. CASE Running
  <2>1. rows \in SUBSET (copies \cup {Counters(Self, backlog[Self])})
    BY <1>1 DEF StatsRows, Running
  <2>2. Self \in Viewed
    BY <1>1, GroupAssumption DEF Running, ServerOK, Viewed
  <2>3. QED
    BY <1>1, <2>1, <2>2 DEF CopiesOK, Counters
<1>2. CASE ~Running
  <2>1. \/ plugin # "ACTIVE"
        \/ plugin = "ACTIVE" /\ group \in {"never", "stopped"}
    BY <1>2 DEF Running, ServerOK
  <2>2. \A q \in rows : q.running = FALSE
    BY <1>2, <2>1 DEF StatsRows
  <2>3. QED
    BY <2>2
<1>3. QED
  BY <1>1, <1>2

----------------------------------------------------------------------------
(* The steps.                                                               *)

LEMMA ServerStepServer ==
  ASSUME ServerOK, ServerStep
  PROVE  ServerOK'
<1> USE GroupAssumption
<1>0. changes' \in Nat
  <2>1. changes' = changes + 1
    BY DEF ServerStep
  <2>2. changes \in Nat
    BY DEF ServerOK
  <2>3. QED
    BY <2>1, <2>2
<1>1. CASE InstallOrRemove
  BY <1>0, <1>1 DEF InstallOrRemove, ServerOK
<1>2. CASE Configure
  BY <1>0, <1>2 DEF Configure, ServerOK
<1>3. CASE Start
  <2>1. view' \in [Member -> MemberState] /\ view'[Self] = "RECOVERING"
    BY <1>3 DEF Start, MemberState
  <2>2. backlog' \in [Member -> SUBSET Queue]
    BY <1>3 DEF Start, ServerOK
  <2>3. QED
    BY <1>0, <1>3, <2>1, <2>2 DEF Start, ServerOK
<1>4. CASE Stop
  BY <1>0, <1>4 DEF Stop, ServerOK
<1>5. CASE Expel
  <2>1. view' \in [Member -> MemberState] /\ view'[Self] = "ONLINE"
    BY <1>5 DEF Expel, MemberState
  <2>2. \E m \in Member : view'[m] = "UNREACHABLE"
    <3>1. Self \in Viewed /\ Viewed # {Self}
      BY <1>5 DEF Expel, ServerOK, Viewed
    <3>2. PICK m \in Viewed : m # Self
      BY <3>1
    <3>3. QED
      BY <1>5, <3>2 DEF Expel, Viewed
  <2>3. QED
    BY <1>0, <1>5, <2>1, <2>2 DEF Expel, ServerOK
<1>6. CASE ChangeView
  <2>1. PICK m \in Member, s \in MemberState :
          /\ m = Self => s \in {"ONLINE", "RECOVERING"}
          /\ view' = [view EXCEPT ![m] = s]
    BY <1>6 DEF ChangeView
  <2>2. view' \in [Member -> MemberState] /\ view'[Self] # "absent"
    BY <1>6, <2>1 DEF ChangeView, ServerOK
  <2>3. QED
    BY <1>0, <1>6, <2>2 DEF ChangeView, ServerOK
<1>7. CASE ChangeBacklog
  <2>1. backlog' \in [Member -> SUBSET Queue]
    BY <1>7 DEF ChangeBacklog, ServerOK
  <2>2. QED
    BY <1>0, <1>7, <2>1 DEF ChangeBacklog, ServerOK
<1>8. CASE Refresh
  BY <1>0, <1>8 DEF Refresh, ServerOK
<1>9. QED
  BY <1>1, <1>2, <1>3, <1>4, <1>5, <1>6, <1>7, <1>8 DEF ServerStep

\* What is on record of a member of the view stays while it is in the view.
LEMMA IdleKept ==
  ASSUME ServerStep, NEW m \in Viewed, Running', view'[m] # "absent",
         m \in idleOnce \/ backlog'[m] = {}
  PROVE  m \in Viewed' /\ m \in idleOnce'
<1>1. idleOnce' =
        {n \in Member : (Running' /\ view'[n] # "absent") /\ (n \in idleOnce \/ backlog'[n] = {})}
  BY DEF ServerStep
<1>2. QED
  BY <1>1 DEF Viewed

\* A copy outlives neither the stay of its member in the view nor this server's.
LEMMA ServerStepCopies ==
  ASSUME ServerOK, CopiesOK, ServerStep
  PROVE  CopiesOK'
<1> USE GroupAssumption
<1>1. ASSUME copies' \subseteq copies, Running',
             \A c \in copies' : view'[c.id] # "absent"
      PROVE  CopiesOK'
  <2>1. ASSUME NEW c \in copies'
        PROVE  /\ Running' /\ c.id \in Viewed' /\ c.id # Self
               /\ c.running /\ c.queues \in SUBSET Queue
               /\ c.queues = {} => c.id \in idleOnce'
    <3>1. /\ c.id \in Viewed /\ c.id # Self
          /\ c.running /\ c.queues \in SUBSET Queue
          /\ c.queues = {} => c.id \in idleOnce
      BY <1>1, <2>1 DEF CopiesOK
    <3>2. c.id \in Viewed'
      BY <1>1, <2>1, <3>1 DEF Viewed
    <3>3. c.id \in idleOnce => c.id \in idleOnce'
      BY <1>1, <2>1, <3>1, IdleKept
    <3>4. QED
      BY <1>1, <3>1, <3>2, <3>3
  <2>2. QED
    BY <2>1 DEF CopiesOK
<1>2. CASE InstallOrRemove \/ Configure \/ Start
  <2>1. ~Running \/ plugin = ""
    BY <1>2 DEF InstallOrRemove, Configure, Start
  <2>2. copies = {}
    BY <2>1 DEF CopiesOK, Running
  <2>3. QED
    BY <1>2, <2>2 DEF InstallOrRemove, Configure, Start, CopiesOK
<1>3. CASE Stop
  BY <1>3 DEF Stop, CopiesOK
<1>4. CASE Expel
  <2>1. copies' = copies /\ Running'
    BY <1>4 DEF Expel, Running
  <2>2. \A m \in Viewed : view'[m] # "absent"
    BY <1>4 DEF Expel, Viewed
  <2>3. QED
    BY <1>1, <2>1, <2>2 DEF CopiesOK
<1>5. CASE ChangeView
  <2>1. PICK m \in Member, s \in MemberState :
          /\ view' = [view EXCEPT ![m] = s]
          /\ copies' = {c \in copies : s = "absent" => c.id # m}
    BY <1>5 DEF ChangeView
  <2>2. CASE copies = {}
    BY <2>1, <2>2 DEF CopiesOK
  <2>3. CASE copies # {}
    <3>1. Running'
      BY <1>5, <2>3 DEF ChangeView, CopiesOK, Running
    <3>2. \A c \in copies' : view'[c.id] # "absent"
      BY <2>1 DEF CopiesOK, ServerOK, Viewed
    <3>3. QED
      BY <1>1, <2>1, <3>1, <3>2
  <2>4. QED
    BY <2>2, <2>3
<1>6. CASE ChangeBacklog
  <2>1. copies' = copies /\ view' = view /\ (Running' <=> Running)
    BY <1>6 DEF ChangeBacklog, Running
  <2>2. CASE copies = {}
    BY <2>1, <2>2 DEF CopiesOK
  <2>3. CASE copies # {}
    BY <1>1, <2>1, <2>3 DEF CopiesOK, Viewed
  <2>4. QED
    BY <2>2, <2>3
<1>7. CASE Refresh
  <2>1. /\ Running /\ Running' /\ UNCHANGED <<view, backlog>>
    BY <1>7 DEF Refresh, Running
  <2>2. PICK m \in Viewed \ {Self} :
          copies' = {c \in copies : c.id # m} \cup {Counters(m, backlog[m])}
    BY <1>7 DEF Refresh
  <2>3. \A n \in Viewed : n \in idleOnce \/ backlog[n] = {} => n \in Viewed' /\ n \in idleOnce'
    BY <2>1, IdleKept DEF Viewed
  <2>4. \A n \in Viewed : n \in Viewed'
    BY <2>1 DEF Viewed
  <2>5. backlog[m] \in SUBSET Queue
    BY DEF ServerOK, Viewed
  <2>6. ASSUME NEW c \in copies'
        PROVE  /\ Running' /\ c.id \in Viewed' /\ c.id # Self
               /\ c.running /\ c.queues \in SUBSET Queue
               /\ c.queues = {} => c.id \in idleOnce'
    <3>1. CASE c \in copies
      BY <2>1, <2>3, <2>4, <3>1 DEF CopiesOK
    <3>2. CASE c = Counters(m, backlog[m])
      BY <2>1, <2>3, <2>4, <2>5, <3>2 DEF Counters
    <3>3. QED
      BY <2>2, <2>6, <3>1, <3>2
  <2>7. QED
    BY <2>6 DEF CopiesOK
<1>8. QED
  BY <1>2, <1>3, <1>4, <1>5, <1>6, <1>7 DEF ServerStep

\* A change of the server ends the quiet, and is a moment of a call in progress.
LEMMA ServerStepKeeps ==
  ASSUME GInv, ServerStep
  PROVE  GInv'
<1>1. ServerOK' /\ CopiesOK'
  BY ServerStepServer, ServerStepCopies DEF GInv
<1>2. FactOK'
  BY DEF ServerStep, GInv, FactOK, NameProvesMoment
<1>3. GateOK'
  <2>1. /\ UNCHANGED <<gatePc, members, stats, verdict, healthy, served, gateBegan>>
        /\ changes' = changes + 1 /\ changes \in Nat
    BY DEF ServerStep, gateVars, GInv, ServerOK
  <2>2. gatePc \in {"members", "stats", "done"} => changes' # gateBegan /\ gateBegan <= changes'
    BY <2>1 DEF GInv, GateOK
  <2>3. QED
    BY <2>1, <2>2 DEF GInv, GateOK, PassedProves, QuietVerdictExact, LocalMemberFinding, MembersFinding
<1>4. QED
  BY <1>1, <1>2, <1>3 DEF GInv

\* GroupReplication leaves the server and the gate alone.
LEMMA FactStepKeeps ==
  ASSUME GInv, CallFact \/ ReadStatus \/ ReadName \/ FailFact
  PROVE  GInv'
<1>1. UNCHANGED <<serverVars, gateVars>>
  BY DEF CallFact, ReadStatus, ReadName, FailFact
<1>0. CopiesOK'
  BY <1>1 DEF serverVars, GInv, CopiesOK, Running, Viewed
<1>2. ServerOK' /\ GateOK'
  BY <1>1, ZenonT(60) DEF serverVars, gateVars, GInv, ServerOK, GateOK, PassedProves, QuietVerdictExact, Healthy,
     Viewed, MemberRows, Running, LocalMemberFinding, MembersFinding
<1>3. Configured' = Configured
  BY <1>1 DEF serverVars, Configured
<1>4. FactOK'
  <2>1. CASE CallFact
    BY <1>3, <2>1 DEF CallFact, GInv, FactOK, NameProvesMoment
  <2>2. CASE ReadStatus
    BY <1>3, <2>2 DEF ReadStatus, GInv, FactOK, NameProvesMoment
  <2>3. CASE ReadName
    BY <1>3, <2>3 DEF ReadName, GInv, FactOK, NameProvesMoment
  <2>4. CASE FailFact
    BY <1>3, <2>4 DEF FailFact, GInv, FactOK, NameProvesMoment
  <2>5. QED
    BY <2>1, <2>2, <2>3, <2>4
<1>5. QED
  BY <1>0, <1>2, <1>4 DEF GInv

\* The verdict on rows that came after the members, first where something may
\* have changed between the two reads, then where nothing did.
LEMMA VerdictProves ==
  ASSUME ServerOK, CopiesOK, NEW rows \in StatsRows, Judged(members, rows) = "passed",
         ~LocalMemberFinding(members) /\ ~MembersFinding(members) => healthy
  PROVE  /\ healthy /\ Running
         /\ \A r \in members :
              r.id \in Viewed /\ IF r.id = Self THEN backlog[r.id] = {} ELSE r.id \in idleOnce
<1>1. /\ ~LocalMemberFinding(members) /\ ~MembersFinding(members)
      /\ ~\E q \in Queue : QueueFinding(rows, q)
      /\ \A r \in members : RunningStatsRow(rows, r.id)
  BY DEF Judged
<1>2. \A s \in rows : s.queues = {}
  BY <1>1, QueueChecksExact
<1>3. ASSUME NEW r \in members
      PROVE  Running /\ r.id \in Viewed /\ IF r.id = Self THEN backlog[r.id] = {} ELSE r.id \in idleOnce
  <2>1. PICK s \in rows : s.id = r.id /\ s.running
    BY <1>1 DEF RunningStatsRow
  <2>2. QED
    BY <1>2, <2>1, RunningRow
<1>4. \E r \in members : TRUE
  BY <1>1 DEF LocalMemberFinding
<1>5. QED
  BY <1>1, <1>3, <1>4

LEMMA VerdictExact ==
  ASSUME ServerOK, CopiesOK, NEW rows \in StatsRows
  PROVE  LET fit == Healthy /\ \A r \in rows : r.queues = {}
             verdict0 == Judged(MemberRows, rows)
         IN  /\ verdict0 = "findings" <=> ~fit
             /\ verdict0 = "unavailable" => \E m \in Viewed : \A r \in rows : r.id # m
<1>1. Judged(MemberRows, rows) = "findings" <=> ~(Healthy /\ \A r \in rows : r.queues = {})
  BY MemberChecksExact, QueueChecksExact DEF Judged
<1>2. ASSUME Judged(MemberRows, rows) = "unavailable"
      PROVE  \E m \in Viewed : \A r \in rows : r.id # m
  <2>1. Healthy
    BY <1>1, <1>2
  <2>2. PICK r0 \in MemberRows : ~RunningStatsRow(rows, r0.id)
    BY <1>2 DEF Judged
  <2>3. Running
    BY <2>1 DEF Healthy, Running
  <2>4. r0.id \in Viewed
    BY <2>1, <2>2, <2>3 DEF MemberRows, Healthy
  <2>5. \A r \in rows : r.running
    BY <2>3 DEF StatsRows, Running, CopiesOK, Counters
  <2>6. QED
    BY <2>2, <2>4, <2>5 DEF RunningStatsRow
<1>3. QED
  BY <1>1, <1>2

LEMMA GateStepKeeps ==
  ASSUME GInv, CallGate \/ GroupMembers \/ GroupMemberStats \/ FailGate
  PROVE  GInv'
<1>1. UNCHANGED <<serverVars, factVars>>
  BY DEF CallGate, GroupMembers, GroupMemberStats, FailGate
<1>0. CopiesOK'
  BY <1>1 DEF serverVars, GInv, CopiesOK, Running, Viewed
<1>2. ServerOK' /\ FactOK'
  BY <1>1 DEF serverVars, factVars, GInv, ServerOK, FactOK, NameProvesMoment, Configured
<1>3. Viewed' = Viewed /\ MemberRows' = MemberRows /\ Healthy' = Healthy /\ changes' = changes
  BY <1>1 DEF serverVars, Viewed, MemberRows, Running, Healthy
<1>4. changes \in Nat
  BY DEF GInv, ServerOK
<1>5. CASE CallGate
  <2>1. /\ gatePc' = "members" /\ verdict' = verdict /\ verdict = "none"
        /\ gateBegan' = changes
    BY <1>5 DEF CallGate, GInv, GateOK
  <2>2. gateBegan' \in Nat /\ gateBegan' <= changes'
    BY <1>3, <1>4, <2>1
  <2>3. GateOK'
    BY <2>1, <2>2 DEF GateOK, PassedProves, QuietVerdictExact
  <2>4. QED
    BY <1>0, <1>2, <2>3 DEF GInv
<1>6. CASE GroupMembers
  <2>1. members' = MemberRows /\ healthy' = Healthy
    BY <1>6 DEF GroupMembers, Healthy
  <2>2. ~LocalMemberFinding(members') /\ ~MembersFinding(members') => healthy'
    BY <2>1, MemberChecksExact DEF GInv
  <2>3. QED
    BY <1>0, <1>2, <1>3, <1>6, <2>1, <2>2 DEF GroupMembers, GInv, GateOK, PassedProves, QuietVerdictExact,
       LocalMemberFinding, MembersFinding
<1>7. CASE GroupMemberStats
  <2>1. /\ stats' \in StatsRows /\ verdict' = Judged(members, stats')
        /\ served' = IF Running THEN {m \in Viewed : IF m = Self THEN backlog[m] = {} ELSE m \in idleOnce}
                     ELSE {}
        /\ members' = members /\ healthy' = healthy /\ gateBegan' = gateBegan
        /\ gatePc = "stats" /\ gatePc' = "done"
    BY <1>7 DEF GroupMemberStats
  <2>2. /\ ServerOK /\ CopiesOK
        /\ ~LocalMemberFinding(members) /\ ~MembersFinding(members) => healthy
        /\ changes = gateBegan => members = MemberRows /\ healthy = Healthy
        /\ gateBegan \in Nat /\ gateBegan <= changes
    BY <2>1 DEF GInv, GateOK
  <2>3. PassedProves'
    <3>1. verdict' = "passed" =>
            /\ healthy /\ Running
            /\ \A r \in members :
                 r.id \in Viewed /\ IF r.id = Self THEN backlog[r.id] = {} ELSE r.id \in idleOnce
      BY <2>1, <2>2, VerdictProves
    <3>2. QED
      BY <2>1, <3>1 DEF PassedProves
  <2>4. QuietVerdictExact'
    <3>1. changes = gateBegan =>
            /\ verdict' = "findings" <=> ~(healthy /\ \A r \in stats' : r.queues = {})
            /\ verdict' = "unavailable" => \E m \in Viewed : \A r \in stats' : r.id # m
      BY <2>1, <2>2, VerdictExact
    <3>2. QED
      BY <1>3, <2>1, <3>1 DEF QuietVerdictExact
  <2>5. QED
    BY <1>0, <1>2, <1>3, <2>1, <2>2, <2>3, <2>4 DEF GInv, GateOK
<1>8. CASE FailGate
  BY <1>0, <1>2, <1>3, <1>8 DEF FailGate, GInv, GateOK, PassedProves, QuietVerdictExact
<1>9. QED
  BY <1>5, <1>6, <1>7, <1>8

LEMMA NextGInv == GInv /\ [GroupNext]_groupVars => GInv'
<1> SUFFICES ASSUME GInv, [GroupNext]_groupVars
             PROVE  GInv'
  OBVIOUS
<1>1. CASE UNCHANGED groupVars
  <2>1. ServerOK'
    BY <1>1 DEF groupVars, serverVars, GInv, ServerOK
  <2>2. FactOK'
    BY <1>1 DEF groupVars, serverVars, factVars, GInv, FactOK, NameProvesMoment, Configured
  <2>3. GateOK'
    BY <1>1 DEF groupVars, serverVars, gateVars, GInv, GateOK, PassedProves, QuietVerdictExact, Healthy,
       Viewed, MemberRows, Running, LocalMemberFinding, MembersFinding
  <2>4. CopiesOK'
    BY <1>1 DEF groupVars, serverVars, GInv, CopiesOK, Running, Viewed
  <2>5. QED
    BY <2>1, <2>2, <2>3, <2>4 DEF GInv
<1>2. QED
  BY <1>1, ServerStepKeeps, FactStepKeeps, GateStepKeeps DEF GroupNext

THEOREM GateInvariant == GroupSpec => []GInv
BY InitGInv, NextGInv, PTL DEF GroupSpec

\* However the group changes between the two reads and however old the copies
\* are, a gate that passed proves that the members of a healthy view were still
\* in it at the second read, this server running without a backlog of its own,
\* and that each other member had none at some moment since it entered the view.
THEOREM GatePassProves == GroupSpec => []PassedProves
<1>1. GInv => PassedProves
  BY DEF GInv, GateOK
<1>2. QED
  BY <1>1, GateInvariant, PTL

\* Over a group that keeps still the verdict is the exact one.
THEOREM GateVerdictExact == GroupSpec => []QuietVerdictExact
<1>1. GInv => QuietVerdictExact
  BY DEF GInv, GateOK
<1>2. QED
  BY <1>1, GateInvariant, PTL

\* The two statements of GroupReplication are no snapshot, and yet a name, or
\* none, proves a moment of the call.
THEOREM FactNameProves == GroupSpec => []NameProvesMoment
<1>1. GInv => NameProvesMoment
  BY DEF GInv, FactOK
<1>2. QED
  BY <1>1, GateInvariant, PTL

=============================================================================
