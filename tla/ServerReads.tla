----------------------------- MODULE ServerReads -----------------------------
(***************************************************************************)
(* One call to a replication.Inspector.  Most facts are one statement, and  *)
(* a row or a list of rows; BinaryLogStatus (binary_log_status.go) is SHOW  *)
(* BINARY LOG STATUS, SHOW MASTER STATUS where that fails, and the one row  *)
(* either returns, on a server whose version the library does not know,     *)
(* with a connection that may fail and a context that may end at any time.  *)
(***************************************************************************)
EXTENDS RowReads

CONSTANTS
  Version,      \* the servers: "8.0", "8.2" and "8.4"
  MaxPosition,  \* bound: writes to the binary log during the call
  NoRow,        \* the result set is empty
  Reply,        \* result sets a server and its driver may answer a fact with
  PositionCell, \* PositionCell[n]: the cells that deliver a position of n
  FitCell,      \* FitCell[t]: one cell that decodes to t
  Bound         \* the bounds a caller may give a check, of type int64

\* A result set: a cell for each column, which a fact read by position names
\* itself.
WellFormed(r) ==
  /\ r.op \in Op \ {"BinaryLogStatus"}
  /\ r.header \in Seq(STRING) /\ r.rows \in Seq([DOMAIN r.header -> Cell])
  /\ r.op \in ByPosition => r.header = [k \in DOMAIN Columns(r.op) |-> Columns(r.op)[k][1]]

ASSUME ReadsAssumption ==
  /\ Version \subseteq {"8.0", "8.2", "8.4"} /\ MaxPosition \in Nat
  /\ Bound \subseteq MinSigned(Wide)..MaxSigned(Wide)
  /\ NoRow \notin Nat \cup Reply /\ \A r \in Reply : WellFormed(r)
  /\ FitCell \in [DecoderType -> Cell]
  /\ \A n \in 0..MaxPosition :
       PositionCell[n] \subseteq {c \in Cell : Numeric(c) => Number(c) = n}

VARIABLES
  version, logging,   \* the server's version, and whether it writes a log
  position,           \* the log's write position
  privileged,         \* the account holds REPLICATION CLIENT
  context,            \* "live" or "ended"
  readPc,                 \* "idle", "primary", "fallback", "rows", "row" or "done"
  began,              \* the position when the call began
  row,                \* the position the server's row holds, or NoRow
  reply,              \* the result set a single-statement fact read, or NoRow
  causes,             \* the failed statements, each with its cause
  fact,               \* what was made of it or of the row, or NoRow
  result              \* what was returned: "status", "absent", "fact" or "error"

readVars ==
  <<version, logging, position, privileged, context, readPc, began, row, reply, causes, fact, result>>
server == <<version, logging, position, privileged, context>>

\* The spellings each version parses: docs/COMPAT.md entry 20.
Parses(statement) ==
  \/ statement = "primary" /\ version # "8.0"
  \/ statement = "fallback" /\ version # "8.4"

\* Why a statement may fail now; a driver need not call the end of the context
\* by its name.
Cause(statement) ==
  {"transport"}
    \cup (IF context = "ended" THEN {"context"} ELSE {})
    \cup (IF Parses(statement) THEN IF privileged THEN {} ELSE {"privilege"} ELSE {"parse"})

ReadInit ==
  /\ version \in Version /\ logging \in BOOLEAN /\ privileged \in BOOLEAN
  /\ context \in {"live", "ended"}
  /\ position = 0 /\ began = 0
  /\ readPc = "idle" /\ row = NoRow /\ reply = NoRow /\ fact = NoRow
  /\ causes = {} /\ result = "none"

Return(kind) == readPc' = "done" /\ result' = kind

\* No usable Querier, or the one statement of a fact fails, or the delivery of
\* its rows does.
Refuse ==
  /\ readPc = "idle"
  /\ Return("error")
  /\ UNCHANGED <<server, began, row, reply, causes, fact>>

\* A fact of one statement: a row of it, or every row.
ReadFact ==
  /\ readPc = "idle"
  /\ reply' \in Reply
  /\ fact' = DecodedRows(reply'.op, reply'.header, reply'.rows)
  /\ Return(IF fact'.ok THEN "fact" ELSE "error")
  /\ UNCHANGED <<server, began, row, causes>>

----------------------------------------------------------------------------
(* BinaryLogStatus.                                                        *)

Call ==
  /\ readPc = "idle" /\ readPc' = "primary"
  /\ UNCHANGED <<server, began, row, reply, causes, fact, result>>

\* The statement succeeds: the server computes its row, or none, now.
Succeed(statement) ==
  /\ readPc = statement
  /\ Parses(statement) /\ privileged
  /\ row' = IF logging THEN position ELSE NoRow
  /\ readPc' = "rows"
  /\ UNCHANGED <<server, began, reply, causes, fact, result>>

\* A context failure is not a version signal.
FallsBack(cause) == context # "ended" /\ cause # "context"

PrimaryFails ==
  /\ readPc = "primary"
  /\ \E cause \in Cause("primary") :
       /\ causes' = {<<"primary", cause>>}
       /\ IF FallsBack(cause) THEN readPc' = "fallback" /\ UNCHANGED result ELSE Return("error")
  /\ UNCHANGED <<server, began, row, reply, fact>>

\* A plausible slip: the error of the fallback replaces that of the primary.
JoinedLast(cause) == {<<"fallback", cause>>}

\* Both causes are kept.
Joined(cause) == causes \cup {<<"fallback", cause>>}

FallbackFails ==
  /\ readPc = "fallback"
  /\ \E cause \in Cause("fallback") : causes' = Joined(cause)
  /\ Return("error")
  /\ UNCHANGED <<server, began, row, reply, fact>>

\* A plausible slip: a result set without a row is taken for absence before its
\* error is looked at.
IterateUnchecked ==
  /\ readPc = "rows"
  /\ \/ row # NoRow /\ readPc' = "row" /\ UNCHANGED result
     \/ Return("absent")
  /\ UNCHANGED <<server, began, row, reply, causes, fact>>

\* The first row, no row, or an error of the columns, the iteration or, once no
\* row was found, the deferred close.
Iterate ==
  /\ readPc = "rows"
  /\ \/ row # NoRow /\ readPc' = "row" /\ UNCHANGED <<causes, result>>
     \/ row = NoRow /\ Return("absent") /\ UNCHANGED causes
     \/ Return("error") /\ causes' = causes \cup {<<"rows", "transport">>}
  /\ UNCHANGED <<server, began, row, reply, fact>>

\* The row is scanned and decoded, the rest of the result set has no error, and
\* it closes; any of these may fail.
ParseRow ==
  /\ readPc = "row"
  /\ \E cell \in PositionCell[row] :
       LET columns == Columns("BinaryLogStatus")
           header == [k \in DOMAIN columns |-> columns[k][1]]
           values == [k \in DOMAIN columns |-> IF k = 2 THEN cell ELSE FitCell[columns[k][2]]]
       IN fact' = DecodedRows("BinaryLogStatus", header, <<values>>)
  /\ \/ fact'.ok /\ Return("status") /\ UNCHANGED causes
     \/ Return("error") /\ causes' = causes \cup {<<"row", IF fact'.ok THEN "transport" ELSE "decode">>}
  /\ UNCHANGED <<server, began, row, reply>>

Statement ==
  \/ Succeed("primary") \/ PrimaryFails \/ Succeed("fallback") \/ FallbackFails
  \/ Iterate \/ ParseRow

----------------------------------------------------------------------------
(* The server and the caller while BinaryLogStatus runs.                   *)

Under == readPc \notin {"idle", "done"}

Write ==
  /\ Under /\ logging /\ position < MaxPosition
  /\ position' = position + 1
  /\ UNCHANGED <<version, logging, privileged, context, readPc, began, row, reply, causes, fact, result>>

EndContext ==
  /\ Under /\ context = "live" /\ context' = "ended"
  /\ UNCHANGED <<version, logging, position, privileged, readPc, began, row, reply, causes, fact, result>>

Revoke ==
  /\ Under /\ privileged /\ privileged' = FALSE
  /\ UNCHANGED <<version, logging, position, context, readPc, began, row, reply, causes, fact, result>>

ReadNext == Refuse \/ ReadFact \/ Call \/ Statement \/ Write \/ EndContext \/ Revoke

ReadSpec == ReadInit /\ [][ReadNext]_readVars

----------------------------------------------------------------------------
(* Properties.                                                             *)

\* A nil status with a nil error means that the server writes no binary log,
\* and a status is a position the log had since the call began, in whatever
\* form the driver delivered it.
AnswersProve ==
  readPc = "done" =>
    /\ result = "absent" => ~logging
    /\ result = "status" => logging /\ fact.rows[1][2] \in began..position

\* Whatever the version, an error under a live context names its decisive
\* cause: the rejection of a spelling the server lacks never stands alone, so an
\* 8.0 caller sees the second statement's failure and an 8.4 caller the first's
\* (docs/COMPAT.md entry 20), and a server in range that is reachable and grants
\* the privilege is never an error.
ErrorHasCause ==
  readPc = "done" /\ result = "error" /\ causes # {} /\ context = "live" =>
    \E cause \in causes : cause[2] # "parse"

GoRange(t) ==
  CASE t \in {"int64", "nullInt64"} -> MinSigned(Wide)..MaxSigned(Wide)
    [] t = "int" -> MinSigned(Platform)..MaxSigned(Platform)
    [] t = "uint64" -> 0..Wide - 1
    [] t = "uint32" -> 0..Half - 1
    [] t = "uint16" -> 0..Quarter - 1

\* Whether a Go value of type t can hold the cell, and the value that does.
Holds(c, t) ==
  CASE t = "string" -> IsText(c)
    [] t = "bool" -> \/ c.form = "bool"
                     \/ IsText(c) /\ c.word \in {"ON", "OFF"}
                     \/ Numeric(c) /\ c.form # "float64" /\ Number(c) \in {0, 1}
    [] OTHER -> \/ Numeric(c) /\ Number(c) \in GoRange(t)
                \/ t = "nullInt64" /\ c.form = "nil"
Value(c, t) ==
  CASE t = "string" -> <<c.n, c.word>>
    [] t = "bool" -> IF IsText(c) /\ c.word # "" THEN c.word = "ON" ELSE c.n = 1
    [] OTHER -> IF c.form = "nil" THEN Null ELSE Number(c)

Replied == reply # NoRow
RowsScanned == Scanned(reply.op, reply.rows)
Complete == reply.op \in ByPosition \/ Listed(Promised(reply.op)) \subseteq Listed(reply.header)
Carries(values, name, t, Fits(_, _)) ==
  \E i \in DOMAIN reply.header :
    /\ reply.header[i] = name /\ \A j \in 1..i - 1 : reply.header[j] # name
    /\ Fits(values[i], t)
RowHolds(values) ==
  \A k \in DOMAIN Columns(reply.op) :
    Carries(values, Columns(reply.op)[k][1], Columns(reply.op)[k][2], Holds)

\* A result set becomes a fact exactly when each promised column is there, each
\* row's Go types can hold what it carries, and a fact of one row has one; then
\* every row is in the fact, in the server's order, and each field is what the
\* server sent under that name: no row is lost or added, and nothing wraps,
\* rounds, shifts to a neighbouring column or becomes zero (decode.go,
\* indexColumns, parseRegisteredReplicas and its three siblings).
FactFaithful ==
  Replied =>
    LET columns == Columns(reply.op) IN
    /\ fact.ok <=> /\ Complete /\ \A i \in DOMAIN RowsScanned : RowHolds(RowsScanned[i])
                   /\ reply.op \in ByPosition => reply.rows # <<>>
    /\ fact.ok =>
         /\ Len(fact.rows) = Len(RowsScanned)
         /\ \A i \in DOMAIN RowsScanned, k \in DOMAIN columns :
              Carries(RowsScanned[i], columns[k][1], columns[k][2],
                      LAMBDA c, t : fact.rows[i][k] = Value(c, t))

\* An error names a column that is to blame, of the first row with one; it names
\* that row's channel and member, never another's, and names them whenever they
\* can be read and are not themselves to blame (decodeChannelStatus,
\* decodeGroupMember, nameMember).
FailureNamesRow ==
  Replied /\ ~fact.ok /\ RowsScanned # <<>> =>
    LET types == Listed(Columns(reply.op))
        blamed == CHOOSE i \in DOMAIN RowsScanned :
                    /\ Complete => ~RowHolds(RowsScanned[i])
                    /\ \A j \in 1..i - 1 : Complete /\ RowHolds(RowsScanned[j])
        values == RowsScanned[blamed]
        named(name, text) == Carries(values, name, "string", LAMBDA c, t : Holds(c, t) /\ Value(c, t) = text)
        legible(name) == Carries(values, name, "string", Holds)
    IN /\ \E c \in types : c[1] = fact.column /\ ~Carries(values, c[1], c[2], Holds)
       /\ fact.channel # NoText => named("Channel", fact.channel)
       /\ fact.member # NoText => named("MEMBER_ID", fact.member)
       /\ Complete /\ NamesChannel(reply.op) /\ legible("Channel") =>
            /\ named("Channel", fact.channel)
            /\ reply.op # "ReplicaStatus" /\ legible("MEMBER_ID") => named("MEMBER_ID", fact.member)

\* A queue clears its check exactly when the server's counter is within a bound
\* some queue can satisfy, and a lag when it is known and within one, row by row.
BoundsExact ==
  Replied /\ fact.ok =>
    \A bound \in Bound, i \in DOMAIN RowsScanned :
      /\ reply.op = "GroupMemberStats" =>
           (~DepthFinding(fact.rows[i][8], bound) <=>
              Carries(RowsScanned[i], "IN_APPLIER_QUEUE", "uint64", LAMBDA c, t : Number(c) <= bound))
      /\ reply.op = "ReplicaStatus" =>
           (~LagFinding(fact.rows[i][4], bound) <=>
              Carries(RowsScanned[i], "Seconds_Behind_Source", "nullInt64",
                      LAMBDA c, t : c.form # "nil" /\ bound >= 0 /\ Number(c) <= bound))

=============================================================================
