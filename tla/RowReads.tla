------------------------------ MODULE RowReads ------------------------------
(***************************************************************************)
(* How pkg/replication turns a row into a fact: the columns each fact       *)
(* promises, found by name in a result set whose columns the server may     *)
(* order, repeat and add to as it likes (replica_status.go, indexColumns),  *)
(* decoded in the code's order, and what an error names (decodeColumn,      *)
(* decodeField, nameMember).                                                *)
(***************************************************************************)
EXTENDS Decode, Sequences, FiniteSets

\* Columns of text but for those that types names.
Typed(names, types) ==
  [k \in DOMAIN names |->
     <<names[k], IF names[k] \in DOMAIN types THEN types[names[k]] ELSE "string">>]

(* The columns of each fact in the order they are decoded, with their decoders. *)

LogBinColumns == Typed(<<"log_bin">>, [log_bin |-> "bool"])
GTIDColumns == Typed(<<"gtid_mode", "gtid_executed", "gtid_purged">>, <<>>)
ConfigColumns ==
  Typed(<<"read_only", "super_read_only", "server_id", "log_replica_updates", "replica_parallel_workers">>,
        [read_only |-> "bool", super_read_only |-> "bool", server_id |-> "uint32",
         log_replica_updates |-> "bool", replica_parallel_workers |-> "int"])
BinaryLogColumns ==
  Typed(<<"File", "Position", "Binlog_Do_DB", "Binlog_Ignore_DB", "Executed_Gtid_Set">>,
        [Position |-> "uint64"])
ReplicaColumns ==
  Typed(<<"Server_Id", "Host", "Port", "Source_Id", "Replica_UUID">>,
        [Server_Id |-> "uint32", Port |-> "uint16", Source_Id |-> "uint32"])
ChannelColumns ==
  Typed(<<"Channel", "Replica_IO_Running", "Replica_SQL_Running", "Seconds_Behind_Source",
          "Last_IO_Errno", "Last_IO_Error", "Last_SQL_Errno", "Last_SQL_Error",
          "Retrieved_Gtid_Set", "Executed_Gtid_Set", "Source_Host", "Source_Port">>,
        [Seconds_Behind_Source |-> "nullInt64", Last_IO_Errno |-> "int",
         Last_SQL_Errno |-> "int", Source_Port |-> "uint16"])
MemberColumns ==
  Typed(<<"Channel", "MEMBER_ID", "MEMBER_HOST", "MEMBER_PORT", "MEMBER_STATE", "MEMBER_ROLE",
          "MEMBER_VERSION", "MEMBER_STACK", "IS_SELF">>,
        [MEMBER_PORT |-> "nullInt64", IS_SELF |-> "bool"])
StatsColumns ==
  Typed(<<"Channel", "MEMBER_ID", "VIEW_ID", "IN_QUEUE", "CHECKED", "CONFLICTS", "VALIDATING",
          "IN_APPLIER_QUEUE", "APPLIED", "IS_SELF">>,
        [IN_QUEUE |-> "uint64", CHECKED |-> "uint64", CONFLICTS |-> "uint64", VALIDATING |-> "uint64",
         IN_APPLIER_QUEUE |-> "uint64", APPLIED |-> "uint64", IS_SELF |-> "bool"])

DecoderType == {"string", "bool", "int", "uint64", "uint32", "uint16", "nullInt64"}
Op == {"BinaryLogEnabled", "GTIDStatus", "ReplicationConfig", "BinaryLogStatus",
       "RegisteredReplicas", "ReplicaStatus", "GroupMembers", "GroupMemberStats"}

Columns(op) ==
  CASE op = "BinaryLogEnabled" -> LogBinColumns
    [] op = "GTIDStatus" -> GTIDColumns
    [] op = "ReplicationConfig" -> ConfigColumns
    [] op = "BinaryLogStatus" -> BinaryLogColumns
    [] op = "RegisteredReplicas" -> ReplicaColumns
    [] op = "ReplicaStatus" -> ChannelColumns
    [] op = "GroupMembers" -> MemberColumns
    [] op = "GroupMemberStats" -> StatsColumns

\* System variables are scanned by position, the columns of a table by name.
ByPosition == {"BinaryLogEnabled", "GTIDStatus", "ReplicationConfig"}

\* The order in which indexColumns looks for them: of the statistics, VIEW_ID
\* is promised before MEMBER_ID.
Promised(op) ==
  LET names == [k \in DOMAIN Columns(op) |-> Columns(op)[k][1]] IN
  IF op = "GroupMemberStats" THEN [names EXCEPT ![2] = names[3], ![3] = names[2]] ELSE names

\* A plausible slip: a repeated column name overwrites its first position.
PositionLast(header, name) ==
  CHOOSE i \in DOMAIN header :
    header[i] = name /\ \A j \in DOMAIN header : header[j] = name => j <= i

\* columnIndex: the first column of a name.
Position(header, name) ==
  CHOOSE i \in DOMAIN header :
    header[i] = name /\ \A j \in DOMAIN header : header[j] = name => i <= j

\* Where the k-th column of a fact is.
At(op, header, k) == IF op \in ByPosition THEN k ELSE Position(header, Columns(op)[k][1])

First(S) == CHOOSE k \in S : \A j \in S : k <= j
Listed(seq) == {seq[k] : k \in DOMAIN seq}

Fact(rows) == [ok |-> TRUE, rows |-> rows]
Failure(channel, member, column) ==
  [ok |-> FALSE, channel |-> channel, member |-> member, column |-> column]

\* The channel of a row is named once its column has decoded, and a group
\* member once its UUID has, unless it is empty.
NamesChannel(op) == op \in {"ReplicaStatus", "GroupMembers", "GroupMemberStats"}

\* A plausible slip: the member's UUID is decoded with the columns that follow.
NamesMemberNever(op) == FALSE

NamesMember(op) == op \in {"GroupMembers", "GroupMemberStats"}

\* The columns whose cell does not decode.
Undecoded(op, header, values) ==
  {k \in DOMAIN Columns(op) : ~Decoded(values[At(op, header, k)], Columns(op)[k][2]).ok}

DecodedRow(op, header, values) ==
  [k \in DOMAIN Columns(op) |-> Decoded(values[At(op, header, k)], Columns(op)[k][2]).value]

\* The error of a row whose first undecodable column is the k-th.
RowFailure(op, header, values, k) ==
  LET text(c) == Decoded(values[At(op, header, c)], "string").value
  IN Failure(IF NamesChannel(op) /\ k > 1 THEN text(1) ELSE NoText,
             IF NamesMember(op) /\ k > 2 THEN text(2) ELSE NoText,
             Columns(op)[k][1])

\* QueryRow looks at the first row of a result set, a list at each of them.
Scanned(op, rows) == IF op \in ByPosition /\ rows # <<>> THEN <<Head(rows)>> ELSE rows

\* A plausible slip: a row that does not decode is left out of the list.
DecodedRowsSkipping(op, header, rows) ==
  LET missing == {k \in DOMAIN Promised(op) : op \notin ByPosition /\ Promised(op)[k] \notin Listed(header)}
      clean == SelectSeq(Scanned(op, rows), LAMBDA values : Undecoded(op, header, values) = {})
  IN IF missing # {} THEN Failure(NoText, NoText, Promised(op)[First(missing)])
     ELSE Fact([i \in DOMAIN clean |-> DecodedRow(op, header, clean[i])])

\* A result set with the columns header: every promised column is looked for
\* before any row, the first row that does not decode ends the fact, and a fact
\* of one row has one.
DecodedRows(op, header, rows) ==
  LET missing == {k \in DOMAIN Promised(op) : op \notin ByPosition /\ Promised(op)[k] \notin Listed(header)}
      scanned == Scanned(op, rows)
      bad == {i \in DOMAIN scanned : Undecoded(op, header, scanned[i]) # {}}
      first == scanned[First(bad)]
  IN IF missing # {} THEN Failure(NoText, NoText, Promised(op)[First(missing)])
     ELSE IF op \in ByPosition /\ scanned = <<>> THEN Failure(NoText, NoText, NoText)
     ELSE IF bad = {} THEN Fact([i \in DOMAIN scanned |-> DecodedRow(op, header, scanned[i])])
     ELSE RowFailure(op, header, first, First(Undecoded(op, header, first)))

=============================================================================
