---------------------------- MODULE ReplicaGate ----------------------------
(***************************************************************************)
(* A job loop gated on ReplicaStatus (docs/replication.md, "Consuming from  *)
(* a job loop"): on every tick one SHOW REPLICA STATUS over the job's only  *)
(* connection, its rows read one at a time (replica_status.go), the three   *)
(* channel checks over the result (checks.go), and a batch when they report *)
(* nothing.  Rows, decoding, iteration and close may fail.  The other list  *)
(* facts of pkg/replication read their rows the same way.                   *)
(***************************************************************************)
EXTENDS Integers, Sequences

CONSTANTS
  List,         \* the lists of channels the server may report: [name, report] each
  Report,       \* what a channel may report: [io, sql, lag]
  Unknown,      \* a NULL Seconds_Behind_Source
  Wanted,       \* the channels the job may filter to
  MaxSeconds,   \* the bounds the job may give, of type int64
  MaxTicks      \* bound: ticks of the loop explored

ASSUME ReplicaAssumption ==
  /\ List \subseteq Seq([name : STRING, report : Report]) /\ MaxTicks \in Nat
  /\ MaxSeconds \subseteq Int
  /\ \A r \in Report : r.lag = Unknown \/ r.lag \in Int

VARIABLES
  channels,    \* the channels the server would list now
  wanted,      \* the channel the job filters to, or "all"
  maxSeconds,  \* the job's bound
  ticks,       \* ticks so far
  pc,          \* "wait", "query", "rows", "close", "returned", "batch" or "ended"
  open,        \* the result set holds the connection
  pending,     \* the rows the driver still holds
  read,        \* the rows decoded
  error,       \* the error to be returned, or "none"
  snapshot,    \* history: the whole result of this tick's statement
  failures     \* history: what failed in this tick, in order

loopVars == <<channels, wanted, maxSeconds, ticks, pc, open, pending, read, error,
              snapshot, failures>>
jobVars == <<wanted, maxSeconds, ticks>>

----------------------------------------------------------------------------
(* The checks, over the rows as a set: whether they report nothing.         *)

\* The filter of the job, not of the library.
Filtered(rows) == {rows[i] : i \in {i \in DOMAIN rows : wanted \in {"all", rows[i].name}}}

\* CheckReplicationConfigured reports an empty snapshot.
Unconfigured(rows) == rows = {}

\* CheckReplicationChannelsRunning accepts the exact Yes alone.
NotRunning(rows) == \E row \in rows : row.report.io # "Yes" \/ row.report.sql # "Yes"

\* CheckSecondsBehindSourceWithin: nothing meets a negative bound, and an unknown
\* lag meets none.
Behind(rows) ==
  \E row \in rows :
    maxSeconds < 0 \/ (row.report.lag # Unknown => row.report.lag > maxSeconds)

Findings(rows) == Unconfigured(rows) \/ NotRunning(rows) \/ Behind(rows)

----------------------------------------------------------------------------
(* The loop.                                                                *)

Init ==
  /\ channels \in List
  /\ wanted \in {"all"} \cup Wanted /\ maxSeconds \in MaxSeconds
  /\ ticks = 0 /\ pc = "wait" /\ open = FALSE
  /\ pending = <<>> /\ read = <<>> /\ error = "none" /\ snapshot = <<>> /\ failures = <<>>

\* The ticker fired: the variables of the iteration are its own.
Tick ==
  /\ pc = "wait" /\ ticks < MaxTicks
  /\ ticks' = ticks + 1 /\ pc' = "query"
  /\ read' = <<>> /\ error' = "none" /\ snapshot' = <<>> /\ failures' = <<>>
  /\ UNCHANGED <<channels, wanted, maxSeconds, open, pending>>

\* ctx.Done.
Cancel ==
  /\ pc = "wait" /\ pc' = "ended"
  /\ UNCHANGED <<channels, jobVars, open, pending, read, error, snapshot, failures>>

\* The connection is free: the statement runs and its result set holds it.
Query ==
  /\ pc = "query" /\ ~open
  /\ open' = TRUE /\ pc' = "rows"
  /\ pending' = channels /\ snapshot' = channels
  /\ UNCHANGED <<channels, jobVars, read, error, failures>>

\* The Querier is nil, or the statement is refused or lost: there are no rows.
QueryFails ==
  /\ pc = "query" /\ ~open
  /\ pc' = "returned" /\ error' = "query" /\ failures' = <<"query">>
  /\ UNCHANGED <<channels, jobVars, open, pending, read, snapshot>>

\* rows.Next, rows.Scan and decodeChannelStatus of one row.
ReadRow ==
  /\ pc = "rows" /\ pending # <<>>
  /\ read' = Append(read, Head(pending)) /\ pending' = Tail(pending)
  /\ UNCHANGED <<channels, jobVars, pc, open, error, snapshot, failures>>

\* A plausible slip: the channels decoded so far are returned with the error.
RowFailsKeeping ==
  /\ pc = "rows" /\ pending # <<>>
  /\ error' = "decode" /\ failures' = Append(failures, "decode")
  /\ pc' = "close"
  /\ UNCHANGED <<channels, jobVars, open, pending, read, snapshot>>

\* The columns, a scan or a decoder fails: return nil, err.
RowFails ==
  /\ pc = "rows"
  /\ \E why \in {"columns", "scan", "decode"} :
       /\ why = "columns" => read = <<>> /\ pending = snapshot
       /\ why # "columns" => pending # <<>>
       /\ error' = why /\ failures' = Append(failures, why)
  /\ read' = <<>> /\ pc' = "close"
  /\ UNCHANGED <<channels, jobVars, open, pending, snapshot>>

\* A plausible slip: rows.Next ended the loop and rows.Err is not looked at.
RowsEndUnchecked ==
  /\ pc = "rows" /\ pc' = "close"
  /\ UNCHANGED <<channels, jobVars, open, pending, read, error, snapshot, failures>>

\* rows.Next is FALSE: the rows are exhausted, or the iteration failed, and
\* rows.Err tells which.
RowsEnd ==
  /\ pc = "rows" /\ pc' = "close"
  /\ \/ pending = <<>> /\ UNCHANGED <<read, error, failures>>
     \/ read' = <<>> /\ error' = "iterate" /\ failures' = Append(failures, "iterate")
  /\ UNCHANGED <<channels, jobVars, open, pending, snapshot>>

\* A plausible slip: the rows are closed on the successful path only.
CloseOnSuccess ==
  /\ pc = "close" /\ pc' = "returned"
  /\ open' = (error # "none") /\ pending' = <<>>
  /\ UNCHANGED <<channels, jobVars, read, error, snapshot, failures>>

\* A plausible slip: an error of the close replaces the one to be returned.
KeptLast(why) == why

\* The deferred function keeps an earlier error.
Kept(why) == IF error = "none" THEN why ELSE error

\* The deferred close, on every path; its own error drops the channels.
Close ==
  /\ pc = "close" /\ pc' = "returned"
  /\ open' = FALSE /\ pending' = <<>>
  /\ \/ UNCHANGED <<read, error, failures>>
     \/ read' = <<>> /\ error' = Kept("close") /\ failures' = Append(failures, "close")
  /\ UNCHANGED <<channels, jobVars, snapshot>>

\* The error is the job's to handle: it goes on or ends.
Unread ==
  /\ pc = "returned" /\ error # "none"
  /\ pc' \in {"wait", "ended"}
  /\ UNCHANGED <<channels, jobVars, open, pending, read, error, snapshot, failures>>

Pause ==
  /\ pc = "returned" /\ error = "none" /\ Findings(Filtered(read))
  /\ pc' = "wait"
  /\ UNCHANGED <<channels, jobVars, open, pending, read, error, snapshot, failures>>

RunBatch ==
  /\ pc = "returned" /\ error = "none" /\ ~Findings(Filtered(read))
  /\ pc' = "batch"
  /\ UNCHANGED <<channels, jobVars, open, pending, read, error, snapshot, failures>>

BatchDone ==
  /\ pc = "batch" /\ pc' = "wait"
  /\ UNCHANGED <<channels, jobVars, open, pending, read, error, snapshot, failures>>

\* A channel is created, reset, stopped, started or falls behind.
ChangeChannel ==
  /\ pc \in {"query", "rows"}
  /\ channels' \in List
  /\ UNCHANGED <<jobVars, pc, open, pending, read, error, snapshot, failures>>

Loop ==
  \/ Query \/ QueryFails \/ ReadRow \/ RowFails \/ RowsEnd \/ Close
  \/ Unread \/ Pause \/ RunBatch \/ BatchDone

Next == Tick \/ Cancel \/ Loop \/ ChangeChannel

Spec == Init /\ [][Next]_loopVars

\* The driver answers and the job goes on; ticks and changes are not forced.
FairSpec == Spec /\ WF_loopVars(Loop)

----------------------------------------------------------------------------
(* Properties.                                                              *)

\* A batch runs only on the whole result of this tick's one statement, in
\* which a channel the job asked about is listed and every one of them runs
\* with a known lag within a bound some lag can meet; a filter that matches
\* nothing never runs one.
BatchProved ==
  pc = "batch" =>
    /\ read = snapshot
    /\ \E i \in DOMAIN snapshot : wanted \in {"all", snapshot[i].name}
    /\ \A i \in DOMAIN snapshot : wanted \in {"all", snapshot[i].name} =>
         LET report == snapshot[i].report
         IN  /\ report.io = "Yes" /\ report.sql = "Yes"
             /\ report.lag # Unknown /\ report.lag <= maxSeconds /\ maxSeconds >= 0

\* The error returned is the first failure of the read, none is lost, and no
\* channel is returned with one.
FirstFailureReturned ==
  pc = "returned" =>
    IF failures = <<>> THEN error = "none" /\ read = snapshot
    ELSE error = Head(failures) /\ read = <<>>

\* Every tick ends in a batch, a pause or a reported error: the rows of one
\* read never keep the connection from the next.
TickAnswered == (pc = "query") ~> (pc \in {"batch", "wait", "ended"})

\* The read keeps the promise of a list fact although it decodes row by row,
\* fails at any of them and shares its connection: its answer is the whole list
\* of one moment, or an error and no list.
Phase ==
  CASE pc = "query" -> "asked"
    [] pc \in {"rows", "close"} -> "looked"
    [] pc \in {"returned", "batch"} -> "answered"
    [] OTHER -> "idle"

Answer ==
  IF pc \in {"returned", "batch"} THEN [ok |-> error = "none", list |-> read]
  ELSE [ok |-> FALSE, list |-> <<>>]

Promise == INSTANCE ListFact WITH now <- channels, phase <- Phase, seen <- snapshot, answer <- Answer

KeepsListPromise == Promise!Spec

=============================================================================
