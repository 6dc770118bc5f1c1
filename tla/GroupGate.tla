----------------------------- MODULE GroupGate -----------------------------
(***************************************************************************)
(* The Group Replication facts and checks of pkg/replication.               *)
(* GroupReplication reads the plugin's status and the group name in two     *)
(* statements (group_replication.go); the gate of docs/replication.md reads *)
(* GroupMembers and then GroupMemberStats (group_members.go,                *)
(* group_member_stats.go) and judges them with the four checks of           *)
(* group_replication_checks.go and the coverage rule it adds to them.  The  *)
(* server starts, stops, is expelled and changes its view in between, and   *)
(* what it knows of the others' queues are copies as old as their last       *)
(* refresh.                                                                 *)
(***************************************************************************)
EXTENDS Naturals

CONSTANTS
  Member,      \* the servers that may be in the group, by member ID
  Self,        \* the queried server
  Anonymous,   \* the empty member ID
  MaxChanges   \* bound: changes of the server explored

ASSUME GroupAssumption ==
  /\ Self \in Member /\ Anonymous \notin Member
  /\ MaxChanges \in Nat

VARIABLES
  plugin, named,         \* PLUGIN_STATUS; a group name is configured
  group,                 \* "never", "stopped", "member" or "expelled"
  identified,            \* a never-started server names itself, as 9.7 does
  view,                  \* view[m]: MEMBER_STATE of m, or "absent"
  backlog,               \* backlog[m]: the queues of m longer than the bound, on m
  copies,                \* the rows this server holds of the others' counters
  changes,               \* how often the server or its group changed
  idleOnce,              \* history: members of the view, since they entered it, ever without a backlog
  factPc, groupFact, factError,           \* the GroupReplication call
  wasConfigured, wasUnconfigured,    \* history: moments of that call
  gatePc, members, stats, verdict,   \* the gate
  healthy, served, gateBegan             \* history: the server as the gate read it

serverVars == <<plugin, named, group, identified, view, backlog, copies, changes, idleOnce>>
factVars == <<factPc, groupFact, factError, wasConfigured, wasUnconfigured>>
gateVars == <<gatePc, members, stats, verdict, healthy, served, gateBegan>>
groupVars == <<serverVars, factVars, gateVars>>

Queue == {"applier", "certifier"}
MemberState == {"absent", "ONLINE", "RECOVERING", "UNREACHABLE"}
Viewed == {m \in Member : view[m] # "absent"}

----------------------------------------------------------------------------
(* What the server's tables hold: docs/COMPAT.md entries 30 to 32.          *)

Configured == plugin = "ACTIVE" /\ named
Running == plugin = "ACTIVE" /\ group \in {"member", "expelled"}

MemberRows ==
  CASE plugin # "ACTIVE" -> {}
    [] plugin = "ACTIVE" /\ group = "never" ->
         {[id |-> IF identified THEN Self ELSE Anonymous, state |-> "OFFLINE", self |-> identified]}
    [] plugin = "ACTIVE" /\ group = "stopped" -> {[id |-> Self, state |-> "OFFLINE", self |-> TRUE]}
    [] Running -> {[id |-> m, state |-> view[m], self |-> m = Self] : m \in Viewed}

\* A row with a view ID, and the counters of m in it.
Counters(m, queues) == [id |-> m, running |-> TRUE, queues |-> queues]

\* This server's own counters are its own; those of another are the copy last
\* received, and before the first there is no row.  A row may be missing.
StatsRows ==
  CASE plugin # "ACTIVE" -> {{}}
    [] plugin = "ACTIVE" /\ group = "never" ->
         {{[id |-> Anonymous, running |-> FALSE, queues |-> {}]}}
    [] plugin = "ACTIVE" /\ group = "stopped" ->
         {{[id |-> Self, running |-> FALSE, queues |-> {}]}}
    [] Running -> SUBSET (copies \cup {Counters(Self, backlog[Self])})

----------------------------------------------------------------------------
(* The checks: each is TRUE when it reports a finding.                      *)

\* CheckGroupReplicationLocalMemberOnline.
LocalMemberFinding(rows) == ~\E r \in rows : r.self /\ r.state = "ONLINE"

\* CheckGroupReplicationMembersOnline.
MembersFinding(rows) == \E r \in rows : r.state # "ONLINE"

\* CheckGroupReplicationApplierQueueWithin and CertifierQueueWithin; the bound
\* and the counters are modelled by Decode.
QueueFinding(rows, queue) == \E r \in rows : queue \in r.queues

\* A plausible slip: a row of zeros covers its member.
RunningStatsRowById(rows, m) == \E r \in rows : r.id = m

\* The gate's own coverage rule, which no check holds.
RunningStatsRow(rows, m) == \E r \in rows : r.id = m /\ r.running

\* A plausible slip: the coverage rule is looked at before the findings.
JudgedCoverageFirst(view0, rows) ==
  CASE \E r \in view0 : ~RunningStatsRow(rows, r.id) -> "unavailable"
    [] LocalMemberFinding(view0) \/ MembersFinding(view0)
         \/ \E q \in Queue : QueueFinding(rows, q) -> "findings"
    [] OTHER -> "passed"

Judged(view0, rows) ==
  IF LocalMemberFinding(view0) \/ MembersFinding(view0) \/ \E q \in Queue : QueueFinding(rows, q)
    THEN "findings"
  ELSE IF \E r \in view0 : ~RunningStatsRow(rows, r.id) THEN "unavailable"
  ELSE "passed"

----------------------------------------------------------------------------
(* Initial states and the server's own steps.                               *)

Alone == [m \in Member |-> IF m = Self THEN "ONLINE" ELSE "absent"]

GroupInit ==
  /\ plugin \in {"", "DISABLED", "ACTIVE"} /\ named \in BOOLEAN /\ identified \in BOOLEAN
  /\ group \in {"never", "stopped", "member"}
  /\ group # "never" => plugin = "ACTIVE" /\ named
  /\ view \in IF group = "member"
                THEN {v \in [Member -> {"absent", "ONLINE"}] : v[Self] = "ONLINE"} ELSE {Alone}
  /\ backlog \in IF group = "member" THEN [Member -> {{}, {"certifier"}}] ELSE {[m \in Member |-> {}]}
  /\ copies = IF group = "member" THEN {Counters(m, backlog[m]) : m \in Viewed \ {Self}} ELSE {}
  /\ changes = 0 /\ idleOnce = {m \in Viewed : Running /\ backlog[m] = {}}
  /\ factPc = "idle" /\ groupFact = [status |-> "", name |-> FALSE] /\ factError = FALSE
  /\ wasConfigured = FALSE /\ wasUnconfigured = FALSE
  /\ gatePc = "idle" /\ members = {} /\ stats = {} /\ verdict = "none"
  /\ healthy = FALSE /\ served = {} /\ gateBegan = 0

InstallOrRemove ==
  /\ \/ plugin = "" /\ plugin' = "ACTIVE"
     \/ plugin = "ACTIVE" /\ ~Running /\ plugin' = ""
  /\ group' = "never"
  /\ UNCHANGED <<named, identified, view, backlog, copies>>

Configure ==
  /\ ~Running /\ named' = ~named
  /\ UNCHANGED <<plugin, group, identified, view, backlog, copies>>

Start ==
  /\ Configured /\ ~Running
  /\ group' = "member"
  /\ view' \in {v \in [Member -> {"absent", "ONLINE", "RECOVERING"}] : v[Self] = "RECOVERING"}
  /\ backlog' = [backlog EXCEPT ![Self] = {}]
  /\ UNCHANGED <<plugin, named, identified, copies>>

Stop ==
  /\ Running /\ group' = "stopped" /\ copies' = {}
  /\ UNCHANGED <<plugin, named, identified, view, backlog>>

\* The group goes on without this server: it sees itself ONLINE and the others
\* UNREACHABLE.
Expel ==
  /\ plugin = "ACTIVE" /\ group = "member" /\ Viewed # {Self}
  /\ group' = "expelled"
  /\ view' = [m \in Member |-> IF m = Self THEN "ONLINE"
                               ELSE IF view[m] = "absent" THEN "absent" ELSE "UNREACHABLE"]
  /\ UNCHANGED <<plugin, named, identified, backlog, copies>>

\* A member joins, leaves, recovers or is suspected.
ChangeView ==
  /\ group = "member"
  /\ \E m \in Member, s \in MemberState :
       /\ m = Self => s \in {"ONLINE", "RECOVERING"}
       /\ view' = [view EXCEPT ![m] = s]
       /\ copies' = {c \in copies : s = "absent" => c.id # m}
  /\ UNCHANGED <<plugin, named, group, identified, backlog>>

\* A peer's queues grow and shrink whether or not this server sees it.
ChangeBacklog ==
  /\ \E m \in Member, q \in SUBSET Queue :
       /\ m = Self => Running
       /\ backlog' = [backlog EXCEPT ![m] = q]
  /\ UNCHANGED <<plugin, named, group, identified, view, copies>>

\* Once a flow-control period the other members' counters reach this server.
Refresh ==
  /\ plugin = "ACTIVE" /\ group = "member"
  /\ \E m \in Viewed \ {Self} :
       /\ view[m] # "UNREACHABLE"
       /\ copies' = {c \in copies : c.id # m} \cup {Counters(m, backlog[m])}
  /\ UNCHANGED <<plugin, named, group, identified, view, backlog>>

ServerStep ==
  /\ changes < MaxChanges /\ changes' = changes + 1
  /\ InstallOrRemove \/ Configure \/ Start \/ Stop \/ Expel \/ ChangeView
     \/ ChangeBacklog \/ Refresh
  /\ idleOnce' = {m \in Member : /\ Running' /\ view'[m] # "absent"
                                 /\ m \in idleOnce \/ backlog'[m] = {}}
  /\ wasConfigured' = (wasConfigured \/ Configured')
  /\ wasUnconfigured' = (wasUnconfigured \/ ~Configured')
  /\ UNCHANGED <<factPc, groupFact, factError, gateVars>>

----------------------------------------------------------------------------
(* GroupReplication.                                                        *)

CallFact ==
  /\ factPc = "idle" /\ factPc' = "status"
  /\ wasConfigured' = Configured /\ wasUnconfigured' = ~Configured
  /\ UNCHANGED <<groupFact, factError, serverVars, gateVars>>

ReadStatus ==
  /\ factPc = "status" /\ factPc' = "name"
  /\ groupFact' = [groupFact EXCEPT !.status = plugin]
  /\ UNCHANGED <<factError, wasConfigured, wasUnconfigured, serverVars, gateVars>>

\* The variable is registered only while the plugin is ACTIVE.
ReadName ==
  /\ factPc = "name" /\ factPc' = "done"
  /\ groupFact' = [groupFact EXCEPT !.name = Configured]
  /\ UNCHANGED <<factError, wasConfigured, wasUnconfigured, serverVars, gateVars>>

\* A plausible slip: the status already read is returned without the name.
FailFactHalf ==
  /\ factPc \in {"status", "name"} /\ factPc' = "done"
  /\ factError' = (factPc = "status")
  /\ UNCHANGED <<groupFact, wasConfigured, wasUnconfigured, serverVars, gateVars>>

\* A refused call, or a statement, row, decode, iteration or close error.
FailFact ==
  /\ factPc \in {"status", "name"} /\ factPc' = "done"
  /\ factError' = TRUE /\ groupFact' = [status |-> "", name |-> FALSE]
  /\ UNCHANGED <<wasConfigured, wasUnconfigured, serverVars, gateVars>>

----------------------------------------------------------------------------
(* The gate.                                                                *)

CallGate ==
  /\ gatePc = "idle" /\ gatePc' = "members" /\ gateBegan' = changes
  /\ UNCHANGED <<members, stats, verdict, healthy, served, serverVars, factVars>>

GroupMembers ==
  /\ gatePc = "members" /\ gatePc' = "stats"
  /\ members' = MemberRows
  /\ healthy' = (plugin = "ACTIVE" /\ group = "member" /\ \A m \in Viewed : view[m] = "ONLINE")
  /\ UNCHANGED <<stats, verdict, served, gateBegan, serverVars, factVars>>

GroupMemberStats ==
  /\ gatePc = "stats" /\ gatePc' = "done"
  /\ stats' \in StatsRows
  /\ verdict' = Judged(members, stats')
  /\ served' = IF Running THEN {m \in Viewed : IF m = Self THEN backlog[m] = {} ELSE m \in idleOnce}
                ELSE {}
  /\ UNCHANGED <<members, healthy, gateBegan, serverVars, factVars>>

\* Either fact fails: no slice, and the gate stops.
FailGate ==
  /\ gatePc \in {"members", "stats"} /\ gatePc' = "done"
  /\ verdict' = "error"
  /\ UNCHANGED <<members, stats, healthy, served, gateBegan, serverVars, factVars>>

GroupNext ==
  \/ ServerStep
  \/ CallFact \/ ReadStatus \/ ReadName \/ FailFact
  \/ CallGate \/ GroupMembers \/ GroupMemberStats \/ FailGate

GroupSpec == GroupInit /\ [][GroupNext]_groupVars

----------------------------------------------------------------------------
(* Properties.                                                              *)

\* A gate that passed proves two moments: at the members read the server was
\* in its group's majority and every member of its view was ONLINE; at the stats
\* read it still ran, each of those members was in its view and its own queues
\* were within the bound.  Of another member's queues it proves only that they
\* were so at some moment since that member entered the view, before the gate
\* began if its row is an old copy (docs/replication.md, "Gating on a group").
\* A server stopped between the two reads, or expelled before them, never
\* passes, nor does a member that left and came back on the row it left behind.
PassedProves == verdict = "passed" => healthy /\ \A r \in members : r.id \in served

\* Without a change since the gate began the verdict is the exact one: a
\* server that is no healthy running member is a finding, never unavailable
\* data to retry on, and only a missing stats row makes it unavailable.
QuietVerdictExact ==
  gatePc = "done" /\ verdict # "error" /\ changes = gateBegan =>
    LET fit == healthy /\ \A r \in stats : r.queues = {}
    IN  /\ verdict = "findings" <=> ~fit
        /\ verdict = "unavailable" => \E m \in Viewed : \A r \in stats : r.id # m

\* Whatever happens between the two statements, a fact that reports a group
\* name proves a moment of the call at which the server was configured with
\* one, and a fact that reports none with the plugin ACTIVE, or no plugin at
\* all, proves a moment at which it was not; a failed call reports neither.
NameProvesMoment ==
  factPc = "done" /\ ~factError =>
    IF groupFact.name THEN wasConfigured ELSE wasUnconfigured

=============================================================================
