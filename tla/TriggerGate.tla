---------------------------- MODULE TriggerGate ----------------------------
(***************************************************************************)
(* Proving that a table has no trigger for an event: Inspector.Grants,     *)
(* CheckTriggerVisibility on the fact it returns, one Inspector.Triggers   *)
(* read for each event, and CheckTriggersPresent on what it returned       *)
(* (pkg/validations/checks_trigger_visibility.go, checks_triggers.go).     *)
(* The server shows a table's triggers only to a holder of TRIGGER on the  *)
(* table, silently (docs/COMPAT.md entry 34), and both the grants and the  *)
(* triggers change between the reads.  An Inspector is safe for concurrent *)
(* use, so a trigger read may also overtake the Grants call.  The firing   *)
(* order of the listed triggers is left out here; PointReads has it.       *)
(***************************************************************************)
EXTENDS Grants

CONSTANTS
  Target,          \* the Inspector's schema
  Requested,       \* the requested tables, as a set: order and repeats are left out
  TriggerPrivilege, \* TRIGGER
  Trigger,         \* the triggers that may exist in Target
  InitialTriggers, \* the sets of triggers a run may start from
  NoResult,        \* no successful read of an event yet
  MaxDdl           \* bound: CREATE TRIGGER and DROP TRIGGER statements explored

ServerEvents == {"INSERT", "UPDATE", "DELETE"}

\* A plausible slip: two events are mapped to one.
ServerEventSlip(event) ==
  CASE event = "TriggerInsert" -> "INSERT"
    [] event \in {"TriggerUpdate", "TriggerDelete"} -> "DELETE"
    [] OTHER -> "none"

\* TriggerEvent.mysqlValue; the zero TriggerEvent names no event.
ServerEvent(event) ==
  CASE event = "TriggerInsert" -> "INSERT"
    [] event = "TriggerUpdate" -> "UPDATE"
    [] event = "TriggerDelete" -> "DELETE"
    [] OTHER -> "none"

TriggerEvent == {"TriggerEventUnknown", "TriggerInsert", "TriggerUpdate", "TriggerDelete"}

TableQuestion(t) ==
  [scope |-> "table", schema |-> Target, table |-> t, priv |-> TriggerPrivilege]

ASSUME TriggerAssumption ==
  /\ Target \in Schema
  /\ Requested \subseteq Table
  /\ TriggerPrivilege \in AnyPrivilege
  /\ \A t \in Requested : TableQuestion(t) \in Asked
  /\ \A tr \in Trigger : tr.table \in Table /\ tr.event \in ServerEvents
  /\ InitialTriggers \subseteq SUBSET Trigger
  /\ \A trg \in SUBSET Trigger : NoResult # trg
  /\ MaxDdl \in Nat

VARIABLES
  triggers,  \* the triggers now on the tables of Target
  listed,    \* listed[e]: what the read of event e returned
  present,   \* history: present[e], the triggers there were when e was read
  late,      \* history: the events read once the grants fact was returned
  ddl,       \* history: how many DDL statements ran
  created    \* history: a trigger was created

gateVars == <<vars, triggers, listed, present, late, ddl, created>>

----------------------------------------------------------------------------
(* The checks.                                                             *)

\* A plausible slip: only a proven absence is reported.
VisibilityFindingsLax(f) ==
  {t \in Requested : TableState(f, Target, t, TriggerPrivilege) = "Absent"}

\* CheckTriggerVisibility: the tables it reports.
VisibilityFindings(f) ==
  {t \in Requested : TableState(f, Target, t, TriggerPrivilege) # "Present"}

\* CheckTriggersPresent: the tables it reports; an event that names no event
\* leaves every table unproven.
PresentFindings(trg, event) ==
  IF ServerEvent(event) \notin ServerEvents THEN Table
  ELSE {tr.table : tr \in {x \in trg : x.event = ServerEvent(event)}}

\* Neither check has anything to report of t.
Cleared(t, event) ==
  /\ pc = "done" /\ t \notin VisibilityFindings(fact)
  /\ listed[event] # NoResult /\ t \notin PresentFindings(listed[event], event)

----------------------------------------------------------------------------
(* The reads and the environment.                                          *)

\* The triggers TRIGGERS shows to session s: those of the tables its account
\* holds TRIGGER on, and of whatever tables a role, a stored pattern or a blank
\* user opens to it.
ShownTriggers(s, opened) ==
  {tr \in triggers : HeldBy(AccountOf[s], TableQuestion(tr.table)) \/ tr.table \in opened}

GateInit ==
  /\ Init
  /\ triggers \in InitialTriggers
  /\ listed = [e \in TriggerEvent |-> NoResult]
  /\ present = [e \in TriggerEvent |-> {}]
  /\ late = {}
  /\ ddl = 0
  /\ created = FALSE

\* The Grants call, and the changes of the server it is read against.
GrantsStep ==
  /\ Next
  /\ UNCHANGED <<triggers, listed, present, late, ddl, created>>

\* Inspector.Triggers on a session of the same Querier: one statement, filtered
\* by the server to one event and in Go to the requested tables.  An event that
\* names none, or a statement that fails, returns an error: nothing is listed.
ReadTriggers(event, s, opened) ==
  /\ pc # "idle"
  /\ listed[event] = NoResult
  /\ ServerEvent(event) \in ServerEvents
  /\ listed' = [listed EXCEPT ![event] =
       {tr \in ShownTriggers(s, opened) :
          tr.event = ServerEvent(event) /\ tr.table \in Requested}]
  /\ present' = [present EXCEPT ![event] = triggers]
  /\ late' = IF pc = "done" THEN late \cup {event} ELSE late
  /\ UNCHANGED <<vars, triggers, ddl, created>>

CreateTrigger(tr) ==
  /\ pc # "idle" /\ ddl < MaxDdl
  /\ tr \notin triggers
  /\ triggers' = triggers \cup {tr}
  /\ ddl' = ddl + 1
  /\ created' = TRUE
  /\ UNCHANGED <<vars, listed, present, late>>

DropTrigger(tr) ==
  /\ pc # "idle" /\ ddl < MaxDdl
  /\ tr \in triggers
  /\ triggers' = triggers \ {tr}
  /\ ddl' = ddl + 1
  /\ UNCHANGED <<vars, listed, present, late, created>>

GateNext ==
  \/ GrantsStep
  \/ \E event \in TriggerEvent, s \in Serving(fact.affinity), opened \in SUBSET Table :
       ReadTriggers(event, s, opened)
  \/ \E tr \in Trigger : CreateTrigger(tr) \/ DropTrigger(tr)

GateSpec == GateInit /\ [][GateNext]_gateVars

----------------------------------------------------------------------------
(* Properties.                                                             *)

GateTypeOK ==
  /\ TypeOK
  /\ triggers \in SUBSET Trigger
  /\ listed \in [TriggerEvent -> {NoResult} \cup SUBSET Trigger]
  /\ present \in [TriggerEvent -> SUBSET Trigger]
  /\ late \in SUBSET TriggerEvent
  /\ ddl \in 0..MaxDdl
  /\ created \in BOOLEAN

TriggersOn(trg, t, event) == {tr \in trg : tr.table = t /\ tr.event = ServerEvent(event)}

\* A clearance is a proof (docs/validations.md, Proving a table has no triggers
\* for an event): when the event was read after Grants returned and nothing was
\* revoked or restricted since the call began, a cleared table had no such
\* trigger as the event was read, whatever the other tables' findings are,
\* whichever pooled session answered and whatever else changed.
ClearedHadNone ==
  \A t \in Requested, event \in late :
    Cleared(t, event) /\ kinds \cap {"revoke", "revokeSelect", "restrict"} = {}
      => TriggersOn(present[event], t, event) = {}

\* An event read while Grants was still running is proved by the same fact only
\* if, besides, nothing was granted and no restriction lifted meanwhile.
EarlyReadNeedsNoGrant ==
  \A t \in Requested, event \in TriggerEvent :
    /\ Cleared(t, event)
    /\ kinds \cap {"revoke", "revokeSelect", "restrict", "grant", "unrestrict"} = {}
    => TriggersOn(present[event], t, event) = {}

\* One clearance covers the three events: with all three read after Grants
\* returned and no trigger created meanwhile, a table cleared for each has no
\* trigger at all; the three statements need not be one snapshot.
ClearedHasNone ==
  \A t \in Requested :
    /\ \A event \in TriggerEvent \ {"TriggerEventUnknown"} : event \in late /\ Cleared(t, event)
    /\ kinds \cap {"revoke", "revokeSelect", "restrict"} = {}
    /\ ~created
    => {tr \in triggers : tr.table = t} = {}

=============================================================================
