------------------------------ MODULE ListFact ------------------------------
(***************************************************************************)
(* What a list fact of pkg/replication promises a caller who asks again and *)
(* again (the comments of replica_status.go, registered_replicas.go,        *)
(* group_members.go and group_member_stats.go: rows in the order the server *)
(* returned them, the first failure reported): an answer is the whole list  *)
(* the server had at one moment of the call, or an error and no list, while *)
(* what the server would list changes at any time.                          *)
(***************************************************************************)
EXTENDS Sequences

VARIABLES
  now,     \* what the server would list now
  phase,   \* "idle", "asked", "looked" or "answered"
  seen,    \* the list as the call saw it
  answer   \* what the caller holds: [ok, list]

listVars == <<now, phase, seen, answer>>

NoAnswer == [ok |-> FALSE, list |-> <<>>]

Init == phase = "idle" /\ seen = <<>> /\ answer = NoAnswer

Ask ==
  /\ phase = "idle" /\ phase' = "asked"
  /\ seen' = <<>> /\ answer' = NoAnswer
  /\ UNCHANGED now

Look ==
  /\ phase = "asked" /\ phase' = "looked"
  /\ seen' = now
  /\ UNCHANGED <<now, answer>>

AnswerList ==
  /\ phase = "looked" /\ phase' = "answered"
  /\ answer' = [ok |-> TRUE, list |-> seen]
  /\ UNCHANGED <<now, seen>>

AnswerError ==
  /\ phase \in {"asked", "looked"} /\ phase' = "answered"
  /\ UNCHANGED <<now, seen, answer>>

\* The caller is done with the answer.
Dismiss ==
  /\ phase = "answered" /\ phase' = "idle"
  /\ answer' = NoAnswer
  /\ UNCHANGED <<now, seen>>

Change ==
  /\ now' # now
  /\ UNCHANGED <<phase, seen, answer>>

Next == Ask \/ Look \/ AnswerList \/ AnswerError \/ Dismiss \/ Change

Spec == Init /\ [][Next]_listVars

=============================================================================
