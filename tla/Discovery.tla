----------------------------- MODULE Discovery -----------------------------
(***************************************************************************)
(* What Inspector.ForeignKeys promises, whatever its sources: the answer    *)
(* is complete and is what was registered at one instant of the call, or    *)
(* says it may be partial and is part of what was registered at one         *)
(* instant, or is an error.  An answer is given once.                       *)
(***************************************************************************)
CONSTANT Key   \* the foreign keys that may be registered

VARIABLES
  registered,  \* the keys now registered that the selector asks for
  seen,        \* the keys a look at visible metadata brought, or {}
  answer       \* how the call was answered: kind and keys

discoveryVars == <<registered, seen, answer>>

Pending == [kind |-> "pending", keys |-> {}]

Init ==
  /\ registered \in SUBSET Key
  /\ seen = {}
  /\ answer = Pending

Register ==
  /\ registered' \in SUBSET Key
  /\ UNCHANGED <<seen, answer>>

AnswerComplete ==
  /\ answer = Pending
  /\ answer' = [kind |-> "complete", keys |-> registered]
  /\ UNCHANGED <<registered, seen>>

\* One look, after which only that look may be answered.
Look ==
  /\ answer = Pending
  /\ seen = {}
  /\ seen' \in SUBSET registered
  /\ UNCHANGED <<registered, answer>>

AnswerPartial ==
  /\ answer = Pending
  /\ answer' = [kind |-> "partial", keys |-> seen]
  /\ UNCHANGED <<registered, seen>>

AnswerError ==
  /\ answer = Pending
  /\ answer' = [kind |-> "error", keys |-> {}]
  /\ UNCHANGED <<registered, seen>>

\* Nothing was asked for.
AnswerNothing ==
  /\ answer = Pending
  /\ answer' = [kind |-> "nothing", keys |-> {}]
  /\ UNCHANGED <<registered, seen>>

Next ==
  \/ Register \/ AnswerComplete \/ Look \/ AnswerPartial \/ AnswerError \/ AnswerNothing

Spec == Init /\ [][Next]_discoveryVars

=============================================================================
