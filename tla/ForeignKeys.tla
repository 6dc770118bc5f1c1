---------------------------- MODULE ForeignKeys ----------------------------
(***************************************************************************)
(* Inspector.ForeignKeys and the checks of its result                      *)
(* (pkg/validations/foreign_keys.go, checks_foreign_keys.go).  One         *)
(* statement on the PROCESS-gated InnoDB registry is a complete answer; if *)
(* it fails in any way the visibility-filtered standard metadata is asked  *)
(* instead, and then, in batches, for the indexes that support the keys.   *)
(* Constraints, indexes and privileges change between the statements.  The *)
(* columns of a key, its update rule, and the order and repeats of a       *)
(* result are left out.                                                    *)
(***************************************************************************)
EXTENDS Naturals, FiniteSets

CONSTANTS
  Identity,     \* <<schema, table>> names of tables
  Target,       \* the Inspector's schema
  SplitName,    \* SplitName[n]: splitInnoDBName of n written as "schema/table"
  Key,          \* the constraints that may exist: name, child, parent, cascade
  Malformed,    \* those whose registry rows the library cannot decode
  Request,      \* the selectors a caller may pass: kind and tables
  MaxParams,    \* maxStatementParameters
  MaxChanges    \* bound: server changes explored during one call

SelectorKind == {"invalid", "incoming", "outgoing", "within"}

ASSUME ForeignKeyAssumption ==
  /\ \A n \in Identity : n = <<n[1], n[2]>>
  /\ DOMAIN SplitName = Identity
  /\ \A k \in Key : /\ k.child \in Identity /\ k.parent \in Identity
                    /\ k = [name |-> k.name, child |-> k.child, parent |-> k.parent,
                            cascade |-> k.cascade]
                    /\ k.cascade \in BOOLEAN
  /\ Malformed \subseteq Key
  /\ \A q \in Request : /\ q.kind \in SelectorKind
                        /\ {<<Target, t>> : t \in q.tables} \subseteq Identity
  /\ MaxParams \in Nat \ {0, 1}
  /\ MaxChanges \in Nat

VARIABLES
  registry,   \* the constraints registered in InnoDB
  supported,  \* the constraints whose child columns lead an index
  process,    \* the account holds PROCESS
  visible,    \* the tables the account holds some privilege on
  changes,    \* history: server changes during the call
  req,        \* the selector
  pc,         \* the statement the call runs next, or how it ended
  keys,       \* the constraints scanned from the standard source
  pending,    \* the child tables whose indexes are still to be read
  indexed,    \* the constraints whose index was among those read
  result,     \* the ForeignKeyResult
  atRead      \* history: the registry as the source that answered was read

serverVars == <<registry, supported, process, visible, changes>>
vars == <<serverVars, req, pc, keys, pending, indexed, result, atRead>>

Statements == {"primary", "standard", "indexes"}

ZeroResult == [keys |-> {}, visibility |-> "Unknown", reason |-> "None"]

----------------------------------------------------------------------------
(* Decoding and selecting, in Go.                                          *)

\* A constraint as foreignKey() decodes it from its registry row.
Decoded(k) == [k EXCEPT !.child = SplitName[@], !.parent = SplitName[@]]

TargetTables == {<<Target, t>> : t \in req.tables}

\* foreignKeySelectorTable: qualified, exact identity of the end or ends.
Matches(k) ==
  CASE req.kind = "incoming" -> k.parent \in TargetTables
    [] req.kind = "outgoing" -> k.child \in TargetTables
    [] OTHER -> k.child \in TargetTables /\ k.parent \in TargetTables

\* A plausible slip: the child column is bound whatever the selector.
BoundEndChild(k) == k.child

\* The end of a constraint the statements bind the requested tables to.
BoundEnd(k) == IF req.kind = "incoming" THEN k.parent ELSE k.child

\* The registry rows of a primary statement: those whose bound end is spelled
\* "schema/table" like a requested table, and when the names cannot be bound, or
\* the server compares them loosely, others too.
PrimaryRows(others) ==
  {k \in registry : \/ SplitName[BoundEnd(k)] \in {SplitName[n] : n \in TargetTables}
                    \/ k \in others}

\* The rows of the standard statement, of tables the account may see.
StandardRows(others) ==
  {k \in registry : /\ k.child \in visible
                    /\ BoundEnd(k) \in TargetTables \/ k \in others}

\* selectForeignKeys, with each key's Indexed.
Select(ks, marked) ==
  {[fact |-> k, indexed |-> k \in marked] : k \in {x \in ks : Matches(x)}}

----------------------------------------------------------------------------
(* The checks of a result, for the tables of the selector.                 *)

\* The keys that point into the tables from outside them.
ExternalKeys(r) ==
  {e \in r.keys : e.fact.parent \in TargetTables /\ e.fact.child \notin TargetTables}

\* A plausible slip: incomplete discovery is left to the other check.
ClosureFindingsUnproved(r) ==
  {<<"key", e.fact>> : e \in ExternalKeys(r)}

\* CheckFKClosure: the external keys, and the visibility unless complete.
ClosureFindings(r) ==
  IF req.tables = {} THEN {}
  ELSE {<<"key", e.fact>> : e \in ExternalKeys(r)}
       \cup (IF r.visibility # "Complete" THEN {<<"visibility", r.visibility>>} ELSE {})

\* CheckFKIndexed and CheckCascadeRules: the keys they report.
IndexFindings(r) == {e.fact : e \in {x \in r.keys : ~x.indexed}}
CascadeFindings(r) == {e.fact : e \in {x \in r.keys : x.fact.cascade}}

----------------------------------------------------------------------------
(* The call.                                                               *)

Init ==
  /\ registry \in SUBSET Key
  /\ supported = Key
  /\ process \in BOOLEAN
  /\ visible = {k.child : k \in Key}
  /\ changes = 0
  /\ req \in Request
  /\ pc = "idle"
  /\ keys = {} /\ pending = {} /\ indexed = {}
  /\ result = ZeroResult
  /\ atRead = {}

\* Refused arguments, the zero selector among them, run no statement; neither
\* does an empty selector, which is answered with the zero result.
Call ==
  /\ pc = "idle"
  /\ pc' = CASE req.kind = "invalid" -> "error"
             [] req.tables = {} -> "returned"
             [] OTHER -> "primary"
  /\ UNCHANGED <<serverVars, req, keys, pending, indexed, result, atRead>>

\* A nil Querier or an empty schema.
Refuse ==
  /\ pc = "idle"
  /\ pc' = "error"
  /\ UNCHANGED <<serverVars, req, keys, pending, indexed, result, atRead>>

PrimarySucceeds(others) ==
  /\ pc = "primary"
  /\ process
  /\ PrimaryRows(others) \cap Malformed = {}
  /\ pc' = "returned"
  /\ result' = LET decoded == {Decoded(k) : k \in PrimaryRows(others)}
               IN [keys |-> Select(decoded, decoded), visibility |-> "Complete",
                   reason |-> "None"]
  /\ atRead' = registry
  /\ UNCHANGED <<serverVars, req, keys, pending, indexed>>

\* The statement is refused or fails for any cause, or it runs and its rows
\* cannot be scanned, iterated, grouped or decoded; the cause is kept until the
\* other source has answered.
PrimaryFails(reason) ==
  /\ pc = "primary"
  /\ reason = "PrimaryReadError" => process
  /\ pc' = "standard"
  /\ result' = [ZeroResult EXCEPT !.reason = reason]
  /\ UNCHANGED <<serverVars, req, keys, pending, indexed, atRead>>

\* A plausible slip: the reason of the downgrade is not carried over.
FallbackSilent(ks, marked) ==
  [ZeroResult EXCEPT !.keys = Select(ks, marked), !.visibility = "Unconfirmed"]

\* What the fallback returns once every index batch is in.
Fallback(ks, marked) ==
  [keys |-> Select(ks, marked), visibility |-> "Unconfirmed", reason |-> result.reason]

StandardSucceeds(others) ==
  /\ pc = "standard"
  /\ keys' = StandardRows(others)
  /\ pending' = {k.child : k \in StandardRows(others)}
  /\ atRead' = registry
  /\ IF StandardRows(others) = {}
     THEN pc' = "returned" /\ result' = Fallback({}, {})
     ELSE pc' = "indexes" /\ result' = result
  /\ UNCHANGED <<serverVars, req, indexed>>

BatchSize == MaxParams \div 2

\* A plausible slip: a batch boundary skips a table.
ReadIndexesSkipping(batch) ==
  LET marked == indexed \cup {k \in keys : k.child \in batch \cap visible /\ k \in supported}
      rest == pending \ batch
  IN /\ pc = "indexes"
     /\ Cardinality(batch) = IF Cardinality(pending) < BatchSize THEN Cardinality(pending)
                             ELSE BatchSize
     /\ indexed' = marked
     /\ IF Cardinality(rest) <= 1
        THEN pending' = {} /\ pc' = "returned" /\ result' = Fallback(keys, marked)
        ELSE pending' = rest /\ pc' = pc /\ result' = result
     /\ UNCHANGED <<serverVars, req, keys, atRead>>

\* One STATISTICS statement for a batch of child tables: populateFallbackIndexes
\* marks the keys it found an index for, and the last batch returns.
ReadIndexes(batch) ==
  LET marked == indexed \cup {k \in keys : k.child \in batch \cap visible /\ k \in supported}
      rest == pending \ batch
  IN /\ pc = "indexes"
     /\ Cardinality(batch) = IF Cardinality(pending) < BatchSize THEN Cardinality(pending)
                             ELSE BatchSize
     /\ indexed' = marked
     /\ pending' = rest
     /\ IF rest = {}
        THEN pc' = "returned" /\ result' = Fallback(keys, marked)
        ELSE pc' = pc /\ result' = result
     /\ UNCHANGED <<serverVars, req, keys, atRead>>

\* A plausible slip: the call starts over.
FallbackRetries ==
  /\ pc \in {"standard", "indexes"}
  /\ pc' = "primary"
  /\ result' = ZeroResult
  /\ keys' = {} /\ pending' = {} /\ indexed' = {}
  /\ UNCHANGED <<serverVars, req, atRead>>

\* The other source fails too, at either of its statements: the call returns the
\* zero result and both causes.
FallbackFails ==
  /\ pc \in {"standard", "indexes"}
  /\ pc' = "error"
  /\ result' = ZeroResult
  /\ UNCHANGED <<serverVars, req, keys, pending, indexed, atRead>>

Answered ==
  \/ \E others \in SUBSET registry : PrimarySucceeds(others) \/ StandardSucceeds(others)
  \/ \E reason \in {"PrimaryQueryError", "PrimaryReadError"} : PrimaryFails(reason)
  \/ \E batch \in SUBSET pending : ReadIndexes(batch)
  \/ FallbackFails

----------------------------------------------------------------------------
(* The server meanwhile.  InnoDB keeps an index for every constraint.      *)

ServerStep ==
  /\ pc \in Statements
  /\ changes < MaxChanges
  /\ changes' = changes + 1
  /\ UNCHANGED <<req, pc, keys, pending, indexed, result, atRead>>

AddConstraint(k) ==
  /\ ServerStep
  /\ k \notin registry
  /\ registry' = registry \cup {k}
  /\ supported' = supported \cup {k}
  /\ UNCHANGED <<process, visible>>

\* Dropping a constraint may be followed by dropping its index.
DropConstraint(k, withIndex) ==
  /\ ServerStep
  /\ k \in registry
  /\ registry' = registry \ {k}
  /\ supported' = IF withIndex THEN supported \ {k} ELSE supported
  /\ UNCHANGED <<process, visible>>

SwitchProcess ==
  /\ ServerStep
  /\ process' = ~process
  /\ UNCHANGED <<registry, supported, visible>>

SwitchVisible(n) ==
  /\ ServerStep
  /\ visible' = IF n \in visible THEN visible \ {n} ELSE visible \cup {n}
  /\ UNCHANGED <<registry, supported, process>>

Environment ==
  \/ \E k \in Key : AddConstraint(k) \/ \E withIndex \in BOOLEAN : DropConstraint(k, withIndex)
  \/ SwitchProcess
  \/ \E n \in {k.child : k \in Key} : SwitchVisible(n)

Next == Call \/ Refuse \/ Answered \/ Environment

Spec == Init /\ [][Next]_vars

\* The driver answers every statement, with rows or with an error.
FairSpec == Spec /\ WF_vars(Answered) /\ WF_vars(Call)

----------------------------------------------------------------------------
(* Properties.                                                             *)

Entry == [fact: [name: {k.name : k \in Key}, child: Identity \cup {SplitName[n] : n \in Identity},
                 parent: Identity \cup {SplitName[n] : n \in Identity}, cascade: BOOLEAN],
          indexed: BOOLEAN]

\* The state stays within its types, and a result is complete or unconfirmed
\* only on a return; what fails returns the zero result.
TypeOK ==
  /\ registry \subseteq supported /\ supported \subseteq Key
  /\ process \in BOOLEAN /\ visible \subseteq Identity /\ changes \in 0..MaxChanges
  /\ req \in Request
  /\ pc \in {"idle", "returned", "error"} \cup Statements
  /\ keys \subseteq Key /\ indexed \subseteq keys
  /\ pending \subseteq {k.child : k \in keys}
  /\ result.keys \subseteq Entry
  /\ result.visibility \in {"Unknown", "Complete", "Unconfirmed"}
  /\ result.reason \in {"None", "PrimaryQueryError", "PrimaryReadError"}
  /\ result.visibility # "Unknown" => pc = "returned"
  /\ pc = "error" => result = ZeroResult

\* The constraints a selector asks for, by what they are rather than by how
\* they were spelled on the way.
Wanted(k) ==
  CASE req.kind = "incoming" -> k.parent[1] = Target /\ k.parent[2] \in req.tables
    [] req.kind = "outgoing" -> k.child[1] = Target /\ k.child[2] \in req.tables
    [] OTHER -> /\ k.child[1] = Target /\ k.child[2] \in req.tables
                /\ k.parent[1] = Target /\ k.parent[2] \in req.tables

Facts(r) == {e.fact : e \in r.keys}

\* Success of the primary statement proves that the returned constraints are
\* complete (docs/validations.md, Foreign keys and completeness): the result
\* holds one constraint for each that was registered and asked for as it ran.
CompleteIsRegistry ==
  result.visibility = "Complete" =>
    {k.name : k \in Facts(result)} = {k.name : k \in {x \in atRead : Wanted(x)}}

\* A nil closure is trustworthy on an incoming result: as the source of the
\* result was read, no constraint pointed into the tables from outside them, whatever
\* the account could see and whatever failed or changed during the call.
ClosureProof ==
  pc = "returned" /\ req.kind = "incoming" /\ ClosureFindings(result) = {} =>
    \A k \in atRead :
      k.parent[1] = Target /\ k.parent[2] \in req.tables
        => k.child[1] = Target /\ k.child[2] \in req.tables

\* A fallback with nothing changing meanwhile finds the supporting index of
\* every key it returns, in however many batches it reads them, so a finding of
\* CheckFKIndexed on it needs a change; on a complete result there is none.
UnindexedNeedsChange ==
  pc = "returned" /\ IndexFindings(result) # {} =>
    result.visibility = "Unconfirmed" /\ changes > 0

\* No answer withholds why it may be partial, and an empty answer without a
\* verdict is given only to an empty selector; ON DELETE CASCADE of a wanted
\* constraint is never missed by a complete answer.
VerdictGiven ==
  pc = "returned" =>
    /\ result.visibility = "Unknown" <=> req.tables = {}
    /\ result.visibility = "Unconfirmed" <=> result.reason # "None"
    /\ result.visibility = "Complete" =>
         \A k \in atRead : Wanted(k) /\ k.cascade
           => k.name \in {x.name : x \in CascadeFindings(result)}

\* The call is answered: the batches of the fallback end.
CallReturns == pc = "primary" ~> pc \in {"returned", "error"}

----------------------------------------------------------------------------
(* The promise, and the mapping onto it.                                   *)

AnswerKind ==
  CASE pc = "error" -> "error"
    [] pc = "returned" /\ result.visibility = "Complete" -> "complete"
    [] pc = "returned" /\ result.visibility = "Unconfirmed" -> "partial"
    [] pc = "returned" /\ result.visibility = "Unknown" -> "nothing"
    [] OTHER -> "pending"

Promise == INSTANCE Discovery WITH
  registered <- {k \in registry : Wanted(k)},
  seen <- {k \in keys : Wanted(k)},
  answer <- [kind |-> AnswerKind, keys |-> Facts(result)]

\* ForeignKeys keeps the promise of Discovery: no answer mixes two instants of
\* the registry, however its statements and the fallback interleave with DDL.
PromiseKept == Promise!Spec

=============================================================================
