------------------------- MODULE ForeignKeysProofs -------------------------
(***************************************************************************)
(* For every server, selector, batch size and number of changes: a complete *)
(* answer is the registry of one instant, a clear closure proves that no    *)
(* constraint enters the tables from outside, a verdict is about the keys   *)
(* that were read, and ForeignKeys implements Discovery.  These assume that *)
(* the names involved survive being written as "schema/table" and split     *)
(* again, which a schema whose name holds a slash does not.  The types and  *)
(* the meaning of an unindexed key need no such assumption.                 *)
(***************************************************************************)
EXTENDS ForeignKeys, TLAPS

NamesRoundTrip == \A n \in Identity : SplitName[n] = n

----------------------------------------------------------------------------
(* Decoding and selecting.                                                 *)

\* A constraint whose names survive is decoded into itself.
LEMMA DecodedSame ==
  ASSUME NamesRoundTrip, NEW k \in Key
  PROVE  Decoded(k) = k
<1>1. /\ k.child \in Identity /\ k.parent \in Identity
      /\ k = [name |-> k.name, child |-> k.child, parent |-> k.parent, cascade |-> k.cascade]
  BY ForeignKeyAssumption
<1>2. SplitName[k.child] = k.child /\ SplitName[k.parent] = k.parent
  BY <1>1 DEF NamesRoundTrip
<1>3. QED
  BY <1>1, <1>2 DEF Decoded

LEMMA DecodedSet ==
  ASSUME NamesRoundTrip, NEW S \in SUBSET Key
  PROVE  {Decoded(k) : k \in S} = S
BY DecodedSame

\* A qualified name matches a requested table by schema and by table.
LEMMA TargetName ==
  ASSUME NEW n \in Identity
  PROVE  n \in TargetTables <=> n[1] = Target /\ n[2] \in req.tables
<1>1. n = <<n[1], n[2]>>
  BY ForeignKeyAssumption
<1>2. ASSUME n \in TargetTables PROVE n[1] = Target /\ n[2] \in req.tables
  BY <1>2 DEF TargetTables
<1>3. ASSUME n[1] = Target, n[2] \in req.tables PROVE n \in TargetTables
  BY <1>1, <1>3 DEF TargetTables
<1>4. QED
  BY <1>2, <1>3

LEMMA MatchesWanted ==
  ASSUME NEW k \in Key
  PROVE  /\ Matches(k) <=> Wanted(k)
         /\ Wanted(k) => BoundEnd(k) \in TargetTables
<1>1. k.child \in Identity /\ k.parent \in Identity
  BY ForeignKeyAssumption
<1>2. /\ k.child \in TargetTables <=> k.child[1] = Target /\ k.child[2] \in req.tables
      /\ k.parent \in TargetTables <=> k.parent[1] = Target /\ k.parent[2] \in req.tables
  BY <1>1, TargetName
<1>3. CASE req.kind = "incoming"
  BY <1>2, <1>3 DEF Matches, Wanted, BoundEnd
<1>4. CASE req.kind = "outgoing"
  BY <1>2, <1>4 DEF Matches, Wanted, BoundEnd
<1>5. CASE req.kind \notin {"incoming", "outgoing"}
  BY <1>2, <1>5 DEF Matches, Wanted, BoundEnd
<1>6. QED
  BY <1>3, <1>4, <1>5

\* The selection of a set of constraints is what was asked for among them.
LEMMA SelectWanted ==
  ASSUME NEW S \in SUBSET Key, NEW marked
  PROVE  {e.fact : e \in Select(S, marked)} = {k \in S : Wanted(k)}
<1>1. {e.fact : e \in Select(S, marked)} = {k \in S : Matches(k)}
  <2> DEFINE Marked(k) == [fact |-> k, indexed |-> k \in marked]
  <2>1. Select(S, marked) = {Marked(k) : k \in {x \in S : Matches(x)}}
    BY DEF Select
  <2>2. \A k : Marked(k).fact = k
    OBVIOUS
  <2> HIDE DEF Marked
  <2>3. QED
    BY <2>1, <2>2
<1>2. QED
  BY <1>1, MatchesWanted

\* Whatever else the primary statement brings, it brings all that was asked for.
LEMMA PrimaryWanted ==
  ASSUME NEW others, registry \in SUBSET Key
  PROVE  {k \in PrimaryRows(others) : Wanted(k)} = {k \in registry : Wanted(k)}
<1>1. ASSUME NEW k \in registry, Wanted(k) PROVE k \in PrimaryRows(others)
  BY <1>1, MatchesWanted DEF PrimaryRows
<1>2. QED
  BY <1>1 DEF PrimaryRows

----------------------------------------------------------------------------
(* The inductive invariant.                                                *)

\* Nothing is scanned before the fallback, and nothing answered before a return.
NotYet ==
  /\ pc \in {"idle", "primary", "standard"} => keys = {}
  /\ pc \in {"idle", "error"} \cup Statements => result.keys = {} /\ result.visibility = "Unknown"
  /\ pc = "returned" /\ result.visibility = "Unknown" => req.tables = {} /\ result.keys = {}

\* An answer is the wanted part of what was read.
Answers ==
  /\ result.visibility = "Complete" => Facts(result) = {k \in atRead : Wanted(k)}
  /\ result.visibility = "Unconfirmed" => Facts(result) = {k \in keys : Wanted(k)}

FInv ==
  /\ registry \in SUBSET Key /\ keys \in SUBSET Key /\ atRead \in SUBSET Key
  /\ pc \in {"idle", "returned", "error"} \cup Statements
  /\ result.visibility \in {"Unknown", "Complete", "Unconfirmed"}
  /\ NotYet
  /\ Answers

\* The selector never changes.
LEMMA SelectorFixed ==
  ASSUME [Next]_vars
  PROVE  /\ req' = req
         /\ \A k : Wanted(k)' <=> Wanted(k)
<1>1. req' = req
  BY DEF Next, vars, Call, Refuse, Answered, PrimarySucceeds, PrimaryFails, StandardSucceeds,
     ReadIndexes, FallbackFails, Environment, ServerStep, AddConstraint, DropConstraint,
     SwitchProcess, SwitchVisible
<1>2. QED
  BY <1>1 DEF Wanted

LEMMA InvInit == Init => FInv
BY DEF Init, FInv, NotYet, Answers, ZeroResult, Facts, Statements

\* What the primary statement answers.
LEMMA PrimaryAnswer ==
  ASSUME NamesRoundTrip, FInv, NEW others, PrimarySucceeds(others)
  PROVE  /\ result'.visibility = "Complete"
         /\ Facts(result') = {k \in registry : Wanted(k)}
<1> DEFINE decoded == {Decoded(k) : k \in PrimaryRows(others)}
<1>1. decoded = PrimaryRows(others) /\ PrimaryRows(others) \in SUBSET Key
  <2>1. PrimaryRows(others) \in SUBSET Key
    BY DEF PrimaryRows, FInv
  <2>2. QED
    BY <2>1, DecodedSet
<1>2. result' = [keys |-> Select(decoded, decoded), visibility |-> "Complete", reason |-> "None"]
  BY DEF PrimarySucceeds
<1> HIDE DEF decoded
<1>3. Facts(result') = {k \in PrimaryRows(others) : Wanted(k)}
  BY <1>1, <1>2, SelectWanted DEF Facts
<1>4. QED
  BY <1>2, <1>3, PrimaryWanted DEF FInv

\* What a fallback answers.
LEMMA FallbackAnswer ==
  ASSUME FInv, NEW S \in SUBSET Key, NEW marked
  PROVE  /\ Fallback(S, marked).visibility = "Unconfirmed"
         /\ Facts(Fallback(S, marked)) = {k \in S : Wanted(k)}
<1>1. Fallback(S, marked) = [keys |-> Select(S, marked), visibility |-> "Unconfirmed",
                             reason |-> result.reason]
  BY DEF Fallback
<1>2. QED
  BY <1>1, SelectWanted DEF Facts

LEMMA InvNext ==
  ASSUME NamesRoundTrip, FInv, [Next]_vars
  PROVE  FInv'
<1>0. /\ req' = req
      /\ \A k : Wanted(k)' <=> Wanted(k)
  BY SelectorFixed
<1>1. CASE Call \/ Refuse
  BY <1>0, <1>1 DEF Call, Refuse, FInv, NotYet, Answers, Statements, serverVars, Facts
<1>2. ASSUME NEW others \in SUBSET registry, PrimarySucceeds(others)
      PROVE  FInv'
  BY <1>0, <1>2, PrimaryAnswer
     DEF PrimarySucceeds, FInv, NotYet, Answers, Statements, serverVars
<1>3. ASSUME NEW reason, PrimaryFails(reason)
      PROVE  FInv'
  BY <1>0, <1>3
     DEF PrimaryFails, FInv, NotYet, Answers, Statements, serverVars, ZeroResult
<1>4. ASSUME NEW others \in SUBSET registry, StandardSucceeds(others)
      PROVE  FInv'
  <2>1. /\ keys' = StandardRows(others) /\ keys' \in SUBSET Key
        /\ atRead' = registry /\ registry' = registry
        /\ \/ pc' = "returned" /\ keys' = {} /\ result' = Fallback({}, {})
           \/ pc' = "indexes" /\ result' = result
        /\ result.keys = {} /\ result.visibility = "Unknown"
    BY <1>4 DEF StandardSucceeds, StandardRows, FInv, NotYet, Statements, serverVars
  <2>2. CASE pc' = "indexes"
    BY <1>0, <2>1, <2>2 DEF FInv, NotYet, Answers, Statements
  <2>3. CASE pc' = "returned"
    BY <1>0, <2>1, <2>3, FallbackAnswer DEF FInv, NotYet, Answers, Statements
  <2>4. QED
    BY <2>1, <2>2, <2>3
<1>5. ASSUME NEW batch \in SUBSET pending, ReadIndexes(batch)
      PROVE  FInv'
  <2>1. /\ UNCHANGED <<registry, keys, atRead>> /\ pc = "indexes"
        /\ \/ pc' = "returned" /\ \E marked : result' = Fallback(keys, marked)
           \/ pc' = pc /\ result' = result
    BY <1>5 DEF ReadIndexes, serverVars
  <2>2. CASE pc' = pc /\ result' = result
    BY <1>0, <2>1, <2>2 DEF FInv, NotYet, Answers, Facts
  <2>3. CASE pc' = "returned" /\ \E marked : result' = Fallback(keys, marked)
    BY <1>0, <2>1, <2>3, FallbackAnswer DEF FInv, NotYet, Answers, Statements
  <2>4. QED
    BY <2>1, <2>2, <2>3
<1>6. CASE FallbackFails
  BY <1>0, <1>6 DEF FallbackFails, FInv, NotYet, Answers, Statements, serverVars,
     ZeroResult
<1>7. CASE Environment
  <2>1. /\ UNCHANGED <<pc, keys, result, atRead>> /\ registry' \in SUBSET Key
    BY <1>7 DEF Environment, ServerStep, AddConstraint, DropConstraint, SwitchProcess,
       SwitchVisible, FInv
  <2>2. QED
    BY <1>0, <2>1 DEF FInv, NotYet, Answers, Facts
<1>8. CASE UNCHANGED vars
  BY <1>0, <1>8 DEF vars, serverVars, FInv, NotYet, Answers, Facts
<1>9. QED
  BY <1>1, <1>2, <1>3, <1>4, <1>5, <1>6, <1>7, <1>8 DEF Next, Answered

LEMMA FInvariance ==
  ASSUME NamesRoundTrip
  PROVE  Spec => []FInv
<1>1. FInv /\ [Next]_vars => FInv'
  BY InvNext
<1>2. QED
  BY <1>1, InvInit, PTL DEF Spec

----------------------------------------------------------------------------
(* What a complete answer and a clear closure prove.                       *)

\* Success of the primary statement returns exactly the constraints asked for
\* that were registered as it ran, whatever the account may see and whatever
\* else the statement brought (Inspector.ForeignKeys, VisibilityComplete).
THEOREM CompleteProof ==
  ASSUME NamesRoundTrip
  PROVE  Spec => []CompleteIsRegistry
<1>1. FInv => CompleteIsRegistry
  <2> SUFFICES ASSUME FInv, result.visibility = "Complete"
               PROVE  {k.name : k \in Facts(result)} = {k.name : k \in {x \in atRead : Wanted(x)}}
    BY DEF CompleteIsRegistry
  <2>1. Facts(result) = {x \in atRead : Wanted(x)}
    BY DEF FInv, Answers
  <2>2. QED
    BY <2>1
<1>2. QED
  BY <1>1, FInvariance, PTL

\* A clear CheckFKClosure on the incoming result of the same tables means no
\* constraint entered them from outside as the registry was read; in no other
\* way, by a fallback or by an error, can it be clear.
THEOREM ClosureSound ==
  ASSUME NamesRoundTrip
  PROVE  Spec => []ClosureProof
<1>1. FInv => ClosureProof
  <2> SUFFICES ASSUME FInv, pc = "returned", req.kind = "incoming", ClosureFindings(result) = {},
                      NEW k \in atRead, k.parent[1] = Target, k.parent[2] \in req.tables
               PROVE  k.child[1] = Target /\ k.child[2] \in req.tables
    BY DEF ClosureProof
  <2>1. req.tables # {}
    OBVIOUS
  <2>2. result.visibility = "Complete"
    BY <2>1 DEF ClosureFindings
  <2>3. ExternalKeys(result) = {}
    BY <2>1 DEF ClosureFindings
  <2>4. k \in Key /\ k.child \in Identity /\ k.parent \in Identity /\ Wanted(k)
    BY ForeignKeyAssumption DEF FInv, Wanted
  <2>5. k \in Facts(result)
    BY <2>2, <2>4 DEF FInv, Answers
  <2>6. PICK e \in result.keys : e.fact = k
    BY <2>5 DEF Facts
  <2>7. k.parent \in TargetTables
    BY <2>4, TargetName
  <2>8. k.child \in TargetTables
    BY <2>3, <2>6, <2>7 DEF ExternalKeys
  <2>9. QED
    BY <2>4, <2>8, TargetName
<1>2. QED
  BY <1>1, FInvariance, PTL

----------------------------------------------------------------------------
(* Types.                                                                  *)

FactType ==
  [name: {k.name : k \in Key}, child: Identity \cup {SplitName[n] : n \in Identity},
   parent: Identity \cup {SplitName[n] : n \in Identity}, cascade: BOOLEAN]

\* A constraint, and what its registry row decodes to, are facts of a result.
LEMMA FactTyped ==
  ASSUME NEW k \in Key
  PROVE  k \in FactType /\ Decoded(k) \in FactType
<1>1. /\ k.child \in Identity /\ k.parent \in Identity /\ k.cascade \in BOOLEAN
      /\ k = [name |-> k.name, child |-> k.child, parent |-> k.parent, cascade |-> k.cascade]
  BY ForeignKeyAssumption
<1>2. k \in FactType
  BY <1>1 DEF FactType
<1>3. \A m : SplitName[k.child] \in m /\ SplitName[k.parent] \in m =>
        [k EXCEPT !.child = SplitName[@], !.parent = SplitName[@]]
          \in [name : {k.name}, child : m, parent : m, cascade : BOOLEAN]
  BY <1>1
<1>4. Decoded(k) \in FactType
  BY <1>1, <1>3 DEF Decoded, FactType
<1>5. QED
  BY <1>2, <1>4

LEMMA SelectTyped ==
  ASSUME NEW ks, \A k \in ks : k \in FactType, NEW marked
  PROVE  Select(ks, marked) \subseteq Entry
<1> SUFFICES ASSUME NEW e \in Select(ks, marked) PROVE e \in Entry
  OBVIOUS
<1>1. PICK k \in ks : e = [fact |-> k, indexed |-> k \in marked]
  BY DEF Select
<1>2. k \in FactType /\ (k \in marked) \in BOOLEAN
  OBVIOUS
<1>3. e \in [fact : FactType, indexed : BOOLEAN]
  BY <1>1, <1>2
<1>4. QED
  BY <1>3 DEF Entry, FactType

\* Nothing is read or answered before its statement.
Unread ==
  /\ pc \in {"idle", "primary"} => result = ZeroResult
  /\ pc \in {"idle", "primary", "standard"} => keys = {} /\ pending = {} /\ indexed = {}

LEMMA FallbackTyped ==
  ASSUME TypeOK, NEW ks \in SUBSET Key, NEW marked, NEW r, r = Fallback(ks, marked)
  PROVE  /\ r.keys \subseteq Entry /\ r.visibility = "Unconfirmed" /\ r.reason = result.reason
<1>1. \A k \in ks : k \in FactType
  BY FactTyped
<1>2. QED
  BY <1>1, SelectTyped DEF Fallback

LEMMA TypeNext ==
  ASSUME TypeOK, Unread, [Next]_vars
  PROVE  TypeOK' /\ Unread'
<1> USE DEF Statements
<1>1. CASE Call \/ Refuse
  BY <1>1 DEF Call, Refuse, TypeOK, Unread, serverVars, ZeroResult
<1>2. ASSUME NEW others, PrimarySucceeds(others)
      PROVE  TypeOK' /\ Unread'
  <2> DEFINE decoded == {Decoded(k) : k \in PrimaryRows(others)}
  <2>1. /\ pc = "primary" /\ pc' = "returned" /\ UNCHANGED <<serverVars, req, keys, pending, indexed>>
        /\ result' = [keys |-> Select(decoded, decoded), visibility |-> "Complete", reason |-> "None"]
    BY <1>2 DEF PrimarySucceeds
  <2>2. PrimaryRows(others) \subseteq Key
    BY DEF PrimaryRows, TypeOK
  <2>3. \A k \in decoded : k \in FactType
    BY <2>2, FactTyped
  <2> HIDE DEF decoded
  <2>4. result'.keys \subseteq Entry
    BY <2>1, <2>3, SelectTyped
  <2>5. QED
    BY <2>1, <2>4 DEF TypeOK, Unread, serverVars
<1>3. ASSUME NEW reason \in {"PrimaryQueryError", "PrimaryReadError"}, PrimaryFails(reason)
      PROVE  TypeOK' /\ Unread'
  BY <1>3 DEF PrimaryFails, TypeOK, Unread, serverVars, ZeroResult
<1>4. ASSUME NEW others, StandardSucceeds(others)
      PROVE  TypeOK' /\ Unread'
  <2>1. /\ pc = "standard" /\ keys' \subseteq Key /\ pending' = {k.child : k \in keys'}
        /\ indexed = {} /\ indexed' = indexed /\ UNCHANGED <<serverVars, req>>
        /\ \/ pc' = "returned" /\ result' = Fallback({}, {})
           \/ pc' = "indexes" /\ result' = result
    BY <1>4 DEF StandardSucceeds, StandardRows, TypeOK, Unread
  <2>2. CASE pc' = "returned" /\ result' = Fallback({}, {})
    BY <2>1, <2>2, FallbackTyped DEF TypeOK, Unread, serverVars
  <2>3. CASE pc' = "indexes" /\ result' = result
    BY <2>1, <2>3 DEF TypeOK, Unread, serverVars
  <2>4. QED
    BY <2>1, <2>2, <2>3
<1>5. ASSUME NEW batch, ReadIndexes(batch)
      PROVE  TypeOK' /\ Unread'
  <2>1. /\ pc = "indexes" /\ UNCHANGED <<serverVars, req, keys>>
        /\ pending' \subseteq pending /\ indexed' \subseteq keys
        /\ \/ pc' = "returned" /\ result' = Fallback(keys, indexed')
           \/ pc' = pc /\ result' = result
    BY <1>5 DEF ReadIndexes, TypeOK
  <2>2. CASE pc' = "returned" /\ result' = Fallback(keys, indexed')
    BY <2>1, <2>2, FallbackTyped DEF TypeOK, Unread, serverVars
  <2>3. CASE pc' = pc /\ result' = result
    BY <2>1, <2>3 DEF TypeOK, Unread, serverVars
  <2>4. QED
    BY <2>1, <2>2, <2>3
<1>6. CASE FallbackFails
  BY <1>6 DEF FallbackFails, TypeOK, Unread, serverVars, ZeroResult
<1>7. CASE Environment
  <2>1. /\ UNCHANGED <<req, pc, keys, pending, indexed, result>> /\ changes' \in 0..MaxChanges
    BY <1>7, ForeignKeyAssumption DEF Environment, ServerStep, AddConstraint, DropConstraint, SwitchProcess,
       SwitchVisible, TypeOK
  <2>2. registry' \subseteq supported' /\ supported' \subseteq Key /\ process' \in BOOLEAN
    BY <1>7 DEF Environment, ServerStep, AddConstraint, DropConstraint, SwitchProcess, SwitchVisible, TypeOK
  <2>3. visible' \subseteq Identity
    BY <1>7, ForeignKeyAssumption DEF Environment, AddConstraint, DropConstraint, SwitchProcess,
       SwitchVisible, TypeOK
  <2>4. QED
    BY <2>1, <2>2, <2>3 DEF TypeOK, Unread
<1>8. CASE UNCHANGED vars
  BY <1>8 DEF vars, serverVars, TypeOK, Unread
<1>9. QED
  BY <1>1, <1>2, <1>3, <1>4, <1>5, <1>6, <1>7, <1>8 DEF Next, Answered

\* The call keeps its types, whatever the names decode to, and what fails
\* returns the zero result (ForeignKeyResult).
THEOREM TypeCorrect == Spec => []TypeOK
<1>1. Init => TypeOK /\ Unread
  BY ForeignKeyAssumption DEF Init, TypeOK, Unread, ZeroResult, Statements
<1>2. TypeOK /\ Unread /\ [Next]_vars => TypeOK' /\ Unread'
  BY TypeNext
<1>3. QED
  BY <1>1, <1>2, PTL DEF Spec

----------------------------------------------------------------------------
(* Verdicts and reasons.                                                   *)

\* Statements run only for a selector of some table, and a reason is there from
\* the failure of the primary source on, until an answer or an error.
Reasons ==
  /\ pc \in Statements => req.tables # {}
  /\ result.visibility # "Unknown" => req.tables # {}
  /\ pc \in {"idle", "primary"} => result.reason = "None"
  /\ pc \in {"standard", "indexes"} => result.reason # "None"
  /\ pc = "returned" => (result.visibility = "Unconfirmed" <=> result.reason # "None")

LEMMA ReasonsNext ==
  ASSUME FInv, Reasons, [Next]_vars
  PROVE  Reasons'
<1>0. req' = req
  BY SelectorFixed
<1>1. CASE Call \/ Refuse
  BY <1>0, <1>1 DEF Call, Refuse, Reasons, FInv, NotYet, Statements
<1>2. ASSUME NEW others, PrimarySucceeds(others)
      PROVE  Reasons'
  <2>1. pc = "primary" /\ pc' = "returned" /\ result'.visibility = "Complete" /\ result'.reason = "None"
    BY <1>2 DEF PrimarySucceeds
  <2>2. QED
    BY <1>0, <2>1 DEF Reasons, Statements
<1>3. ASSUME NEW reason \in {"PrimaryQueryError", "PrimaryReadError"}, PrimaryFails(reason)
      PROVE  Reasons'
  <2>1. /\ pc = "primary" /\ pc' = "standard"
        /\ result'.visibility = "Unknown" /\ result'.reason = reason
    BY <1>3 DEF PrimaryFails, ZeroResult
  <2>2. QED
    BY <1>0, <2>1 DEF Reasons, Statements
<1>4. ASSUME pc \in {"standard", "indexes"},
             \/ pc' = "indexes" /\ result' = result
             \/ pc' = "returned" /\ \E ks, marked : result' = Fallback(ks, marked)
      PROVE  Reasons'
  <2>1. pc' = "returned" => result'.visibility = "Unconfirmed" /\ result'.reason = result.reason
    BY <1>4 DEF Fallback
  <2>2. QED
    BY <1>0, <1>4, <2>1 DEF Reasons, Statements
<1>5. ASSUME NEW others, StandardSucceeds(others)
      PROVE  Reasons'
  BY <1>4, <1>5 DEF StandardSucceeds
<1>6. ASSUME NEW batch, ReadIndexes(batch)
      PROVE  Reasons'
  BY <1>4, <1>6 DEF ReadIndexes
<1>7. CASE FallbackFails
  BY <1>0, <1>7 DEF FallbackFails, Reasons, Statements, ZeroResult
<1>8. CASE Environment
  <2>1. UNCHANGED <<pc, result>>
    BY <1>8 DEF Environment, ServerStep, AddConstraint, DropConstraint, SwitchProcess, SwitchVisible
  <2>2. QED
    BY <1>0, <2>1 DEF Reasons
<1>9. CASE UNCHANGED vars
  BY <1>0, <1>9 DEF vars, Reasons
<1>10. QED
  BY <1>1, <1>2, <1>3, <1>5, <1>6, <1>7, <1>8, <1>9 DEF Next, Answered

\* No answer withholds why it may be partial, only an empty selector is answered
\* without a verdict, and a complete answer misses no cascading constraint that
\* was asked for (Inspector.ForeignKeys, CheckCascadeRules).
THEOREM VerdictSound ==
  ASSUME NamesRoundTrip
  PROVE  Spec => []VerdictGiven
<1>1. Init => Reasons
  BY DEF Init, Reasons, ZeroResult, Statements
<1>2. FInv /\ Reasons /\ [Next]_vars => Reasons'
  BY ReasonsNext
<1>3. FInv /\ Reasons => VerdictGiven
  <2> SUFFICES ASSUME FInv, Reasons, pc = "returned"
               PROVE  /\ result.visibility = "Unknown" <=> req.tables = {}
                      /\ result.visibility = "Unconfirmed" <=> result.reason # "None"
                      /\ result.visibility = "Complete" =>
                           \A k \in atRead : Wanted(k) /\ k.cascade
                             => k.name \in {x.name : x \in CascadeFindings(result)}
    BY DEF VerdictGiven
  <2>1. result.visibility = "Unknown" <=> req.tables = {}
    BY DEF FInv, NotYet, Reasons
  <2>2. result.visibility = "Unconfirmed" <=> result.reason # "None"
    BY DEF Reasons
  <2>3. ASSUME result.visibility = "Complete", NEW k \in atRead, Wanted(k), k.cascade
        PROVE  k.name \in {x.name : x \in CascadeFindings(result)}
    <3>1. k \in Facts(result)
      BY <2>3 DEF FInv, Answers
    <3>2. PICK e \in result.keys : e.fact = k
      BY <3>1 DEF Facts
    <3>3. k \in CascadeFindings(result)
      BY <2>3, <3>2 DEF CascadeFindings
    <3>4. QED
      BY <3>3
  <2>4. QED
    BY <2>1, <2>2, <2>3
<1>4. QED
  BY <1>1, <1>2, <1>3, FInvariance, PTL DEF Spec

----------------------------------------------------------------------------
(* The index of every key.                                                 *)

\* While nothing changes, a key is marked once its table's batch is read.
Marked ==
  /\ registry \in SUBSET Key /\ keys \in SUBSET Key /\ changes \in Nat
  /\ changes = 0 => supported = Key /\ visible = {k.child : k \in Key}
  /\ pc \in {"idle"} \cup Statements => result.keys = {}
  /\ pc = "indexes" /\ changes = 0 => \A k \in keys : k.child \in pending \/ k \in indexed
  /\ UnindexedNeedsChange

LEMMA SelectMarked ==
  ASSUME NEW ks, NEW marked, \A k \in ks : k \in marked
  PROVE  \A e \in Select(ks, marked) : e.indexed
<1> SUFFICES ASSUME NEW e \in Select(ks, marked) PROVE e.indexed
  OBVIOUS
<1>1. PICK k \in ks : e = [fact |-> k, indexed |-> k \in marked]
  BY DEF Select
<1>2. e.indexed = (k \in marked)
  BY <1>1
<1>3. k \in marked
  OBVIOUS
<1>4. QED
  BY <1>2, <1>3

LEMMA FallbackMarked ==
  ASSUME Marked, pc \in {"standard", "indexes"}, NEW ks, NEW marked,
         changes = 0 => \A k \in ks : k \in marked,
         pc' = "returned", result' = Fallback(ks, marked), changes' = changes
  PROVE  UnindexedNeedsChange'
<1>1. result'.visibility = "Unconfirmed" /\ result'.keys = Select(ks, marked)
  BY DEF Fallback
<1>2. changes = 0 => IndexFindings(result') = {}
  BY <1>1, SelectMarked DEF IndexFindings
<1>3. IndexFindings(result)' = IndexFindings(result')
  BY DEF IndexFindings
<1>4. changes \in Nat
  BY DEF Marked
<1>5. QED
  BY <1>1, <1>2, <1>3, <1>4 DEF UnindexedNeedsChange

LEMMA MarkedNext ==
  ASSUME Marked, [Next]_vars
  PROVE  Marked'
<1>1. CASE Call \/ Refuse
  BY <1>1 DEF Call, Refuse, Marked, serverVars, UnindexedNeedsChange, IndexFindings, Statements
<1>2. ASSUME NEW others, PrimarySucceeds(others)
      PROVE  Marked'
  <2> DEFINE decoded == {Decoded(k) : k \in PrimaryRows(others)}
  <2>1. /\ pc' = "returned" /\ result'.keys = Select(decoded, decoded)
        /\ UNCHANGED <<serverVars, keys, pending, indexed>>
    BY <1>2 DEF PrimarySucceeds
  <2> HIDE DEF decoded
  <2>2. \A e \in result'.keys : e.indexed
    BY <2>1, SelectMarked
  <2>3. UnindexedNeedsChange'
    BY <2>2 DEF UnindexedNeedsChange, IndexFindings
  <2>4. QED
    BY <2>1, <2>3 DEF Marked, serverVars, Statements
<1>3. ASSUME NEW reason, PrimaryFails(reason)
      PROVE  Marked'
  BY <1>3 DEF PrimaryFails, ZeroResult, Marked, serverVars, UnindexedNeedsChange, Statements
<1>4. ASSUME NEW others, StandardSucceeds(others)
      PROVE  Marked'
  <2>1. /\ pc = "standard" /\ keys' \in SUBSET registry /\ pending' = {k.child : k \in keys'}
        /\ UNCHANGED serverVars
        /\ \/ pc' = "returned" /\ keys' = {} /\ result' = Fallback({}, {})
           \/ pc' = "indexes" /\ result' = result
    BY <1>4 DEF StandardSucceeds, StandardRows
  <2>2. UnindexedNeedsChange'
    <3>1. CASE pc' = "returned" /\ result' = Fallback({}, {})
      BY <2>1, <3>1, FallbackMarked DEF serverVars
    <3>2. CASE pc' = "indexes"
      BY <3>2 DEF UnindexedNeedsChange
    <3>3. QED
      BY <2>1, <3>1, <3>2
  <2>3. pc' = "indexes" => result'.keys = {}
    BY <2>1 DEF Marked, Statements
  <2>4. QED
    BY <2>1, <2>2, <2>3 DEF Marked, serverVars, Statements
<1>5. ASSUME NEW batch, ReadIndexes(batch)
      PROVE  Marked'
  <2> DEFINE marked == indexed \cup {k \in keys : k.child \in batch \cap visible /\ k \in supported}
  <2>1. /\ pc = "indexes" /\ indexed' = marked /\ pending' = pending \ batch
        /\ UNCHANGED <<serverVars, keys>>
        /\ \/ pc' = "returned" /\ pending \ batch = {} /\ result' = Fallback(keys, marked)
           \/ pc' = "indexes" /\ result' = result
    BY <1>5 DEF ReadIndexes
  <2>2. changes = 0 => \A k \in keys : k.child \in pending \ batch \/ k \in marked
    <3> SUFFICES ASSUME changes = 0, NEW k \in keys, k.child \notin pending \ batch
                 PROVE  k \in marked
      OBVIOUS
    <3>1. k \in Key /\ k \in supported /\ k.child \in visible
      BY DEF Marked
    <3>2. k.child \in batch \/ k \in indexed
      BY <2>1 DEF Marked
    <3>3. QED
      BY <3>1, <3>2
  <2> HIDE DEF marked
  <2>3. UnindexedNeedsChange'
    <3>1. CASE pc' = "returned" /\ pending \ batch = {} /\ result' = Fallback(keys, marked)
      BY <2>1, <2>2, <3>1, FallbackMarked DEF serverVars
    <3>2. CASE pc' = "indexes"
      BY <3>2 DEF UnindexedNeedsChange
    <3>3. QED
      BY <2>1, <3>1, <3>2
  <2>4. pc' = "indexes" => result'.keys = {}
    BY <2>1 DEF Marked, Statements
  <2>5. QED
    BY <2>1, <2>2, <2>3, <2>4 DEF Marked, serverVars, Statements
<1>6. CASE FallbackFails
  BY <1>6 DEF FallbackFails, Marked, serverVars, UnindexedNeedsChange, Statements
<1>7. CASE Environment
  <2>1. /\ UNCHANGED <<pc, keys, pending, indexed, result>> /\ changes' = changes + 1
        /\ pc \in Statements /\ registry' \in SUBSET Key
    BY <1>7 DEF Environment, ServerStep, AddConstraint, DropConstraint, SwitchProcess, SwitchVisible, Marked
  <2>2. changes' \in Nat /\ changes' # 0
    BY <2>1 DEF Marked
  <2>3. QED
    BY <2>1, <2>2 DEF Marked, UnindexedNeedsChange, Statements
<1>8. CASE UNCHANGED vars
  BY <1>8 DEF vars, serverVars, Marked, UnindexedNeedsChange, IndexFindings
<1>9. QED
  BY <1>1, <1>2, <1>3, <1>4, <1>5, <1>6, <1>7, <1>8 DEF Next, Answered

\* In however many batches the supporting indexes are read, a finding of
\* CheckFKIndexed needs a fallback and a change during the call
\* (populateFallbackIndexes); nothing is assumed of the names.
THEOREM IndexedSound == Spec => []UnindexedNeedsChange
<1>1. Init => Marked
  BY DEF Init, Marked, ZeroResult, UnindexedNeedsChange, Statements
<1>2. Marked /\ [Next]_vars => Marked'
  BY MarkedNext
<1>3. Marked => UnindexedNeedsChange
  BY DEF Marked
<1>4. QED
  BY <1>1, <1>2, <1>3, PTL DEF Spec

----------------------------------------------------------------------------
(* ForeignKeys implements Discovery.                                       *)

Registered == {k \in registry : Wanted(k)}
Seen == {k \in keys : Wanted(k)}
Answer == [kind |-> AnswerKind, keys |-> Facts(result)]

\* Every step maps to a step of Discovery, or to none.
LEMMA StepSimulation ==
  ASSUME NamesRoundTrip, FInv, FInv', [Next]_vars
  PROVE  [Promise!Next]_(Promise!discoveryVars)
<1>0. /\ req' = req
      /\ \A k : Wanted(k)' <=> Wanted(k)
  BY SelectorFixed
<1> USE DEF Promise!Next, Promise!discoveryVars, Promise!Pending
<1>1. ASSUME UNCHANGED <<registry, keys>>
      PROVE  /\ Registered' = Registered /\ Seen' = Seen
  BY <1>0, <1>1 DEF Registered, Seen
<1>2. pc \in {"idle"} \cup Statements => Answer = [kind |-> "pending", keys |-> {}]
  BY DEF Answer, AnswerKind, Facts, FInv, NotYet, Statements
<1>3. CASE Call \/ Refuse
  <2>1. /\ pc = "idle" /\ UNCHANGED <<registry, keys, result>>
        /\ pc' \in {"error", "returned", "primary"}
        /\ result.keys = {} /\ result.visibility = "Unknown"
    BY <1>3 DEF Call, Refuse, serverVars, FInv, NotYet
  <2>2. Answer' \in {[kind |-> "error", keys |-> {}], [kind |-> "nothing", keys |-> {}],
                     [kind |-> "pending", keys |-> {}]}
    BY <2>1 DEF Answer, AnswerKind, Facts
  <2>3. QED
    BY <1>1, <1>2, <2>1, <2>2
       DEF Promise!AnswerError, Promise!AnswerNothing, Registered, Seen, Answer
<1>4. ASSUME NEW others \in SUBSET registry, PrimarySucceeds(others)
      PROVE  Promise!AnswerComplete
  <2>1. pc = "primary" /\ pc' = "returned" /\ UNCHANGED <<registry, keys>>
    BY <1>4 DEF PrimarySucceeds, serverVars
  <2>a. AnswerKind' = "complete"
    <3>1. result'.visibility = "Complete"
      BY <1>4, PrimaryAnswer
    <3>2. QED
      BY <2>1, <3>1 DEF AnswerKind
  <2>b. Facts(result)' = Registered
    <3>1. Facts(result)' = Facts(result')
      BY DEF Facts
    <3>2. QED
      BY <1>4, <3>1, PrimaryAnswer DEF Registered
  <2>2. Answer' = [kind |-> "complete", keys |-> Registered]
    BY <2>a, <2>b DEF Answer
  <2>3. QED
    BY <1>1, <1>2, <2>1, <2>2
       DEF Promise!AnswerComplete, Registered, Seen, Answer, Statements
<1>5. ASSUME NEW reason, PrimaryFails(reason)
      PROVE  UNCHANGED Promise!discoveryVars
  <2>1. pc = "primary" /\ pc' = "standard" /\ UNCHANGED <<registry, keys>> /\ result'.keys = {}
    BY <1>5 DEF PrimaryFails, serverVars, ZeroResult
  <2>2. Answer' = [kind |-> "pending", keys |-> {}]
    BY <2>1 DEF Answer, AnswerKind, Facts
  <2>3. QED
    BY <1>1, <1>2, <2>1, <2>2 DEF Registered, Seen, Answer, Statements
<1>6. ASSUME NEW others \in SUBSET registry, StandardSucceeds(others)
      PROVE  [Promise!Next]_(Promise!discoveryVars)
  <2>1. /\ pc = "standard" /\ UNCHANGED registry /\ keys = {}
        /\ keys' \in SUBSET registry
        /\ \/ pc' = "returned" /\ keys' = {} /\ result' = Fallback({}, {})
           \/ pc' = "indexes" /\ result' = result
    BY <1>6 DEF StandardSucceeds, StandardRows, serverVars, FInv, NotYet
  <2>2. Registered' = Registered /\ Seen = {} /\ Seen' \in SUBSET Registered
    BY <1>0, <2>1 DEF Registered, Seen
  <2>3. CASE pc' = "returned"
    <3>a. AnswerKind' = "partial"
      <4>1. result'.visibility = "Unconfirmed"
        BY <2>1, <2>3, FallbackAnswer
      <4>2. QED
        BY <2>3, <4>1 DEF AnswerKind
    <3>b. Facts(result)' = {}
      <4>1. Facts(result)' = Facts(result')
        BY DEF Facts
      <4>2. QED
        BY <2>1, <2>3, <4>1, FallbackAnswer DEF Statements
    <3>c. Seen' = {}
      BY <2>1, <2>3 DEF Seen, Statements
    <3>1. Answer' = [kind |-> "partial", keys |-> {}] /\ Seen' = {}
      BY <3>a, <3>b, <3>c DEF Answer
    <3>2. QED
      BY <1>2, <2>1, <2>2, <3>1 DEF Promise!AnswerPartial, Registered, Seen, Answer, Statements
  <2>4. CASE pc' = "indexes"
    <3>1. Answer' = Answer
      BY <2>1, <2>4 DEF Answer, AnswerKind, Facts
    <3>2. QED
      BY <1>2, <2>1, <2>2, <3>1 DEF Promise!Look, Registered, Seen, Answer, Statements
  <2>5. QED
    BY <2>1, <2>3, <2>4
<1>7. ASSUME NEW batch \in SUBSET pending, ReadIndexes(batch)
      PROVE  [Promise!Next]_(Promise!discoveryVars)
  <2>1. /\ UNCHANGED <<registry, keys>> /\ pc = "indexes" /\ keys \in SUBSET Key
        /\ \/ pc' = "returned" /\ \E marked : result' = Fallback(keys, marked)
           \/ pc' = pc /\ result' = result
    BY <1>7 DEF ReadIndexes, serverVars, FInv
  <2>2. CASE pc' = pc /\ result' = result
    BY <1>1, <2>1, <2>2 DEF Registered, Seen, Answer, AnswerKind, Facts
  <2>3. CASE pc' = "returned" /\ \E marked : result' = Fallback(keys, marked)
    <3>a. AnswerKind' = "partial"
      <4>1. result'.visibility = "Unconfirmed"
        BY <2>1, <2>3, FallbackAnswer
      <4>2. QED
        BY <2>3, <4>1 DEF AnswerKind
    <3>b. Facts(result)' = Seen
      <4>1. Facts(result)' = Facts(result')
        BY DEF Facts
      <4>2. QED
        BY <2>1, <2>3, <4>1, FallbackAnswer DEF Seen
    <3>1. Answer' = [kind |-> "partial", keys |-> Seen]
      BY <3>a, <3>b DEF Answer
    <3>2. QED
      BY <1>1, <1>2, <2>1, <3>1 DEF Promise!AnswerPartial, Registered, Seen, Answer, Statements
  <2>4. QED
    BY <2>1, <2>2, <2>3
<1>8. ASSUME FallbackFails
      PROVE  Promise!AnswerError
  <2>1. /\ pc \in Statements /\ pc' = "error" /\ UNCHANGED <<registry, keys>>
        /\ result'.keys = {}
    BY <1>8 DEF FallbackFails, serverVars, ZeroResult, Statements
  <2>2. Answer' = [kind |-> "error", keys |-> {}]
    BY <2>1 DEF Answer, AnswerKind, Facts
  <2>3. QED
    BY <1>1, <1>2, <2>1, <2>2 DEF Promise!AnswerError, Registered, Seen, Answer
<1>9. CASE Environment
  <2>1. /\ UNCHANGED <<pc, keys, result>> /\ registry' \in SUBSET Key
    BY <1>9 DEF Environment, ServerStep, AddConstraint, DropConstraint, SwitchProcess,
       SwitchVisible, FInv
  <2>2. /\ Seen' = Seen /\ Answer' = Answer /\ Registered' \in SUBSET Key
    BY <1>0, <2>1 DEF Registered, Seen, Answer, AnswerKind, Facts
  <2>3. QED
    BY <2>2 DEF Promise!Register, Registered, Seen, Answer
<1>10. CASE UNCHANGED vars
  BY <1>0, <1>10 DEF vars, serverVars, AnswerKind, Facts
<1>11. QED
  BY <1>3, <1>4, <1>5, <1>6, <1>7, <1>8, <1>9, <1>10 DEF Next, Answered

\* Whatever the interleaving of the statements, the fallback and DDL, an answer
\* is complete and of one instant, or marked partial and of one instant, or an
\* error, and is given once.
THEOREM KeepsPromise ==
  ASSUME NamesRoundTrip
  PROVE  Spec => PromiseKept
<1>1. Init => Promise!Init
  BY DEF Init, Promise!Init, Promise!Pending, AnswerKind, Facts, ZeroResult
<1>2. QED
  BY <1>1, StepSimulation, FInvariance, PTL DEF Spec, PromiseKept, Promise!Spec

=============================================================================
