-------------------------- MODULE PrivilegeProofs --------------------------
(***************************************************************************)
(* Proofs about Grants, the checks over lists (PrivilegeChecks) and the    *)
(* trigger gate built on it (TriggerGate), for every set of sessions, rows *)
(* and privileges: the promises of GrantPresent under concurrent changes   *)
(* of the server, then those of GrantAbsent, the answers on a still        *)
(* server, what the checks over lists make of them, and last what a        *)
(* clearance of the trigger gate proves.                                   *)
(***************************************************************************)
EXTENDS PrivilegeChecks, TriggerGate, ListProofs

----------------------------------------------------------------------------
(* What the pure answers rest on.                                          *)

\* A present state has the account among its sources, on a querier that is not
\* opaque.
LEMMA StatePresent ==
  ASSUME NEW f, NEW sources, StateForSources(f, sources) = "Present"
  PROVE  "account" \in sources /\ f.affinity # "opaque"
BY DEF StateForSources

\* A present resolution rests on a specific source of the account, or on a
\* global one while partial revokes are off.
LEMMA ResolvePresent ==
  ASSUME NEW f \in FactType, NEW priv, NEW specific, Resolve(f, priv, specific) = "Present"
  PROVE  /\ f.affinity # "opaque"
         /\ f.populated
         /\ \/ \E sources \in specific : "account" \in sources
            \/ ~f.partialRevokes /\ "account" \in SourcesAt(f.global, priv)
<1> DEFINE states ==
      {StateForSources(f, sources) : sources \in specific}
        \cup (IF f.partialRevokes
              THEN {IF SourcesAt(f.global, priv) = {} THEN "Absent" ELSE "Unconfirmed"}
              ELSE {StateForSources(f, SourcesAt(f.global, priv))})
<1>1. f.populated /\ "Present" \in states
  BY DEF Resolve
<1>2. CASE \E sources \in specific : StateForSources(f, sources) = "Present"
  BY <1>1, <1>2, StatePresent
<1>3. CASE ~f.partialRevokes /\ StateForSources(f, SourcesAt(f.global, priv)) = "Present"
  BY <1>1, <1>3, StatePresent
<1>4. QED
  BY <1>1, <1>2, <1>3

\* What a fact records in favour of a question: a source of the account at a
\* scope that decides it.
Evidence(f, q) ==
  \/ q.scope = "table" /\ <<<<q.schema, q.table, q.priv>>, "account">> \in f.table
  \/ q.scope \in {"schema", "table"} /\ <<<<q.schema, q.priv>>, "account">> \in f.schema
  \/ ~f.partialRevokes /\ <<q.priv, "account">> \in f.global

\* Every present answer has evidence, on a populated, not opaque fact.
LEMMA AnswerPresent ==
  ASSUME NEW f \in FactType, NEW q \in Question, Answer(f, q) = "Present"
  PROVE  f.affinity # "opaque" /\ f.populated /\ Evidence(f, q)
<1>1. CASE q.scope = "global"
  <2>1. Resolve(f, q.priv, {}) = "Present"
    BY <1>1 DEF Answer, Global
  <2>2. QED
    BY <2>1, ResolvePresent DEF Evidence, SourcesAt
<1>2. CASE q.scope = "schema"
  <2>1. Resolve(f, q.priv, {SourcesAt(f.schema, <<q.schema, q.priv>>)}) = "Present"
    BY <1>2 DEF Answer, SchemaState, Downgrade
  <2>2. QED
    BY <1>2, <2>1, ResolvePresent DEF Evidence, SourcesAt
<1>3. CASE q.scope = "table"
  <2>1. Resolve(f, q.priv, {SourcesAt(f.table, <<q.schema, q.table, q.priv>>),
                            SourcesAt(f.schema, <<q.schema, q.priv>>)}) = "Present"
    BY <1>3 DEF Answer, TableState, Downgrade
  <2>2. QED
    BY <1>3, <2>1, ResolvePresent DEF Evidence, SourcesAt
<1>4. QED
  BY <1>1, <1>2, <1>3 DEF Question

----------------------------------------------------------------------------
(* Types.                                                                  *)

\* A change of the server keeps the server's types, and a restriction never
\* outlives partial_revokes.
LEMMA ServerTypes ==
  ASSUME ServerTypeOK, ServerChange
  PROVE  ServerTypeOK'
<1> USE DEF ServerTypeOK
<1>0. changes < MaxChanges /\ changes' = changes + 1 => changes' \in 0..MaxChanges
  BY ServerAssumption
<1>1. ASSUME NEW row \in Row, GrantRow(row) PROVE ServerTypeOK'
  BY <1>0, <1>1 DEF GrantRow, Changed, Kind
<1>2. ASSUME NEW row \in Row, RevokeRow(row) PROVE ServerTypeOK'
  BY <1>0, <1>2 DEF RevokeRow, Changed, Kind
<1>3. ASSUME NEW r \in Restriction, AddRestriction(r) PROVE ServerTypeOK'
  BY <1>0, <1>3 DEF AddRestriction, Changed, Kind
<1>4. ASSUME NEW r \in Restriction, DropRestriction(r) PROVE ServerTypeOK'
  BY <1>0, <1>4 DEF DropRestriction, Changed, Kind
<1>5. ASSUME EnablePartialRevokes PROVE ServerTypeOK'
  BY <1>0, <1>5 DEF EnablePartialRevokes, Changed, Kind
<1>6. ASSUME DisablePartialRevokes PROVE ServerTypeOK'
  BY <1>0, <1>6 DEF DisablePartialRevokes, Changed, Kind
<1>7. ASSUME NEW s \in Session, NEW roles \in RoleSet, SetRole(s, roles) PROVE ServerTypeOK'
  BY <1>0, <1>7, ServerAssumption DEF SetRole, Changed, Kind
<1>8. QED
  BY <1>1, <1>2, <1>3, <1>4, <1>5, <1>6, <1>7 DEF ServerChange

\* The source of a recorded row is a source, and the row has the row type.
LEMMA RecordedRows ==
  ASSUME ServerTypeOK, fact \in FactType, NEW scope, NEW s, NEW wide, NEW narrow,
         NEW row \in RowsRead(scope, s, wide, narrow)
  PROVE  /\ row \in grants
         /\ row \in RowType
         /\ row.scope = scope
         /\ SourceFor(fact, row.grantee) \in Source
         /\ SourceFor(fact, row.grantee) = "account" => row.grantee = fact.account
BY ServerAssumption
   DEF RowsRead, Recorded, Delivered, Shown, SourceFor, Source, ServerTypeOK

\* Type correctness: the call and the server stay within their types, and only
\* a read whose seven statements were all answered is populated.
THEOREM TypeCorrect == Spec => []TypeOK
<1> USE DEF TypeOK
<1>1. Init => TypeOK
  BY ServerAssumption, GranteeTextAssumption
     DEF Init, ServerInit, ServerTypeOK, ZeroGrants, FactType, Stage, Affinity, Reading
<1>2. TypeOK /\ [Next]_vars => TypeOK'
  <2> SUFFICES ASSUME TypeOK, [Next]_vars PROVE TypeOK'
    OBVIOUS
  <2>0. UNCHANGED serverVars => ServerTypeOK'
    BY DEF serverVars, ServerTypeOK
  <2> USE DEF Stage, Reading
  <2>1. ASSUME NEW affinity \in Affinity, Call(affinity) PROVE TypeOK'
    BY <2>0, <2>1 DEF Call, ZeroGrants, FactType
  <2>2. ASSUME Refuse PROVE TypeOK'
    BY <2>0, <2>2 DEF Refuse
  <2>3. ASSUME NEW s \in Serving(fact.affinity), ReadCurrentUser(s) PROVE TypeOK'
    <3>1. GranteeText[AccountOf[s]] \in Grantee \cup {NoText}
      BY ServerAssumption, GranteeTextAssumption DEF Serving
    <3>2. QED
      BY <2>0, <2>3, <3>1 DEF ReadCurrentUser, FactType
  <2>4. ASSUME NEW s \in Serving(fact.affinity), ReadEnabledRoles(s) PROVE TypeOK'
    <3>1. activeRoles[s] \in SUBSET Grantee
      BY ServerAssumption DEF Serving, ServerTypeOK
    <3>2. QED
      BY <2>0, <2>4, <3>1 DEF ReadEnabledRoles, FactType
  <2>5. ASSUME ReadPartialRevokes PROVE TypeOK'
    BY <2>0, <2>5 DEF ReadPartialRevokes, FactType, ServerTypeOK
  <2>6. ASSUME NEW s \in Serving(fact.affinity), NEW wide \in BOOLEAN, NEW narrow \in BOOLEAN,
               ReadGlobalGrants(s, wide, narrow)
        PROVE  TypeOK'
    <3>1. {<<row.priv, SourceFor(fact, row.grantee)>> :
             row \in RowsRead("global", s, wide, narrow)} \in SUBSET (GlobalKey \X Source)
      BY RecordedRows DEF RowType, GlobalKey
    <3>2. QED
      BY <2>0, <2>6, <3>1 DEF ReadGlobalGrants, FactType
  <2>7. ASSUME NEW s \in Serving(fact.affinity), NEW wide \in BOOLEAN, NEW narrow \in BOOLEAN,
               ReadSchemaGrants(s, wide, narrow)
        PROVE  TypeOK'
    <3>1. {<<<<row.schema, row.priv>>, SourceFor(fact, row.grantee)>> :
             row \in RowsRead("schema", s, wide, narrow)} \in SUBSET (SchemaKey \X Source)
      BY RecordedRows DEF RowType, SchemaKey
    <3>2. QED
      BY <2>0, <2>7, <3>1 DEF ReadSchemaGrants, FactType
  <2>8. ASSUME NEW s \in Serving(fact.affinity), NEW wide \in BOOLEAN, NEW narrow \in BOOLEAN,
               ReadTableGrants(s, wide, narrow)
        PROVE  TypeOK'
    <3>1. {<<<<row.schema, row.table, row.priv>>, SourceFor(fact, row.grantee)>> :
             row \in RowsRead("table", s, wide, narrow)} \in SUBSET (TableKey \X Source)
      BY RecordedRows DEF RowType, TableKey
    <3>2. QED
      BY <2>0, <2>8, <3>1 DEF ReadTableGrants, FactType
  <2>9. ASSUME NEW s \in Serving(fact.affinity), NEW wide \in BOOLEAN, NEW narrow \in BOOLEAN,
               ReadColumnGrants(s, wide, narrow)
        PROVE  TypeOK'
    <3>1. {<<<<row.schema, row.table, row.priv>>, SourceFor(fact, row.grantee)>> :
             row \in RowsRead("column", s, wide, narrow)} \in SUBSET (TableKey \X Source)
      BY RecordedRows DEF RowType, TableKey
    <3>2. QED
      BY <2>0, <2>9, <3>1 DEF ReadColumnGrants, FactType
  <2>10. ASSUME Fail PROVE TypeOK'
    BY <2>0, <2>10 DEF Fail, ZeroGrants, FactType, Affinity
  <2>11. ASSUME Environment PROVE TypeOK'
    BY <2>11, ServerTypes DEF Environment
  <2>12. CASE UNCHANGED vars
    BY <2>0, <2>12 DEF vars
  <2>13. QED
    BY <2>1, <2>2, <2>3, <2>4, <2>5, <2>6, <2>7, <2>8, <2>9, <2>10, <2>11, <2>12
       DEF Next, Statement
<1>3. QED
  BY <1>1, <1>2, PTL DEF Spec

----------------------------------------------------------------------------
(* The inductive invariant.                                                *)

Me == AccountOf[Work]
NoLoss == kinds \cap {"revoke", "revokeSelect", "restrict"} = {}
NoSwitch == kinds \cap {"partialOn", "partialOff"} = {}
AfterPartial == {"global", "schema", "table", "column", "done"}

\* A pinned or pooled read knows the account of Work, or no account at all.
AccountKnown == fact.affinity # "opaque" => fact.account \in {Me, NoText}

\* Nothing global is recorded before partial_revokes is.
GlobalAfterPartial == pc \notin AfterPartial => fact.global = {}

\* A fact that saw partial revokes off saw no restriction, and none came since.
NoRestriction ==
  pc \in AfterPartial /\ ~fact.partialRevokes /\ NoLoss => restricted = {}

\* Evidence is not withdrawn but by a loss.
EvidenceHolds ==
  fact.affinity # "opaque" /\ NoLoss => \A q \in Question : Evidence(fact, q) => Held(q)

\* The history follows the server while a read is under way.
HeldFollows ==
  pc \in Reading \cup {"done"} => \A q \in Asked : Held(q) => q \in held

\* Evidence was true when it was read.
EvidenceHeldOnce ==
  fact.affinity # "opaque" /\ NoSwitch =>
    \A q \in Asked : Evidence(fact, q) => q \in held

\* With no switch of the variable, the recorded value is the current one.
PartialCurrent ==
  NoSwitch /\ pc \in AfterPartial => fact.partialRevokes = partialRevokes

IInv ==
  /\ TypeOK
  /\ AccountKnown
  /\ GlobalAfterPartial
  /\ NoRestriction
  /\ EvidenceHolds
  /\ HeldFollows
  /\ EvidenceHeldOnce
  /\ PartialCurrent

\* A session a pinned or pooled Querier uses belongs to the account of Work.
LEMMA ServingAccount ==
  ASSUME NEW affinity \in {"pinned", "pool"}, NEW s \in Serving(affinity)
  PROVE  s \in Session /\ AccountOf[s] = Me
<1>1. CASE affinity = "pinned"
  BY <1>1 DEF Serving, Me
<1>2. CASE affinity = "pool"
  BY <1>2 DEF Serving, Me
<1>3. QED
  BY <1>1, <1>2

\* What a statement adds as evidence is true as the statement is answered.
LEMMA StatementEvidence ==
  ASSUME TypeOK, AccountKnown, GlobalAfterPartial,
         pc \in AfterPartial /\ ~fact.partialRevokes => restricted = {},
         fact.affinity # "opaque", Statement, NEW q \in Question, Evidence(fact', q)
  PROVE  Evidence(fact, q) \/ Held(q)
<1>0. fact.affinity \in {"pinned", "pool"} /\ fact \in FactType
  BY DEF TypeOK, FactType, Affinity
<1> USE <1>0
<1>a. fact.account # NoText => fact.account = Me
  BY DEF AccountKnown
<1>b. \A row \in grants : row.grantee # NoText
  BY ServerAssumption, GranteeTextAssumption DEF TypeOK, ServerTypeOK, RowType
<1>1. ASSUME NEW s \in Serving(fact.affinity), ReadCurrentUser(s) PROVE Evidence(fact, q)
  BY <1>1 DEF ReadCurrentUser, Evidence, FactType
<1>2. ASSUME NEW s \in Serving(fact.affinity), ReadEnabledRoles(s) PROVE Evidence(fact, q)
  BY <1>2 DEF ReadEnabledRoles, Evidence, FactType
<1>3. ASSUME ReadPartialRevokes PROVE Evidence(fact, q)
  BY <1>3 DEF ReadPartialRevokes, Evidence, FactType, GlobalAfterPartial, AfterPartial
<1>4. ASSUME NEW s \in Serving(fact.affinity), NEW wide \in BOOLEAN, NEW narrow \in BOOLEAN,
             ReadGlobalGrants(s, wide, narrow)
      PROVE  Evidence(fact, q) \/ Held(q)
  <2>1. fact' = [fact EXCEPT !.global =
          {<<row.priv, SourceFor(fact, row.grantee)>> :
             row \in RowsRead("global", s, wide, narrow)}]
    BY <1>4 DEF ReadGlobalGrants
  <2>2. SUFFICES ASSUME ~Evidence(fact, q) PROVE Held(q)
    OBVIOUS
  <2>3. ~fact.partialRevokes /\ <<q.priv, "account">> \in fact'.global
    BY <2>1, <2>2 DEF Evidence, FactType
  <2>4. PICK row \in RowsRead("global", s, wide, narrow) :
          <<q.priv, "account">> = <<row.priv, SourceFor(fact, row.grantee)>>
    BY <2>1, <2>3 DEF FactType
  <2>5. row \in grants /\ row.scope = "global" /\ row.priv = q.priv /\ row.grantee = Me
    BY <2>4, RecordedRows, <1>a, <1>b DEF TypeOK
  <2>6. restricted = {}
    BY <2>3, <1>4 DEF ReadGlobalGrants, AfterPartial
  <2>7. QED
    BY <2>5, <2>6 DEF Held, HeldBy, RowOf, Me
<1>5. ASSUME NEW s \in Serving(fact.affinity), NEW wide \in BOOLEAN, NEW narrow \in BOOLEAN,
             ReadSchemaGrants(s, wide, narrow)
      PROVE  Evidence(fact, q) \/ Held(q)
  <2>1. fact' = [fact EXCEPT !.schema =
          {<<<<row.schema, row.priv>>, SourceFor(fact, row.grantee)>> :
             row \in RowsRead("schema", s, wide, narrow)}]
    BY <1>5 DEF ReadSchemaGrants
  <2>2. SUFFICES ASSUME ~Evidence(fact, q) PROVE Held(q)
    OBVIOUS
  <2>3. q.scope \in {"schema", "table"} /\ <<<<q.schema, q.priv>>, "account">> \in fact'.schema
    BY <2>1, <2>2 DEF Evidence, FactType
  <2>4. PICK row \in RowsRead("schema", s, wide, narrow) :
          <<<<q.schema, q.priv>>, "account">>
            = <<<<row.schema, row.priv>>, SourceFor(fact, row.grantee)>>
    BY <2>1, <2>3 DEF FactType
  <2>5. /\ row \in grants /\ row.scope = "schema" /\ row.priv = q.priv
        /\ row.schema = q.schema /\ row.grantee = Me
    BY <2>4, RecordedRows, <1>a, <1>b DEF TypeOK
  <2>6. QED
    BY <2>3, <2>5 DEF Held, HeldBy, RowOf, Me
<1>6. ASSUME NEW s \in Serving(fact.affinity), NEW wide \in BOOLEAN, NEW narrow \in BOOLEAN,
             ReadTableGrants(s, wide, narrow)
      PROVE  Evidence(fact, q) \/ Held(q)
  <2>1. fact' = [fact EXCEPT !.table =
          {<<<<row.schema, row.table, row.priv>>, SourceFor(fact, row.grantee)>> :
             row \in RowsRead("table", s, wide, narrow)}]
    BY <1>6 DEF ReadTableGrants
  <2>2. SUFFICES ASSUME ~Evidence(fact, q) PROVE Held(q)
    OBVIOUS
  <2>3. q.scope = "table" /\ <<<<q.schema, q.table, q.priv>>, "account">> \in fact'.table
    BY <2>1, <2>2 DEF Evidence, FactType
  <2>4. PICK row \in RowsRead("table", s, wide, narrow) :
          <<<<q.schema, q.table, q.priv>>, "account">>
            = <<<<row.schema, row.table, row.priv>>, SourceFor(fact, row.grantee)>>
    BY <2>1, <2>3 DEF FactType
  <2>5. /\ row \in grants /\ row.scope = "table" /\ row.priv = q.priv
        /\ row.schema = q.schema /\ row.table = q.table /\ row.grantee = Me
    BY <2>4, RecordedRows, <1>a, <1>b DEF TypeOK
  <2>6. QED
    BY <2>3, <2>5 DEF Held, HeldBy, RowOf, Me
<1>7. ASSUME NEW s \in Serving(fact.affinity), NEW wide \in BOOLEAN, NEW narrow \in BOOLEAN,
             ReadColumnGrants(s, wide, narrow)
      PROVE  Evidence(fact, q)
  BY <1>7 DEF ReadColumnGrants, Evidence, FactType
<1>8. QED
  BY <1>1, <1>2, <1>3, <1>4, <1>5, <1>6, <1>7 DEF Statement

\* A change that loses nothing takes no authorisation away.
LEMMA HeldKept ==
  ASSUME TypeOK, ServerChange, NoLoss', NEW q \in Question, Held(q)
  PROVE  Held(q)'
<1> USE DEF Held, HeldBy, RowOf
<1>1. ASSUME NEW row \in Row, GrantRow(row) PROVE Held(q)'
  BY <1>1 DEF GrantRow
<1>2. ASSUME NEW row \in Row, RevokeRow(row) PROVE FALSE
  BY <1>2 DEF RevokeRow, Changed, NoLoss
<1>3. ASSUME NEW r \in Restriction, AddRestriction(r) PROVE FALSE
  BY <1>3 DEF AddRestriction, Changed, NoLoss
<1>4. ASSUME NEW r \in Restriction, DropRestriction(r) PROVE Held(q)'
  BY <1>4 DEF DropRestriction
<1>5. ASSUME EnablePartialRevokes PROVE Held(q)'
  BY <1>5 DEF EnablePartialRevokes
<1>6. ASSUME DisablePartialRevokes PROVE Held(q)'
  BY <1>6 DEF DisablePartialRevokes
<1>7. ASSUME NEW s \in Session, NEW roles \in RoleSet, SetRole(s, roles) PROVE Held(q)'
  BY <1>7 DEF SetRole
<1>8. QED
  BY <1>1, <1>2, <1>3, <1>4, <1>5, <1>6, <1>7 DEF ServerChange

\* A change that is neither a restriction nor a switch cannot bring one about;
\* kinds only grow, and partial_revokes is switched by a switch alone.
LEMMA ChangeEffects ==
  ASSUME TypeOK, ServerChange
  PROVE  /\ kinds \subseteq kinds'
         /\ restricted = {} /\ NoLoss' => restricted' = {}
         /\ NoSwitch' => partialRevokes' = partialRevokes
<1>1. ASSUME NEW row \in Row, GrantRow(row)
      PROVE  kinds \subseteq kinds' /\ restricted' = restricted /\ partialRevokes' = partialRevokes
  BY <1>1 DEF GrantRow, Changed
<1>2. ASSUME NEW row \in Row, RevokeRow(row)
      PROVE  kinds \subseteq kinds' /\ ~NoLoss' /\ partialRevokes' = partialRevokes
  BY <1>2 DEF RevokeRow, Changed, NoLoss
<1>3. ASSUME NEW r \in Restriction, AddRestriction(r)
      PROVE  kinds \subseteq kinds' /\ ~NoLoss' /\ partialRevokes' = partialRevokes
  BY <1>3 DEF AddRestriction, Changed, NoLoss
<1>4. ASSUME NEW r \in Restriction, DropRestriction(r)
      PROVE  kinds \subseteq kinds' /\ restricted' \subseteq restricted
             /\ partialRevokes' = partialRevokes
  BY <1>4 DEF DropRestriction, Changed
<1>5. ASSUME EnablePartialRevokes
      PROVE  kinds \subseteq kinds' /\ restricted' = restricted /\ ~NoSwitch'
  BY <1>5 DEF EnablePartialRevokes, Changed, NoSwitch
<1>6. ASSUME DisablePartialRevokes
      PROVE  kinds \subseteq kinds' /\ restricted' = restricted /\ ~NoSwitch'
  BY <1>6 DEF DisablePartialRevokes, Changed, NoSwitch
<1>7. ASSUME NEW s \in Session, NEW roles \in RoleSet, SetRole(s, roles)
      PROVE  kinds \subseteq kinds' /\ restricted' = restricted /\ partialRevokes' = partialRevokes
  BY <1>7 DEF SetRole, Changed
<1>8. QED
  BY <1>1, <1>2, <1>3, <1>4, <1>5, <1>6, <1>7 DEF ServerChange

\* What a statement leaves alone, and the two moments at which a fact's own
\* account and its copy of partial_revokes are set.
LEMMA StatementEffects ==
  ASSUME TypeOK, Statement
  PROVE  /\ UNCHANGED <<serverVars, held>>
         /\ pc \in Reading
         /\ pc' \in Reading \cup {"done"}
         /\ fact'.affinity = fact.affinity
         /\ pc \in AfterPartial =>
              pc' \in AfterPartial /\ fact'.partialRevokes = fact.partialRevokes
         /\ pc \notin AfterPartial /\ pc' \in AfterPartial =>
              fact'.partialRevokes = partialRevokes
         /\ pc \notin AfterPartial => fact'.global = fact.global
         /\ fact.affinity # "opaque" =>
              fact'.account = fact.account \/ fact'.account \in {Me, NoText}
<1>0. fact \in FactType
  BY DEF TypeOK
<1> USE <1>0 DEF Reading, AfterPartial
<1>1. ASSUME NEW s \in Serving(fact.affinity), ReadCurrentUser(s)
      PROVE  fact.affinity # "opaque" => fact'.account \in {Me, NoText}
  <2>1. ASSUME fact.affinity # "opaque" PROVE AccountOf[s] = Me /\ Me \in Grantee
    BY <2>1, ServingAccount, ServerAssumption DEF FactType, Affinity, Me
  <2>2. QED
    BY <1>1, <2>1, GranteeTextAssumption DEF ReadCurrentUser, FactType
<1>2. ASSUME NEW s \in Serving(fact.affinity), ReadCurrentUser(s) PROVE
         /\ UNCHANGED <<serverVars, held>>
         /\ pc = "currentUser" /\ pc' = "enabledRoles"
         /\ fact'.affinity = fact.affinity /\ fact'.global = fact.global
  BY <1>2 DEF ReadCurrentUser, FactType
<1>3. ASSUME NEW s \in Serving(fact.affinity), ReadEnabledRoles(s) PROVE
         /\ UNCHANGED <<serverVars, held>>
         /\ pc = "enabledRoles" /\ pc' = "partialRevokes"
         /\ fact'.affinity = fact.affinity /\ fact'.global = fact.global
         /\ fact'.account = fact.account
  BY <1>3 DEF ReadEnabledRoles, FactType
<1>4. ASSUME ReadPartialRevokes PROVE
         /\ UNCHANGED <<serverVars, held>>
         /\ pc = "partialRevokes" /\ pc' = "global"
         /\ fact'.affinity = fact.affinity /\ fact'.global = fact.global
         /\ fact'.account = fact.account /\ fact'.partialRevokes = partialRevokes
  BY <1>4 DEF ReadPartialRevokes, FactType
<1>5. ASSUME NEW s \in Serving(fact.affinity), NEW wide \in BOOLEAN, NEW narrow \in BOOLEAN,
             \/ ReadGlobalGrants(s, wide, narrow)
             \/ ReadSchemaGrants(s, wide, narrow)
             \/ ReadTableGrants(s, wide, narrow)
             \/ ReadColumnGrants(s, wide, narrow)
      PROVE
         /\ UNCHANGED <<serverVars, held>>
         /\ pc \in AfterPartial \ {"done"} /\ pc' \in AfterPartial
         /\ fact'.affinity = fact.affinity /\ fact'.account = fact.account
         /\ fact'.partialRevokes = fact.partialRevokes
  BY <1>5 DEF ReadGlobalGrants, ReadSchemaGrants, ReadTableGrants, ReadColumnGrants, FactType
<1>6. QED
  BY <1>1, <1>2, <1>3, <1>4, <1>5 DEF Statement

LEMMA InvInit == Init => IInv
<1> SUFFICES ASSUME Init PROVE IInv
  OBVIOUS
<1>1. TypeOK
  BY ServerAssumption, GranteeTextAssumption
     DEF Init, ServerInit, ServerTypeOK, ZeroGrants, FactType, Stage, Affinity, Reading, TypeOK
<1>2. QED
  BY <1>1 DEF Init, ZeroGrants, IInv, AccountKnown, GlobalAfterPartial, NoRestriction,
     EvidenceHolds, HeldFollows, EvidenceHeldOnce, PartialCurrent, AfterPartial, Reading

\* The invariant across the statements of the read.
LEMMA InvStatement ==
  ASSUME IInv, TypeOK', Statement
  PROVE  IInv'
<1> USE StatementEffects DEF IInv
<1>0. /\ kinds' = kinds /\ restricted' = restricted /\ partialRevokes' = partialRevokes
      /\ grants' = grants /\ held' = held
      /\ NoLoss' <=> NoLoss
      /\ NoSwitch' <=> NoSwitch
      /\ \A q \in Question : Held(q)' <=> Held(q)
  BY DEF serverVars, NoLoss, NoSwitch, Held, HeldBy, RowOf
<1>1. AccountKnown'
  BY DEF AccountKnown
<1>2. GlobalAfterPartial'
  BY DEF GlobalAfterPartial
<1>3. NoRestriction'
  BY <1>0 DEF NoRestriction, TypeOK, ServerTypeOK
<1>4. PartialCurrent'
  BY <1>0 DEF PartialCurrent
<1>5. (NoLoss \/ NoSwitch) /\ pc \in AfterPartial /\ ~fact.partialRevokes => restricted = {}
  BY DEF NoRestriction, PartialCurrent, TypeOK, ServerTypeOK
<1>6. ASSUME NoLoss \/ NoSwitch, fact.affinity # "opaque", NEW q \in Question, Evidence(fact', q)
      PROVE  Evidence(fact, q) \/ Held(q)
  BY <1>5, <1>6, StatementEvidence
<1>7. EvidenceHolds'
  BY <1>0, <1>6 DEF EvidenceHolds
<1>8. HeldFollows'
  <2>1. \A q \in Asked : q \in Question
    BY GranteeTextAssumption
  <2>2. QED
    BY <1>0, <2>1 DEF HeldFollows
<1>9. EvidenceHeldOnce'
  <2>1. \A q \in Asked : q \in Question
    BY GranteeTextAssumption
  <2>2. \A q \in Asked : Held(q) => q \in held
    BY DEF HeldFollows
  <2>3. QED
    BY <1>0, <1>6, <2>1, <2>2 DEF EvidenceHeldOnce
<1>10. QED
  BY <1>1, <1>2, <1>3, <1>4, <1>7, <1>8, <1>9

\* The invariant across a change of the server.
LEMMA InvEnvironment ==
  ASSUME IInv, TypeOK', Environment
  PROVE  IInv'
<1> USE DEF IInv
<1>0. /\ ServerChange /\ fact' = fact /\ pc' = pc /\ pc \in Reading \cup {"done"}
      /\ held' = held \cup {q \in Asked : Held(q)'}
  BY DEF Environment
<1>1. /\ NoLoss' => NoLoss
      /\ NoSwitch' => NoSwitch
      /\ restricted = {} /\ NoLoss' => restricted' = {}
      /\ NoSwitch' => partialRevokes' = partialRevokes
  BY <1>0, ChangeEffects DEF NoLoss, NoSwitch
<1>2. AccountKnown' /\ GlobalAfterPartial'
  BY <1>0 DEF AccountKnown, GlobalAfterPartial
<1>3. NoRestriction'
  BY <1>0, <1>1 DEF NoRestriction
<1>4. PartialCurrent'
  BY <1>0, <1>1 DEF PartialCurrent
<1>5. EvidenceHolds'
  <2> SUFFICES ASSUME fact.affinity # "opaque", NoLoss', NEW q \in Question, Evidence(fact, q)
               PROVE  Held(q)'
    BY <1>0 DEF EvidenceHolds
  <2>1. Held(q)
    BY <1>1 DEF EvidenceHolds
  <2>2. QED
    BY <1>0, <2>1, HeldKept
<1>6. HeldFollows'
  BY <1>0 DEF HeldFollows
<1>7. EvidenceHeldOnce'
  BY <1>0, <1>1 DEF EvidenceHeldOnce
<1>8. QED
  BY <1>2, <1>3, <1>4, <1>5, <1>6, <1>7

\* The invariant holds of every behaviour.
LEMMA Invariance == Spec => []IInv
<1>1. IInv /\ TypeOK' /\ [Next]_vars => IInv'
  <2> SUFFICES ASSUME IInv, TypeOK', [Next]_vars PROVE IInv'
    OBVIOUS
  <2>0. \A q \in Asked : q \in Question
    BY GranteeTextAssumption
  <2>1. ASSUME NEW affinity \in Affinity, Call(affinity) PROVE IInv'
    <3>1. /\ fact' = [ZeroGrants EXCEPT !.affinity = affinity] /\ pc' = "currentUser"
          /\ held' = {q \in Asked : Held(q)} /\ UNCHANGED serverVars
      BY <2>1 DEF Call
    <3>2. \A q \in Question : (Held(q)' <=> Held(q)) /\ ~Evidence(fact', q)
      BY <3>1 DEF serverVars, Held, HeldBy, RowOf, Evidence, ZeroGrants
    <3>3. QED
      BY <2>0, <3>1, <3>2 DEF IInv, AccountKnown, GlobalAfterPartial, NoRestriction, ZeroGrants,
         EvidenceHolds, HeldFollows, EvidenceHeldOnce, PartialCurrent, AfterPartial
  <2>2. ASSUME Refuse PROVE IInv'
    <3>1. fact' = fact /\ pc' = "failed" /\ held' = held /\ UNCHANGED serverVars
      BY <2>2 DEF Refuse
    <3>2. /\ NoLoss' <=> NoLoss
          /\ NoSwitch' <=> NoSwitch
          /\ \A q \in Question : Held(q)' <=> Held(q)
      BY <3>1 DEF serverVars, Held, HeldBy, RowOf, NoLoss, NoSwitch
    <3>3. fact.global = {}
      BY <2>2 DEF Refuse, IInv, GlobalAfterPartial, AfterPartial
    <3>4. QED
      BY <2>0, <3>1, <3>2, <3>3 DEF IInv, AccountKnown, GlobalAfterPartial, NoRestriction,
         EvidenceHolds, HeldFollows, EvidenceHeldOnce, PartialCurrent, AfterPartial, Reading
  <2>3. ASSUME Statement PROVE IInv'
    BY <2>3, InvStatement
  <2>4. ASSUME Fail PROVE IInv'
    <3>1. fact' = ZeroGrants /\ pc' = "failed"
      BY <2>4 DEF Fail
    <3>2. \A q \in Question : ~Evidence(fact', q)
      BY <3>1 DEF Evidence, ZeroGrants
    <3>3. QED
      BY <2>0, <3>1, <3>2 DEF IInv, AccountKnown, GlobalAfterPartial, NoRestriction, ZeroGrants,
         EvidenceHolds, HeldFollows, EvidenceHeldOnce, PartialCurrent, AfterPartial, Reading
  <2>5. ASSUME Environment PROVE IInv'
    BY <2>5, InvEnvironment
  <2>6. CASE UNCHANGED vars
    BY <2>6 DEF vars, serverVars, IInv, AccountKnown, GlobalAfterPartial, NoRestriction,
       EvidenceHolds, HeldFollows, EvidenceHeldOnce, PartialCurrent, AfterPartial, Held, HeldBy, RowOf,
       NoLoss, NoSwitch
  <2>7. QED
    BY <2>1, <2>2, <2>3, <2>4, <2>5, <2>6 DEF Next
<1>2. QED
  BY <1>1, InvInit, TypeCorrect, PTL DEF Spec

----------------------------------------------------------------------------
(* The two promises of GrantPresent.                                       *)

\* GrantPresent is sound until a grant is revoked or restricted: none was since
\* the call began, whatever else changed (Grants.Table, Schema and Global over
\* the seven statements of Inspector.Grants).
THEOREM PresentSound == Spec => []PresentSoundWithoutLoss
<1>1. IInv => PresentSoundWithoutLoss
  <2> SUFFICES ASSUME IInv, NEW q \in Asked, Present(q), NoLoss PROVE Held(q)
    BY DEF PresentSoundWithoutLoss, NoLoss
  <2>1. q \in Question /\ fact \in FactType
    BY GranteeTextAssumption DEF IInv, TypeOK
  <2>2. fact.affinity # "opaque" /\ Evidence(fact, q)
    BY <2>1, AnswerPresent DEF Present
  <2>3. QED
    BY <2>1, <2>2 DEF IInv, EvidenceHolds
<1>2. QED
  BY <1>1, Invariance, PTL

\* Under any changes but a switch of partial_revokes, GrantPresent was true at
\* some moment between the call and the return of Inspector.Grants.
THEOREM PresentOnceHeld == Spec => []PresentHeldAtSomeMoment
<1>1. IInv => PresentHeldAtSomeMoment
  <2> SUFFICES ASSUME IInv, NEW q \in Asked, Present(q), NoSwitch PROVE q \in held
    BY DEF PresentHeldAtSomeMoment, NoSwitch
  <2>1. q \in Question /\ fact \in FactType
    BY GranteeTextAssumption DEF IInv, TypeOK
  <2>2. fact.affinity # "opaque" /\ Evidence(fact, q)
    BY <2>1, AnswerPresent DEF Present
  <2>3. QED
    BY <2>1, <2>2 DEF IInv, EvidenceHeldOnce
<1>2. QED
  BY <1>1, Invariance, PTL

----------------------------------------------------------------------------
(* GrantAbsent under concurrent revocations.  The argument: only a pinned,  *)
(* role-free read with a direct SELECT on the mysql schema answers absent;  *)
(* the evidence for that SELECT is either in the schema statement itself or *)
(* in the global one before it and was not revoked since, so the schema     *)
(* statement showed the anonymous rows too, and every row that still exists *)
(* was recorded.  Then the answers on a still server, present, absent or    *)
(* neither, which are exactly those documented, and what the checks over    *)
(* lists remember between two tables, which never changes an answer.        *)

Pinned == fact.affinity = "pinned"
NoGain == kinds \subseteq {"revoke", "restrict"}

AfterUser == {"enabledRoles", "partialRevokes"} \cup AfterPartial
AfterRoles == {"partialRevokes"} \cup AfterPartial
AfterGlobal == {"schema", "table", "column", "done"}
AfterSchema == {"table", "column", "done"}
AfterTable == {"column", "done"}

\* The session's identity and its roles are what the server still says.
IdentityCurrent ==
  Pinned /\ NoGain =>
    /\ pc \in AfterUser => fact.account = GranteeText[Me]
    /\ pc \in AfterRoles => fact.roles = activeRoles[Work]

\* A source recorded for the account is a row of a real grantee.
AccountSourced ==
  /\ \A p \in AnyPrivilege : <<p, "account">> \in fact.global => fact.account # NoText
  /\ \A k \in SchemaKey : <<k, "account">> \in fact.schema => fact.account # NoText
  /\ pc \notin AfterUser => fact.global = {} /\ fact.schema = {}

\* Every row of the account's own that still exists has been recorded.
OwnRecorded ==
  Pinned /\ NoGain /\ fact.account = Me =>
    \A row \in grants : row.grantee = Me /\ row.priv \in Privilege =>
      /\ pc \in AfterGlobal /\ row.scope = "global" => <<row.priv, "account">> \in fact.global
      /\ pc \in AfterSchema /\ row.scope = "schema" =>
           <<<<row.schema, row.priv>>, "account">> \in fact.schema
      /\ pc \in AfterTable /\ row.scope = "table" =>
           <<<<row.schema, row.table, row.priv>>, "account">> \in fact.table
      /\ pc = "done" /\ row.scope = "column" =>
           <<<<row.schema, row.table, row.priv>>, "account">> \in fact.column

\* A global SELECT that was recorded is still there.
SelectKept ==
  Pinned /\ NoGain /\ <<Select, "account">> \in fact.global =>
    \E row \in grants : row.scope = "global" /\ row.grantee = Me /\ row.priv = Select

\* With the visibility an absence needs, every anonymous schema row that still
\* exists has been recorded.
AnonymousRecorded ==
  Pinned /\ NoGain /\ pc \in AfterSchema /\ BroadVisibility(fact) =>
    \A row \in grants :
      row.scope = "schema" /\ row.grantee \in Anonymous /\ row.priv \in Privilege =>
        SourcesAt(fact.schema, <<row.schema, row.priv>>) # {}

AInv ==
  /\ IdentityCurrent
  /\ AccountSourced
  /\ OwnRecorded
  /\ SelectKept
  /\ AnonymousRecorded

\* A change that gains nothing only takes rows away, none of them a SELECT.
LEMMA GainlessChange ==
  ASSUME TypeOK, ServerChange, NoGain'
  PROVE  /\ NoGain
         /\ grants' \subseteq grants
         /\ \A row \in grants : row.priv = Select => row \in grants'
         /\ partialRevokes' = partialRevokes
         /\ activeRoles' = activeRoles
<1> USE DEF NoGain, Changed
<1>1. ASSUME NEW row \in Row, GrantRow(row) PROVE FALSE
  BY <1>1 DEF GrantRow
<1>2. ASSUME NEW row \in Row, RevokeRow(row)
      PROVE  /\ NoGain
             /\ row.priv # Select
             /\ grants' = grants \ {row}
             /\ partialRevokes' = partialRevokes
             /\ activeRoles' = activeRoles
  BY <1>2 DEF RevokeRow
<1>3. ASSUME NEW r \in Restriction, AddRestriction(r)
      PROVE  NoGain /\ UNCHANGED <<grants, partialRevokes, activeRoles>>
  BY <1>3 DEF AddRestriction
<1>4. ASSUME NEW r \in Restriction, DropRestriction(r) PROVE FALSE
  BY <1>4 DEF DropRestriction
<1>5. ASSUME EnablePartialRevokes PROVE FALSE
  BY <1>5 DEF EnablePartialRevokes
<1>6. ASSUME DisablePartialRevokes PROVE FALSE
  BY <1>6 DEF DisablePartialRevokes
<1>7. ASSUME NEW s \in Session, NEW roles \in RoleSet, SetRole(s, roles) PROVE FALSE
  BY <1>7 DEF SetRole
<1>8. QED
  BY <1>1, <1>2, <1>3, <1>4, <1>5, <1>6, <1>7 DEF ServerChange

LEMMA AInvEnvironment ==
  ASSUME IInv, AInv, Environment
  PROVE  AInv'
<1>0. ServerChange /\ fact' = fact /\ pc' = pc /\ TypeOK
  BY DEF Environment, IInv
<1>1. NoGain' => /\ NoGain
                 /\ grants' \subseteq grants
                 /\ \A row \in grants : row.priv = Select => row \in grants'
                 /\ activeRoles' = activeRoles
  BY <1>0, GainlessChange
<1> USE <1>0, <1>1 DEF AInv, Pinned
<1>2. IdentityCurrent'
  BY DEF IdentityCurrent
<1>3. AccountSourced'
  BY DEF AccountSourced
<1>4. OwnRecorded'
  BY DEF OwnRecorded
<1>5. SelectKept'
  BY DEF SelectKept
<1>6. AnonymousRecorded'
  BY DEF AnonymousRecorded, BroadVisibility, SourcesAt
<1>7. QED
  BY <1>2, <1>3, <1>4, <1>5, <1>6

\* A row of the account's own, of a supported privilege, is read by the
\* statement of its scope.
LEMMA OwnRead ==
  ASSUME TypeOK, fact.account = Me, NEW scope \in Scope, NEW wide, NEW narrow,
         NEW row \in grants, row.scope = scope, row.grantee = Me, row.priv \in Privilege
  PROVE  row \in RowsRead(scope, Work, wide, narrow) /\ SourceFor(fact, row.grantee) = "account"
BY DEF RowsRead, Recorded, Delivered, Shown, SourceFor, Me

\* When every row is shown, the schema statement reads the anonymous ones.
LEMMA AnonymousRead ==
  ASSUME TypeOK, NEW narrow, NEW row \in grants, row.scope = "schema",
         row.grantee \in Anonymous, row.priv \in Privilege
  PROVE  row \in RowsRead("schema", Work, TRUE, narrow) /\ SourceFor(fact, row.grantee) \in Source
BY DEF RowsRead, Recorded, Delivered, Shown, SourceFor, Source

\* The global statement.
LEMMA AInvGlobal ==
  ASSUME IInv, AInv, NEW s \in Serving(fact.affinity), NEW wide \in BOOLEAN,
         NEW narrow \in BOOLEAN, ReadGlobalGrants(s, wide, narrow)
  PROVE  AInv'
<1>0. /\ UNCHANGED serverVars
      /\ fact \in FactType
      /\ TypeOK
  BY DEF IInv, TypeOK, ReadGlobalGrants
<1>1. /\ fact'.affinity = fact.affinity /\ fact'.account = fact.account
      /\ fact'.roles = fact.roles /\ fact'.partialRevokes = fact.partialRevokes
      /\ fact'.schema = fact.schema /\ fact'.table = fact.table /\ fact'.column = fact.column
      /\ pc = "global" /\ pc' = "schema"
  BY <1>0 DEF ReadGlobalGrants, FactType
<1>2. fact'.global = {<<row.priv, SourceFor(fact, row.grantee)>> :
        row \in RowsRead("global", s, wide, narrow)}
  BY <1>0 DEF ReadGlobalGrants, FactType
<1>3. Pinned => s = Work
  BY DEF Pinned, Serving
<1>4. /\ grants' = grants /\ activeRoles' = activeRoles /\ kinds' = kinds
      /\ Pinned' <=> Pinned
      /\ NoGain' <=> NoGain
  BY <1>0, <1>1 DEF serverVars, Pinned, NoGain
<1> USE DEF AInv, AfterUser, AfterRoles, AfterPartial, AfterGlobal, AfterSchema, AfterTable
<1>5. IdentityCurrent'
  BY <1>1, <1>4 DEF IdentityCurrent
<1>6. \A row \in grants : row \in RowType /\ row.grantee # NoText
  BY <1>0, ServerAssumption, GranteeTextAssumption DEF TypeOK, ServerTypeOK, RowType
<1>7. AccountSourced'
  <2>1. ASSUME NEW p, <<p, "account">> \in fact'.global PROVE fact.account # NoText
    <3>1. PICK row \in RowsRead("global", s, wide, narrow) :
            <<p, "account">> = <<row.priv, SourceFor(fact, row.grantee)>>
      BY <1>2, <2>1
    <3>2. QED
      BY <1>0, <1>6, <3>1, RecordedRows DEF TypeOK
  <2>2. QED
    BY <1>1, <2>1 DEF AccountSourced
<1>8. OwnRecorded'
  <2> SUFFICES ASSUME Pinned, NoGain, fact.account = Me, NEW row \in grants,
                      row.grantee = Me, row.priv \in Privilege, row.scope = "global"
               PROVE  <<row.priv, "account">> \in fact'.global
    BY <1>1, <1>4 DEF OwnRecorded
  <2>1. row \in RowsRead("global", s, wide, narrow) /\ SourceFor(fact, row.grantee) = "account"
    BY <1>0, <1>3, OwnRead DEF Scope
  <2>2. QED
    BY <1>2, <2>1
<1>9. SelectKept'
  <2> SUFFICES ASSUME Pinned, NoGain, <<Select, "account">> \in fact'.global
               PROVE  \E row \in grants : row.scope = "global" /\ row.grantee = Me
                                          /\ row.priv = Select
    BY <1>4 DEF SelectKept
  <2>1. PICK row \in RowsRead("global", s, wide, narrow) :
          <<Select, "account">> = <<row.priv, SourceFor(fact, row.grantee)>>
    BY <1>2
  <2>2. row \in grants /\ row.scope = "global" /\ row.priv = Select /\ row.grantee = fact.account
    BY <1>0, <2>1, RecordedRows DEF TypeOK
  <2>3. fact.account \in {Me, NoText}
    BY <1>1, ServerAssumption, GranteeTextAssumption DEF IdentityCurrent, Me
  <2>4. QED
    BY <1>6, <2>2, <2>3
<1>10. AnonymousRecorded'
  BY <1>1 DEF AnonymousRecorded
<1>11. QED
  BY <1>5, <1>7, <1>8, <1>9, <1>10

\* The schema statement.
LEMMA AInvSchema ==
  ASSUME IInv, AInv, NEW s \in Serving(fact.affinity), NEW wide \in BOOLEAN,
         NEW narrow \in BOOLEAN, ReadSchemaGrants(s, wide, narrow)
  PROVE  AInv'
<1>0. /\ UNCHANGED serverVars
      /\ fact \in FactType
      /\ TypeOK
  BY DEF IInv, TypeOK, ReadSchemaGrants
<1>1. /\ fact'.affinity = fact.affinity /\ fact'.account = fact.account
      /\ fact'.roles = fact.roles /\ fact'.partialRevokes = fact.partialRevokes
      /\ fact'.global = fact.global /\ fact'.table = fact.table /\ fact'.column = fact.column
      /\ pc = "schema" /\ pc' = "table"
  BY <1>0 DEF ReadSchemaGrants, FactType
<1>2. fact'.schema = {<<<<row.schema, row.priv>>, SourceFor(fact, row.grantee)>> :
        row \in RowsRead("schema", s, wide, narrow)}
  BY <1>0 DEF ReadSchemaGrants, FactType
<1>3. Pinned => s = Work
  BY DEF Pinned, Serving
<1>4. /\ grants' = grants /\ activeRoles' = activeRoles /\ kinds' = kinds
      /\ Pinned' <=> Pinned
      /\ NoGain' <=> NoGain
  BY <1>0, <1>1 DEF serverVars, Pinned, NoGain
<1> USE DEF AInv, AfterUser, AfterRoles, AfterPartial, AfterGlobal, AfterSchema, AfterTable
<1>5. IdentityCurrent'
  BY <1>1, <1>4 DEF IdentityCurrent
<1>6. \A row \in grants : row \in RowType /\ row.grantee # NoText
  BY <1>0, ServerAssumption, GranteeTextAssumption DEF TypeOK, ServerTypeOK, RowType
<1>7. AccountSourced'
  <2>1. ASSUME NEW k, <<k, "account">> \in fact'.schema PROVE fact.account # NoText
    <3>1. PICK row \in RowsRead("schema", s, wide, narrow) :
            <<k, "account">> = <<<<row.schema, row.priv>>, SourceFor(fact, row.grantee)>>
      BY <1>2, <2>1
    <3>2. QED
      BY <1>0, <1>6, <3>1, RecordedRows DEF TypeOK
  <2>2. QED
    BY <1>1, <2>1 DEF AccountSourced
<1>8. OwnRecorded'
  <2> SUFFICES ASSUME Pinned, NoGain, fact.account = Me, NEW row \in grants,
                      row.grantee = Me, row.priv \in Privilege, row.scope = "schema"
               PROVE  <<<<row.schema, row.priv>>, "account">> \in fact'.schema
    BY <1>1, <1>4 DEF OwnRecorded
  <2>1. row \in RowsRead("schema", s, wide, narrow) /\ SourceFor(fact, row.grantee) = "account"
    BY <1>0, <1>3, OwnRead DEF Scope
  <2>2. QED
    BY <1>2, <2>1
<1>9. SelectKept'
  BY <1>1, <1>4 DEF SelectKept
<1>10. AnonymousRecorded'
  <2> SUFFICES ASSUME Pinned, NoGain, BroadVisibility(fact'), NEW anon \in grants,
                      anon.scope = "schema", anon.grantee \in Anonymous, anon.priv \in Privilege
               PROVE  SourcesAt(fact'.schema, <<anon.schema, anon.priv>>) # {}
    BY <1>4 DEF AnonymousRecorded
  <2>1. fact.account \in {Me, NoText}
    BY <1>1, ServerAssumption, GranteeTextAssumption DEF IdentityCurrent, Me
  <2>2. ASSUME <<<<MySqlSchema, Select>>, "account">> \in fact'.schema PROVE SeesOthers(s)
    <3>1. PICK row \in RowsRead("schema", s, wide, narrow) :
            <<<<MySqlSchema, Select>>, "account">>
              = <<<<row.schema, row.priv>>, SourceFor(fact, row.grantee)>>
      BY <1>2, <2>2
    <3>2. /\ row \in grants /\ row.scope = "schema" /\ row.schema = MySqlSchema
          /\ row.priv = Select /\ row.grantee = fact.account
      BY <1>0, <3>1, RecordedRows DEF TypeOK
    <3>3. row.grantee = Me
      BY <1>6, <2>1, <3>2
    <3>4. QED
      BY <1>3, <3>2, <3>3 DEF SeesOthers, RowOf, Me
  <2>3. ASSUME ~fact.partialRevokes, <<Select, "account">> \in fact.global PROVE SeesOthers(s)
    <3>1. NoSwitch
      BY DEF NoGain, NoSwitch
    <3>2. ~partialRevokes /\ restricted = {}
      BY <1>0, <1>1, <2>3, <3>1 DEF IInv, PartialCurrent, TypeOK, ServerTypeOK
    <3>3. PICK row \in grants : row.scope = "global" /\ row.grantee = Me /\ row.priv = Select
      BY <2>3 DEF SelectKept
    <3>4. QED
      BY <1>3, <3>2, <3>3 DEF SeesOthers, RowOf, Me
  <2>4. SeesOthers(s)
    BY <1>1, <2>2, <2>3 DEF BroadVisibility, SourcesAt
  <2>5. wide = TRUE
    BY <2>4 DEF ReadSchemaGrants, MayBeWide
  <2>6. anon \in RowsRead("schema", s, wide, narrow) /\ SourceFor(fact, anon.grantee) \in Source
    BY <1>0, <1>3, <2>5, AnonymousRead
  <2>7. <<<<anon.schema, anon.priv>>, SourceFor(fact, anon.grantee)>> \in fact'.schema
    BY <1>2, <2>6
  <2>8. QED
    BY <2>6, <2>7 DEF SourcesAt
<1>11. QED
  BY <1>5, <1>7, <1>8, <1>9, <1>10

\* The table statement.
LEMMA AInvTable ==
  ASSUME IInv, AInv, NEW s \in Serving(fact.affinity), NEW wide \in BOOLEAN,
         NEW narrow \in BOOLEAN, ReadTableGrants(s, wide, narrow)
  PROVE  AInv'
<1>0. /\ UNCHANGED serverVars
      /\ fact \in FactType
      /\ TypeOK
  BY DEF IInv, TypeOK, ReadTableGrants
<1>1. /\ fact'.affinity = fact.affinity /\ fact'.account = fact.account
      /\ fact'.roles = fact.roles /\ fact'.partialRevokes = fact.partialRevokes
      /\ fact'.global = fact.global /\ fact'.schema = fact.schema /\ fact'.column = fact.column
      /\ pc = "table" /\ pc' = "column"
  BY <1>0 DEF ReadTableGrants, FactType
<1>2. fact'.table = {<<<<row.schema, row.table, row.priv>>, SourceFor(fact, row.grantee)>> :
        row \in RowsRead("table", s, wide, narrow)}
  BY <1>0 DEF ReadTableGrants, FactType
<1>3. Pinned => s = Work
  BY DEF Pinned, Serving
<1>4. /\ grants' = grants /\ activeRoles' = activeRoles /\ kinds' = kinds
      /\ Pinned' <=> Pinned
      /\ NoGain' <=> NoGain
  BY <1>0, <1>1 DEF serverVars, Pinned, NoGain
<1> USE DEF AInv, AfterUser, AfterRoles, AfterPartial, AfterGlobal, AfterSchema, AfterTable
<1>5. IdentityCurrent'
  BY <1>1, <1>4 DEF IdentityCurrent
<1>6. \A row \in grants : row \in RowType /\ row.grantee # NoText
  BY <1>0, ServerAssumption, GranteeTextAssumption DEF TypeOK, ServerTypeOK, RowType
<1>7. AccountSourced'
  BY <1>1 DEF AccountSourced
<1>8. OwnRecorded'
  <2> SUFFICES ASSUME Pinned, NoGain, fact.account = Me, NEW row \in grants,
                      row.grantee = Me, row.priv \in Privilege, row.scope = "table"
               PROVE  <<<<row.schema, row.table, row.priv>>, "account">> \in fact'.table
    BY <1>1, <1>4 DEF OwnRecorded
  <2>1. row \in RowsRead("table", s, wide, narrow) /\ SourceFor(fact, row.grantee) = "account"
    BY <1>0, <1>3, OwnRead DEF Scope
  <2>2. QED
    BY <1>2, <2>1
<1>9. SelectKept'
  BY <1>1, <1>4 DEF SelectKept
<1>10. AnonymousRecorded'
  BY <1>1, <1>4 DEF AnonymousRecorded, BroadVisibility, SourcesAt
<1>11. QED
  BY <1>5, <1>7, <1>8, <1>9, <1>10

\* The column statement.
LEMMA AInvColumn ==
  ASSUME IInv, AInv, NEW s \in Serving(fact.affinity), NEW wide \in BOOLEAN,
         NEW narrow \in BOOLEAN, ReadColumnGrants(s, wide, narrow)
  PROVE  AInv'
<1>0. /\ UNCHANGED serverVars
      /\ fact \in FactType
      /\ TypeOK
  BY DEF IInv, TypeOK, ReadColumnGrants
<1>1. /\ fact'.affinity = fact.affinity /\ fact'.account = fact.account
      /\ fact'.roles = fact.roles /\ fact'.partialRevokes = fact.partialRevokes
      /\ fact'.global = fact.global /\ fact'.schema = fact.schema /\ fact'.table = fact.table
      /\ pc = "column" /\ pc' = "done"
  BY <1>0 DEF ReadColumnGrants, FactType
<1>2. fact'.column = {<<<<row.schema, row.table, row.priv>>, SourceFor(fact, row.grantee)>> :
        row \in RowsRead("column", s, wide, narrow)}
  BY <1>0 DEF ReadColumnGrants, FactType
<1>3. Pinned => s = Work
  BY DEF Pinned, Serving
<1>4. /\ grants' = grants /\ activeRoles' = activeRoles /\ kinds' = kinds
      /\ Pinned' <=> Pinned
      /\ NoGain' <=> NoGain
  BY <1>0, <1>1 DEF serverVars, Pinned, NoGain
<1> USE DEF AInv, AfterUser, AfterRoles, AfterPartial, AfterGlobal, AfterSchema, AfterTable
<1>5. IdentityCurrent'
  BY <1>1, <1>4 DEF IdentityCurrent
<1>6. \A row \in grants : row \in RowType /\ row.grantee # NoText
  BY <1>0, ServerAssumption, GranteeTextAssumption DEF TypeOK, ServerTypeOK, RowType
<1>7. AccountSourced'
  BY <1>1 DEF AccountSourced
<1>8. OwnRecorded'
  <2> SUFFICES ASSUME Pinned, NoGain, fact.account = Me, NEW row \in grants,
                      row.grantee = Me, row.priv \in Privilege, row.scope = "column"
               PROVE  <<<<row.schema, row.table, row.priv>>, "account">> \in fact'.column
    BY <1>1, <1>4 DEF OwnRecorded
  <2>1. row \in RowsRead("column", s, wide, narrow) /\ SourceFor(fact, row.grantee) = "account"
    BY <1>0, <1>3, OwnRead DEF Scope
  <2>2. QED
    BY <1>2, <2>1
<1>9. SelectKept'
  BY <1>1, <1>4 DEF SelectKept
<1>10. AnonymousRecorded'
  BY <1>1, <1>4 DEF AnonymousRecorded, BroadVisibility, SourcesAt
<1>11. QED
  BY <1>5, <1>7, <1>8, <1>9, <1>10

\* The first three statements.
LEMMA AInvIdentity ==
  ASSUME IInv, AInv, NEW s \in Serving(fact.affinity),
         ReadCurrentUser(s) \/ ReadEnabledRoles(s) \/ ReadPartialRevokes
  PROVE  AInv'
<1>0. UNCHANGED serverVars /\ fact \in FactType
  BY DEF IInv, TypeOK, ReadCurrentUser, ReadEnabledRoles, ReadPartialRevokes
<1>1. Pinned => s = Work
  BY DEF Pinned, Serving
<1>2. /\ fact'.affinity = fact.affinity /\ fact'.global = fact.global
      /\ fact'.schema = fact.schema
  BY <1>0 DEF ReadCurrentUser, ReadEnabledRoles, ReadPartialRevokes, FactType
<1>3. /\ grants' = grants /\ activeRoles' = activeRoles /\ kinds' = kinds
      /\ Pinned' <=> Pinned
      /\ NoGain' <=> NoGain
  BY <1>0, <1>2 DEF serverVars, Pinned, NoGain
<1>4. fact.global = {}
  BY DEF IInv, GlobalAfterPartial, AfterPartial, ReadCurrentUser, ReadEnabledRoles,
     ReadPartialRevokes
<1> USE DEF AInv, AfterUser, AfterRoles, AfterPartial, AfterGlobal, AfterSchema, AfterTable
<1>5. CASE ReadCurrentUser(s)
  <2>1. pc' = "enabledRoles" /\ fact'.account = GranteeText[AccountOf[s]]
        /\ fact.schema = {}
    BY <1>0, <1>5 DEF ReadCurrentUser, FactType, AccountSourced
  <2>2. QED
    BY <1>1, <1>2, <1>3, <1>4, <2>1
       DEF IdentityCurrent, AccountSourced, OwnRecorded, SelectKept, AnonymousRecorded, Me
<1>6. CASE ReadEnabledRoles(s)
  <2>1. /\ pc = "enabledRoles" /\ pc' = "partialRevokes" /\ fact'.account = fact.account
        /\ fact'.roles = activeRoles[s]
    BY <1>0, <1>6 DEF ReadEnabledRoles, FactType
  <2>2. QED
    BY <1>1, <1>2, <1>3, <1>4, <2>1
       DEF IdentityCurrent, AccountSourced, OwnRecorded, SelectKept, AnonymousRecorded, Me
<1>7. CASE ReadPartialRevokes
  <2>1. /\ pc = "partialRevokes" /\ pc' = "global" /\ fact'.account = fact.account
        /\ fact'.roles = fact.roles
    BY <1>0, <1>7 DEF ReadPartialRevokes, FactType
  <2>2. QED
    BY <1>1, <1>2, <1>3, <1>4, <2>1
       DEF IdentityCurrent, AccountSourced, OwnRecorded, SelectKept, AnonymousRecorded, Me
<1>8. QED
  BY <1>5, <1>6, <1>7

LEMMA AInvInit == Init => AInv
<1> SUFFICES ASSUME Init PROVE AInv
  OBVIOUS
<1>1. fact = ZeroGrants /\ pc = "idle" /\ fact.affinity = "opaque"
  BY DEF Init, ZeroGrants
<1>2. QED
  BY <1>1 DEF AInv, IdentityCurrent, AccountSourced, OwnRecorded, SelectKept,
     AnonymousRecorded, Pinned, ZeroGrants

\* The second invariant holds of every behaviour.
LEMMA AbsenceInvariance == Spec => []AInv
<1>1. IInv /\ AInv /\ [Next]_vars => AInv'
  <2> SUFFICES ASSUME IInv, AInv, [Next]_vars PROVE AInv'
    OBVIOUS
  <2>1. ASSUME NEW affinity \in Affinity, Call(affinity) PROVE AInv'
    BY <2>1 DEF Call, ZeroGrants, AInv, IdentityCurrent, AccountSourced, OwnRecorded, SelectKept,
       AnonymousRecorded, AfterUser, AfterRoles, AfterPartial, AfterGlobal, AfterSchema, AfterTable
  <2>2. ASSUME Refuse PROVE AInv'
    <3>1. /\ fact' = fact /\ pc = "idle" /\ pc' = "failed" /\ UNCHANGED serverVars
      BY <2>2 DEF Refuse
    <3>2. QED
      BY <3>1 DEF serverVars, AInv, IdentityCurrent, AccountSourced, OwnRecorded, SelectKept,
         AnonymousRecorded, Pinned, NoGain, AfterUser, AfterRoles, AfterPartial, AfterGlobal,
         AfterSchema, AfterTable
  <2>3. ASSUME Statement PROVE AInv'
    BY <2>3, AInvIdentity, AInvGlobal, AInvSchema, AInvTable, AInvColumn DEF Statement
  <2>4. ASSUME Fail PROVE AInv'
    <3>1. fact' = ZeroGrants /\ pc' = "failed"
      BY <2>4 DEF Fail
    <3>2. QED
      BY <3>1 DEF ZeroGrants, AInv, IdentityCurrent, AccountSourced, OwnRecorded, SelectKept,
         AnonymousRecorded, Pinned
  <2>5. ASSUME Environment PROVE AInv'
    BY <2>5, AInvEnvironment
  <2>6. CASE UNCHANGED vars
    BY <2>6 DEF vars, serverVars, AInv, IdentityCurrent, AccountSourced, OwnRecorded, SelectKept,
       AnonymousRecorded, Pinned, NoGain, BroadVisibility, SourcesAt
  <2>7. QED
    BY <2>1, <2>2, <2>3, <2>4, <2>5, <2>6 DEF Next
<1>2. QED
  BY <1>1, AInvInit, Invariance, PTL DEF Spec

----------------------------------------------------------------------------
(* What an absence rests on.                                               *)

\* An absent resolution: nothing at any scope it asked for, on a pinned,
\* role-free fact that sees every row.
LEMMA ResolveAbsent ==
  ASSUME NEW f \in FactType, NEW priv, NEW specific, Resolve(f, priv, specific) = "Absent"
  PROVE  /\ f.populated /\ priv \in Privilege
         /\ f.affinity = "pinned" /\ f.roles = {} /\ BroadVisibility(f)
         /\ \A sources \in specific : sources = {}
         /\ SourcesAt(f.global, priv) = {}
<1> DEFINE states ==
      {StateForSources(f, sources) : sources \in specific}
        \cup (IF f.partialRevokes
              THEN {IF SourcesAt(f.global, priv) = {} THEN "Absent" ELSE "Unconfirmed"}
              ELSE {StateForSources(f, SourcesAt(f.global, priv))})
<1>1. /\ f.populated /\ priv \in Privilege
      /\ "Present" \notin states /\ "Unconfirmed" \notin states
      /\ f.affinity = "pinned" /\ f.roles = {} /\ BroadVisibility(f)
  BY DEF Resolve
<1>2. \A sources : StateForSources(f, sources) \in {"Present", "Unconfirmed"} \/ sources = {}
  BY DEF StateForSources
<1>3. \A sources \in specific : sources = {}
  BY <1>1, <1>2
<1>4. SourcesAt(f.global, priv) = {}
  BY <1>1, <1>2
<1>5. QED
  BY <1>1, <1>3, <1>4

\* A map with no source at a key has no entry there.
LEMMA NoSource ==
  ASSUME NEW map, NEW key, SourcesAt(map, key) = {}
  PROVE  <<key, "account">> \notin map
BY DEF SourcesAt, Source

\* A stored schema name the fact may read as the asked one: the two notions of
\* SchemaStateFor's downgrades, over the recorded partial_revokes.
Reads(f, stored, asked) ==
  \/ SchemaFold[stored] = SchemaFold[asked]
  \/ ~f.partialRevokes /\ <<stored, asked>> \in Covers

\* No stored schema name that may be read as the asked one has a source.
LEMMA NoSchemaSource ==
  ASSUME NEW f, NEW schema \in Schema, NEW priv,
         SourcesAt(f.schema, <<schema, priv>>) = {},
         ~(~f.partialRevokes /\ SchemaPatternCovers(f, schema, priv)),
         ~SchemaCaseVariantMatches(f, schema, priv),
         NEW stored \in Schema,
         Reads(f, stored, schema)
  PROVE  SourcesAt(f.schema, <<stored, priv>>) = {}
<1>1. CASE stored = schema
  BY <1>1
<1>2. CASE stored # schema /\ SchemaFold[stored] = SchemaFold[schema]
  BY <1>2 DEF SchemaCaseVariantMatches
<1>3. CASE stored # schema /\ ~f.partialRevokes /\ <<stored, schema>> \in Covers
  BY <1>3 DEF SchemaPatternCovers
<1>4. QED
  BY <1>1, <1>2, <1>3 DEF Reads

\* Every way an answer can be absent.
LEMMA AnswerAbsent ==
  ASSUME NEW f \in FactType, NEW q \in Question, Answer(f, q) = "Absent"
  PROVE  /\ f.populated /\ q.priv \in Privilege
         /\ f.affinity = "pinned" /\ f.roles = {} /\ BroadVisibility(f)
         /\ SourcesAt(f.global, q.priv) = {}
         /\ q.scope \in {"schema", "table"} =>
              \A stored \in Schema :
                Reads(f, stored, q.schema) => SourcesAt(f.schema, <<stored, q.priv>>) = {}
         /\ q.scope = "table" =>
              \A s \in Schema, t \in Table :
                SchemaFold[s] = SchemaFold[q.schema] /\ TableFold[t] = TableFold[q.table] =>
                  /\ SourcesAt(f.table, <<s, t, q.priv>>) = {}
                  /\ SourcesAt(f.column, <<s, t, q.priv>>) = {}
<1>1. CASE q.scope = "global"
  <2>1. Resolve(f, q.priv, {}) = "Absent"
    BY <1>1 DEF Answer, Global
  <2>2. QED
    BY <1>1, <2>1, ResolveAbsent
<1>2. CASE q.scope = "schema"
  <2>1. /\ Resolve(f, q.priv, {SourcesAt(f.schema, <<q.schema, q.priv>>)}) = "Absent"
        /\ ~(~f.partialRevokes /\ SchemaPatternCovers(f, q.schema, q.priv))
        /\ ~SchemaCaseVariantMatches(f, q.schema, q.priv)
    BY <1>2 DEF Answer, SchemaState, Downgrade
  <2>2. SourcesAt(f.schema, <<q.schema, q.priv>>) = {}
    BY <2>1, ResolveAbsent
  <2>3. \A stored \in Schema :
          Reads(f, stored, q.schema) => SourcesAt(f.schema, <<stored, q.priv>>) = {}
    BY <2>1, <2>2, NoSchemaSource DEF Question
  <2>4. QED
    BY <1>2, <2>1, <2>3, ResolveAbsent
<1>3. CASE q.scope = "table"
  <2>1. /\ Resolve(f, q.priv, {SourcesAt(f.table, <<q.schema, q.table, q.priv>>),
                               SourcesAt(f.schema, <<q.schema, q.priv>>)}) = "Absent"
        /\ ~(~f.partialRevokes /\ SchemaPatternCovers(f, q.schema, q.priv))
        /\ SourcesAt(f.column, <<q.schema, q.table, q.priv>>) = {}
        /\ ~SchemaCaseVariantMatches(f, q.schema, q.priv)
        /\ ~TableCaseVariantMatches(f, q.schema, q.table, q.priv)
    BY <1>3 DEF Answer, TableState, Downgrade
  <2>2. /\ SourcesAt(f.schema, <<q.schema, q.priv>>) = {}
        /\ SourcesAt(f.table, <<q.schema, q.table, q.priv>>) = {}
    BY <2>1, ResolveAbsent
  <2>3. \A s \in Schema, t \in Table :
          SchemaFold[s] = SchemaFold[q.schema] /\ TableFold[t] = TableFold[q.table] =>
            /\ SourcesAt(f.table, <<s, t, q.priv>>) = {}
            /\ SourcesAt(f.column, <<s, t, q.priv>>) = {}
    BY <2>1, <2>2 DEF TableCaseVariantMatches
  <2>4. \A stored \in Schema :
          Reads(f, stored, q.schema) => SourcesAt(f.schema, <<stored, q.priv>>) = {}
    BY <2>1, <2>2, NoSchemaSource DEF Question
  <2>5. QED
    BY <1>3, <2>1, <2>3, <2>4, ResolveAbsent
<1>4. QED
  BY <1>1, <1>2, <1>3 DEF Question

\* An absence leaves no row the server may apply to the session, its own, nested
\* under a role or anonymous, exact, pattern or case variant.
LEMMA AbsenceSound ==
  ASSUME IInv, AInv, NEW q \in Question, Absent(q), NoGain, MayHold(q)
  PROVE  FALSE
<1>1. fact \in FactType /\ TypeOK
  BY DEF IInv, TypeOK
<1>2. /\ fact.populated /\ q.priv \in Privilege
      /\ Pinned /\ fact.roles = {} /\ BroadVisibility(fact)
  BY <1>1, AnswerAbsent DEF Absent, Pinned
<1>3. pc = "done" /\ fact.account = GranteeText[Me] /\ activeRoles[Work] = {}
  BY <1>2 DEF IInv, TypeOK, AInv, IdentityCurrent, AfterUser, AfterRoles, AfterPartial
<1>4. fact.account = Me
  <2>1. fact.account # NoText
    BY <1>2, ServerAssumption
       DEF BroadVisibility, SourcesAt, AInv, AccountSourced, SchemaKey
  <2>2. QED
    BY <1>3, <2>1, ServerAssumption, GranteeTextAssumption DEF Me
<1>5. PICK row \in grants :
        /\ row.priv = q.priv
        /\ \/ row.grantee = Me
           \/ row.grantee \in Anonymous /\ row.scope = "schema"
        /\ \/ row.scope = "global"
           \/ /\ row.scope = "schema"
              /\ q.scope \in {"schema", "table"}
              /\ SchemaMayMatch(row.schema, q.schema)
           \/ /\ row.scope \in {"table", "column"}
              /\ q.scope = "table"
              /\ SchemaFold[row.schema] = SchemaFold[q.schema]
              /\ TableFold[row.table] = TableFold[q.table]
  BY <1>3 DEF MayHold, EffectiveRoles, Me
<1>6. row.schema \in Schema /\ row.table \in Table
  BY <1>1, ServerAssumption DEF TypeOK, ServerTypeOK, RowType
<1>7. fact.partialRevokes = partialRevokes
  BY <1>3 DEF IInv, PartialCurrent, NoSwitch, NoGain, AfterPartial
<1>8. CASE row.scope = "global"
  <2>1. <<q.priv, "account">> \in fact.global
    BY <1>2, <1>3, <1>4, <1>5, <1>8 DEF AInv, OwnRecorded, AfterGlobal
  <2>2. QED
    BY <1>1, <2>1, AnswerAbsent, NoSource DEF Absent
<1>9. CASE row.scope = "schema"
  <2>1. SourcesAt(fact.schema, <<row.schema, row.priv>>) = {}
    <3>1. \A stored \in Schema :
            Reads(fact, stored, q.schema) => SourcesAt(fact.schema, <<stored, q.priv>>) = {}
      <4>1. q.scope \in {"schema", "table"}
        BY <1>5, <1>9
      <4>2. Answer(fact, q) = "Absent"
        BY DEF Absent
      <4>3. QED
        BY <1>1, <4>1, <4>2, AnswerAbsent
    <3>2. Reads(fact, row.schema, q.schema)
      BY <1>5, <1>7, <1>9 DEF SchemaMayMatch, Reads
    <3>3. SourcesAt(fact.schema, <<row.schema, q.priv>>) = {}
      BY <1>6, <3>1, <3>2
    <3>4. row.priv = q.priv
      BY <1>5
    <3>5. QED
      BY <3>3, <3>4
  <2>2. CASE row.grantee = Me
    BY <1>2, <1>3, <1>4, <1>5, <1>9, <2>1, <2>2, NoSource DEF AInv, OwnRecorded, AfterSchema
  <2>3. CASE row.grantee \in Anonymous
    BY <1>2, <1>3, <1>5, <1>9, <2>1, <2>3 DEF AInv, AnonymousRecorded, AfterSchema
  <2>4. QED
    BY <1>5, <2>2, <2>3
<1>10. CASE row.scope \in {"table", "column"}
  <2>1. /\ SourcesAt(fact.table, <<row.schema, row.table, row.priv>>) = {}
        /\ SourcesAt(fact.column, <<row.schema, row.table, row.priv>>) = {}
    BY <1>1, <1>5, <1>6, <1>10, AnswerAbsent DEF Absent
  <2>2. row.grantee = Me
    BY <1>5, <1>10
  <2>3. QED
    BY <1>2, <1>3, <1>4, <1>5, <1>10, <2>1, <2>2, NoSource DEF AInv, OwnRecorded, AfterTable
<1>11. QED
  BY <1>5, <1>8, <1>9, <1>10

\* GrantAbsent is sound as the fact is returned when nothing was gained and no
\* SELECT revoked meanwhile: no row the server may apply to the session, its
\* own, nested under a role or anonymous, exact, pattern or case variant.
THEOREM AbsentSound == Spec => []AbsentSoundWithoutGain
<1>1. IInv /\ AInv => AbsentSoundWithoutGain
  BY AbsenceSound, GranteeTextAssumption DEF AbsentSoundWithoutGain, NoGain
<1>2. QED
  BY <1>1, Invariance, AbsenceInvariance, PTL

----------------------------------------------------------------------------
(* A still server.                                                          *)

Quiet == kinds = {}
Opaque == fact.affinity = "opaque"

\* The rows of the account's own that a statement of this scope records.
Own(scope) == {row \in grants : row.scope = scope /\ row.grantee = Me /\ row.priv \in Privilege}

\* The rows that can be recorded at all when no role is enabled.
Bare(scope) ==
  {row \in grants : /\ row.scope = scope /\ row.priv \in Privilege
                    /\ row.grantee = Me \/ (scope = "schema" /\ row.grantee \in Anonymous)}

\* Nothing is recorded before its statement.
NothingEarly ==
  /\ pc \notin AfterGlobal => fact.global = {}
  /\ pc \notin AfterSchema => fact.schema = {}
  /\ pc \notin AfterTable => fact.table = {}
  /\ pc # "done" => fact.column = {}

QuietIdentity ==
  Quiet /\ ~Opaque =>
    /\ pc \in AfterUser => fact.account = GranteeText[Me]
    /\ Pinned /\ pc \in AfterRoles => fact.roles = activeRoles[Work]

\* The account's sources are the account's rows, neither more nor fewer.
OwnExact ==
  Quiet /\ ~Opaque =>
    /\ pc \in AfterGlobal =>
         \A k : <<k, "account">> \in fact.global
                  <=> fact.account = Me /\ \E row \in Own("global") : row.priv = k
    /\ pc \in AfterSchema =>
         \A k : <<k, "account">> \in fact.schema
                  <=> fact.account = Me /\ \E row \in Own("schema") : <<row.schema, row.priv>> = k
    /\ pc \in AfterTable =>
         \A k : <<k, "account">> \in fact.table
                  <=> /\ fact.account = Me
                      /\ \E row \in Own("table") : <<row.schema, row.table, row.priv>> = k

\* Without a role, behind every source there is a row the server may apply.
SourcesBacked ==
  Quiet /\ ~Opaque /\ fact.roles = {} =>
    /\ \A k, src : <<k, src>> \in fact.global => \E row \in Bare("global") : row.priv = k
    /\ \A k, src : <<k, src>> \in fact.schema =>
         \E row \in Bare("schema") : <<row.schema, row.priv>> = k
    /\ \A k, src : <<k, src>> \in fact.table =>
         \E row \in Bare("table") : <<row.schema, row.table, row.priv>> = k
    /\ \A k, src : <<k, src>> \in fact.column =>
         \E row \in Bare("column") : <<row.schema, row.table, row.priv>> = k

QInv == NothingEarly /\ QuietIdentity /\ OwnExact /\ SourcesBacked

\* No change of the server is quiet.
LEMMA ChangeIsLoud ==
  ASSUME ServerChange
  PROVE  ~Quiet'
BY DEF ServerChange, GrantRow, RevokeRow, AddRestriction, DropRestriction, EnablePartialRevokes,
       DisablePartialRevokes, SetRole, Changed, Quiet

\* What one statement over a privilege table records.
LEMMA RowsReadExact ==
  ASSUME TypeOK, AccountKnown, ~Opaque, NEW s \in Serving(fact.affinity),
         NEW scope \in Scope, NEW wide \in BOOLEAN, NEW narrow \in BOOLEAN
  PROVE  /\ \A row : row \in RowsRead(scope, s, wide, narrow) /\ SourceFor(fact, row.grantee) = "account"
                       <=> fact.account = Me /\ row \in Own(scope)
         /\ fact.roles = {} => RowsRead(scope, s, wide, narrow) \subseteq Bare(scope)
<1>1. fact.affinity \in {"pinned", "pool"}
  BY DEF TypeOK, FactType, Affinity, Opaque
<1>2. AccountOf[s] = Me
  BY <1>1, ServingAccount
<1>3. fact.account \in {Me, NoText}
  BY DEF AccountKnown, Opaque
<1>4. \A row \in grants : row.grantee # NoText
  BY ServerAssumption, GranteeTextAssumption DEF TypeOK, ServerTypeOK, RowType
<1>5. ASSUME NEW row
      PROVE  row \in RowsRead(scope, s, wide, narrow) /\ SourceFor(fact, row.grantee) = "account"
               <=> fact.account = Me /\ row \in Own(scope)
  BY <1>2, <1>3, <1>4 DEF RowsRead, Recorded, Delivered, Shown, SourceFor, Own
<1>6. ASSUME fact.roles = {}, NEW row \in RowsRead(scope, s, wide, narrow)
      PROVE  row \in Bare(scope)
  BY <1>3, <1>4, <1>6 DEF RowsRead, Recorded, Delivered, Shown, SourceFor, Bare
<1> QED BY <1>5, <1>6

LEMMA QuietGlobal ==
  ASSUME IInv, QInv, NEW s \in Serving(fact.affinity), NEW wide \in BOOLEAN,
         NEW narrow \in BOOLEAN, ReadGlobalGrants(s, wide, narrow)
  PROVE  QInv'
<1>1. /\ UNCHANGED serverVars /\ TypeOK /\ AccountKnown /\ fact \in FactType
      /\ pc = "global" /\ pc' = "schema"
  BY DEF IInv, TypeOK, ReadGlobalGrants
<1>2. /\ fact'.affinity = fact.affinity /\ fact'.account = fact.account /\ fact'.roles = fact.roles
      /\ fact'.schema = fact.schema /\ fact'.table = fact.table /\ fact'.column = fact.column
      /\ fact'.global = {<<row.priv, SourceFor(fact, row.grantee)>> :
                           row \in RowsRead("global", s, wide, narrow)}
  BY <1>1 DEF ReadGlobalGrants, FactType
<1>3. /\ (Quiet' <=> Quiet) /\ (Opaque' <=> Opaque) /\ (Pinned' <=> Pinned)
      /\ activeRoles' = activeRoles /\ Me' = Me
      /\ \A scope : Own(scope)' = Own(scope) /\ Bare(scope)' = Bare(scope)
  BY <1>1, <1>2 DEF serverVars, Quiet, Opaque, Pinned, Own, Bare, Me
<1> USE DEF AfterUser, AfterRoles, AfterPartial, AfterGlobal, AfterSchema, AfterTable
<1>4. NothingEarly'
  BY <1>1, <1>2 DEF QInv, NothingEarly
<1>5. QuietIdentity'
  BY <1>1, <1>2, <1>3 DEF QInv, QuietIdentity
<1>6. OwnExact'
  <2> SUFFICES ASSUME Quiet, ~Opaque, NEW k
               PROVE  <<k, "account">> \in fact'.global
                        <=> fact.account = Me /\ \E row \in Own("global") : row.priv = k
    BY <1>1, <1>2, <1>3 DEF QInv, OwnExact
  <2>1. \A row : row \in RowsRead("global", s, wide, narrow) /\ SourceFor(fact, row.grantee) = "account"
                   <=> fact.account = Me /\ row \in Own("global")
    BY <1>1, RowsReadExact DEF Scope
  <2> QED BY <1>2, <2>1
<1>7. SourcesBacked'
  <2> SUFFICES ASSUME Quiet, ~Opaque, fact.roles = {} PROVE SourcesBacked'
    BY <1>2, <1>3 DEF SourcesBacked
  <2>1. RowsRead("global", s, wide, narrow) \subseteq Bare("global")
    BY <1>1, RowsReadExact DEF Scope
  <2> QED BY <1>2, <1>3, <2>1 DEF QInv, SourcesBacked
<1> QED BY <1>4, <1>5, <1>6, <1>7 DEF QInv

LEMMA QuietSchema ==
  ASSUME IInv, QInv, NEW s \in Serving(fact.affinity), NEW wide \in BOOLEAN,
         NEW narrow \in BOOLEAN, ReadSchemaGrants(s, wide, narrow)
  PROVE  QInv'
<1>1. /\ UNCHANGED serverVars /\ TypeOK /\ AccountKnown /\ fact \in FactType
      /\ pc = "schema" /\ pc' = "table"
  BY DEF IInv, TypeOK, ReadSchemaGrants
<1>2. /\ fact'.affinity = fact.affinity /\ fact'.account = fact.account /\ fact'.roles = fact.roles
      /\ fact'.global = fact.global /\ fact'.table = fact.table /\ fact'.column = fact.column
      /\ fact'.schema = {<<<<row.schema, row.priv>>, SourceFor(fact, row.grantee)>> :
                           row \in RowsRead("schema", s, wide, narrow)}
  BY <1>1 DEF ReadSchemaGrants, FactType
<1>3. /\ (Quiet' <=> Quiet) /\ (Opaque' <=> Opaque) /\ (Pinned' <=> Pinned)
      /\ activeRoles' = activeRoles /\ Me' = Me
      /\ \A scope : Own(scope)' = Own(scope) /\ Bare(scope)' = Bare(scope)
  BY <1>1, <1>2 DEF serverVars, Quiet, Opaque, Pinned, Own, Bare, Me
<1> USE DEF AfterUser, AfterRoles, AfterPartial, AfterGlobal, AfterSchema, AfterTable
<1>4. NothingEarly'
  BY <1>1, <1>2 DEF QInv, NothingEarly
<1>5. QuietIdentity'
  BY <1>1, <1>2, <1>3 DEF QInv, QuietIdentity
<1>6. OwnExact'
  <2> SUFFICES ASSUME Quiet, ~Opaque, NEW k
               PROVE  <<k, "account">> \in fact'.schema
                        <=> fact.account = Me /\ \E row \in Own("schema") : <<row.schema, row.priv>> = k
    BY <1>1, <1>2, <1>3 DEF QInv, OwnExact
  <2>1. \A row : row \in RowsRead("schema", s, wide, narrow) /\ SourceFor(fact, row.grantee) = "account"
                   <=> fact.account = Me /\ row \in Own("schema")
    BY <1>1, RowsReadExact DEF Scope
  <2> QED BY <1>2, <2>1
<1>7. SourcesBacked'
  <2> SUFFICES ASSUME Quiet, ~Opaque, fact.roles = {} PROVE SourcesBacked'
    BY <1>2, <1>3 DEF SourcesBacked
  <2>1. RowsRead("schema", s, wide, narrow) \subseteq Bare("schema")
    BY <1>1, RowsReadExact DEF Scope
  <2> QED BY <1>2, <1>3, <2>1 DEF QInv, SourcesBacked
<1> QED BY <1>4, <1>5, <1>6, <1>7 DEF QInv

LEMMA QuietTable ==
  ASSUME IInv, QInv, NEW s \in Serving(fact.affinity), NEW wide \in BOOLEAN,
         NEW narrow \in BOOLEAN, ReadTableGrants(s, wide, narrow)
  PROVE  QInv'
<1>1. /\ UNCHANGED serverVars /\ TypeOK /\ AccountKnown /\ fact \in FactType
      /\ pc = "table" /\ pc' = "column"
  BY DEF IInv, TypeOK, ReadTableGrants
<1>2. /\ fact'.affinity = fact.affinity /\ fact'.account = fact.account /\ fact'.roles = fact.roles
      /\ fact'.global = fact.global /\ fact'.schema = fact.schema /\ fact'.column = fact.column
      /\ fact'.table = {<<<<row.schema, row.table, row.priv>>, SourceFor(fact, row.grantee)>> :
                           row \in RowsRead("table", s, wide, narrow)}
  BY <1>1 DEF ReadTableGrants, FactType
<1>3. /\ (Quiet' <=> Quiet) /\ (Opaque' <=> Opaque) /\ (Pinned' <=> Pinned)
      /\ activeRoles' = activeRoles /\ Me' = Me
      /\ \A scope : Own(scope)' = Own(scope) /\ Bare(scope)' = Bare(scope)
  BY <1>1, <1>2 DEF serverVars, Quiet, Opaque, Pinned, Own, Bare, Me
<1> USE DEF AfterUser, AfterRoles, AfterPartial, AfterGlobal, AfterSchema, AfterTable
<1>4. NothingEarly'
  BY <1>1, <1>2 DEF QInv, NothingEarly
<1>5. QuietIdentity'
  BY <1>1, <1>2, <1>3 DEF QInv, QuietIdentity
<1>6. OwnExact'
  <2> SUFFICES ASSUME Quiet, ~Opaque, NEW k
               PROVE  <<k, "account">> \in fact'.table
                        <=> fact.account = Me /\ \E row \in Own("table") : <<row.schema, row.table, row.priv>> = k
    BY <1>1, <1>2, <1>3 DEF QInv, OwnExact
  <2>1. \A row : row \in RowsRead("table", s, wide, narrow) /\ SourceFor(fact, row.grantee) = "account"
                   <=> fact.account = Me /\ row \in Own("table")
    BY <1>1, RowsReadExact DEF Scope
  <2> QED BY <1>2, <2>1
<1>7. SourcesBacked'
  <2> SUFFICES ASSUME Quiet, ~Opaque, fact.roles = {} PROVE SourcesBacked'
    BY <1>2, <1>3 DEF SourcesBacked
  <2>1. RowsRead("table", s, wide, narrow) \subseteq Bare("table")
    BY <1>1, RowsReadExact DEF Scope
  <2> QED BY <1>2, <1>3, <2>1 DEF QInv, SourcesBacked
<1> QED BY <1>4, <1>5, <1>6, <1>7 DEF QInv

LEMMA QuietColumn ==
  ASSUME IInv, QInv, NEW s \in Serving(fact.affinity), NEW wide \in BOOLEAN,
         NEW narrow \in BOOLEAN, ReadColumnGrants(s, wide, narrow)
  PROVE  QInv'
<1>1. /\ UNCHANGED serverVars /\ TypeOK /\ AccountKnown /\ fact \in FactType
      /\ pc = "column" /\ pc' = "done"
  BY DEF IInv, TypeOK, ReadColumnGrants
<1>2. /\ fact'.affinity = fact.affinity /\ fact'.account = fact.account /\ fact'.roles = fact.roles
      /\ fact'.global = fact.global /\ fact'.schema = fact.schema /\ fact'.table = fact.table
      /\ fact'.column = {<<<<row.schema, row.table, row.priv>>, SourceFor(fact, row.grantee)>> :
                           row \in RowsRead("column", s, wide, narrow)}
  BY <1>1 DEF ReadColumnGrants, FactType
<1>3. /\ (Quiet' <=> Quiet) /\ (Opaque' <=> Opaque) /\ (Pinned' <=> Pinned)
      /\ activeRoles' = activeRoles /\ Me' = Me
      /\ \A scope : Own(scope)' = Own(scope) /\ Bare(scope)' = Bare(scope)
  BY <1>1, <1>2 DEF serverVars, Quiet, Opaque, Pinned, Own, Bare, Me
<1> USE DEF AfterUser, AfterRoles, AfterPartial, AfterGlobal, AfterSchema, AfterTable
<1>4. NothingEarly'
  BY <1>1, <1>2 DEF QInv, NothingEarly
<1>5. QuietIdentity'
  BY <1>1, <1>2, <1>3 DEF QInv, QuietIdentity
<1>6. OwnExact'
  BY <1>1, <1>2, <1>3 DEF QInv, OwnExact
<1>7. SourcesBacked'
  <2> SUFFICES ASSUME Quiet, ~Opaque, fact.roles = {} PROVE SourcesBacked'
    BY <1>2, <1>3 DEF SourcesBacked
  <2>1. RowsRead("column", s, wide, narrow) \subseteq Bare("column")
    BY <1>1, RowsReadExact DEF Scope
  <2> QED BY <1>2, <1>3, <2>1 DEF QInv, SourcesBacked
<1> QED BY <1>4, <1>5, <1>6, <1>7 DEF QInv

\* The first three statements.
LEMMA QuietIdentityRead ==
  ASSUME IInv, QInv, NEW s \in Serving(fact.affinity),
         ReadCurrentUser(s) \/ ReadEnabledRoles(s) \/ ReadPartialRevokes
  PROVE  QInv'
<1>1. /\ UNCHANGED serverVars /\ TypeOK /\ fact \in FactType
      /\ pc \in {"currentUser", "enabledRoles", "partialRevokes"}
      /\ pc' \in {"enabledRoles", "partialRevokes", "global"}
  BY DEF IInv, TypeOK, ReadCurrentUser, ReadEnabledRoles, ReadPartialRevokes
<1>2. /\ fact'.affinity = fact.affinity
      /\ fact'.global = fact.global /\ fact'.schema = fact.schema
      /\ fact'.table = fact.table /\ fact'.column = fact.column
  BY <1>1 DEF ReadCurrentUser, ReadEnabledRoles, ReadPartialRevokes, FactType
<1>3. /\ (Quiet' <=> Quiet) /\ (Opaque' <=> Opaque) /\ (Pinned' <=> Pinned)
      /\ activeRoles' = activeRoles
  BY <1>1, <1>2 DEF serverVars, Quiet, Opaque, Pinned
<1> USE DEF AfterUser, AfterRoles, AfterPartial, AfterGlobal, AfterSchema, AfterTable
<1>4. fact.global = {} /\ fact.schema = {} /\ fact.table = {} /\ fact.column = {}
  BY <1>1 DEF QInv, NothingEarly
<1>5. NothingEarly' /\ OwnExact' /\ SourcesBacked'
  BY <1>1, <1>2, <1>4 DEF NothingEarly, OwnExact, SourcesBacked
<1>6. QuietIdentity'
  <2> SUFFICES ASSUME Quiet, ~Opaque
               PROVE  /\ fact'.account = GranteeText[Me]
                      /\ Pinned /\ pc' \in AfterRoles => fact'.roles = activeRoles[Work]
    BY <1>3 DEF QuietIdentity, Me
  <2>1. AccountOf[s] = Me /\ (Pinned => s = Work)
    BY <1>1, ServingAccount DEF FactType, Affinity, Opaque, Pinned, Serving
  <2>2. CASE ReadCurrentUser(s)
    BY <1>1, <2>1, <2>2 DEF ReadCurrentUser, FactType
  <2>3. CASE ReadEnabledRoles(s)
    BY <1>1, <2>1, <2>3 DEF ReadEnabledRoles, FactType, QInv, QuietIdentity
  <2>4. CASE ReadPartialRevokes
    BY <1>1, <2>4 DEF ReadPartialRevokes, FactType, QInv, QuietIdentity
  <2> QED BY <2>2, <2>3, <2>4
<1> QED BY <1>5, <1>6 DEF QInv

\* The third invariant holds of every behaviour.
LEMMA QuietInvariance == Spec => []QInv
<1>1. Init => QInv
  BY DEF Init, ZeroGrants, QInv, NothingEarly, QuietIdentity, OwnExact, SourcesBacked, AfterUser,
     AfterRoles, AfterPartial, AfterGlobal, AfterSchema, AfterTable
<1>2. IInv /\ QInv /\ [Next]_vars => QInv'
  <2> SUFFICES ASSUME IInv, QInv, [Next]_vars PROVE QInv'
    OBVIOUS
  <2>1. ASSUME fact'.global = {}, fact'.schema = {}, fact'.table = {}, fact'.column = {},
               pc' \notin AfterUser
        PROVE  QInv'
    BY <2>1 DEF QInv, NothingEarly, QuietIdentity, OwnExact, SourcesBacked, AfterUser, AfterRoles,
       AfterPartial, AfterGlobal, AfterSchema, AfterTable
  <2>2. ASSUME NEW affinity \in Affinity, Call(affinity) PROVE QInv'
    BY <2>1, <2>2 DEF Call, ZeroGrants, AfterUser, AfterPartial
  <2>3. CASE Refuse
    BY <2>1, <2>3 DEF Refuse, QInv, NothingEarly, AfterUser, AfterPartial, AfterGlobal, AfterSchema, AfterTable
  <2>4. CASE Statement
    BY <2>4, QuietIdentityRead, QuietGlobal, QuietSchema, QuietTable, QuietColumn DEF Statement
  <2>5. CASE Fail
    BY <2>1, <2>5 DEF Fail, ZeroGrants, AfterUser, AfterPartial
  <2>6. CASE Environment
    <3>1. ~Quiet' /\ fact' = fact /\ pc' = pc
      BY <2>6, ChangeIsLoud DEF Environment
    <3> QED BY <3>1 DEF QInv, NothingEarly, QuietIdentity, OwnExact, SourcesBacked
  <2>7. CASE UNCHANGED vars
    BY <2>7 DEF vars, serverVars, QInv, NothingEarly, QuietIdentity, OwnExact, SourcesBacked, Quiet,
       Opaque, Pinned, Own, Bare
  <2> QED BY <2>2, <2>3, <2>4, <2>5, <2>6, <2>7 DEF Next
<1> QED BY <1>1, <1>2, Invariance, PTL DEF Spec

\* Evidence is enough: no downgrade and no other source takes it back.
LEMMA EvidencePresent ==
  ASSUME NEW f \in FactType, NEW q \in Question, f.populated, q.priv \in Privilege,
         f.affinity # "opaque", Evidence(f, q)
  PROVE  Answer(f, q) = "Present"
<1>1. \A sources : "account" \in sources => StateForSources(f, sources) = "Present"
  BY DEF StateForSources, FactType, Affinity
<1>2. \A map, key : <<key, "account">> \in map => "account" \in SourcesAt(map, key)
  BY DEF SourcesAt, Source
<1>3. ASSUME NEW specific,
             \/ \E sources \in specific : "account" \in sources
             \/ ~f.partialRevokes /\ <<q.priv, "account">> \in f.global
      PROVE  Resolve(f, q.priv, specific) = "Present"
  <2> DEFINE states ==
        {StateForSources(f, sources) : sources \in specific}
          \cup (IF f.partialRevokes
                THEN {IF SourcesAt(f.global, q.priv) = {} THEN "Absent" ELSE "Unconfirmed"}
                ELSE {StateForSources(f, SourcesAt(f.global, q.priv))})
  <2>1. "Present" \in states
    BY <1>1, <1>2, <1>3
  <2> QED BY <2>1 DEF Resolve
<1>4. CASE q.scope = "global"
  BY <1>3, <1>4 DEF Answer, Global, Evidence
<1>5. CASE q.scope = "schema"
  <2>1. Resolve(f, q.priv, {SourcesAt(f.schema, <<q.schema, q.priv>>)}) = "Present"
    BY <1>2, <1>3, <1>5 DEF Evidence
  <2> QED BY <1>5, <2>1 DEF Answer, SchemaState, Downgrade
<1>6. CASE q.scope = "table"
  <2>1. Resolve(f, q.priv, {SourcesAt(f.table, <<q.schema, q.table, q.priv>>),
                            SourcesAt(f.schema, <<q.schema, q.priv>>)}) = "Present"
    BY <1>2, <1>3, <1>6 DEF Evidence
  <2> QED BY <1>6, <2>1 DEF Answer, TableState, Downgrade
<1> QED BY <1>4, <1>5, <1>6 DEF Question

\* A question of the fact has one of three answers, or none at all.
LEMMA AnswerRange ==
  ASSUME NEW f, NEW q \in Question, f.populated
  PROVE  IF q.priv \in Privilege THEN Answer(f, q) \in {"Present", "Absent", "Unconfirmed"}
         ELSE Answer(f, q) = "Unknown"
<1>1. \A specific :
        IF q.priv \in Privilege THEN Resolve(f, q.priv, specific) \in {"Present", "Absent", "Unconfirmed"}
        ELSE Resolve(f, q.priv, specific) = "Unknown"
  BY DEF Resolve
<1>2. CASE q.scope = "global"
  BY <1>1, <1>2 DEF Answer, Global
<1>3. CASE q.scope = "schema"
  BY <1>1, <1>3 DEF Answer, SchemaState, Downgrade
<1>4. CASE q.scope = "table"
  BY <1>1, <1>4 DEF Answer, TableState, Downgrade
<1> QED BY <1>2, <1>3, <1>4 DEF Question

\* A pinned, role-free fact that sees every row and recorded none in favour of
\* the question answers absent.
LEMMA NothingAbsent ==
  ASSUME NEW f \in FactType, NEW q \in Question, f.populated, q.priv \in Privilege,
         f.affinity = "pinned", f.roles = {}, BroadVisibility(f),
         SourcesAt(f.global, q.priv) = {},
         q.scope \in {"schema", "table"} =>
           \A stored \in Schema :
             Reads(f, stored, q.schema) => SourcesAt(f.schema, <<stored, q.priv>>) = {},
         q.scope = "table" =>
           \A s \in Schema, t \in Table :
             SchemaFold[s] = SchemaFold[q.schema] /\ TableFold[t] = TableFold[q.table] =>
               /\ SourcesAt(f.table, <<s, t, q.priv>>) = {}
               /\ SourcesAt(f.column, <<s, t, q.priv>>) = {}
  PROVE  Answer(f, q) = "Absent"
<1>1. q.schema \in Schema /\ q.table \in Table
  BY DEF Question
<1>2. StateForSources(f, {}) = "Absent"
  BY DEF StateForSources
<1>3. ASSUME NEW specific, \A sources \in specific : sources = {}
      PROVE  Resolve(f, q.priv, specific) = "Absent"
  <2> DEFINE states ==
        {StateForSources(f, sources) : sources \in specific}
          \cup (IF f.partialRevokes
                THEN {IF SourcesAt(f.global, q.priv) = {} THEN "Absent" ELSE "Unconfirmed"}
                ELSE {StateForSources(f, SourcesAt(f.global, q.priv))})
  <2>1. states \subseteq {"Absent"}
    BY <1>2, <1>3
  <2> QED BY <2>1 DEF Resolve
<1>4. CASE q.scope = "global"
  BY <1>3, <1>4 DEF Answer, Global
<1>5. q.scope \in {"schema", "table"} =>
        /\ SourcesAt(f.schema, <<q.schema, q.priv>>) = {}
        /\ ~(~f.partialRevokes /\ SchemaPatternCovers(f, q.schema, q.priv))
        /\ ~SchemaCaseVariantMatches(f, q.schema, q.priv)
  BY <1>1 DEF Reads, SchemaPatternCovers, SchemaCaseVariantMatches
<1>6. CASE q.scope = "schema"
  <2>1. Resolve(f, q.priv, {SourcesAt(f.schema, <<q.schema, q.priv>>)}) = "Absent"
    BY <1>3, <1>5, <1>6
  <2> QED BY <1>5, <1>6, <2>1 DEF Answer, SchemaState, Downgrade
<1>7. CASE q.scope = "table"
  <2>1. /\ SourcesAt(f.table, <<q.schema, q.table, q.priv>>) = {}
        /\ SourcesAt(f.column, <<q.schema, q.table, q.priv>>) = {}
        /\ ~TableCaseVariantMatches(f, q.schema, q.table, q.priv)
    BY <1>1, <1>7 DEF TableCaseVariantMatches
  <2>2. Resolve(f, q.priv, {SourcesAt(f.table, <<q.schema, q.table, q.priv>>),
                            SourcesAt(f.schema, <<q.schema, q.priv>>)}) = "Absent"
    BY <1>3, <1>5, <1>7, <2>1
  <2> QED BY <1>5, <1>7, <2>1, <2>2 DEF Answer, TableState, Downgrade
<1> QED BY <1>4, <1>6, <1>7 DEF Question

\* On a still server every answer is the promised one.
LEMMA QuietExact ==
  ASSUME IInv, QInv, AInv, pc = "done", Quiet, NEW q \in Question
  PROVE  Answer(fact, q) = Promised(q)
<1> DEFINE own == GranteeText[AccountOf[Work]] = AccountOf[Work]
           proven == ~partialRevokes /\ RowOf(Me, "global", q.schema, q.table, q.priv)
           named == \/ q.scope \in {"schema", "table"} /\ RowOf(Me, "schema", q.schema, q.table, q.priv)
                    \/ q.scope = "table" /\ RowOf(Me, "table", q.schema, q.table, q.priv)
           seesAll == \/ RowOf(Me, "schema", MySqlSchema, MySqlSchema, Select)
                      \/ ~partialRevokes /\ RowOf(Me, "global", MySqlSchema, MySqlSchema, Select)
           P == own /\ fact.affinity # "opaque" /\ (proven \/ named)
           A == own /\ fact.affinity = "pinned" /\ activeRoles[Work] = {} /\ seesAll /\ ~MayHold(q)
<1>1. fact \in FactType /\ fact.populated /\ TypeOK
  BY DEF IInv, TypeOK
<1>2. fact.partialRevokes = partialRevokes
  BY DEF IInv, PartialCurrent, NoSwitch, Quiet, AfterPartial
<1>3. /\ ~Opaque => fact.account = GranteeText[Me]
      /\ Pinned => fact.roles = activeRoles[Work] /\ ~Opaque
  BY DEF QInv, QuietIdentity, AfterUser, AfterRoles, AfterPartial, Pinned, Opaque
<1>4. own <=> GranteeText[Me] = Me
  BY DEF Me
<1>5. ~Opaque =>
        \A k : /\ <<k, "account">> \in fact.global <=> own /\ \E row \in Own("global") : row.priv = k
               /\ <<k, "account">> \in fact.schema
                    <=> own /\ \E row \in Own("schema") : <<row.schema, row.priv>> = k
               /\ <<k, "account">> \in fact.table
                    <=> own /\ \E row \in Own("table") : <<row.schema, row.table, row.priv>> = k
  BY <1>3, <1>4 DEF QInv, OwnExact, AfterGlobal, AfterSchema, AfterTable
<1>6. \A p \in Privilege : \A s, t :
        /\ RowOf(Me, "global", s, t, p) <=> \E row \in Own("global") : row.priv = p
        /\ RowOf(Me, "schema", s, t, p) <=> \E row \in Own("schema") : <<row.schema, row.priv>> = <<s, p>>
        /\ RowOf(Me, "table", s, t, p)
             <=> \E row \in Own("table") : <<row.schema, row.table, row.priv>> = <<s, t, p>>
  BY DEF RowOf, Own
<1>7. q.priv \in Privilege => (P <=> fact.affinity # "opaque" /\ Evidence(fact, q))
  BY <1>2, <1>5, <1>6 DEF Evidence, Opaque
<1>8. ~Opaque => (BroadVisibility(fact) <=> own /\ seesAll)
  <2>1. Select \in Privilege
    BY ServerAssumption
  <2>2. /\ "account" \in SourcesAt(fact.schema, <<MySqlSchema, Select>>)
             <=> <<<<MySqlSchema, Select>>, "account">> \in fact.schema
        /\ "account" \in SourcesAt(fact.global, Select) <=> <<Select, "account">> \in fact.global
    BY DEF SourcesAt, Source
  <2> QED BY <1>2, <1>5, <1>6, <2>1, <2>2 DEF BroadVisibility
<1>9. q.priv \in Privilege => (Answer(fact, q) = "Present" <=> P)
  BY <1>1, <1>7, AnswerPresent, EvidencePresent
<1>10. Answer(fact, q) = "Absent" => A
  <2> SUFFICES ASSUME Answer(fact, q) = "Absent" PROVE A
    OBVIOUS
  <2>1. Pinned /\ fact.roles = {} /\ BroadVisibility(fact)
    BY <1>1, AnswerAbsent DEF Pinned
  <2>2. ~MayHold(q)
    BY AbsenceSound DEF Absent, Quiet, NoGain
  <2> QED BY <1>3, <1>8, <2>1, <2>2 DEF Pinned
<1>11. q.priv \in Privilege /\ A => Answer(fact, q) = "Absent"
  <2> SUFFICES ASSUME q.priv \in Privilege, A PROVE Answer(fact, q) = "Absent"
    OBVIOUS
  <2>1. Pinned /\ ~Opaque /\ fact.roles = {} /\ BroadVisibility(fact)
    BY <1>3, <1>8 DEF Pinned, Opaque
  <2>2. SourcesBacked
    BY DEF QInv
  <2>3. /\ \A k, src : <<k, src>> \in fact.global => \E row \in Bare("global") : row.priv = k
        /\ \A k, src : <<k, src>> \in fact.schema =>
             \E row \in Bare("schema") : <<row.schema, row.priv>> = k
        /\ \A k, src : <<k, src>> \in fact.table =>
             \E row \in Bare("table") : <<row.schema, row.table, row.priv>> = k
        /\ \A k, src : <<k, src>> \in fact.column =>
             \E row \in Bare("column") : <<row.schema, row.table, row.priv>> = k
    BY <2>1, <2>2 DEF SourcesBacked
  <2>4. SourcesAt(fact.global, q.priv) = {}
    <3>1. \A row \in Bare("global") : row.priv # q.priv
      BY DEF Bare, MayHold, Me
    <3> QED BY <2>3, <3>1 DEF SourcesAt
  <2>5. ASSUME q.scope \in {"schema", "table"}, NEW stored \in Schema, Reads(fact, stored, q.schema)
        PROVE  SourcesAt(fact.schema, <<stored, q.priv>>) = {}
    <3>1. SchemaMayMatch(stored, q.schema)
      BY <1>2, <2>5 DEF Reads, SchemaMayMatch
    <3>2. \A row \in Bare("schema") : <<row.schema, row.priv>> # <<stored, q.priv>>
      BY <2>5, <3>1 DEF Bare, MayHold, Me
    <3> QED BY <2>3, <3>2 DEF SourcesAt
  <2>6. ASSUME q.scope = "table", NEW s \in Schema, NEW t \in Table,
               SchemaFold[s] = SchemaFold[q.schema], TableFold[t] = TableFold[q.table]
        PROVE  /\ SourcesAt(fact.table, <<s, t, q.priv>>) = {}
               /\ SourcesAt(fact.column, <<s, t, q.priv>>) = {}
    <3>1. \A scope \in {"table", "column"} : \A row \in Bare(scope) :
            <<row.schema, row.table, row.priv>> # <<s, t, q.priv>>
      BY <2>6 DEF Bare, MayHold, Me
    <3> QED BY <2>3, <3>1 DEF SourcesAt
  <2> QED BY <1>1, <2>1, <2>4, <2>5, <2>6, NothingAbsent DEF Pinned
<1>12. Promised(q) = IF q.priv \notin Privilege THEN "Unknown"
                     ELSE IF P THEN "Present" ELSE IF A THEN "Absent" ELSE "Unconfirmed"
  BY DEF Promised, Me
<1> HIDE DEF P, A
<1> QED BY <1>1, <1>9, <1>10, <1>11, <1>12, AnswerRange

\* With nothing changing during the read, the seven statements amount to one
\* snapshot, and Global, Schema and Table answer exactly what is documented,
\* neither weaker nor stronger, for every set of accounts, roles and grants.
THEOREM QuietAnswers == Spec => []QuietAnswerExact
<1>1. IInv /\ QInv /\ AInv => QuietAnswerExact
  BY QuietExact, GranteeTextAssumption DEF QuietAnswerExact, Quiet
<1> QED BY <1>1, Invariance, QuietInvariance, AbsenceInvariance, PTL

----------------------------------------------------------------------------
(* What the privilege checks remember between two tables of a list          *)
(* (grants.go, schemaScanMemo) never changes an answer.                     *)

\* What a loop over tables of one schema with one privilege may have remembered.
MemoOf(f, schema, priv, memo) ==
  /\ memo.pattern \subseteq {SchemaPatternCovers(f, schema, priv)}
  /\ memo.variant \subseteq {SchemaCaseVariantMatches(f, schema, priv)}

\* A scan is remembered as it was made, and one that is needed has been made.
LEMMA ScanOnceKeeps ==
  ASSUME NEW needed \in BOOLEAN, NEW known, NEW answer, known \subseteq {answer}
  PROVE  /\ ScanOnce(needed, known, answer) \subseteq {answer}
         /\ needed => ScanOnce(needed, known, answer) = {answer}
BY DEF ScanOnce

LEMMA DowngradeTwice ==
  ASSUME NEW state, NEW weaker \in BOOLEAN, NEW also \in BOOLEAN
  PROVE  Downgrade(Downgrade(state, weaker), also) = Downgrade(state, weaker \/ also)
BY DEF Downgrade

\* For every fact, list and privilege: a loop that starts with nothing
\* remembered, and hands the memo of one table to the next, answers each table
\* as Grants.Table answers it alone.
THEOREM MemoTransparent ==
  ASSUME NEW f, NEW schema, NEW table, NEW priv, NEW memo, MemoOf(f, schema, priv, memo),
         f.partialRevokes \in BOOLEAN
  PROVE  /\ MemoOf(f, schema, priv, NoMemo)
         /\ TableStateMemo(f, schema, table, priv, memo).state = TableState(f, schema, table, priv)
         /\ MemoOf(f, schema, priv, TableStateMemo(f, schema, table, priv, memo).memo)
<1> DEFINE exact == Resolve(f, priv, {SourcesAt(f.table, <<schema, table, priv>>),
                                      SourcesAt(f.schema, <<schema, priv>>)})
           covers == SchemaPatternCovers(f, schema, priv)
           varies == SchemaCaseVariantMatches(f, schema, priv)
           other == TableCaseVariantMatches(f, schema, table, priv)
           column == SourcesAt(f.column, <<schema, table, priv>>) # {}
           patterned == exact = "Absent" /\ ~f.partialRevokes
           pattern == ScanOnce(patterned, memo.pattern, covers)
           named == Downgrade(Downgrade(exact, patterned /\ TRUE \in pattern), column)
           variant == ScanOnce(named = "Absent", memo.variant, varies)
           judged == Downgrade(named, TRUE \in variant \/ other)
<1>1. TableStateMemo(f, schema, table, priv, memo) =
        [state |-> judged, memo |-> [pattern |-> pattern, variant |-> variant]]
  BY DEF TableStateMemo
<1>2. memo.pattern \subseteq {covers} /\ memo.variant \subseteq {varies}
  BY DEF MemoOf
<1>3. covers \in BOOLEAN /\ varies \in BOOLEAN /\ other \in BOOLEAN
  BY DEF SchemaPatternCovers, SchemaCaseVariantMatches, TableCaseVariantMatches
<1>4. pattern \subseteq {covers} /\ (patterned => pattern = {covers})
  <2>1. patterned \in BOOLEAN
    OBVIOUS
  <2> QED BY <1>2, <2>1, ScanOnceKeeps
<1>5. variant \subseteq {varies} /\ (named = "Absent" => variant = {varies})
  <2>1. (named = "Absent") \in BOOLEAN
    OBVIOUS
  <2> QED BY <1>2, <2>1, ScanOnceKeeps
<1>6. named = Downgrade(Downgrade(exact, ~f.partialRevokes /\ covers), column)
  BY <1>3, <1>4 DEF Downgrade
<1>7. judged = Downgrade(named, varies \/ other)
  BY <1>3, <1>5 DEF Downgrade
<1>8. judged = TableState(f, schema, table, priv)
  <2>1. judged = Downgrade(Downgrade(Downgrade(exact, ~f.partialRevokes /\ covers), column), varies \/ other)
    BY <1>6, <1>7
  <2>2. TableState(f, schema, table, priv) =
          Downgrade(exact, (~f.partialRevokes /\ covers) \/ column \/ varies \/ other)
    BY DEF TableState
  <2> HIDE DEF exact, covers, varies, other, column
  <2> QED BY <2>1, <2>2 DEF Downgrade
<1>9. MemoOf(f, schema, priv, NoMemo)
  BY DEF MemoOf, NoMemo
<1> HIDE DEF judged, pattern, variant
<1> QED BY <1>1, <1>4, <1>5, <1>8, <1>9 DEF MemoOf

\* What the loop over a list of tables has after each of them.
LoopOf(f, schema, tables, priv, n, upto) ==
  upto = [k \in 0..n |->
            IF k = 0 THEN [memo |-> NoMemo, findings |-> <<>>]
            ELSE Visit(f, schema, priv, upto[k - 1], tables[k])]

LEMMA LoopExists ==
  ASSUME NEW f, NEW schema, NEW tables, NEW priv, NEW n \in Nat
  PROVE  \E upto : LoopOf(f, schema, tables, priv, n, upto)
<1> DEFINE T == {m \in Nat : \E upto : LoopOf(f, schema, tables, priv, m, upto)}
           start == [memo |-> NoMemo, findings |-> <<>>]
<1>1. 0 \in T
  <2>1. LoopOf(f, schema, tables, priv, 0, [k \in 0..0 |-> start])
    BY DEF LoopOf
  <2> QED BY <2>1
<1>2. ASSUME NEW m \in 0..(n - 1), m \in T PROVE m + 1 \in T
  <2>1. PICK upto : LoopOf(f, schema, tables, priv, m, upto)
    BY <1>2
  <2> DEFINE more == [k \in 0..(m + 1) |->
                        IF k <= m THEN upto[k] ELSE Visit(f, schema, priv, upto[m], tables[k])]
  <2>2. ASSUME NEW k \in 0..(m + 1)
        PROVE  more[k] = IF k = 0 THEN start ELSE Visit(f, schema, priv, more[k - 1], tables[k])
    <3>1. CASE k = 0
      BY <1>2, <2>1, <3>1 DEF LoopOf
    <3>2. CASE k \in 1..m
      <4>1. more[k] = upto[k] /\ more[k - 1] = upto[k - 1] /\ k \in 0..m
        BY <1>2, <3>2
      <4>2. upto[k] = Visit(f, schema, priv, upto[k - 1], tables[k])
        BY <2>1, <3>2, <4>1 DEF LoopOf
      <4> QED BY <3>2, <4>1, <4>2
    <3>3. CASE k = m + 1
      <4>1. more[k] = Visit(f, schema, priv, upto[m], tables[k]) /\ more[k - 1] = upto[m]
        BY <1>2, <3>3
      <4> QED BY <1>2, <3>3, <4>1
    <3> QED BY <1>2, <3>1, <3>2, <3>3
  <2>3. LoopOf(f, schema, tables, priv, m + 1, more)
    <3>1. DOMAIN more = 0..(m + 1) /\ more = [k \in 0..(m + 1) |-> more[k]]
      OBVIOUS
    <3> HIDE DEF more
    <3>2. more = [k \in 0..(m + 1) |->
                    IF k = 0 THEN start ELSE Visit(f, schema, priv, more[k - 1], tables[k])]
      BY <2>2, <3>1
    <3> QED BY <3>2 DEF LoopOf
  <2>4. m + 1 \in Nat
    BY <1>2
  <2> HIDE DEF more
  <2> QED BY <2>3, <2>4
<1>3. \A m \in 0..n : m \in T
  <2> HIDE DEF T
  <2> QED BY <1>1, <1>2, UpTo
<1> QED BY <1>3

\* The findings of a list of tables are those of each asked alone, whatever the
\* loop remembered on the way.
LEMMA TablesAlone ==
  ASSUME NEW f, NEW schema, NEW tables, tables \in Seq(Table), NEW priv, f.partialRevokes \in BOOLEAN
  PROVE  CheckTablePrivileges(f, schema, tables, priv) =
           Findings(tables, [k \in DOMAIN tables |-> TableState(f, schema, tables[k], priv)])
<1> DEFINE n == Len(tables)
           state == [k \in DOMAIN tables |-> TableState(f, schema, tables[k], priv)]
           xs == [k \in DOMAIN tables |-> [item |-> tables[k], state |-> state[k]]]
           Missing(m) == {k \in 1..m : state[k] # "Present"}
<1>1. n \in Nat /\ DOMAIN tables = 1..n /\ DOMAIN xs = 1..n
  OBVIOUS
<1>2. PICK upto : /\ LoopOf(f, schema, tables, priv, n, upto)
                  /\ CheckTablePrivileges(f, schema, tables, priv) = upto[n].findings
  <2>1. PICK upto : upto = CHOOSE g : LoopOf(f, schema, tables, priv, n, g)
    OBVIOUS
  <2>2. LoopOf(f, schema, tables, priv, n, upto)
    BY <1>1, <2>1, LoopExists
  <2>3. CheckTablePrivileges(f, schema, tables, priv) = upto[n].findings
    BY <2>1 DEF CheckTablePrivileges, LoopOf
  <2> QED BY <2>2, <2>3
<1>3. /\ upto[0] = [memo |-> NoMemo, findings |-> <<>>]
      /\ \A m \in 0..(n - 1) : upto[m + 1] = Visit(f, schema, priv, upto[m], tables[m + 1])
  BY <1>1, <1>2 DEF LoopOf
<1> DEFINE T == {m \in 0..n : /\ MemoOf(f, schema, priv, upto[m].memo)
                              /\ upto[m].findings = Chosen(xs, Missing(m))}
<1>4. 0 \in T
  <2>1. MemoOf(f, schema, priv, NoMemo)
    BY DEF MemoOf, NoMemo
  <2>2. Chosen(xs, {}) = <<>>
    BY <1>1, ChosenNone
  <2>3. Missing(0) = {}
    OBVIOUS
  <2> QED BY <1>1, <1>3, <2>1, <2>2, <2>3
<1>5. ASSUME NEW m \in 0..(n - 1), m \in T PROVE m + 1 \in T
  <2>1. PICK loop : loop = upto[m]
    OBVIOUS
  <2>2. PICK table : table = tables[m + 1]
    OBVIOUS
  <2>3. PICK judged : judged = TableStateMemo(f, schema, table, priv, loop.memo)
    OBVIOUS
  <2>4. /\ judged.state = TableState(f, schema, table, priv)
        /\ MemoOf(f, schema, priv, judged.memo)
    BY <1>5, <2>1, <2>3, MemoTransparent
  <2>5. /\ m + 1 \in 1..n /\ m \in Nat
        /\ state[m + 1] = judged.state
        /\ xs[m + 1] = [item |-> table, state |-> judged.state]
    BY <1>1, <1>5, <2>2, <2>4
  <2>6. /\ upto[m + 1].memo = judged.memo
        /\ upto[m + 1].findings =
             IF judged.state = "Present" THEN loop.findings
             ELSE Append(loop.findings, [item |-> table, state |-> judged.state])
    <3>1. upto[m + 1] = Visit(f, schema, priv, loop, table)
      BY <1>3, <1>5, <2>1, <2>2
    <3> QED BY <2>3, <3>1 DEF Visit
  <2>7. loop.findings = Chosen(xs, Missing(m))
    BY <1>5, <2>1
  <2>8. CASE judged.state = "Present"
    <3>1. Missing(m + 1) = Missing(m)
      BY <2>5, <2>8
    <3> HIDE DEF Missing, xs, state, n
    <3>2. m + 1 \in 0..n
      BY <1>1, <2>5
    <3> QED BY <2>4, <2>6, <2>7, <2>8, <3>1, <3>2
  <2>9. CASE judged.state # "Present"
    <3>1. Missing(m + 1) = Missing(m) \cup {m + 1} /\ Missing(m) \in SUBSET (1..((m + 1) - 1))
      BY <2>5, <2>9
    <3> HIDE DEF Missing, xs, state
    <3>2. Chosen(xs, Missing(m) \cup {m + 1}) = Append(Chosen(xs, Missing(m)), xs[m + 1])
      BY <1>1, <2>5, <3>1, ChosenNext
    <3>3. m + 1 \in 0..n
      BY <1>1, <2>5
    <3>4. upto[m + 1].findings = Chosen(xs, Missing(m + 1))
      BY <2>5, <2>6, <2>7, <2>9, <3>1, <3>2
    <3> HIDE DEF n
    <3> QED BY <2>4, <2>6, <3>3, <3>4
  <2> QED BY <2>8, <2>9
<1>6. n \in T
  <2> HIDE DEF T, n
  <2>1. \A m \in 0..n : m \in T
    BY <1>1, <1>4, <1>5, UpTo
  <2> QED BY <1>1, <2>1
<1>7. Findings(tables, state) = Chosen(xs, {k \in DOMAIN tables : state[k] # "Present"})
  BY DEF Findings
<1> QED BY <1>1, <1>2, <1>6, <1>7

\* On a still server, the findings of a list of tables or privileges of any
\* length are those promised for its items, in order and with repeats; a fact
\* that was never completed reports every item as unknown.
THEOREM FindingsAreExact == Spec => []FindingsExact
<1>1. IInv /\ AInv /\ QInv => FindingsExact
  <2> SUFFICES ASSUME IInv, AInv, QInv PROVE FindingsExact
    OBVIOUS
  <2>1. fact \in FactType /\ fact.partialRevokes \in BOOLEAN
    BY DEF IInv, TypeOK, FactType
  <2>2. ASSUME pc = "done", kinds = {}, NEW r \in TableRequest
        PROVE  CheckTablePrivileges(fact, r.schema, r.tables, r.priv) =
                 PromisedFindings(r.tables, TableQuestions(r))
    <3>1. r.tables \in Seq(Table) /\ r.schema \in Schema /\ r.priv \in AnyPrivilege
      BY RequestAssumption
    <3>2. ASSUME NEW k \in DOMAIN r.tables
          PROVE  TableState(fact, r.schema, r.tables[k], r.priv) = Promised(TableQuestions(r)[k])
      <4>1. PICK q : q = [scope |-> "table", schema |-> r.schema, table |-> r.tables[k], priv |-> r.priv]
        OBVIOUS
      <4>2. r.tables[k] \in Table
        BY <3>1, <3>2
      <4>3. q \in Question
        BY <3>1, <4>1, <4>2 DEF Question
      <4>4. Answer(fact, q) = Promised(q)
        BY <2>2, <4>3, QuietExact DEF Quiet
      <4>5. TableQuestions(r)[k] = q
        BY <4>1 DEF TableQuestions
      <4>6. Answer(fact, q) = TableState(fact, r.schema, r.tables[k], r.priv)
        BY <4>1 DEF Answer
      <4> QED BY <4>4, <4>5, <4>6
    <3>3. [k \in DOMAIN r.tables |-> TableState(fact, r.schema, r.tables[k], r.priv)]
            = [k \in DOMAIN r.tables |-> Promised(TableQuestions(r)[k])]
      BY <3>2
    <3> QED BY <2>1, <3>1, <3>3, TablesAlone DEF PromisedFindings
  <2>3. ASSUME pc = "done", kinds = {}, NEW r \in SchemaRequest
        PROVE  CheckSchemaPrivileges(fact, r.schema, r.privs) =
                 PromisedFindings(r.privs, SchemaQuestions(r))
    <3>1. r.privs \in Seq(AnyPrivilege) /\ r.schema \in Schema /\ Table # {}
      BY RequestAssumption
    <3>2. ASSUME NEW k \in DOMAIN r.privs
          PROVE  SchemaState(fact, r.schema, r.privs[k]) = Promised(SchemaQuestions(r)[k])
      <4>1. PICK q : q = [scope |-> "schema", schema |-> r.schema,
                          table |-> CHOOSE t \in Table : TRUE, priv |-> r.privs[k]]
        OBVIOUS
      <4>2. r.privs[k] \in AnyPrivilege /\ (CHOOSE t \in Table : TRUE) \in Table
        BY <3>1, <3>2
      <4>3. q \in Question
        BY <3>1, <4>1, <4>2 DEF Question
      <4>4. Answer(fact, q) = Promised(q)
        BY <2>3, <4>3, QuietExact DEF Quiet
      <4>5. SchemaQuestions(r)[k] = q
        BY <4>1 DEF SchemaQuestions
      <4>6. Answer(fact, q) = SchemaState(fact, r.schema, r.privs[k])
        BY <4>1 DEF Answer
      <4> QED BY <4>4, <4>5, <4>6
    <3>3. [k \in DOMAIN r.privs |-> SchemaState(fact, r.schema, r.privs[k])]
            = [k \in DOMAIN r.privs |-> Promised(SchemaQuestions(r)[k])]
      BY <3>2
    <3> QED BY <3>3 DEF CheckSchemaPrivileges, PromisedFindings
  <2>4. ASSUME pc = "failed", NEW r \in TableRequest
        PROVE  CheckTablePrivileges(fact, r.schema, r.tables, r.priv) =
                 [k \in DOMAIN r.tables |-> [item |-> r.tables[k], state |-> "Unknown"]]
    <3>1. r.tables \in Seq(Table)
      BY RequestAssumption
    <3>a. PICK tables : tables = r.tables
      OBVIOUS
    <3>b. PICK n : n = Len(tables)
      OBVIOUS
    <3>2. n \in Nat /\ tables = r.tables /\ DOMAIN tables = 1..n
      BY <3>1, <3>a, <3>b
    <3>3. ~fact.populated
      BY <2>4 DEF IInv, TypeOK
    <3>4. \A k \in 1..n : TableState(fact, r.schema, tables[k], r.priv) = "Unknown"
      BY <3>3 DEF TableState, Resolve, Downgrade
    <3>5. PICK states : states = [k \in 1..n |-> TableState(fact, r.schema, tables[k], r.priv)]
      OBVIOUS
    <3>6. PICK xs : xs = [k \in 1..n |-> [item |-> tables[k], state |-> "Unknown"]]
      OBVIOUS
    <3>7. /\ [k \in DOMAIN tables |-> [item |-> tables[k], state |-> states[k]]] = xs
          /\ {k \in DOMAIN tables : states[k] # "Present"} = 1..n
      BY <3>2, <3>4, <3>5, <3>6
    <3>8. Chosen(xs, 1..n) = xs
      <4>1. xs = [k \in 1..n |-> xs[k]]
        BY <3>6
      <4> QED BY <3>2, <4>1, ChosenAll
    <3>9. Findings(tables, states) = xs
      BY <3>7, <3>8 DEF Findings
    <3>10. CheckTablePrivileges(fact, r.schema, tables, r.priv) = Findings(tables, states)
      BY <2>1, <3>1, <3>2, <3>5, TablesAlone
    <3> QED BY <3>2, <3>6, <3>9, <3>10
  <2> QED BY <2>2, <2>3, <2>4 DEF FindingsExact
<1> QED BY <1>1, Invariance, AbsenceInvariance, QuietInvariance, PTL

----------------------------------------------------------------------------
(* The trigger gate: a clearance is a proof.  Every step of TriggerGate is  *)
(* a step of Grants or leaves its variables alone, so GrantPresent is as    *)
(* sound in the gate as in Grants; from that, and from the fact never       *)
(* changing once returned, a late read of an event never misses a trigger   *)
(* of a cleared table.  A read that overtakes the call is vouched for as    *)
(* long as nothing was granted or lifted meanwhile either: the account then *)
(* held what it holds.                                                      *)

\* Every behaviour of the gate is a behaviour of the Grants call.
LEMMA GateRefinesGrants == GateSpec => Spec
<1>1. GateInit => Init
  BY DEF GateInit
<1>2. [GateNext]_gateVars => [Next]_vars
  <2> SUFFICES ASSUME [GateNext]_gateVars PROVE [Next]_vars
    OBVIOUS
  <2>1. CASE GrantsStep
    BY <2>1 DEF GrantsStep
  <2>2. ASSUME NEW event, NEW s, NEW opened, ReadTriggers(event, s, opened)
        PROVE  [Next]_vars
    BY <2>2 DEF ReadTriggers
  <2>3. ASSUME NEW tr, CreateTrigger(tr) \/ DropTrigger(tr)
        PROVE  [Next]_vars
    BY <2>3 DEF CreateTrigger, DropTrigger
  <2>4. CASE UNCHANGED gateVars
    BY <2>4 DEF gateVars
  <2>5. QED
    BY <2>1, <2>2, <2>3, <2>4 DEF GateNext
<1>3. QED
  BY <1>1, <1>2, PTL DEF GateSpec, Spec

----------------------------------------------------------------------------
(* The inductive invariant.                                                *)

\* What a late read leaves: every trigger of a table the fact clears.
Complete ==
  \A event \in late, t \in Requested :
    t \notin VisibilityFindings(fact) /\ NoLoss
      => TriggersOn(present[event], t, event) \subseteq listed[event]

\* Without a CREATE TRIGGER, no trigger there is now was not there at a read.
OnlyDropped ==
  ~created => \A event \in late : triggers \subseteq present[event]

GateInv ==
  /\ listed \in [TriggerEvent -> {NoResult} \cup SUBSET Trigger]
  /\ present \in [TriggerEvent -> SUBSET Trigger]
  /\ triggers \in SUBSET Trigger
  /\ late \subseteq {event \in TriggerEvent : listed[event] # NoResult}
  /\ late # {} => pc = "done"
  /\ Complete
  /\ OnlyDropped

\* Once returned, the fact and the call are over; losses are only ever added.
LEMMA ReturnedFactFixed ==
  ASSUME pc = "done", [Next]_vars, TypeOK
  PROVE  /\ fact' = fact /\ pc' = pc
         /\ NoLoss' => NoLoss
<1>1. CASE UNCHANGED vars
  BY <1>1 DEF vars, serverVars, NoLoss
<1>2. CASE Environment
  BY <1>2, ChangeEffects DEF Environment, NoLoss
<1>3. CASE Next /\ ~Environment
  BY <1>3 DEF Next, Call, Refuse, Statement, Fail, Reading, ReadCurrentUser, ReadEnabledRoles,
     ReadPartialRevokes, ReadGlobalGrants, ReadSchemaGrants, ReadTableGrants, ReadColumnGrants
<1>4. QED
  BY <1>1, <1>2, <1>3

\* A table the fact clears is one on which every session of the Querier holds
\* TRIGGER by its own account.
LEMMA ClearedIsHeld ==
  ASSUME PresentSoundWithoutLoss, NoLoss, fact \in FactType,
         NEW t \in Requested, t \notin VisibilityFindings(fact),
         NEW s \in Serving(fact.affinity)
  PROVE  HeldBy(AccountOf[s], TableQuestion(t))
<1>1. Present(TableQuestion(t))
  BY DEF VisibilityFindings, Present, Answer, TableQuestion
<1>2. TableQuestion(t) \in Asked
  BY TriggerAssumption
<1>3. Held(TableQuestion(t))
  BY <1>1, <1>2 DEF PresentSoundWithoutLoss, NoLoss
<1>4. fact.affinity # "opaque"
  <2>1. TableQuestion(t) \in Question
    BY <1>2, GranteeTextAssumption
  <2>2. QED
    BY <1>1, <2>1, AnswerPresent DEF Present
<1>5. AccountOf[s] = AccountOf[Work]
  BY <1>4 DEF Serving, FactType, Affinity
<1>6. QED
  BY <1>3, <1>5 DEF Held

\* The invariant across a trigger read.
LEMMA GateInvRead ==
  ASSUME GateInv, TypeOK, PresentSoundWithoutLoss, NEW event \in TriggerEvent,
         NEW s \in Serving(fact.affinity), NEW opened, ReadTriggers(event, s, opened)
  PROVE  GateInv'
<1>0. /\ UNCHANGED <<vars, triggers, ddl, created>>
      /\ listed[event] = NoResult
      /\ listed' = [listed EXCEPT ![event] =
           {tr \in ShownTriggers(s, opened) :
              tr.event = ServerEvent(event) /\ tr.table \in Requested}]
      /\ present' = [present EXCEPT ![event] = triggers]
      /\ late' = IF pc = "done" THEN late \cup {event} ELSE late
  BY DEF ReadTriggers
<1>1. ShownTriggers(s, opened) \in SUBSET Trigger
  BY DEF ShownTriggers, GateInv
<1>2. /\ listed' \in [TriggerEvent -> {NoResult} \cup SUBSET Trigger]
      /\ present' \in [TriggerEvent -> SUBSET Trigger]
      /\ triggers' \in SUBSET Trigger
  BY <1>0, <1>1 DEF GateInv
<1>3. event \notin late
  BY <1>0 DEF GateInv
<1>4. \A e \in late : listed'[e] = listed[e] /\ present'[e] = present[e]
  BY <1>0, <1>3 DEF GateInv
<1>5. /\ listed'[event] = {tr \in ShownTriggers(s, opened) :
                             tr.event = ServerEvent(event) /\ tr.table \in Requested}
      /\ present'[event] = triggers
  BY <1>0 DEF GateInv
<1>6. listed'[event] # NoResult
  <2>1. listed'[event] \in SUBSET Trigger
    BY <1>1, <1>5
  <2>2. QED
    BY <2>1, TriggerAssumption
<1>7. /\ late' \subseteq {e \in TriggerEvent : listed'[e] # NoResult}
      /\ late' # {} => pc' = "done"
  BY <1>0, <1>4, <1>6 DEF vars, GateInv
<1>8. fact' = fact /\ (NoLoss' <=> NoLoss)
  BY <1>0 DEF vars, serverVars, NoLoss
<1>9. Complete'
  <2> SUFFICES ASSUME NEW e \in late', NEW t \in Requested, t \notin VisibilityFindings(fact'), NoLoss'
               PROVE  TriggersOn(present'[e], t, e) \subseteq listed'[e]
    BY DEF Complete
  <2>1. t \notin VisibilityFindings(fact) /\ NoLoss
    BY <1>8
  <2>2. CASE e \in late
    BY <1>4, <2>1, <2>2 DEF GateInv, Complete
  <2>3. CASE e = event
    <3>1. HeldBy(AccountOf[s], TableQuestion(t))
      BY <2>1, ClearedIsHeld DEF TypeOK
    <3>2. QED
      BY <1>5, <2>3, <3>1 DEF TriggersOn, ShownTriggers
  <2>4. QED
    BY <1>0, <2>2, <2>3
<1>10. OnlyDropped'
  BY <1>0, <1>4, <1>5 DEF GateInv, OnlyDropped
<1>11. QED
  BY <1>2, <1>7, <1>9, <1>10 DEF GateInv

\* The invariant across a step that reads no triggers and runs no DDL.
LEMMA GateInvKept ==
  ASSUME GateInv, TypeOK, [Next]_vars,
         UNCHANGED <<triggers, listed, present, late, created>>
  PROVE  GateInv'
<1>1. late # {} => fact' = fact /\ pc' = pc /\ (NoLoss' => NoLoss)
  BY ReturnedFactFixed DEF GateInv
<1>2. QED
  BY <1>1 DEF GateInv, Complete, OnlyDropped

\* The invariant across DDL on the triggers of the schema.
LEMMA GateInvDdl ==
  ASSUME GateInv, TypeOK, NEW tr \in Trigger, CreateTrigger(tr) \/ DropTrigger(tr)
  PROVE  GateInv'
<1>1. /\ UNCHANGED <<vars, listed, present, late>>
      /\ triggers' \in SUBSET Trigger
      /\ ~created' => ~created /\ triggers' \subseteq triggers
  BY DEF CreateTrigger, DropTrigger, GateInv
<1>2. fact' = fact /\ pc' = pc /\ (NoLoss' <=> NoLoss)
  BY <1>1 DEF vars, serverVars, NoLoss
<1>3. QED
  BY <1>1, <1>2 DEF GateInv, Complete, OnlyDropped

LEMMA GateInvariance == GateSpec => []GateInv
<1>1. GateInit => GateInv
  BY TriggerAssumption DEF GateInit, GateInv, Complete, OnlyDropped
<1>2. GateInv /\ TypeOK /\ PresentSoundWithoutLoss /\ [GateNext]_gateVars => GateInv'
  <2> SUFFICES ASSUME GateInv, TypeOK, PresentSoundWithoutLoss, [GateNext]_gateVars
               PROVE  GateInv'
    OBVIOUS
  <2>1. CASE GrantsStep
    BY <2>1, GateInvKept DEF GrantsStep
  <2>2. ASSUME NEW event \in TriggerEvent, NEW s \in Serving(fact.affinity),
               NEW opened \in SUBSET Table, ReadTriggers(event, s, opened)
        PROVE  GateInv'
    BY <2>2, GateInvRead
  <2>3. ASSUME NEW tr \in Trigger, CreateTrigger(tr) \/ DropTrigger(tr)
        PROVE  GateInv'
    BY <2>3, GateInvDdl
  <2>4. CASE UNCHANGED gateVars
    BY <2>4, GateInvKept DEF gateVars
  <2>5. QED
    BY <2>1, <2>2, <2>3, <2>4 DEF GateNext
<1>3. QED
  BY <1>1, <1>2, GateRefinesGrants, TypeCorrect, PresentSound, PTL DEF GateSpec

----------------------------------------------------------------------------
(* What a clearance proves.                                                *)

\* A cleared table shows no trigger because it had none.
LEMMA ClearedEmpty ==
  ASSUME GateInv, NoLoss, NEW t \in Requested, NEW event \in late, Cleared(t, event)
  PROVE  TriggersOn(present[event], t, event) = {}
<1>1. TriggersOn(present[event], t, event) \subseteq listed[event]
  BY DEF Cleared, GateInv, Complete
<1>2. ServerEvent(event) \in ServerEvents
  BY TriggerAssumption DEF Cleared, PresentFindings
<1>3. QED
  BY <1>1, <1>2 DEF Cleared, PresentFindings, TriggersOn

\* When an event was read after Grants returned and nothing was revoked or
\* restricted since the call began, a table that CheckTriggerVisibility and
\* CheckTriggersPresent both pass had no trigger for the event as it was read.
THEOREM ClearedProof == GateSpec => []ClearedHadNone
<1>1. GateInv => ClearedHadNone
  BY ClearedEmpty DEF ClearedHadNone, NoLoss
<1>2. QED
  BY <1>1, GateInvariance, PTL

\* One clearance covers the three events: read after Grants returned, with
\* nothing revoked or restricted and no trigger created, a table cleared for
\* each has no trigger at all, though the reads are not one snapshot.
THEOREM ClearanceCoversEvents == GateSpec => []ClearedHasNone
<1>1. GateInv => ClearedHasNone
  <2> SUFFICES ASSUME GateInv, NoLoss, ~created, NEW t \in Requested, NEW tr \in triggers,
                      \A event \in TriggerEvent \ {"TriggerEventUnknown"} :
                        event \in late /\ Cleared(t, event),
                      tr.table = t
               PROVE  FALSE
    BY DEF ClearedHasNone, NoLoss
  <2>1. tr.event \in ServerEvents
    BY TriggerAssumption DEF GateInv
  <2>2. PICK event \in TriggerEvent \ {"TriggerEventUnknown"} : ServerEvent(event) = tr.event
    BY <2>1 DEF ServerEvents, TriggerEvent, ServerEvent
  <2>3. tr \in TriggersOn(present[event], t, event)
    BY <2>2 DEF TriggersOn, GateInv, OnlyDropped
  <2>4. QED
    BY <2>2, <2>3, ClearedEmpty
<1>2. QED
  BY <1>1, GateInvariance, PTL

----------------------------------------------------------------------------
(* Reads that overtake the Grants call.                                    *)

\* Nothing was gained or lost since the call began; roles and partial_revokes
\* may have been switched, which a direct grant does not depend on.
Untouched ==
  kinds \cap {"revoke", "revokeSelect", "restrict", "grant", "unrestrict"} = {}

\* What any read leaves, early or late: every trigger of a table the account
\* holds TRIGGER on.
EarlyComplete ==
  pc # "idle" /\ fact.affinity # "opaque" /\ Untouched =>
    \A event \in TriggerEvent, t \in Requested :
      listed[event] # NoResult /\ Held(TableQuestion(t))
        => TriggersOn(present[event], t, event) \subseteq listed[event]

EarlyInv ==
  /\ EarlyComplete
  /\ pc = "idle" => \A event \in TriggerEvent : listed[event] = NoResult

\* A server left untouched authorises whom it authorised.
LEMMA UntouchedHeld ==
  ASSUME TypeOK, ServerChange, Untouched'
  PROVE  Untouched /\ grants' = grants /\ restricted' = restricted
<1>1. ASSUME NEW row \in Row, GrantRow(row) PROVE ~Untouched'
  BY <1>1 DEF GrantRow, Changed, Untouched
<1>2. ASSUME NEW row \in Row, RevokeRow(row) PROVE ~Untouched'
  BY <1>2 DEF RevokeRow, Changed, Untouched
<1>3. ASSUME NEW r \in Restriction, AddRestriction(r) PROVE ~Untouched'
  BY <1>3 DEF AddRestriction, Changed, Untouched
<1>4. ASSUME NEW r \in Restriction, DropRestriction(r) PROVE ~Untouched'
  BY <1>4 DEF DropRestriction, Changed, Untouched
<1>5. CASE EnablePartialRevokes
  BY <1>5 DEF EnablePartialRevokes, Changed, Untouched
<1>6. CASE DisablePartialRevokes
  BY <1>6 DEF DisablePartialRevokes, Changed, Untouched
<1>7. ASSUME NEW s \in Session, NEW roles \in RoleSet, SetRole(s, roles)
      PROVE  Untouched /\ grants' = grants /\ restricted' = restricted
  BY <1>7 DEF SetRole, Changed, Untouched
<1>8. QED
  BY <1>1, <1>2, <1>3, <1>4, <1>5, <1>6, <1>7 DEF ServerChange

\* The invariant across a step of the Grants call or of the server.
LEMMA EarlyInvKept ==
  ASSUME EarlyInv, TypeOK, [Next]_vars, UNCHANGED <<listed, present>>
  PROVE  EarlyInv'
<1>1. CASE UNCHANGED vars
  BY <1>1 DEF vars, serverVars, EarlyInv, EarlyComplete, Untouched, Held, HeldBy, RowOf
<1>2. CASE Environment
  <2>1. pc' = pc /\ pc # "idle" /\ fact' = fact
    BY <1>2 DEF Environment, Reading
  <2>2. ASSUME Untouched' PROVE Untouched /\ grants' = grants /\ restricted' = restricted
    BY <1>2, <2>2, UntouchedHeld DEF Environment
  <2>3. QED
    BY <2>1, <2>2 DEF EarlyInv, EarlyComplete, Held, HeldBy, RowOf
<1>3. ASSUME NEW affinity \in Affinity, Call(affinity) PROVE EarlyInv'
  BY <1>3 DEF Call, EarlyInv, EarlyComplete
<1>4. CASE Refuse
  BY <1>4 DEF Refuse, EarlyInv, EarlyComplete
<1>5. CASE Fail
  BY <1>5 DEF Fail, ZeroGrants, EarlyInv, EarlyComplete
<1>6. CASE Statement
  <2>1. pc # "idle" /\ pc' # "idle" /\ fact'.affinity = fact.affinity /\ UNCHANGED serverVars
    BY <1>6 DEF Statement, ReadCurrentUser, ReadEnabledRoles, ReadPartialRevokes, ReadGlobalGrants,
       ReadSchemaGrants, ReadTableGrants, ReadColumnGrants, TypeOK, FactType
  <2>2. QED
    BY <2>1 DEF serverVars, EarlyInv, EarlyComplete, Untouched, Held, HeldBy, RowOf
<1>7. QED
  BY <1>1, <1>2, <1>3, <1>4, <1>5, <1>6 DEF Next

\* The invariant across a trigger read.
LEMMA EarlyInvRead ==
  ASSUME EarlyInv, GateInv, TypeOK, NEW event \in TriggerEvent, NEW s \in Serving(fact.affinity),
         NEW opened, ReadTriggers(event, s, opened)
  PROVE  EarlyInv'
<1>1. /\ UNCHANGED vars /\ pc # "idle"
      /\ listed' = [listed EXCEPT ![event] =
           {tr \in ShownTriggers(s, opened) :
              tr.event = ServerEvent(event) /\ tr.table \in Requested}]
      /\ present' = [present EXCEPT ![event] = triggers]
  BY DEF ReadTriggers
<1>2. Untouched' => Untouched
  BY <1>1 DEF vars, serverVars, Untouched
<1>3. \A q : Held(q)' = Held(q)
  BY <1>1 DEF vars, serverVars, Held, HeldBy, RowOf
<1>4. EarlyComplete'
  <2> SUFFICES ASSUME fact.affinity # "opaque", Untouched, NEW e \in TriggerEvent, NEW t \in Requested,
                      listed'[e] # NoResult, Held(TableQuestion(t))
               PROVE  TriggersOn(present'[e], t, e) \subseteq listed'[e]
    BY <1>1, <1>2, <1>3 DEF vars, EarlyComplete
  <2>1. CASE e # event
    <3>1. listed'[e] = listed[e] /\ present'[e] = present[e]
      BY <1>1, <2>1 DEF GateInv
    <3>2. QED
      BY <1>1, <3>1 DEF EarlyInv, EarlyComplete
  <2>2. CASE e = event
    <3>1. AccountOf[s] = AccountOf[Work]
      BY DEF Serving, TypeOK, FactType, Affinity
    <3>2. HeldBy(AccountOf[s], TableQuestion(t))
      BY <3>1 DEF Held
    <3>3. /\ listed'[e] = {tr \in ShownTriggers(s, opened) :
                             tr.event = ServerEvent(event) /\ tr.table \in Requested}
          /\ present'[e] = triggers
      BY <1>1, <2>2 DEF GateInv
    <3>4. QED
      BY <2>2, <3>2, <3>3 DEF TriggersOn, ShownTriggers
  <2>3. QED
    BY <2>1, <2>2
<1>5. QED
  BY <1>1, <1>4 DEF vars, EarlyInv

LEMMA EarlyInvariance == GateSpec => []EarlyInv
<1>1. GateInit => EarlyInv
  BY DEF GateInit, Init, EarlyInv, EarlyComplete
<1>2. EarlyInv /\ GateInv /\ TypeOK /\ [GateNext]_gateVars => EarlyInv'
  <2> SUFFICES ASSUME EarlyInv, GateInv, TypeOK, [GateNext]_gateVars
               PROVE  EarlyInv'
    OBVIOUS
  <2>1. CASE GrantsStep
    BY <2>1, EarlyInvKept DEF GrantsStep
  <2>2. ASSUME NEW event \in TriggerEvent, NEW s \in Serving(fact.affinity),
               NEW opened \in SUBSET Table, ReadTriggers(event, s, opened)
        PROVE  EarlyInv'
    BY <2>2, EarlyInvRead
  <2>3. ASSUME NEW tr \in Trigger, CreateTrigger(tr) \/ DropTrigger(tr)
        PROVE  EarlyInv'
    BY <2>3, EarlyInvKept DEF CreateTrigger, DropTrigger
  <2>4. CASE UNCHANGED gateVars
    BY <2>4, EarlyInvKept DEF gateVars
  <2>5. QED
    BY <2>1, <2>2, <2>3, <2>4 DEF GateNext
<1>3. QED
  BY <1>1, <1>2, GateRefinesGrants, TypeCorrect, GateInvariance, PTL DEF GateSpec

\* An event read before Grants returned is cleared by the same fact when
\* nothing was granted, revoked, restricted or unrestricted since the call
\* began, in whatever order the statements of the two ran.
THEOREM EarlyReadSound == GateSpec => []EarlyReadNeedsNoGrant
<1>1. GateInv /\ EarlyInv /\ TypeOK /\ PresentSoundWithoutLoss => EarlyReadNeedsNoGrant
  <2> SUFFICES ASSUME GateInv, EarlyInv, TypeOK, PresentSoundWithoutLoss, Untouched,
                      NEW t \in Requested, NEW event \in TriggerEvent, Cleared(t, event)
               PROVE  TriggersOn(present[event], t, event) = {}
    BY DEF EarlyReadNeedsNoGrant, Untouched
  <2>1. NoLoss
    BY DEF Untouched, NoLoss
  <2>2. Present(TableQuestion(t))
    BY DEF Cleared, VisibilityFindings, Present, Answer, TableQuestion
  <2>3. TableQuestion(t) \in Asked /\ TableQuestion(t) \in Question
    BY TriggerAssumption, GranteeTextAssumption
  <2>4. Held(TableQuestion(t))
    BY <2>1, <2>2, <2>3 DEF PresentSoundWithoutLoss, NoLoss
  <2>5. fact.affinity # "opaque"
    BY <2>2, <2>3, AnswerPresent DEF Present, TypeOK
  <2>6. TriggersOn(present[event], t, event) \subseteq listed[event]
    BY <2>4, <2>5 DEF Cleared, EarlyInv, EarlyComplete
  <2>7. ServerEvent(event) \in ServerEvents
    BY TriggerAssumption DEF Cleared, PresentFindings
  <2>8. QED
    BY <2>6, <2>7 DEF Cleared, PresentFindings, TriggersOn
<1>2. QED
  BY <1>1, GateInvariance, EarlyInvariance, GateRefinesGrants, TypeCorrect, PresentSound, PTL

----------------------------------------------------------------------------
(* Types.                                                                  *)

DdlCounted == ddl \in 0..MaxDdl /\ created \in BOOLEAN

\* The state of the gate stays within its types: with that of the Grants call,
\* what was listed for each event is a set of triggers, or no result.
THEOREM GateTypeCorrect == GateSpec => []GateTypeOK
<1>0. MaxDdl \in Nat
  BY TriggerAssumption
<1>1. GateInit => DdlCounted
  <2>1. GateInit => ddl \in 0..MaxDdl
    BY <1>0 DEF GateInit
  <2>2. GateInit => created \in BOOLEAN
    BY Zenon DEF GateInit
  <2>3. QED
    BY <2>1, <2>2 DEF DdlCounted
<1>2. DdlCounted /\ [GateNext]_gateVars => DdlCounted'
  <2> SUFFICES ASSUME DdlCounted, [GateNext]_gateVars PROVE DdlCounted'
    OBVIOUS
  <2>1. ASSUME UNCHANGED <<ddl, created>> PROVE DdlCounted'
    BY <2>1 DEF DdlCounted
  <2>2. ASSUME NEW tr, CreateTrigger(tr) \/ DropTrigger(tr) PROVE DdlCounted'
    <3>1. ddl' \in 0..MaxDdl
      BY <1>0, <2>2 DEF DdlCounted, CreateTrigger, DropTrigger
    <3>2. created' = TRUE \/ created' = created
      BY <2>2 DEF CreateTrigger, DropTrigger
    <3>3. QED
      BY <3>1, <3>2, Zenon DEF DdlCounted
  <2>3. QED
    BY <2>1, <2>2 DEF GateNext, gateVars, GrantsStep, ReadTriggers
<1>3. GateInv /\ TypeOK /\ DdlCounted => GateTypeOK
  BY DEF GateInv, GateTypeOK, DdlCounted
<1>4. QED
  BY <1>1, <1>2, <1>3, GateInvariance, GateRefinesGrants, TypeCorrect, PTL DEF GateSpec

=============================================================================
