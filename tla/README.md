# A TLA+ development of dbsgomysql

`dbsgomysql` is a Go library that reads facts from a MySQL server and judges
them. It keeps nothing between calls, starts no goroutine, retries nothing and
opens no transaction. What makes it hard is the other side: one call is often
several SQL statements over a connection it does not own, and the server, its
privileges, the session behind a pool and the group a server belongs to change
between any two of them. Its contract is *fail closed*: a fact that could not be
read is an error, a question that cannot be decided is "unconfirmed", and an
empty list of findings must mean that the question was asked and answered.

The models therefore have the same shape throughout: the server is a state
machine of its own, a call is a sequence of statements that each see the server
of their own moment, any of them may fail, and the properties say what the value
that came out still proves about the server.

## 1. Inventory

| Component | Source (`src/pkg/...`) | State during a call | Operations | What is hard | What makes it correct | Module |
|---|---|---|---|---|---|---|
| Privilege fact | `validations/grants.go` | the account, roles, `partial_revokes`, four source maps, `populated` | `Grants`, then `Global`, `Schema`, `Table` on the fact | seven statements; a pool may change session between them; role grants, anonymous rows, patterns, case variants, partial revokes; rows of others hidden from the account | present means held; absent means no row the server might apply; exact on a still server | `PrivilegeServer`, `Grants` |
| Privilege checks | `validations/checks_privileges.go`, `schemaScanMemo` of `grants.go` | the two scans remembered for a list of tables | `CheckTablePrivileges`, `CheckSchemaPrivileges`, `CheckTriggerVisibility` | a scan made for one table is reused for the next; a scan never needed is not an answer | the findings of a list are those of its items asked one at a time | `PrivilegeChecks` |
| Trigger gate | `validations/checks_triggers.go`, `checks_trigger_visibility.go`, `triggers.go` | the fact and one list for each event | `Triggers`, `CheckTriggersPresent`, `CheckTriggerVisibility` | the server hides triggers silently; reads in any order around the privilege fact; the server sorts by its collation and Go by bytes | a table cleared by both checks had no trigger; the list is in the documented order | `TriggerGate`, `PointReads` |
| Foreign keys | `validations/foreign_keys.go`, `checks_foreign_keys.go` | scanned keys, pending index lookups, the result | `ForeignKeys`, closure, index and cascade checks | a complete source and a visibility-filtered fallback; the fallback's batched index statements | complete is complete; a downgrade is always visible; a clear closure is proof | `Discovery`, `ForeignKeys` |
| Table, key and column facts | `validations/tables.go`, `columns.go`, `checks_pk.go`, `pk.go`, `predicate.go` | rows grouped by table | `Tables`, `PrimaryKeys`, `Columns`, `InvisibleColumns`, their checks | two query shapes that must not decide anything; tables changing between the facts | a cleared table is fit | `PointReads` |
| TableSpec | `validations/spec_capture.go`, `spec_normalize.go`, `spec.go` | the spec captured so far | `TableSpec` | one to five statements with DDL between them; names compared loosely by the server and exactly in Go | exact on a still table; each section a real version | `SpecCapture` |
| DiffSpecs | `validations/spec_diff.go` | none | `DiffSpecs` | folding, collisions, display widths, sections only one side captured | an empty list means the same table | `SpecDiff` |
| Schema comparison | both of the above | two specs | `TableSpec` twice, `DiffSpecs` | versions that spell one table differently, DDL on either server | agreement is agreement of what was read | `SchemaCompare` |
| Decoding and row reading | `replication/decode.go`, `indexColumns` and the row decoders of every fact | the column index, the fields so far, the rows so far | eight decoders; a result set of each of eight facts | driver-dependent types, widths, float rounding; columns reordered, repeated or missing | each field is what the server sent under its name, or an error that names the row | `Decode`, `RowReads`, `ServerReads` |
| BinaryLogStatus | `replication/binary_log_status.go` | the first error, the rows | `BinaryLogStatus` | two spellings over an unknown version, errors that cannot be classified, contexts | nil means no binary log; an error names its cause | `ServerReads` |
| Group facts and gate | `replication/group_replication.go`, `group_members.go`, `group_member_stats.go`, `group_replication_checks.go` | two values or two lists | `GroupReplication`, `GroupMembers`, `GroupMemberStats`, four checks, the documented gate | two reads; stopped, never-started and expelled servers that look idle or healthy; other members' counters are copies of an earlier moment | a passed gate proves both moments, and of other members' queues what a copy can | `GroupGate` |
| Replica status and job loop | `replication/replica_status.go`, `checks.go` | open rows, decoded channels, the first error | `ReplicaStatus`, three checks, the documented loop | row lifecycle: columns, scan, decode, iteration, close | a batch runs on a whole, healthy, fresh snapshot; no tick hangs | `ReplicaGate`; promise: `ListFact` |
| Registered replicas | `replication/registered_replicas.go` | open rows | `RegisteredReplicas` | nothing beyond its result set | the whole list or an error | `RowReads`, `ServerReads`; promise: `ListFact` |
| Variables | `replication/variables.go` | — | `BinaryLogEnabled`, `GTIDStatus`, `ReplicationConfig` | decoding in order | the first column to blame is named | `RowReads`, `ServerReads` |
| Catalogs, findings, errors, quoting, test support | `*/catalog.go`, `finding.go`, `errors.go`, `sqlutil`, `internal/`, `tests/` | — | — | text | — | not modelled |

The components meet in three places: an Inspector calls its Querier (statements,
rows, errors), a caller hands the fact of one call to a check together with the
fact of another (grants with triggers, members with stats, one spec with
another), and all of them share the server. There are no callbacks and no
messages.

## 2. Modules

| Module | Role |
|---|---|
| `PrivilegeServer` | MySQL's privilege tables as the statements of `Grants` see them: rows by scope, what an account holds, which rows it is shown, `GRANT`, `REVOKE`, partial revokes, `SET ROLE`. Derived from how `grants.go` uses them and from the pinned behaviour the code cites; external. |
| `Grants` | The seven statements, one action each, `Fail` for any of them, the fact, and the pure answers with every downgrade. |
| `PrivilegeChecks` | Extends `Grants` with the checks over lists of tables and of privileges and the memo their loop carries. |
| `TriggerGate` | Extends `Grants` with trigger DDL, the event reads and the two checks. |
| `Discovery` | The abstract promise of `ForeignKeys`: a complete answer is the registered constraints of one instant, a partial one is labelled. |
| `ForeignKeys` | The real call, with its sources, batches and checks. Refines `Discovery`. |
| `PointReads` | The table, key, column, invisible-column and trigger facts with both query shapes, over a changing schema, and their checks; the validation at the head of each. |
| `SpecCapture`, `SpecDiff`, `SchemaCompare` | The capture, the comparison, and their composition: the source's capture extended with a second instance for the destination and one of the comparison. |
| `Decode` | Decoders and bound checks over machine words of any even size. |
| `RowReads` | The columns of each replication fact, how they are found in a result set, the decode order, the rows one after the other, and what an error names. |
| `ServerReads` | One call to a replication Inspector: a fact of one statement, or the two statements of `BinaryLogStatus` with their rows and the causes of an error. |
| `ListFact` | The abstract promise of the list facts of `replication`: an answer is the whole list of one moment of the call, or an error and no list. |
| `GroupGate` | A group member's server, the two-statement fact, and the two-read gate. |
| `ReplicaGate` | The job loop around one `SHOW REPLICA STATUS` a tick, row by row. Refines `ListFact`. |
| `Lists` | What a loop keeps of a list, a stable sort, and one list after another, defined by counting so that proofs reach them; positions and orders are sets. |
| `MC*` | Constants of the instances TLC checks; no property lives there. |
| `PrivilegeProofs` | Theorems of `Grants`, `PrivilegeChecks` and `TriggerGate`. |
| `ReplicationProofs` | Theorems of `ServerReads`, whose specification is called `ReadSpec`, of `ReplicaGate`, and of `GroupGate`, whose is `GroupSpec`. |
| `ForeignKeysProofs`, `PointReadsProofs`, `SpecCaptureProofs`, `SpecDiffProofs`, `SchemaCompareProofs`, `ListProofs` | Theorems of the module each is named after. |

How state and actions correspond to the code, the same way in every module:

- `pc` (`readPc`, `factPc`, `gatePc` in the replication modules) is the statement
  a call runs next; an action is one statement with
  everything the code does to its rows before the next statement. `Call` and
  `Refuse` are the validation at the head of the operation.
- the variables named `fact`, `groupFact`, `result`, `spec`, `diffs`, `members`, `read`,
  `error` are the Go values of that name or type, reduced to what the properties
  tell apart; a name is a model value, and how two names compare (exactly,
  folded, as a pattern) is a constant of the module.
- server actions (`Environment`, `Ddl`, `ServerStep`, `Change...`) are what
  others do to the server between two statements.
- history variables say what was true at an earlier moment. Each is marked
  `history` and no action of the code reads one.
- a definition under the comment *A plausible slip* is a mutated form of the
  definition below it. No specification uses it; putting it in the place of its
  original must break the property it is listed with in `PROJECT.json`.

## 3. Runs

All state counts are of the configurations in this directory.

| Run | Properties | Shows | Bounds, and why they are enough |
|---|---|---|---|
| `grants_quiet` (1.05 M states) | `QuietAnswerExact`, `FindingsExact` | on a still server each answer is exactly what the documentation promises, and a list of questions gets the answers of its items: nothing remembered of one table reaches another | up to three grant rows, at least one of them bearing on visibility or two on the question: every downgrade needs at most the row it concerns, a row that hides it and a row that shows it. All affinities, role states of three sessions, and both settings of `partial_revokes`. Lists of up to three tables, with a repeat, so that a scan is remembered both from a table that needed it and past one that did not. |
| `grants_change` (776 k) | `TypeOK`, `PresentSoundWithoutLoss`, `PresentHeldAtSomeMoment`, `AbsentSoundWithoutGain` | what present and absent are worth under change | two server changes: the least that can withdraw one piece of evidence and add another. The theorems remove the bound. |
| `trigger_gate` (1.25 M) | `ClearedHadNone`, `EarlyReadNeedsNoGrant`, `ClearedHasNone` | what a clearance proves | one privilege change and one trigger statement, placed anywhere among ten statements; two tables so that findings do not clear the wrong one |
| `foreign_keys` (204 k) | `ClosureProof`, `UnindexedNeedsChange`, `VerdictGiven`, `CallReturns`, `PromiseKept` | the sources, the fallback, the batches, and the refinement of `Discovery` | four constraints, one for each relation to the requested tables; three statement parameters, so a batch holds one pair and three children need three batches; two changes |
| `foreign_keys_slash` | `CompleteIsRegistry` (violated) | finding 1 | a schema whose name holds a slash |
| `spec_diff` (10,952) | `DiffExact`, `OneToOne`, `RecasedOnce`, `Mirrored` | the comparison against an independent definition of sameness | columns of up to three names of which two fold together, every default, width, part order, constraint pair and pair of capture flags that a branch of the code tells apart |
| `spec_diff_shared` | `EmptyMeansSame` (violated) | finding 2 | constraints that share a name |
| `schema_compare` (2.07 M) | `RowsFaithful`, `QuietSpecExact`, `SectionsInOrder`; `AgreementExact`, `AgreementOfMoments` | what each statement's rows amount to; what one spec is evidence of; what an empty list of differences proves, still and under DDL | two DDL statements under the source's five statements (away from a table and back), one under the destination's; a neighbour table whose name differs only in case; the destination differs from the source's table in each section, the sections being asked for apart |
| `point_reads` (1.36 M) | `ShapeNeverDecides`, `ClearedMeansFit`, `ClearedWhenRead`, `CaseIsOneFinding`, `TriggerOrdersAgree` | facts and checks over a changing schema; triggers in firing order in the fact and its check alike | two changes; a lookup limit of one, so both shapes occur; requests with repeats, case variants, an empty name and one that cannot be bound; two trigger names that bytes and the server's collation sort in opposite orders |
| `server_reads` (130 k) | `FactFaithful`, `FailureNamesRow`, `BoundsExact`, `AnswersProve`, `ErrorHasCause` | result sets of every fact; versions, contexts and lost connections of `BinaryLogStatus` | words of four bits for 64: each boundary (both signs, `2^63` as a float, half integers) has values on either side; each cell in each column, any two columns that fail, columns in another order, repeated, missing or extra, and result sets of no, one and two rows, the bad one first or last; three server versions, two writes to the log |
| `group_gate` (1.10 M) | `PassedProves`, `QuietVerdictExact`, `NameProvesMoment` | the gate and the fact on a changing member | three server changes (for instance expel, stop, start; or a peer that leaves, gathers a backlog and returns) and a peer; the copy of its counters is as old as its last refresh, and a stats row may be missing for any member |
| `replica_gate` (402 k) | `BatchProved`, `FirstFailureReturned`, `TickAnswered`, `KeepsListPromise` | the loop, and the refinement of `ListFact` | two ticks, so the second depends on the rows of the first being closed; two channels, so a prefix of the result exists; a filter that matches nothing |

`CHECK_DEADLOCK FALSE` is set where a call may have returned and the bounded
server has no change left: the program has stopped because it is done.

**Fairness.** Nothing here schedules itself, so most specifications state none
and have no liveness property. `ForeignKeys` and `ReplicaGate` have a `FairSpec`:
weak fairness of the call's own statements, that is, the driver answers or fails
every statement, as `database/sql` does under the context the caller passes. The
server's steps, ticks and cancellation are never forced.

### Findings

1. `foreign_keys_slash`: in a schema whose name holds a `/`, `ForeignKeys`
   reports `VisibilityComplete` and misses registered constraints.
2. `spec_diff_shared`: `DiffSpecs` matches constraints by name alone, although a
   CHECK and a foreign key may share one; a difference disappears, and two
   identical tables may be reported as different.
`PROJECT.json` quotes the lines.

Two more divergences were seen while modelling. No run is kept for them:

- A table dropped after `resolveTable` and before `captureColumns` yields a spec
  without columns and no error (`spec_capture.go:61`), where the comment above
  `TableSpec` promises an error for a missing table. In the model this is a
  behaviour `SectionsInOrder` admits: the columns are those of a later moment at
  which there was no table.
- Where the server compares table names without case
  (`lower_case_table_names` 1 or 2), a request that holds two spellings of a
  table doubles its rows in the derived-table join (`predicate.go:79`), so a
  single-column key is reported as composite, while the schema scan answers
  otherwise. `ShapeNeverDecides` is checked with `Folded` the identity, as on the
  repository's test servers; with a folding `Folded` TLC refutes it.

## 4. Proofs

TLC checks small instances; these hold for all constants that satisfy the named
assumptions (`ServerAssumption` and its siblings in the component modules).

- **`PrivilegeProofs`**, privilege fact: `TypeCorrect`; `PresentSound` (without
  a revocation or restriction since the call began, present means held);
  `PresentOnceHeld` (without a switch of `partial_revokes`, present was true at
  one moment of the read). Neither property is inductive, since the fact is only
  evidence in the making. `IInv` says, for each recorded row, when it was seen: a
  source of the account is a row that was held at a moment since the call began,
  and is still held unless a loss is on record; the global map is empty until
  `partial_revokes` was read; and the recorded setting is the current one unless
  it was switched. The proof has one step for each statement and one for each
  server change, and `AnswerPresent` reduces an answer to such evidence.
  `AbsentSound`: only a pinned, role-free read by an account with `SELECT` on the
  schema `mysql` answers absent. `AInv` carries, statement by statement, that the
  account saw every row that could apply and that every such row still there was
  recorded; revocations other than of that `SELECT`, and restrictions, only
  remove rows. `QuietAnswers` adds the other direction on a still server: `QInv`
  says that the account's sources are the account's rows, neither more nor fewer,
  and that without a role there is a row behind every source, so evidence is
  always enough for present and its want, on a read that sees all, for absent.
- **`PrivilegeProofs`**, checks: `MemoTransparent`, for any fact: a memo is sound
  when each scan it holds is the answer a fresh scan would give; one step of the
  loop keeps it sound, and under a sound memo a table gets the answer it gets
  alone. `FindingsAreExact` is what follows for lists of any length: that the
  memo is sound after n tables, and the n-th finding right, is an induction over
  the set of numbers for which it holds (`UpTo`), which needs no induction
  theorem with an operator parameter. Its hypothesis is `RequestAssumption`, that
  a request is a list.
- **`PrivilegeProofs`**, trigger gate: `GateRefinesGrants` (a step of the gate is a step of
  `Grants` or a stutter, so its theorems carry over), `GateTypeCorrect`,
  `ClearedProof`, `ClearanceCoversEvents` and `EarlyReadSound`. `GateInv` says
  that a list read with the privilege held is the whole list, and that without a
  creation a table only loses triggers. `EarlyInv` says the same of reads that
  overtook the fact: while no privilege changed in either direction, what the
  account holds when the fact returns it held when the list was read. The
  returned fact never changes, which is its own lemma.
- **`ForeignKeysProofs`**: under `NamesRoundTrip` (a name written
  `schema/table` splits into itself, exactly what finding 1 lacks)
  `CompleteProof`, `ClosureSound`, `VerdictSound` and `KeepsPromise`, the
  refinement of `Discovery`: `FInv` ties a result to the registry as its source
  was read, and `StepSimulation` maps every statement to a step of `Discovery` or
  a stutter. Without that assumption: `TypeCorrect` and `IndexedSound`, whose
  invariant says of every pair of a batch that it is pending still, or was marked
  indexed, or lacked its index when its batch was read.
- **`SpecCaptureProofs`**: every property of `SpecCapture`, for tables of any
  size and any number of DDL statements: `TypeCorrect`, `RowsAreFaithful`,
  `SpecInOrder` and `QuietSpec`. `RowsAreFaithful` is not about steps but about
  data, and is proved as such. A table's own rows come out of the server's sort
  in the order they have, whatever rows of a neighbour stand between them
  (`KeptOwn`, from `SortedKept` of `ListProofs`); the rows of a section are one
  list for each object, one after another (`NamedLists`), and a maximal run of
  rows of one name is exactly one such list (`RunsOfLists`), since the names of a
  kind differ; and the checks and the foreign keys, each in order, sort into the
  whole (`HalvesSorted`, since a sorted list is the only one of its elements).
  From it the other two follow by the order of the statements: the
  invariant has a conjunct for each section captured so far, naming a version of
  the table it is from, these versions being in the order of the statements.
  The assumption on tables is `IsTable`: what MySQL guarantees of columns,
  indexes and constraints, a CHECK and a foreign key of one name included.
- **`ReplicationProofs`**, Group Replication: `GateInvariant` and, from it, `GatePassProves`,
  `GateVerdictExact`, `FactNameProves`, for a group of any size. `ServerOK` keeps
  the server one that could exist (an expelled member sees a peer it cannot
  reach, without which a stopped server would pass for a healthy one); `CopiesOK`
  says what a row about another member is worth, a moment since that member
  entered the view; `GateOK` says what the first read leaves for the second to
  build on.
- **`ReplicationProofs`**, job loop: `ReadInvariant`, `BatchIsProved`, `FirstFailureKept`,
  `ConnectionReturned` (no tick begins with the rows of an earlier one open) and
  `ReadKeepsPromise`, the refinement of `ListFact`. `RInv` says that between two
  rows what was decoded followed by what the driver still holds is the server's
  list, and from the last row on either the read is the list and no failure
  occurred, or it is empty and the error is the first failure.
- **`ReplicationProofs`**, reads: every property of `ServerReads`: `FactIsFaithful`,
  `FailureIsNamed`, `BoundsAreExact`, `AnswersAreProved`, `ErrorsNameTheirCause`.
  The foundation is `DecodesExactly`: for every even width of the machine words,
  each decoder succeeds exactly when its Go type holds the cell and returns the
  number that was sent, by a lemma for each width and sign (`SignedFits`,
  `NarrowDecodes` and their siblings). On it stand `ColumnExact` (a column is
  read where its name first occurs), `FactExact` and `FailureExact`, for result
  sets of any size; no induction is needed, because the first of several columns
  or rows is the least element of a set. `ReadInv` says only that a fact stays
  what it was made of. `CallInv` says of `BinaryLogStatus` that its row is of a
  moment of the call and that the causes of its two statements cannot both be a
  spelling the server lacks. The hypothesis on result sets is `ReadsAssumption`:
  each row has a cell for each column of the header.
- **`ListProofs`**, lemmas the other proofs cite: what the operators of `Lists` return, whatever the list. The
  definitions count (the k-th element of an order is the one with k - 1 before
  it), so nothing is recursive and the lemmas need no induction over data:
  `InOrderLists` is a pigeonhole argument on ranks, and `InOrderUnique` says that
  whatever lists a set in an order is that list. Everything else is an instance:
  what a loop keeps (`ChosenElements`, `ChosenOrder`), a stable sort
  (`SortedLists`, `SortedAlready`, `SortedUnique`), what a sort leaves of the
  order of those it keeps (`SortedKept`), one list after another
  (`FlattenedEntries`, `OneOfLists`).
- **`PointReadsProofs`**: every property of `PointReads`, for every list of
  requests. `PointInv` says that a fact stays what its statement made of the
  objects of that moment, and that while nothing changed that moment is the
  present; the rest is what the pure operators make of a list with repeats.
  `CaseIsReportedOnce`, `ClearanceOfMoments` and `ClearanceIsFit` hold for every
  collation. `ShapeOnlyNarrows` and `TriggerOrdersKept` have the hypothesis
  `ExactNames`, that the server equates no two spellings, without which they are
  false (section 3, Findings). `TriggerOrdersKept` reads the trigger list through the
  request and the place each trigger comes from: the first trigger of a table
  stands in the list of its first request (`FirstsInOrder`), and the places of a
  table hold a copy of its triggers for each request (`TableTriggers`).
- **`SpecDiffProofs`**: every property of `SpecDiff`, for specifications of any
  size. The heart is that the matching by exact name, else by a fold that is
  unique on both sides, is the same relation read from either side
  (`PairedSymmetric`), although the code looks up one side in an index of the
  other; `MatchingIsOneToOne`, `RenamingIsReportedOnce` and `SidesDoNotMatter`
  follow with a lemma for each kind of difference. `DiffIsExact`,
  `RenamingIsReportedOnce` and `SidesDoNotMatter` assume `DistinctConstraints`, no
  two constraints of one name in a table, which is what finding
  `spec_diff_shared` lacks; that no two columns and no two indexes have one
  spelling is `SpecDiffAssumption`, as MySQL guarantees.
- **`SchemaCompareProofs`**: what an empty list of differences says of two
  servers, for tables of any size and any number of DDL statements. Nothing of
  the two components is proved again: `SchemaCompareProofs` extends
  `SpecCaptureProofs` for the source, has a second instance of it (`Dst`) for the
  destination and one of `SpecDiffProofs` (`Diffs`) for the comparison.
  `SourceCaptured` and `DestinationCaptured` say that a comparison is a behaviour
  of each, so `SpecInOrder` and `QuietSpec` hold of both sides; the lemmas called
  `...Alike` say that an operator of one instance is that of another. `CInv` adds
  that two specifications were compared only after both calls had returned one.
  `SpecsAgree` of `SpecDiffProofs` turns an empty list into agreement section by
  section, whatever the specifications come from. `AgreementProvesMoments` follows
  without a hypothesis, since it claims nothing of constraints;
  `AgreementIsExact` has `DestinationDistinct`, distinct constraint names on the
  destination. The source needs none: the comparison keeps the last constraint of
  a name on its second side only, and where those are distinct a repeat on the
  first side cannot vanish. Both rest on `SchemaCompareAssumption`: the declared
  tables are tables on either server, and folding a folded name changes nothing.

The two refinements carry weight elsewhere: because a row-by-row read implements
`ListFact`, `GroupGate` and the other modules may take a list fact as one step
that succeeds with the list of one moment or fails.

**Only model-checked.** `CallReturns` and `TickAnswered`, which are liveness
under fairness and out of the prover's reach, as are `ENABLED` and induction
over data. Every safety property of every passing run is a theorem. No module declares a
recursive operator. The type invariants of `TriggerGate`, `ForeignKeys` and
`SpecCapture` are theorems and no run repeats them.

## 5. Abstractions and what is not modelled

- Names, clauses, types and messages are model values. Where a conversion can go
  wrong it is modelled by what it does: the split of `schema/table`, the grantee
  text, name folding, `EXTRA` words, machine words.
- Order and repeats of results are kept where code or a property depends on them
  (columns, key parts, specs, channel rows) and left out elsewhere (grants, the
  foreign-key list, group rows).
- A driver's result set is computed at its statement. In `ReplicaGate` its rows
  arrive one at a time; elsewhere a statement and its rows are one action that
  succeeds or fails as a whole, because every parser of the library drops what
  it has read on a failure. `ReplicaGate` is where that is checked.
- The server is trusted to be the MySQL the code's own comments and
  `docs/COMPAT.md` describe. What is external in the map is derived from how
  the code uses it.
- The instances of `Grants` give each account a grantee text that matches its
  rows; an account whose host holds an `@`, which matches none, is left to the
  theorems, which hold for every `GranteeText`.
- Of a privilege finding the item and the state are kept, of a trigger finding
  the name and its place; evidence texts and finding codes are wording.
- In `SpecCapture` one order of names, `Rank`, stands for the order the server
  sorts by and for the byte order of `sortConstraints`: the latter decides the
  order of the constraints alone, and both sides of a comparison use it.
- In `GroupGate` a remote member's stats row is a copy of that member's counters,
  taken by `Refresh` and dropped when the member leaves the view or the server
  leaves the group; before the first copy there is no row, as the integration
  test that waits for rows of every member expects. So `PassedProves` says of the
  queues of other members only that they were within the bound at some moment
  since the member entered the view, which may be before the gate began: a gate
  passes while a member it lists has a backlog, and did throughout. That the
  copies are refreshed within a period is a matter of the server's clock and is
  not modelled, so no bound on their age is claimed.
- `TriggerGate` takes an event's list as a set; its order is in `PointReads`.
- `RegisteredReplicas` has its result set in `ServerReads`; its row lifecycle is
  line for line the one of `ReplicaStatus`, which `ReplicaGate` models.

**Not modelled.** The check catalogs, findings and errors (`catalog.go`,
`finding.go`, `errors.go`: identifiers and wording, no state); `sqlutil` (string
formatting, with its own fuzz tests); `internal/testsupport`, fixtures and CI
(test code: containers, accounts and replication set-up, not part of the
library).

## 6. Plan

Done, in the order it was built: privileges, their checks and their gate, foreign
keys, spec comparison and capture, point reads, decoding, the replication facts
and gates; the abstract specifications `Discovery` and `ListFact`; a theorem for
every safety property of the privilege modules, foreign keys, the gates, the
point reads, the replication reads, the capture, the comparison and their
composition, and for every type invariant.

What is left: `ReplicaGate`'s row lifecycle for `RegisteredReplicas`,
`GroupMembers` and `GroupMemberStats`, whose code is the same but for the names.
