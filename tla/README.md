# A TLA+ verification of HiveMap

HiveMap keeps, per workspace, a semantic graph of a code base with categories,
projections, proposals, feedback and repository scans, in Postgres, behind one
runtime that an HTTP API and an MCP server share; a browser client renders it.
This directory holds TLA+ modules of that system, the TLC configurations that
check them, and theorems checked by TLAPS.

File and line references are relative to the repository root.

## 1. Inventory

| part | code | state | operations |
|---|---|---|---|
| operation coordinator | `packages/runtime/src/operation-coordinator.ts` | `tails` (key → promise), `exclusiveOperations` | `run`, `runExclusive` |
| repository indexes | `packages/runtime/src/index.ts:306-596` | rows of `repository_indexes`, fact tables | start, execute, search, evidence candidates, boundary map |
| repository executor | `packages/runtime/src/repository-{indexing,checkout,git-command,source,facts}.ts` | a temporary checkout, totals | fetch, inventory, checkout, read, remove |
| content facts | `packages/runtime/src/repository-{content-facts,fact-budget}.ts` | a fact budget | source kinds, chunks |
| evidence candidates | `packages/runtime/src/repository-{evidence-candidates,path}.ts` | none | six criteria over facts |
| boundary map | `packages/runtime/src/repository-boundary-map.ts`, `packages/scans/src/boundary-map-{validation,build-config}.ts` | none | build, validate |
| workspace mutations | `packages/runtime/src/index.ts:224-231, 746-1219` | one saved `WorkspaceState` per workspace | graph commands, assign category, create projection, record feedback, proposals, scans |
| semantic graph | `packages/graph-core/src/index.ts` | nodes, edges | six commands, validation |
| scan runs, findings | `packages/scans/src`, `runtime/src/{scan-deletion,finding-command-policy}.ts` | run, findings, calibration decisions, evidence | validation, attach, cascade |
| calibration | `packages/runtime/src/index.ts:884-1195, 1455-1770`, `scans/src/scan-coverage.ts` | the run | assessments, decisions |
| profiles, overlays, guidance | `packages/runtime/src/scan-profile-{overlay,context,guidance}.ts` | the overlay file of a repository | read, merge, validate, suggest |
| scan comparison | `packages/scans/src/scan-comparison.ts` | none | compare two completed runs |
| capture, categories, projections | `packages/{capture,categories,projections}/src` | rows of the workspace | validation and construction |
| Postgres store | `packages/storage/src/{postgres-store,postgres-schema-sql,store-support}.ts` | the database, a pool | initialise, load, save, replace, records, readiness, close |
| in-memory store | `packages/storage/src/in-memory-store.ts` | Maps | the same contract |
| embeddings | `packages/runtime/src/index.ts:658-744` | vectors with a content digest | upsert, similar concepts |
| API process | `apps/api/src` | HTTP server, handlers of signals | health, errors, shutdown |
| web client | `apps/web/src` | the screen, the queue, history of the tab | load, write, navigate |

**How they interact.** API and MCP handlers call one `HiveMapRuntime` in one
Node.js process. Every mutation calls `OperationCoordinator.run` with the key
of its workspace, loads the whole workspace state in a query per table,
computes the next one with pure functions, and saves it (validation, then one
transaction). An index execution first calls `runExclusive` under one
process-wide key and inside it `run` under the key of its workspace; there it
alternates database calls with a call of the executor. Reads (search, evidence
candidates, boundary maps, finding validation, similar concepts, every list)
take no key. The browser sends one request at a time and queues what the
browser's own buttons ask for meanwhile.

**What is hard.**
* Concurrency: calls interleave at every `await`; promise chains instead of a
  lock; two nested keys; readers beside a running execution; loads of twelve
  queries beside a commit; two servers that start together.
* Failure: each database call and each git command may fail, or take effect and
  lose its answer, or be killed; the process may stop between any two; nothing
  repairs a row at start-up except the next execution.
* Order: a requested ref moves during and between executions; a proposal is
  approved long before it is applied; a scan is completed after its index was
  rebuilt; a vector arrives after its concept was edited; the browser goes back
  before the operation for it runs.
* Data: limits met exactly, globs, links, quotes in overlay files, rows whose
  rules are written three times, results that should depend on the order of an
  index in nothing but the choice of a harness.

**What makes the parts correct.**
* Coordinator: one operation per key at a time, in order of arrival; nothing
  lost, leaked or stuck.
* Indexes: a row that says *completed* is true; an attempt starts from nothing;
  a scan records one revision.
* Executor: an answer is one whole revision the ref named meanwhile, or an
  error; limits are exact; nothing stays on disk.
* Workspace: saved states are valid; dedicated operations are never refused by
  the validation of unrelated records; findings belong to one calibrated run
  for life; completed runs do not change; runs can be deleted.
* Store: what is there is one write; the schema accepts what validation
  accepts; both adapters are one contract.
* Pure parts: agreement with a reference definition, with their inverse, or
  with the rules of the module that reads their result.
* Servers and screen: every wait ends, nothing is cut off, the quiet screen is
  what the location says.

`PROJECT.json` lists every component and every hazard with its line.

## 2. Modules

| module | role |
|---|---|
| `KeyedQueue` | abstract specification: one FIFO queue per key, its head may be inside |
| `OperationCoordinator` | the promise chains, and the runtime's use of them; the queues of `KeyedQueue` read off them |
| `OperationCoordinatorProofs` | the inductive invariant, its consequences, the refinement |
| `RepositoryIndexing` | rows, facts, executions, readers, scans as far as they depend on an index |
| `RepositoryIndexingProofs` | what holds at each place of an execution and under the key |
| `ExecutorPromise` | abstract specification: each question is answered by one revision or an error |
| `RepositoryTree` | entries of a tree and the limits on them |
| `RepositoryExecutor` | git commands, files, limits and the temporary directory |
| `RepositoryExecutorProofs` | the temporary directory, the limits, and that `RepositoryExecutor` implements `ExecutorPromise` |
| `RepositoryContent` | source kinds, chunks of a file, the fact budget |
| `RepositoryPaths` | globs and link targets: the search, the normalization |
| `GlobsAndLinks` | what a glob means and where a link leads, without search or normalization |
| `DocumentEvidence` | contradictory, stale, duplicate and unowned documents |
| `BrokenReferences` | links to files and headings |
| `DuplicateResponsibility` | symbols of one name in several files, and how entangled the files are |
| `BoundaryMap` | boundaries, ownership, relations, tests, contracts, and the validation of the map |
| `RepositoryEvidence` | content facts, paths, the four evidence criteria and the boundary map side by side |
| `RepositoryEvidenceProofs` | the properties of all six, for any files, documents, symbols, dependencies and rules |
| `WorkspaceState` | what a workspace saves, its validation, graph commands, finding policy, projections, cascade |
| `WorkspaceMutations` | the mutations as actions over one workspace |
| `WorkspaceMutationsProofs` | the cascade keeps a workspace valid, every saved workspace is typed and valid, and what its findings and runs keep |
| `ScanCalibration` | one run from start to completion: assessments and decisions |
| `ProfileOverlay` | overlay files: reader, merge, validation, scaffold |
| `ScanComparison` | two runs of one profile |
| `StoreSchema` | tables of a workspace and what their foreign keys do |
| `PostgresStore` | loads, saves, replacements, statement by statement |
| `PostgresStoreProofs` | whole writes and loads, for any sessions and shapes |
| `StoredRecords` | validators, CHECK constraints, rows and records |
| `StoreAdapters` | the same calls given to both adapters |
| `StoreStartup` | servers that start on one database |
| `StorageReadiness` | pool, probes and answers while the database comes and goes |
| `ConceptEmbeddings` | vectors beside edits and queries |
| `ScansAndStores` | calibration, overlays, comparison, records, adapters and vectors side by side |
| `ScansAndStoresProofs` | calibrated findings, comparisons, records and adapters for any inputs |
| `ServerShutdown` | signals, open requests, the exit |
| `WebWorkspace` | screen, queue and history of one browser tab |
| `ServersAndScreen` | start, pool, shutdown and tab side by side |
| `ServersAndScreenProofs` | the safety of all four |

The modules `MC...` give constants to TLC. Three modules put several components
that share no state side by side, `RepositoryEvidence`, `ScansAndStores` and
`ServersAndScreen`: a variable `part` says which component a behaviour is
about, and the variables of the others stay as they are. A property of such a
module is the conjunction of the properties of one component, each of which is
stated, with its comment, in the module of that component.

Components that interact compose by promise. `OperationCoordinator` proves
mutual exclusion per key; `RepositoryIndexing` takes it as the variable `lock`
and looks at every database call of the operations that have several;
`PostgresStore` and `ConceptEmbeddings` take it as `lock` too;
`WorkspaceMutations` takes it together with the transaction of a save, which
`PostgresStore` shows to be whole, and makes each mutation one step.
`RepositoryExecutor` implements `ExecutorPromise`, and that is all
`RepositoryIndexing` assumes of its action `RunExecutor`. What an operation
decides from index facts is any answer in `WorkspaceMutations`; the boundary
map `ScanCalibration` judges is any map `BoundaryMap` could give.

### OperationCoordinator

A run of the coordinator is a pair of a call and a key. `pred` is the promise
`predecessor` it captured, `released` are the runs whose `current` has been
resolved and `settled` those whose `tail` has. A `tail` settles in a step of
its own (`SettleTail`), so every order of microtasks is a behaviour. One action
per stretch of code between two awaits:

| code | action |
|---|---|
| `run` up to `await predecessor` (28-36) | `Enqueue`, in `CallMutation`, `CallExecution`, `EnterGlobal` |
| after `await predecessor` | `EnterWorkspace`, `EnterGlobal` |
| `finally` of `run` (39-44) | `Leave`, in `LeaveWorkspace`, `LeaveGlobal` |
| `runExclusive` refuses (16-18) | `RejectBusy` |
| `finally` of `runExclusive` (22-24) | `ForgetExclusive` |

`ticket`, `issued` and `served` are history: the order in which runs asked.
A mutation that throws leaves through the same `finally`, so success and
failure are one action.

### RepositoryIndexing

`record` is the row (stage, commit, stats), `facts` the revision the fact rows
were built from, `execution` the one execution that holds the global key,
`session` the operations that read facts (a program counter, what the row said,
and what each query returned), `scan` the runs. Each database call of an
execution is an action with an outcome: *ok*, *failed*, or *lost* (it took
effect, but the caller gets an error). Where that error goes follows the code:
`MarkResolving` and `ClearContents` are outside the `try` and end the
execution; the rest go to `RecordFailure`. A read and the write that follows it
in `bumpRepositoryIndexStage` and in the catch block are one step, since the
row belongs to the execution meanwhile. The checks at the start of a reader
(the run, the row) are one step; each list query is one. `Crash` clears memory
and keeps the database.

### RepositoryExecutor

`history` is the tree of every commit, `remote` the commit the ref names,
`disk` the temporary directories with what was fetched and checked out, `run`
the execution. One action per git command or file system call
(`withSafeRepositoryCheckout`, 32-54): `MakeRoot`, `Prepare`, `Fetch`,
`Resolve`, `Inventory`, `Checkout`, `ReadFile` for each tracked file, `Derive`,
`RemoveRoot`. Each may fail or be killed at its time limit, before or after it
took effect. `MoveRef` and `Crash` may come between any two. An entry of a tree
is its kind, its size as git reports it, its size once written (line ends), and
the facts and dependencies it gives; which bytes it holds does not matter here.
`RepositoryContent` has the chunks.

### Evidence and boundary map

A line is what the patterns of the code make of it: a heading, the tokens of a
claim, a marker, its links. What the code does with these is modelled in full:
headings over lines, pairs in order with their early exits, precedence, the
first of each id, the limit; topology before names for duplicates; roots,
owners by the longest prefix, relations and tests for the map. An index is a
set of facts with ordinals, or, for the map, a sequence of files in the order of
their ordinals: two things are taken from the first file the code meets, the
root of a boundary (`IsFirstWithId`) and the harness of a test suite without
public symbols (`Harness`). A path is the sequence of segments between its
slashes, with an empty one before a leading and after a trailing slash: `//a` in
a link is the absolute path `/a` once its first slash is taken off
(`repository-evidence-candidates.ts:1100`), as in `RepositoryPaths!Resolved`, and
names no file of an index. Where the code sorts, the module has the comparator
(`Earlier`, `Before`), and what a limit keeps are the candidates with fewer
than that many before them. The inputs are enumerated as initial states; only
chunks are made step by step (`TakeSegment`), because the budget may end that
in the middle. `InputsAreIndexes`, `InputsArePaths` and `ConstantsAreSound` say
what the schema and the content facts guarantee of an index: types, unique
ordinals, keys and paths, chunks of a file that share no line.

### WorkspaceState and WorkspaceMutations

A table is a function from the ids it holds to rows, a node keeps its type and
the finding metadata others depend on (origin run, affected nodes, status). A
run keeps status, whether its coverage is the derived or a corrected one, its
latest calibration decision, its finding ids, the evidence snapshot (the
findings as they were at completion) and whether an override was given. Only
the latest decision matters to a gate (`requireCalibrationDecision`).
`ApplyGraphCommands` folds a batch and answers `None` when a command is
refused; `Save` is validation plus the foreign key of `feedback_events`, the
one constraint of the schema that validation does not imply.

| code | operator |
|---|---|
| `validateWorkspaceState` and what it calls | `ValidWorkspaceState` and its conjuncts |
| `assertGenericCommandsDoNotMutateFindings` | `GenericCommandsSpareFindings` |
| `attachProposedFindingCreates` | `ProposalMayAttach`, `WithAttached` |
| `deleteScanFromWorkspaceState` | `WithoutScan` (`IncidentEdges`, `Trimmed`, `LosesAll`) |
| `createDiveInProjection`; overview and project map | `DiveIn`; `Selection` |
| each mutation of the runtime | the action of the same name |

The effects of `createScanFinding` and `completeScan` are operators
(`MayCreateFinding`/`WithFinding`, `MayComplete`/`WithCompletion`) so that a
property can speak of what they compute before validation sees it.

### ScanCalibration, ProfileOverlay, ScanComparison

`ScanCalibration` follows one run (`run`) over an index (`indexed`) whose
repository has an overlay file (`overlay`). Globs are the sets of files they
match. Each operation that assesses is an action that leaves its assessment in
`answer`; `continued` is history, the coverage of the last decision to
continue. `ProfileOverlay` reads a file section by section (a key with the
lines below it), line by line, and keeps the open list from line to line, as
the code does. Characters matter there, since quotes, hashes and blanks are what
the two grammars disagree about, so texts are sequences of a few characters.
`ScanComparison` keeps severity, status and
sources of a finding, and one value for everything else a reader sees of it.

### Store

`PostgresStore` gives each write a number. `content` maps a table to the write
that left its rows there, `parts` says which optional tables a write filled,
and so which references its rows make; `StoreSchema` says what inserts and
deletes the foreign keys allow, cascade or null. A session loads table after
table, or runs its statements on a view that becomes the database at its
commit (`Commit`, `Rollback`); `Waits` is the row lock behind a foreign key.
`keyed` says whether both sessions are of one server, and so under one
coordinator, or of two. `StoreStartup` has the transaction of `initialize`
under the advisory lock, servers of two releases, crashes and a reset.
`StorageReadiness` has connections of the pool (`link`), the idle error that is
kept for the next probe (`idleError`), and the probe before every error answer.

`StoreAdapters` applies every call to both stores; `Supported` restricts calls
to those on which the contract asks them to agree (a slug that is free, a run
whose index exists, vectors of one length, an index before its contents).
`StoredRecords` follows one record through validator, row, CHECK and back.

### Servers and screen

`ServerShutdown` has one action per callback of `server-lifecycle.ts`: `Signal`
calls `server.close`, whose callback is `ServerFailed` (the server was not yet
listening, exit 1, the store stays open) or `ServerClosed`, which waits for the
connections and closes the store. A request holds its connection until it is
answered or the client leaves, and its operation then runs on; one that opened
the event stream of `GET /mcp` (`apps/mcp/src/http.ts:48`) is never answered and
ends when its client leaves (`Streaming`). In `WebWorkspace` an operation is a
closure: it carries the screen it was dispatched from (`Enqueue`), runs when its
turn comes (`Begin`, `Send`; a link first lists the workspaces, `Listed`), and
finishes by kind (`FinishLoad`, `FinishWrite`, ...). The location of the tab is
`entries[pos]`, which `Go` changes before the operation for it runs. Other
clients delete projections meanwhile.

## 3. Runs

| run | bounds | states | shows |
|---|---|---|---|
| `OperationCoordinator` | 3 calls, 2 workspaces, 1 index | 119 K | one operation under a key, in order of arrival; no tail or exclusive id lost or leaked; every call returns; refinement of `KeyedQueue` |
| `RepositoryIndexing` | 1 index, 2 revisions, 2 scans, 1 reader | 621 K | the row never promises facts that are not there; an attempt starts from nothing; a scan starts from one revision |
| `RepositoryIndexingLive` | 1 index, 1 revision, 2 readers | 579 K | reads under the key are stable, only its holder changes an index, keys are given back |
| `WorkspaceCascade` | a concept, a finding, an edge, a projection, one run | 254 K | the cascade is never refused; a finding goes only with its run |
| `WorkspaceFindings` | a concept, a finding, a proposal, two runs | 297 K | findings are born calibrated, completed runs are frozen, decisions are final, the checks of scan operations suffice |
| `PostgresStore` | 2 calls of one or two servers, 2 writes, 3 shapes | 484 K | the database holds one whole write; the schema refuses no valid one; loads are sound |
| `RepositoryExecutor` | 47 trees of up to 3 entries beside a plain one, 2 roots | 96 K | refinement of `ExecutorPromise`; directories go; limits are exact |
| `RepositoryEvidence` | 50 K inputs: files of 5 lines, globs of 3 by paths of 4, links of 4 segments from 3 depths, 2 documents, 3 code files, 11 files in a map with up to 2 of 5 dependencies, or all | 59 K | chunks, paths, evidence and map agree with their references |
| `ScansAndStores` | 4 files and 3 decisions; overlays of two lists; pairs of runs; each record with each value at its boundary; 2 workspaces; 4 concepts and one call at a time, or 2 and two calls | 901 K | calibration, overlays, comparison, records, adapters, similarity |
| `ServersAndScreen` | 3 servers, 2 faults; 2 operations on one connection; 3 requests or streams, 2 signals; 2 workspaces, 3 entries, 3 operations | 130 K | one schema, nothing cut off, screen and location agree, every wait ends |

**Why the bounds are enough to be interesting.** Of the three calls of the
coordinator one executes while one waits and one arrives as the tail is being
dropped; the proofs of section 5 cover any number. Calls may be mutations or
executions, of either workspace, in any mix, since `op` is arbitrary initially.
A re-execution needs an earlier attempt that ended in any way and a ref that
may have moved: one index, two revisions. Readers interfere only with the
execution, never with one another unless one holds the key, so two are the
worst case. The cascade needs an edge and a projection that touch both a
finding that goes and a node that stays, and groups chosen freely from the
subsets of the nodes. `MaxAssignments` caps the category assignments at once
at 1: validation judges each on its own. A projection, a proposal or a scan id
can be used again after deletion or re-creation.

Two sessions of `PostgresStore` give every overlap of a load or a write with
another write; the three shapes fill no optional table, some with the references
between them, and all; a torn load needs one write over another, so two writes
suffice. The limits of the executor are so low that each is met exactly,
exceeded by one, and missed. The inputs of the pure parts take every combination
of what their code distinguishes at a place: a heading on the first, a middle
and the last line, a segment cut by its length; each position of `*` and `**`;
each link shape, absolute ones included; two tests that may be the harness of a
suite; documents that contradict, are stale, or both. Four concepts let stale
rows fill a window of two; two calls at a time let a vector arrive late. Three
operations in the browser let two wait behind one.

Counters that are bounded: `MaxWrites` (`PostgresStore`), `MaxFaults`,
`MaxResets` (`StoreStartup`, `StorageReadiness`), `MaxCalls` (`ServerShutdown`),
`Behaviours` (`ConceptEmbeddings`: edits, vectors, calls at a time),
`MaxDecisions` (`ScanCalibration`), `MaxProjections`, `MaxEntries`,
`MaxDispatches` (`WebWorkspace`), `MaxAssignments` (`WorkspaceMutations`). The
constants `MaxFiles`, `MaxFileBytes`, `MaxTotalBytes`, `MaxFacts`, `MaxChunks`
are limits of the code itself.

**Faulty variants.** For each property checked there is a variant of one of the
operators above, commented as such, that a plausible mistake in the code would
give: a dropped guard, an off-by-one, a missing reset. With it in place of the
operator TLC refutes the property, so the instances are large enough to tell
the two apart.

`ServersAndScreen` switches deadlock checking off: a process that has exited,
servers that nobody restarts and a tab that is left alone take no further step.
In the other runs a component that may rest stutters explicitly or always
offers a step.

**Fairness.** `OperationCoordinator!FairSpec` is weakly fair to each call that
has been made and to each tail: the event loop runs every continuation whose
promise has settled, and operations settle because git commands have a time-out
and database calls answer or fail. Making a call is not fair.
`RepositoryIndexing!FairSpec` is weakly fair to the running execution and to
each open reader, and to nothing that starts one. Without a bound on how often
others ask, a key is free again and again, not for ever: `KeysAreReturned` says
no more than that. `RepositoryExecutor` is weakly fair to its next step, by the
time limit of git commands. `StoreStartup` is strongly fair to the advisory
lock and `StorageReadiness` to the pool, because both queue their waiters in
order; else their steps, and those of `ServerShutdown` and of a browser
operation, are weakly fair: queries and requests end or fail. An event stream is
not such a request: it ends when its client leaves, and no client has to. So a
signal ends the process unless a stream stays open (`SignalEnds`, in
`EveryWaitEnds`), and with one it may not (`SignalAlwaysEnds`, section 4). Faults,
signals, users and clients owe nothing. In `ServersAndScreen` a behaviour is as fair
as the part it is about.

## 4. Where code and documents disagree

Two runs end in a violation:

* `MixedAnswer`: readers without the key run one query per table; a commit in
  between gives an answer from two revisions, while
  `docs/specs/repository-indexing.md:420` says every query is restricted by
  revision.
* `WorkspaceFeedback`: feedback that names a projection which the cascade
  removes makes the save break a foreign key (`postgres-schema-sql.ts:283`), so
  that run cannot be deleted; `docs/specs/repository-scan.md:93` says any can.

Some modules end with further properties that state what a document, a comment
or a test says and that the code does not do. TLC refutes each of them in the
way given; a conjunct is added to the property of the run.

| property | what the code does | quoted | to see it |
|---|---|---|---|
| `RepositoryIndexing!BoundaryMapMatchesRun` | `buildScanBoundaryMap` (`index.ts:574`) uses the index as it is now, also when it was rebuilt from another commit after the scan started | `repository-scan.md:164`: evidence must match the recorded revision | as PROPERTY with `MixedAnswer.cfg` |
| `RepositoryIndexing!CompletionNeedsCompletedIndex` | `scan_complete` (`index.ts:1142`) looks only at whether a run names an index; after a failed re-execution the gates judge an emptied one | its error, `index.ts:1143`: "must reference a completed repository index" | the same |
| `PostgresStore!RevisionIncrements` | `replaceWorkspaceState` (`postgres-store.ts:336`) deletes and inserts the row, so the revision starts again | `storage-format.md:679`: must increment `workspaces.revision` | `PostgresStore.cfg` with `MaxWrites = 3` |
| `RepositoryContent!CitedLinesAreExact` | a segment's text is trimmed, its first line number is not (`repository-content-facts.ts:70`): after leading blank lines every cited line is too small | `repository-indexing.md:386`: line range | in `ChunksAreFaithful` |
| `BrokenReferences!ReportedIsMissing` | a link to a line of a code file counts as a missing heading, a link to a directory as a missing file (`repository-evidence-candidates.ts:443`) | `repository-indexing.md:510`: missing files and missing Markdown headings | in `ReferencesBreakWithTheirTarget` |
| `BoundaryMap!IdsAreStable` | `src/a-b` and `src/a_b` become one id; the symbols of the second belong to no boundary (`repository-boundary-map.ts:670`) | `repository-scan.md:176`: stable ids | in `BoundaryMapIsSound`, with `BoundaryInputs <- CollidingCases` |
| `ScanCalibration!ValidationSeesTheGap` | finding validation (`index.ts:1026`) assesses a coverage whose warnings are always empty, so it never answers *profile-gap* | `repository-scan.md:152` | in `FrozenFindingsAreCalibrated` |
| `ScanCalibration!MissingEvidenceNeedsOverride` | completion (`index.ts:1157`) never assesses the evidence | `repository-scan.md:117`: completed while *missing-evidence* needs an override | the same |
| `ScanCalibration!RestartsSeeTheRefinement` | a restart reads the overlay as it was indexed (`index.ts:898`) | `docs/ai/REPOSITORY_SCAN_WORKFLOW.md:37`: restart from the same index and compare | as PROPERTY of `part = "calibration"` alone |
| `ProfileOverlay!ScaffoldIsTheActiveProfile` | a value is written with `JSON.stringify`, which doubles backslashes, and read by taking off the quotes (`scan-profile-guidance.ts:600`, `scan-profile-overlay.ts:275`): the built-in claim patterns come back as others. The boundary-map configuration is in lower case (`boundary-map-build-config.ts:81`): two values that differ in case only become one value twice, which the validation refuses (`scan-value-validation.ts:19`). For values without double quotes and backslashes, each once (`WritesPlainly`), the property is checked and proved | `repository-scan.md:51`: seeded from the active profile | `MCProfileOverlay` with `Inputs <- PatternInputs`, or with `MCInputs`, and without the condition of `WritesPlainly` |
| `ScanComparison!PassLeavesNothingOpen` | a finding with edited notes is *changed*, which never blocks, though it is open and critical (`scan-comparison.ts:68`) | `repository-scan.md:247`: no open high or critical findings | in `ComparisonsAreConsistent` |
| `ScanComparison!ResolvedWhereCovered` | a source the later run excluded counts as looked at (`scan-comparison.ts:48`) | `repository-scan.md:215`: under equivalent coverage | the same |
| `ScanComparison!CompletedRunsCompare` | nothing compares the fingerprints of one run, and every comparison with a run that has one twice throws (`scan-comparison.ts:90`) | `repository-scan.md:257`: a completed run holds what a comparison needs | the same, with `<<Second, Second>>` in `Pairs` |
| `StoreAdapters!SameContract` | the in-memory adapter accepts a slug in use, among others (`in-memory-store.ts:93`) | its header, line 3: must not diverge | in `AdaptersAgree`, with `Supported = FALSE` |
| `StoreAdapters!SearchAgrees` | it answers chunks with any term of a query, Postgres those with all (`in-memory-store.ts:299`) | the same | in `AdaptersAgree` |
| `ConceptEmbeddings!DigestIsOfTheVector` | the digest is of the text the node has when the vector arrives (`index.ts:673`) | `storage-format.md:687`: the text the vector was computed from | in `MatchesAreOfTheConcepts` |
| `RepositoryExecutor!RootsAreEphemeral` | a crash, or a removal that fails, leaves the checkout for good (`repository-checkout.ts:52`) | `repository-indexing.md:421`: ephemeral | as PROPERTY, `Histories <- Simple` |
| `RepositoryExecutor!ListedFilesAreThere` | a tracked name with a backslash is read under another path (`repository-checkout.ts:133`) | `repository-checkout.test.ts:23`: "read every blob" | `Histories <- WithBackslash`, `PathOf <- Slashes` |
| `StorageReadiness!StoreErrorsAreHidden` | an error is called unavailability by a probe made after it; if that succeeds, the driver's message is answered (`apps/api/src/index.ts:480`) | `rest-api.md:25`: never exposes driver details | in `NothingIsBrokenOff` |
| `ServerShutdown!SignalAlwaysEnds` | while a client keeps the event stream of `GET /mcp` open the callback of `server.close` does not come (`server-lifecycle.ts:18`, `apps/mcp/src/http.ts:48`): the store stays open and the process runs on | its header, line 4: close storage, then exit once | in `EveryWaitEnds` |
| `ServerShutdown!StoreClosesFirst` | the same signal again has its default action (`server-lifecycle.ts:33`); a signal before the server listens exits from the error branch (`server-lifecycle.ts:19`) | its header, line 4: close storage, then exit once | in `NothingIsBrokenOff` |
| `WorkspaceMutations!CompletedEvidenceStays` | `workspace_create` with an id in use saves the initial state over it (`index.ts:227`) | `repository-scan.md:11`: immutable history | as PROPERTY with `WorkspaceFindings.cfg` |
| `WebWorkspace!LastRequestWins` | the handler reads the location when its turn comes, after a pending load has replaced it (`main.tsx:82`) | `main.test.tsx:355` | in `ScreenIsTheLocation`, under `[]` |
| `WebWorkspace!ShownIsOfLoaded` | the popstate handler is the closure of the first render and leaves the projection of another workspace on the screen (`main.tsx:85`) | `main.tsx:7`, `web-workspace-ui.md:20` | the same |
| `WebWorkspace!BackStaysInside` | after a failed request the depth is that of another entry, and Back leaves the application (`main.tsx:89`) | `repository-scan.md:237`: Back restores the previous projection | the same |

## 5. Proofs

Each module `...Proofs` proves, for every value of the constants, that an
invariant stronger than what is checked holds of its specification
(`InductiveInvariant`), and from it the properties the runs check. TLC had
checked the invariants on the instances of section 3 first.

The assumptions on constants are few, named in the module that declares the
constants, and evaluated by TLC in a run: null values are not values of what
they stand for (`DistinctNames`, `NoneIsNothingElse`, `NobodyIsNoSession`); an
index and a scan belong to one workspace each (`RowsAreOwned`, their key in the
database); requests have the types the API contracts give them
(`RequestsAreTyped`); a write that names a row of another table has that row
(`ShapesAreClosed`, what the validation of a workspace requires); bounds are
numbers.

**`OperationCoordinatorProofs`.** None of the four safety properties is
inductive. `IInv` adds, besides types:

* `PlacesInv`: only executions visit the places of the global key;
* `TicketInv`: tickets number the runs of a key in order of arrival, without
  repetition and below `issued`; the runs that have not left are those with a
  ticket of at least `served`;
* `TailInv`: the entry of a key is its latest run, which has not left; without
  an entry all have left (`served = issued`);
* `ChainInv`: a run waits for the run with the ticket before its own; one that
  waits for nobody came when all earlier ones had left;
* `ReleasedInv`: only runs that have left are released, and only released ones
  are settled;
* `TurnInv`: the run that executes under a key has the ticket `served`.

Exclusion follows because two calls inside one key would have the same ticket;
order, because tickets of runs that have not left are at least `served`.
`KeysAreQueues` is the refinement of `KeyedQueue`: the queue of a key is the
sequence of the runs that have not left, in the order of their tickets
(`QueueOf`), and its head is inside when it executes (`Entered`). `QueueInv`
says that a ticket less `served` is a position; `StepKinds` sorts the steps of
the coordinator into five kinds, each of which is a step of the queues or
leaves them alone.

**`RepositoryIndexingProofs`.** `PlaceInv` says what stage, commit and facts an
execution finds at each place of the code, for a first attempt and for one that
follows a failure; `RowInv` what an idle row means; `SessionInv` that an
operation under the key has read what is there now; `ScanInv` that a run
started from facts of its revision. `CompletedIsWhole`, `AttemptsStartEmpty`,
`RunsStartFromOneRevision`, `ReadsUnderKeyAreStable` and the action property
`OnlyTheExecutionRewrites` follow. The proof needs the key of a run to be that
of its index, which is why `Owner` speaks of runs as well.

**`WorkspaceMutationsProofs`.** The cascade maps valid
workspaces to valid ones (`CascadeKeepsValid`, one lemma per kind of record).
`IInv` is `TypeOK` and `ValidWorkspaceState`: every workspace that is saved is
of the code's types and valid, whatever is asked of it. Action properties
follow by a case per mutation: findings stay with their run
(`FindingsKeepTheirRun`), are born in a run whose latest decision is to
continue (`BirthsFollowCalibration`), completed runs stay as they are
(`CompletionIsFinal`), decisions on proposals are final
(`ProposalsAreDecidedOnce`). What a batch of commands does to findings is an
induction over its prefixes (`BatchSparesFindings`). `ChecksSuffice`: creating
a finding and completing a scan check enough of their own for the validation of
the whole workspace to accept the outcome; `CascadeAccepted` says the same of
the cascade.

**`RepositoryExecutorProofs`.** The invariant says what the temporary directory
holds at each place of the code. `RootsAreRemoved`: only a crash or a failed
removal leaves one behind. `CheckoutsAreAccepted`: files are written only of a
tree that passed every check. `AnswersAreOfOneRevision`, by an invariant of its
own (`RevisionInv`): an answer without an error names a commit the ref has
named since the question, and each file of its tree was read once, from that
commit, in order. `BudgetInv` adds what has been counted: while files are read,
the facts and bytes so far are within the limits, and an execution that ends
for a limit has fetched a revision that breaks one (`LimitsHold`). The code
counts along a list whose order it makes itself, the promise speaks of a set:
both are brought to `Entries`, where the k-th entry has k - 1 before it, and a
running total is shown to exist, to be `Total`, and to grow, by least
counterexample. `ExecutorImplementsPromise` is the refinement of
`ExecutorPromise!Safety`, one action after another: the question and its end
are the visible steps, and all between leave `Shown` and `named` alone. Both
theorems have one hypothesis, `PathsAreDistinct`: no two names of a tree differ
only in `/` and `\`. The trees of the run satisfy it. Without it one of the two
files is read for the other, and counted for it, and both statements are false
(`ListedFilesAreThere` in section 4 is about such names).

**`PostgresStoreProofs`.** A write is a list of statements in the order of the
foreign keys. The invariant (`StoreInv`, `TransactionInv`) relates what a
session has still to do to the rows its transaction sees: those the statements
so far leave over the rows of one write. So the committed rows are those of one
write (`ContentStaysWhole`) and no foreign key ever refuses a statement
(`NothingIsRefused`): both directions of the order matter, since rows are
deleted before those they refer to and inserted after them. `LoadInv` says what
each query of a load has read (`LoadsCanBeTrusted`): under the key what is in
the database until the save; without it, rows of several writes, which still
name no row that was not loaded, because the queries run in an order in which
references point backwards.

**`ServersAndScreenProofs`.** The components share no state, so a step of one
keeps the invariants of the others. `StartupInv`: one server at most is past
the advisory lock, and what it has drafted fits what is committed
(`StartsAreOrderly`). `ReadinessInv`: a connection in use is that of exactly
one request; `ShutdownInv`: what is open at each place of the shutdown
(`NobodyIsCutOff`). `ScreenInv` relates queue, entries and screen of the tab:
what waits behind the first operation are navigations, and the screen is of the
location or blank unless an operation that will change it is in the queue
(`ScreenFollowsTheLocation`).

**`ScansAndStoresProofs`.** The parts share no state and have an invariant each.
`CalibrationInv`: whoever may continue does so on the coverage the decision was
about, and what is frozen was assessed as ready (`FrozenFindings`).
`Comparisons` is about any two runs: in order of severity, what blocks a
comparison still blocks it in a run with a graver finding (`GraverFinding`), a
missed source (`MissedSource`) or one more finding kept (`KeptFinding`); the
lemmas rest on every fingerprint having one finding, which the code checks.
`Survival`: the rules of validator and table are the same for facts, stronger
in the validator for indexes and runs, and every optional object can be told
from its absence in the row (`IndexReadsBack`, `RunReadsBack`). `AdapterInv`:
as far as the contract goes, the two stores are the same function of their
workspaces (`TwoAdapters`), one lemma per call. Its hypothesis `Supported` is
the restriction of section 2; without it TLC refutes `SameContract`.
`SimilarInv` says what each caller knows at each of its calls: a writer has
the digest of the text that is there until it writes, a query every text its
source has had since it began (`SimilarConcepts`). That the answer is the best
usable rows (`AnswersAreBest`) is a fact about ranks in a finite set, by least
counterexample: of the rows that rank before the k-th, there are k (`TopIsFull`).
`OverlaysReadBack` is about any overlay file of any profile. A section means
what it means alone (`SectionLikewise`), so a file means the union of its
sections when no key comes twice (`FileReads`), in any order (`AnyOrder`). A
value without double quotes and backslashes is read from its quoted form,
whatever blanks, hashes and single quotes it holds (`ReadsBack`), so the
scaffold says what was active (`ScaffoldReads`), and in the file it has the last
word (`PastedReads`). What is active is a fixed point of what a file is put
through: a scope that begins with the scope of the profile stays itself when it
is appended and made unique again (`MergedAgain`), and a configuration that is
configured again stays as it is (`ConfiguredAgain`). The theorem assumes of the
built-in profiles that they are valid and define what their symptoms ask for,
and of the defaults that they pass the validation (`InputsAreOverlays`,
`DefaultsAreNormal`, which TLC evaluates).

**`RepositoryEvidenceProofs`.** Only content takes steps; its invariant
(`ContentInv`) says that every chunk made so far is a segment of the file that
ends before the next one begins, that they are in order, and that no line of
text before the next segment is lost. `ChunksFollowTheFile` follows: where a
segment may begin (`Beginning`) keeps headings with their text. The other
theorems are about any input.

* `PathsLead`. The search of a glob is a recursive function; the positions from
  which the rest of the path can be cut into the rest of the glob satisfy its
  equation (`RestsAreSearched`), and so does nothing else, by least
  counterexample from the end. This is used twice, for characters and for
  segments. For links, as long as no step leaves the repository the stack of
  the normalization holds at each level the last name that led there
  (`Standing`); the first step that leaves puts `..` at the bottom, and nothing
  takes it away again (`OutsideIsKept`). Behind two slashes nothing leaves: `..`
  at the root of the file system stays there, and the path stays absolute.
* `ReferencesBreak`. A reported link is a question about the files and headings
  of the whole index, of which the covered documents only say where links are
  read; the pieces of a cut chunk have its lines, at the same lines of the file
  (`PiecesHaveTheLines`).
* `DuplicatesAreTrue`. The comparator is a strict total order of the candidates
  (`RankingIsOfNames`), a limit keeps those with fewer than so many before
  them, and more files make a topology larger, never smaller
  (`TopologyGrows`).
* `ConflictsAreTrue`. A listing in the opposite order is a mirror image of the
  index; pairs, their kinds and their stale sides are mapped one to one
  (`MirrorsAre`, `FlippedPairs`). The first candidate of an id exists because
  keys are six numbers in lexicographic order (`NextKey`, `SomeIsFirst`). A
  piece of a chunk has at most the heading its lines had (`PiecesHaveLessHeading`),
  and less context makes fewer conflicts (`MoreContextKeepsConflicts`).
* `MapsAreSound`. The roots of boundaries that own a file nest (`RootsNest`), so
  the longest is one; ids tell boundaries apart once two roots never have one
  (`Collision` excludes that, see `IdsAreStable` in section 4); what relations,
  symbols and tests a boundary lists depends on the set of files alone, and the
  harness of a suite is one of its tests in any order, so that confidence and
  questions, which ask only whether there is one, are the same
  (`HarnessIsATest`, `SameDescriptions`).

**Only model-checked**, and why:

* Liveness under fairness (`EveryCallReturns`, `KeysAreReturned`,
  `EveryWaitEnds`, and the part of `KeepsThePromise` that an answer comes) and
  what speaks of ENABLED are out of the prover's reach.

The inductions above (over a batch, a queue, a list of statements, a path, a
walk) go through the least counterexample instead. That takes a recursive
function with a simple invariant; it is why paths are modelled by such
functions and not by folds.

## 6. Not modelled

* Syntax facts: symbols and references come from the trees of an external
  parser (Tree-sitter) by a walk without state.
* API contracts, routing, authentication, configuration, static files, and the
  MCP server, which maps tools to runtime calls with one transport per request:
  no state of their own (`ServerShutdown` has the event streams).
* Workspace rename, archive, listing and resolution by slug or name.
* Capture policies other than the default: no operation sets another.
* Text: labels, notes, wording of guidance and of candidates, the regular
  expressions that classify a line, confidence and sampling limits; rows of the
  tables other than index records, facts and runs.
* What conversions do to values the program does not produce: the timestamps of
  rows are taken in the form of `toISOString`, which the runtime writes and
  `normalizeTimestampText` (`postgres-store.ts:1334`, `:1424`) leaves alone;
  `ProfileOverlay!Quoted` escapes quotes and backslashes, and the texts have no
  tabs or control characters, which `JSON.stringify` escapes as well.
* Selection of nodes, forms, layout and rendering of the web client.
* More than one server process on one database beyond what `StoreStartup` and
  `PostgresStore` look at: the coordinator's contract excludes it
  (`operation-coordinator.ts:4`); updates can then be lost.
* The proof of concept, deployment files and scripts.

## 7. Plan

Done: all runs of section 3, and a theorem for every safety property of them
but the halves listed as only model-checked in section 5. Next: rename, archive
and re-creation of workspaces beside readers, and a composition of coordinator
and indexing that replaces `lock` by the queue.
