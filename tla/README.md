# Deterministic Scenario Engine: verification project

Formal models of the Deterministic Scenario Engine 3.1.0 (`src/src/scenario_engine/`), the
TLC configurations that check them on small instances, and TLAPS proofs of their main
properties for every value of the constants. The engine compiles a YAML scenario, executes it
step by step over a shared state with a logical clock, and publishes results, schedules,
manifests and evidence bundles that must be reproducible byte for byte.

- [Inventory](#inventory): the parts of the system and what makes each correct
- [Modules](#modules): what is modelled and how it corresponds to the code
- [Runs](#runs): what TLC checks, the bounds and the fairness
- [Proofs](#proofs): what TLAPS proves and along which argument
- [Findings](#findings): where the code and its documentation disagree
- [Not modelled](#not-modelled)

How to run (in this directory): `tlc -config MCActorExecution.cfg MCActorExecution.tla` and
likewise for the other `.cfg` files (`MCFaultIgnored.cfg` goes with `MCDefinitions`,
`MCFindingUnclassified.cfg` with `MCReferences`, `MCReplayRemovesExisting.cfg` with
`MCFilePublication`); `tlapm ActorExecution_proofs.tla` for a
proof module.

## Inventory

Paths are relative to `src/src/scenario_engine/`.

### Execution

**Semantic kernel** (`runner.py`, `state.py`, `history.py`, `clock.py`, `faults.py`, ...).
State: shared scenario state, logical clock, history, artifacts. One operation,
`ScenarioRunner.run_step`: build a candidate (generate, derive, patch, validate, timestamp,
emit, transition, invariants), then commit it in one go. Hard: any phase may raise with the
candidate half built; the clock may overflow `datetime`; nothing may be mutated before the
commit. Correct when every transition is atomic and the records of the history form one chain.

**Scheduler** (`scheduler.py`). A pure function: the SHA-256 digest of the canonical
coordinates (schedule seed, selection ordinal, history length, clock, ready set), modulo the
number of ready actors, picks a position in the sorted ready list. Correct when it always picks
exactly one ready actor and nothing but the coordinates matters.

**Actor coordinator** (`dsl/actor_runtime.py`, Engine 2). State: a control stack per actor, the
list of decisions, the runner. Each round routes *every* actor in the current snapshot (at most
4,096 routing operations), lets the scheduler choose one ready actor, records the decision as
`COMMITTED`, applies step faults, runs the step, advances only the chosen actor. Ends with
`SUCCESS` when no actor has a step, with a `FAILED` result when a step raises, or by an
exception. Hard: routes decided in a snapshot become stale with the next commit; an actor that
has nothing to do now may have something to do later; the decision is recorded before its
outcome is known; errors leave at many places, with and without evidence.

**Engine 1 runtime** (`dsl/runtime.py`). Executes one flow by recursion over branches, repeats
and subflow calls; the coordinator must do the same with an explicit stack that is routed again
in every round.

**Schedule evidence and exact replay** (`schedule.py`). A schedule artifact is one record for each
attempted selection plus a terminal classification, limited to 8 MiB and 65,536 selections.
Replay executes the scenario again and compares every coordinate before the transition, then
the whole artifact at the end. Hard: a failed run is replayed through the exception path; an
altered schedule must be noticed before anything it misrepresents is committed.

**Batch execution** (`batch/runtime.py`). A generator in the caller's thread keeps a bounded
window of futures submitted to a thread pool and yields items in plan order; `execute_batch`
adds up what it keeps. With `fail_fast`, one request after the other. Hard: completion order,
slow callers, callers that stop early, exceptions that escape an item, interrupts while it waits,
cancellation racing the workers.

**Engine 2 suite, seed sweep, actor shrinker** (`engine2_suite.py`, `engine2_explore.py`,
`engine2_shrink.py`). Serial loops over executions under budgets (selections, retained bytes,
executions, a deadline). Hard: budgets running out in the middle of a candidate; an oracle that
is not monotone; results that still claim completeness.

### From files to something that can run

**Composition** (`composition/`). A root scenario names modules by alias; each is read within
bounds, its declarations and references are moved into the namespace of the alias, everything is
merged into one document with an identity of its content. Hard: a file may grow while it is read;
references are rewritten by section and by key, and one that is forgotten silently means something
else.

**DSL front-end** (`dsl/parser.py`, `dsl/compiler.py`). Checks identities, flows, faults and the
operators allowed in each place; refuses sequences that are not linear and cycles of calls. What
it accepts is executed without a further check.

**Resource resolution and preparation** (`resources.py`, `dsl/runtime.py`, `validation.py`,
`oracle.py`). Declared resources are resolved in layers from external inputs; faults override
values; validators and constraints decide whether there is a run; the oracle judges what was
observed; replay compares hashes of what was read. Engine 2 has its own implementation of these
phases in `dsl/actor_runtime.py`.

**Values and expressions** (`values.py`, `expressions.py`, `matrix/filtering.py`). Two evaluators
over values whose Python equality is coarser than their canonical form (`True == 1 == Decimal(1)`).

**Matrix expansion** (`matrix/`). Bounded Cartesian products, filtered, numbered, selected and run.

**Engine 2 suite and seed sweep** (`engine2_suite.py`, `engine2_explore.py`, `engine2.py`).
Serial cases under budgets they share; status from exceptions and again from failure codes;
offline verification of a suite against evidence that may have been altered.

### Publication and evidence (files, databases, adapters)

**File publication** (`suite/publication.py`, `adapters/json_file.py`, callers in `cli/main.py`):
write to a temporary name, fsync, link or rename, clean up. Hard: a crash between two calls, two
publishers, clean-up by path of what may be another's file, an error in the clean-up itself.

**Evidence export and migration** (`evidence/export.py`, `fixture.py`, `migration.py`): directories
staged beside their destination and renamed; sources that change while they are copied.

**Evidence adapters** (`evidence/adapter.py`): a second window of futures over a thread pool; the
effects outside are not undone.

**Compatibility** (`evidence/compatibility.py`): three tables in two files must agree.

**SQLAlchemy materializer** (`adapters/sqlalchemy.py`): all rows of a result in one transaction;
the answer of a commit may be lost and the caller may try again.

**Command line** (`cli/main.py`): reads, refuses, executes, publishes, prints and ends with an exit
family; what one invocation leaves is what another reads.

**Impact and definition diff** (`impact.py`, `definition_diff.py`). Two definitions are compared
entity by entity, both become graphs of what may depend on what, and the union is searched from every
change within bounds. Hard: an entity is reached along several paths, understood or not; what was
removed is only in one of the graphs; paths that are cut.

**Packs, plugins, assertions, suite models, scaffolding**: pure functions and registries without a
state of their own.

### How they interact

The command line and the batch call Engine 1 or, through composition and the matrix, a prepared
scenario. `engine2.py`, the suite, the sweep and the shrinker call the coordinator, which calls
the scheduler, the router and the kernel. What they return is turned into canonical bytes and
given to the publishers. Only the batch and the evidence adapters run threads; everything else
shares nothing but files.

## Modules

| module | models | kind |
| --- | --- | --- |
| `Schedule` | `scheduler.py` (`select_actor`) and `schedule.py`: the selection, records, artifacts, the checks of their constructors | operators |
| `ActorRouting` | `_route` of `actor_runtime.py`: the stack machine of one actor | operators |
| `EngineOneFlow` | `execute_sequence` of `dsl/runtime.py`: the recursion of Engine 1 | operators (RECURSIVE) |
| `SoloActor` | one actor driven by its routes, against Engine 1 | state machine |
| `ActorExecution` | `execute_actors_internal` with `run_step` | state machine |
| `SerialActors` | what the coordinator promises: whole steps, one after the other | abstract specification |
| `ExactReplay` | `exact_replay_internal` over `ActorExecution` | state machine |
| `BatchStream` | `OrderedBatchStream`, `execute_batch`, the thread pool, the caller | state machine |
| `SerialBatch` | what a batch promises: a serial execution of its plan | abstract specification |
| `ActorShrink` | `shrink_failed_scenario` of `engine2_shrink.py` | state machine |
| `GreedyDeletion` | what the minimizer promises: greedy deletion, an honest claim of minimality | abstract specification |
| `FilePublication` | `publish_suite_bytes`, `write_result_json` and their callers in `cli/main.py` | state machine |
| `AbsentPublication` | what publishing at absent paths promises to everyone who looks | abstract specification |
| `Composition` | `composition/resolver.py`, `parser.py`, `canonical.py`: loading, namespaces, merging | state machine |
| `DslCompile` | `dsl/parser.py` and `dsl/compiler.py`: identities, flows, calls; the walk of `dsl/runtime.py` | state machine |
| `DslExpressions` | operators per place (`dsl/parser.py`) against their evaluation; derived values | state machine |
| `Preparation` | `resources.py`, `validation.py`, `oracle.py`, the phases of both engines before a run | state machine |
| `Impact` | `definition_diff.py` and `impact.py`: the diff, the dependency graphs, the search, the counts | state machine |
| `Values` | `values.py`: canonical form, equality, comparisons | operators (RECURSIVE) |
| `Semantics` | `expressions.py` and `matrix/filtering.py` on the same expressions | state machine |
| `Matrix` | `matrix/`: checks, expansion, selection, execution | state machine |
| `EngineSuite` | `engine2_suite.py`, `engine2_explore.py`, the replay of `engine2.py` | state machine |
| `AdapterPublication` | `publish_evidence_bundles` of `evidence/adapter.py`, its threads and its adapter | state machine |
| `EvidenceExport` | `evidence/export.py`, `fixture.py`, `migration.py`: three ways to publish a directory | state machine |
| `Compatibility` | `evidence/compatibility.py` against the executor in `migration.py` | state machine |
| `Materializer` | `adapters/sqlalchemy.py`, with the database it talks to | state machine |
| `CommandLine` | `cli/main.py`: invocations one after another over the same files | state machine |
| `MC...` | instances for TLC | |
| `..._proofs` | theorems | |

`MCDefinitions`, `MCReferences` and `MCEvidence` instantiate several components that share neither
state nor threads in the code. A behaviour is one of one of them, told by `component`; the variables
of the others rest. Their specifications are disjunctions of the components' own `Init` and `Next`,
so that what is checked of a component is what its own instance would check. `MCReferences` has the
components whose reference definitions recur over data, out of the prover's reach; what is proved is about the other
two. Its flow tables and pairs of definitions are in modules of their own, `MCFlowTables` and
`MCComparisons`.

### ActorExecution

The state is that of the coordinator's locals and of the runner: `state`, `clock`, `history`,
`artifacts`, `controls` (one stack per actor), `decisions`. `phase` is the program counter,
`done`, `candidate`, `selected` the step under way, `status`, `cause`, `schedule` how the call
ends. One action for each exit and each fallible phase of the loop:

| action | code |
| --- | --- |
| `Preflight` | coordinates of the expected schedule (replay) |
| `RoutingFails` | `_route` raises, for any actor |
| `Complete` | no ready actor: schedule, comparison with the expected bytes, result |
| `SelectionLimit` | one selection too many |
| `Select` | scheduler, comparison with the expected record, decision recorded `COMMITTED` |
| `RunPhase` | a phase of the step completes (nine of them, in the order of the code) |
| `FaultsFail` | step faults raise, outside the `try` block: no evidence |
| `StepFails` | a phase raises: last decision rewritten to `FAILED`, schedule, outcome |
| `Commit` | commit of `run_step` and advance of the chosen actor |

What a scenario computes is given by constant operators (`Route`, `Post`, `Advance`, `Emits`,
`Raises`). `MCActorExecution` gives `Route` the meaning of `ActorRouting` over real flow tables.
The digest is a constant operator too: with seeds written in base 3, TLC explores every sequence
of selections. The validation of inputs and resources before the first round is left out
(it only decides whether an execution starts), and so is the branch for a ready set that is
empty while an actor is unfinished: every unfinished actor routes to a step or raises.

### SoloActor, ActorRouting, EngineOneFlow

`ActorRouting` translates the loop of `_route`: frames for sequences and repeats, the routing
operation limit, the binding of subflow scopes, execution addresses with branch, call and
iteration components. `EngineOneFlow` translates the recursion of Engine 1 independently.
`SoloActor` commits the routed steps of one actor and compares.

### ExactReplay

After an execution ended, a schedule is presented to a second one: the published schedule, every
alteration of it in one place that still passes the constructor (with the hash recomputed), or
a schedule made up from the decisions of a run that published none. The second execution runs
the actions of `ActorExecution` with `expected` set; `Judge` is the comparison at the end of
`exact_replay_internal`, on its success and on its exception path.

### BatchStream

`phase` is where the generator is: `suspended` at a `yield`, in the `serial` loop, `submitting`,
`waiting` for a result, `closing` (the `finally` block), `ended`. `future` holds the state of
each future; `Start` and `FinishRun` are the worker threads (the standard library, modelled from
its use: a FIFO queue, at most `workers` running, `cancel` succeeds only for a queued future).
A plan is a sequence of what executing each request gives: success, failure (caught by
`_execute`), or an exception that escapes (`SystemExit`), and a size. `complete` tells
`execute_batch` from a consumer of the stream, who may pull, pause, stop, or pull again after
an error. `Interrupt` is a `KeyboardInterrupt` while the caller waits for a result; one that
arrives inside `shutdown` itself is not modelled.

### ActorShrink

`phase` is where the search is: `baseline_replay`, `baseline_rerun`, `search` (in front of
`Order[position]`), `rerun` (the candidate is being executed), `ended`. `removed`, `executions`,
`evaluations`, `accepted`, `rejected`, `invalid` are the locals of the function and of its
`_Budget`; `late` is the deadline, which the environment passes at any moment.

| action | code |
| --- | --- |
| `ReplayBaseline`, `RerunBaseline` | the given evidence is replayed and reproduced, or the request rejected |
| `StartSearch` | the eligible actors, in byte order |
| `Skip` | an actor deleted already |
| `Evaluate` | limits in front of a candidate; the candidate counted, deleted from the source, validated |
| `Rerun` | one execution of the candidate, or the stop of the budget |
| `Judge` | comparison of the runs, replay of the candidate, acceptance or refusal |
| `EndPass` | a pass that accepted nothing |

What a deletion does to the failure is an oracle, chosen in the initial state: for each set of
deleted actors the outcomes an execution may have. Nothing relates the outcomes for different
sets, because a deletion changes ready sets, digests and so every later selection. An execution
has one outcome unless the host interferes (`except Exception` in `_run_failed`), hence sets.
The outcome of a run stands for the comparison of its bytes, signature, invariant and step with
the baseline; that two runs which both differ from it may also differ from each other makes no
difference to the search. The checks of the request that precede the first execution only
decide whether the search starts and are left out.

### FilePublication

Operations are processes on one file system. `entry` is what is at each path, `temp` the
temporary name of each operation, `content` and `synced` the files behind the names; `pc` is
where an operation is, `at` its position in its targets, `why` the exception it handles, `failed`
the system calls that failed. One action for each system call (`Check`, `Create`, `Write`, `Sync`,
`Link` or `Replace`, `Unlink`), `Advance` for the loop over the outputs, `Clean` for the `finally`
block, `RollBack` and `RemoveTarget` for the `except` clauses of the callers, which `Handler`
chooses. `Error` makes any system call of the publication fail, `CleanError` and `RollBackError`
those of the clean-up (an error in `finally` takes the place of the exception under way);
`Interrupt` is a `KeyboardInterrupt`, after which `finally` runs and no `except` clause does; `Kill`
stops an operation for good. `LosePower` leaves at each path something that was there at some
time, because directories are never forced to the disk, and tears any content that was not.

The four kinds of operation differ in what they check first and in what they undo:

| kind | checks | after FileExistsError | after another error |
| --- | --- | --- | --- |
| `outputs` (`_publish_engine2_outputs`) | every target | unlinks the outputs before this one | the same, past errors |
| `single` (`_write_replay_artifact`, `_trace_view`) | nothing | nothing | unlinks the target |
| `guarded` (`write_result_json`) | the target | nothing | nothing |
| `replace` (`write_result_json`, `overwrite=True`) | nothing | cannot happen | nothing |

The parent directory is taken to exist and links to be ordinary files; an interrupt between the
creation of the temporary file and its assignment, and one inside the clean-up, are left out.

### Composition

`phase` follows `load_composition`: the root is read, then for each alias the size of its file is
looked at (`Stat`) and the file is read (`ReadModule`), which `Grow` may come between; `Merge` rewrites
and collects, `Compile` hands the document to the parser's tests of references, `Reload` does it all
again with the files elsewhere. A declaration is its section, its name and its references; a
reference is its kind and the components of the name it refers to; the nodes a fault's
`selector.subflow_path` lists are references of a kind of their own, one each. `Rewritten` and `Found`
are the resolver's rewriting and the lookups of the sections (of nodes of a path: the comparison with
the nodes that were passed, `faults.py:14`); `Meaning` in the properties is stated independently, from
where a reference was written. The resolver rewrites the step of a selector and not the path to it, so
`LinksAreFaithful` is about all other references, and `PathsAreOfTheRoot` says what a path finds: what
it would mean in the root. Validators and overrides name resources as `$resource` does and are not
kinds of their own; a literal that looks like a reference is not among the declarations.

### DslCompile and DslExpressions

`Parse` and `CheckActor` are the parser's tests of identities, transitions and faults; `VisitRoot`,
`VisitCall` and `Leave` the depth-first search for cycles with its two lists; `Start`, `RunStep`,
`Invoke`, `PassOver` and `Return` the walk of what was compiled, which checks nothing. In
`DslExpressions` one path of a nested expression is followed from its outermost operator to a
reference (`Descend`, `Reach`) under the flags the parser hands down, then evaluated in the
environment of its place (`Evaluate`); `Derive` evaluates derived values in dependency order.

### Preparation

Values are trees, hashes perfect. `CheckReferences`, `TakeLayer`, `ResolveNext`, `Resolved` are the
layered resolution; `ApplyFault` and `SkipFault` the faults of Engine 1; `Validate`, `Constrain`,
`Execute`, `Crash`, `Evaluate` the rest of a run and its report; `Replay` offers inputs again, which
are compared by the hashes the first run recorded. `engine` says whose phases are run. The faults a run
applies at its steps (`StepFaults`) are any sequence of those enabled, because steps are repeated;
its length is bounded by `MaxHits`.

### Values, Semantics, Matrix

A value is a tuple headed by its type; decimals keep coefficient and scale, times keep their offset,
so that the canonical form and Python's equality are different relations, as they are in the code.
`Semantics` builds expressions bottom-up on a stack: every action applies one operator to the outcomes
of its operands in both evaluators. Digits beyond the places the values have, and the precision of
28 digits, are out of its bounds. `Matrix` multiplies the dimensions against the bound (`Multiply`),
expands in odometer order (`Expand`), accepts a case offered from outside (`Offer`) and runs one or
all (`ExecuteCase`, `ExecuteAll`, `ExecuteNext`).

### EngineSuite

`NewSuite` and `NewSweep` take a plan; `Execute` runs one case against what is left of the budgets;
`Summarise` ends a sweep. `Alter` and `AlterStatus` change the suite or one child in one place and
compute all hashes again; `Verify` is the offline verification, `Replay` the exact replay of one case. What
an execution does is a function of the schedule seed (`world`): complete, fail in one of the ways
the code tells apart, or leave evidence that cannot be built or serialised.

### AdapterPublication

`phase` is where the caller's thread is, `call` the state of each future, `held` the bundles
drawn from the iterable that are not yet submitted or collected. The caller fills the window, waits for the
first receipt, draws the next bundle and submits it; worker threads start queued calls in order and
finish in any. A plan says what the iterable and the adapter do at each bundle: publish, refuse,
return something too large, of the wrong type, escape, or the iterable itself fails. `Interrupt`
is an exception while the caller waits.

### EvidenceExport

Operations are processes, `pc` the place of each: the gate (`lexists`), for a migration the
scratch copy read chunk by chunk and verified against its descriptor, the preflight of all
sources, the staging directory, opening and closing of each source with its comparison of size
and modification time, validation, the rename and the clean-up. `Edit` changes a source at any
moment, with or without a visible modification time; `Make` is another program at the
destination; `Error`, `Interrupt` and `Kill` happen at any call.

### Compatibility

The rules, routes and transformations are the tables of the code. A caller reports, plans,
builds a plan of its own, submits it for an artifact, and learns one coordinate after another.

### Materializer

`Begin` prepares all rows before the transaction is opened; `Insert`, `Refuse` and `Interrupt` are
inside it; `Commit`, `CommitFails` and `CommitUnanswered` leave it. A row names its primary key and
brings it, names it with `None` (`Null`), or does not name it (`NoKey`); `Prepared` refuses the last
only. The database is external: it refuses an insert for any reason (a `NULL` key, where the table has
it so), generates the key of a row that brings none, a key in an open transaction of another is waited
for or refused, and it may lose the answer of a commit it has done. A row remembers the attempt that
inserted it (`by`).

### CommandLine

An invocation reads its sources in order (`Read`, with everything it refuses by then), does what its
command does (`Validate`, `Inspect`, `Run`, `MatrixCommand`, `BatchCommand`, `Trace`, `ReplayEngine1`,
`ReplayEngine2`, `Diff`), publishes (`Publish`) and prints (`WriteOut`); `Mapped` is the order of the
`except` clauses of `main`, which decides the exit family where exception classes overlap. Contents
of files are what they are of (a scenario, a seed) and how they were edited. A version of a scenario
has a name (`ScenarioId`), which versions may share, and a fate: what preparing or executing it ends
with. `EnvelopeFails` is the order of the tests of an artifact of Engine 1: the contracts and the name
first, then resources and plugins, at last the hashes. `kept` remembers what earlier invocations
left and printed, or would have printed had there been a place for it. The inputs of a replay are
those of the run; other inputs are the subject of `Preparation`.

## Runs

| run | properties | instance |
| --- | --- | --- |
| `actor_execution` | `TypeOK`, `RunnerMatchesHistory`, `NothingFailedCommits`, `PositionsFollowHistory`, `EvidenceIsSound`, `SchedulesAreWellFormed`, `SerialSpec`, `Termination` | 30 scenarios of three actors, all 243 sequences of five selections |
| `exact_replay` | `GenuineReplayAccepted`, `AcceptedReplayIsGenuine`, `NothingUnverifiedCommits` | six scenarios, every single alteration of their schedules |
| `batch_stream` | `TypeOK`, `AheadWithinWindow`, `QuietAfterEnd`, `SerialBatchSpec`, `Answered` | every plan of up to three requests of five kinds, plans of four of two kinds |
| `actor_shrink` | `TypeOK`, `EveryEvaluationCounted`, `WithheldForAReason`, `ReductionSpec`, `SearchEnds` | three eligible actors, every deterministic oracle and oracles with transient errors, five pairs of budgets |
| `file_publication` | `TargetsAreWhole`, `RaisedLeavesNothing`, `PublicationSpec` | eight pairs of operations on three paths, each path occupied or not, up to two failing calls in each |
| `definitions` | `CompositionIsFaithful`, `FrontEndIsSound`, `PreparationIsFaithful`, `SuiteIsGenuine`, `CompilationEnds` | 118 layouts of a root and two modules whose files grow; every call graph of three subflows; expressions of depth two in every place; documents of three resources with faults, constraints and an oracle; suites and sweeps of up to three cases, every alteration of them in one place |
| `references` | `EvaluationIsSound`, `MatrixIsExact`, `WalksAsEngineOne`, `ComparisonIsSound` | seventeen values of every type, expressions of three operators; all matrices of up to three dimensions of five kinds; every main flow of one or two nodes with subflows two levels deep, from two states; 114 pairs of definitions, with a diff of their own, of the pair reversed or none |
| `evidence` | `RowsAreMaterializedOnce`, `PublicationIsOrdered`, `PublicationsEnd`, `ExportIsWhole`, `PromisesAreKept` | two callers, nine results (rows that bring their keys, leave them to the database, do not name them, or some of each), three attempts; plans of up to five bundles, two threads, windows of up to three; single exports and pairs of them with two edits; every artifact the tables know and two they do not |
| `command_line` | `InvocationsAreSafe`, `EveryInvocationEnds` | three of some thirty invocations over six files, one edit at any time between two |
| `replay_removes_existing` | `ExistingIsPreserved` (violated) | one replay artifact over an existing file, one failing call |
| `fault_ignored` | `FaultsPrecedeScheduling` (violated) | as `definitions` |
| `finding_unclassified` | `FindingsAreClassified` (violated) | as `references` |

A safety property of the runs `definitions`, `references`, `evidence` and `command_line` is the conjunction of its component's type invariant and of the named
invariants that its module states one by one, each with a comment of its own.

What the passing runs show:

- *actor_execution.* Wherever a step raises, the runner is as its history left it. The stack of
  an actor is a function of its committed steps only. The schedule of a run, failed or not, can
  be recomputed from the history. Every execution is one of `SerialActors`, and ends.
- *exact_replay.* A replay of a genuine schedule is accepted; whatever is accepted reproduces
  state, clock, history and artifacts of the original; and no transition commits whose record
  differs from the expected one.
- *batch_stream.* Worker count, window and completion order change neither the items nor the way
  a batch ends. The stream does not run ahead of its caller. When the generator is left, by its
  end, an error, an interrupt or a caller that loses interest, nothing runs on. Every pull is
  answered.
- *actor_shrink.* No accepted deletion passes over an earlier actor whose deletion is certain to
  preserve the failure; minimality is claimed only when no single deletion is certain to preserve
  it, and withheld only when the search was stopped in front of an actor it had not settled.
  Budgets hold, every evaluation is accounted for, and the search ends.
- *file_publication.* Whatever fails, is interrupted or killed, a path has the whole of one artifact
  or what was there before; seen from outside a publication appears only at an absent path, is
  replaced only by the writer that was asked to, is taken back only by the operation that made it
  and never after success was reported. What raised leaves nothing, unless an unlink of its
  clean-up failed. Replay artifacts and trace views are given a path of their own here, which
  their clean-up takes for granted (finding 1 is what happens otherwise).
- *definitions.* In a composed scenario every reference finds what it meant where it was written,
  except for the nodes of a fault's path, which find what they would mean in the root and never a node
  of their own module unless they spell its alias out;
  nothing is lost or overwritten, no cycle is new, and no file that grew past its bound is accepted. A document is
  refused for a cycle only when it has one; what is accepted never enters a flow that is under way,
  so every run of it ends, and compilation itself does. An accepted expression finds its namespaces, and nothing is refused
  that would evaluate, with the exceptions named below. Resolution ends in the one assignment that
  satisfies all declarations, in whatever order; a fault changes what lies under its path; replay
  with other inputs prepares alike or is refused; a report that passes was observed. Budgets of a
  suite are used by the cases that complete and by nothing else; a suite that verifies tells what its
  cases did; its own evidence always verifies; a replay is of genuine evidence, state included.
- *references.* Both evaluators agree wherever both have a value, the orderings are total, the canonical
  form separates what Python confuses, and quotients are decimals within half a unit. A matrix is exactly the
  filtered product in odometer order under the numbers of the unfiltered one, refused above the
  bound before anything is made; what runs is a retained case. An actor of Engine 2 executes exactly
  the steps, with exactly the addresses, that the recursion of Engine 1 executes, though it throws its
  route away and starts again from the stack in every round; no two steps share an address; it always
  stops. A diff without a change means equal flows, although steps are looked up by identity; every
  change is above a difference and every difference below a change. In whatever order the search
  goes, what is reported is reachable, what is reachable is reported unless a cut path is reported, and
  its class is the one all paths to it justify.
- *evidence.* An attempt leaves all rows of its result or none, whoever else tries. A result one of
  whose rows brings its key is there once, however often it is tried; one that leaves all its keys to
  the database is there as often as it was committed, whether or not the answer arrived. Receipts and the error of a publication are a function of the plan, the window and the bound;
  what a failure leaves outside without a receipt is never more than a window; no adapter is called
  after the end; the operation ends. A directory that appears is complete and as declared, whatever was
  edited; what raised leaves nothing; what was there is not replaced. What the planner plans the
  executor executes, for no other artifact, and learning more loses no capability.
- *command_line.* A replay of what a run left is never refused and prints what the run printed; no
  artifact of another scenario is executed as its own, and the refusal is of the right family, which is
  the family of failed executions only where plugins are missing; two outputs are published together or
  not at all; the exit family of a run that executed well tells whether its outputs are there (all of
  them, at destinations that were free, also when nothing could be printed, so that the same command is
  refused then; none after an I/O failure); every invocation ends. Version 2 has the name of version 1
  and is the one that fails to be prepared, so that an artifact of 1 meets it at every test.

### Bounds

`actor_execution`: five selections are more than each scenario's longest run needs, except
the ones that must meet the selection limit; `ScheduleCapacity = 4` records fit the byte bound,
so that runs of five meet it; the clock has three instants, so that two advances of one are
possible and a third overflows; the first actor takes one of six flows (straight, branching,
repeating by state, repeating twice before a call, nested with indices, unroutable), the second
fails in any one of the nine phases, or in two, and the third is ready only while the state is
0, so that it comes and goes as the others commit. `RoutingLimit` is 8 there and 9 in
`SoloActor`, reached by the longest flows. Batches use two workers and windows up to three
over plans of up to four requests: enough for out-of-order completion, a window that slides and
is shorter than the plan, and an error in front of, inside and behind the window. A size of
2 passes `Limit = 3` alone but not twice, a size of 4 never does. The minimizer has three eligible
actors: deleting the third may make the first deletable again, which takes a second pass, and all
six evaluations of the longest search fit the larger budget of evaluations. The other budgets run
out between candidates, between the runs of one, in front of its replay and in the baseline.
Repetitions are three, the least the code accepts. Publications
come in pairs on the same paths: two operations suffice for every race on a name, because a name
has one owner. Two failing calls of one operation reach an error in the clean-up after an error
and one in the roll back after that.

Components of `definitions`, `references` and `evidence`: two modules beside the root are enough for every collision of
namespaces (module to root, module to module, alias to declaration), one growth of a file for every
race with its check. Three subflows give every shape of cycle up to length three and every way two
searches meet. Expressions of depth two put every operator under every other. Three resources make a
chain, a diamond within one value, a cycle with a bystander. Two faults applied at steps (`MaxHits`)
are two faults or one twice. Pairs of definitions reach every bound
of the comparison (7 changes, 37 nodes, 40 edges, paths of 10, 48 records) and stay within each;
two actors share what one writes and the other reads. Matrices have up to three dimensions,
so that the middle one carries, and bounds one below and at the largest product. A suite of three
cases has one before and one after the case that exceeds a budget. Five bundles and windows of up
to three let the window slide past its first position and stop in front of, inside and behind it;
receipt bounds of 3 and 10 bytes are reached and never reached. Exports have two files of two chunks and two edits, one
before and one after the file was opened; pairs of operations share a destination. Two callers with
three attempts reach a commit whose answer was lost, its repetition by the same caller, and both
orders of rows in common. Three invocations are a run, a replay of what it left and one more;
one edit at any time breaks any contract between two of them.

### Fairness

- `ActorExecution` is one thread: `WF_vars(Next)` says that it takes its next step, nothing
  more. `SoloActor` likewise.
- `BatchStream`: the generator runs whenever it was pulled, worker threads take what is queued and
  finish (executions terminate, see `Termination`). The caller is only assumed to go on when it
  is `execute_batch`, whose loop does; a consumer of the stream may stay away for ever.
- `ActorShrink` is one thread too: `WF_vars(Search)`. The deadline is the environment's and may
  never pass; the search ends without it.
- `FilePublication` states no fairness: an operation may be killed anywhere, and its properties are
  about what is there at any time.
- `AdapterPublication`: the caller's thread goes on (`Caller`), the worker threads take what is queued and
  finish (`Threads`): an adapter is trusted to return. An interrupt is never due.
- `DslCompile` is one thread, `WF_vars(Next)`. `CommandLine`: an invocation under way goes on
  (`WF_vars(Handle)`); whether there is another one is the user's business.
- `EvidenceExport`, `Materializer`, `Compatibility`, `Composition`, `Preparation`, `Semantics`,
  `Impact`, `Matrix` and `EngineSuite` state no fairness; nothing is claimed of when they get anywhere.
- Deadlock is checked for `actor_execution` and `exact_replay`. In the other runs an ended
  batch, a stream left suspended, an ended search, ended operations, and a program whose callers ask
  for nothing more stop for good.

## Proofs

| theorem | property |
| --- | --- |
| `ActorExecution_proofs!SelectionIsReady` | the scheduler picks exactly one ready actor |
| `ActorExecution_proofs!TypeCorrect` | `TypeOK` |
| `ActorExecution_proofs!TransitionsAreAtomic` | `RunnerMatchesHistory` |
| `ActorExecution_proofs!FailedStepsDoNotCommit` | `NothingFailedCommits` |
| `ActorExecution_proofs!EvidenceIsWellFormed` | `SchedulesAreWellFormed` |
| `ActorExecution_proofs!ImplementsSerialActors` | `SerialSpec` |
| `ActorExecution_proofs!HistoryInvariance` | the history decides where the coordinator is (`HInv`) |
| `ActorExecution_proofs!RoutesAreDiscarded` | `PositionsFollowHistory` |
| `ActorExecution_proofs!EvidenceMatchesHistory` | `EvidenceIsSound` |
| `ActorExecution_proofs!GenuineSchedulesAreAccepted` | `GenuineReplayAccepted` |
| `ActorExecution_proofs!OnlyGenuineSchedulesAreAccepted` | `AcceptedReplayIsGenuine` |
| `ActorExecution_proofs!ReplayStopsInTime` | `NothingUnverifiedCommits` |
| `BatchStream_proofs!TypeCorrect` | `TypeOK` |
| `BatchStream_proofs!NothingLeftBehind` | `QuietAfterEnd` |
| `BatchStream_proofs!WorkersAreInvisible` | `SerialBatchSpec` |
| `BatchStream_proofs!CallerIsNotOverrun` | `AheadWithinWindow` |
| `ActorShrink_proofs!TypeCorrect` | `TypeOK` |
| `ActorShrink_proofs!EvaluationsAccounted` | `EveryEvaluationCounted` |
| `ActorShrink_proofs!MinimalityWithheld` | `WithheldForAReason` |
| `ActorShrink_proofs!ImplementsGreedyDeletion` | `ReductionSpec` |
| `FilePublication_proofs!TypeCorrect` | (type correctness) |
| `FilePublication_proofs!PublishedIsWhole` | `TargetsAreWhole` |
| `FilePublication_proofs!RaisedCleansUp` | `RaisedLeavesNothing` |
| `FilePublication_proofs!ImplementsAbsentPublication` | `PublicationSpec` |
| `Evidence_proofs!MaterializedOnce` | `RowsAreMaterializedOnce` |
| `Evidence_proofs!EvidencePublished` | `PublicationIsOrdered` |
| `Evidence_proofs!EvidenceExported` | `ExportIsWhole` |
| `Evidence_proofs!EvidenceMigrated` | `PromisesAreKept` |
| `Definitions_proofs!DefinitionsComposeFaithfully` | `CompositionIsFaithful` |
| `Definitions_proofs!DefinitionsCompileSoundly` | `FrontEndIsSound` |
| `Definitions_proofs!DefinitionsRunGenuinely` | `SuiteIsGenuine` |
| `Preparation_proofs!DefinitionsPrepareFaithfully` | `PreparationIsFaithful` |
| `CommandLine_proofs!InvocationsSafe` | `InvocationsAreSafe` |

They hold for every set of actors, scenario, digest, bound, plan, number of workers, window,
oracle, budget, set of publishing operations, set of callers and results that satisfies the named assumptions of the modules: finite nonempty set of actors with a rank
(the byte order of addresses), positive bounds, operators that return values of the declared
sets, digests that are natural numbers. Some theorems ask for more, as a hypothesis of their own
which TLC evaluates where the component is run: publications as a refinement take operations
whose clean-up by path meets only their own files (`CleanUpMeetsOwnFiles`; `CastsCleanUp` in
`MCFilePublication`), exports take jobs that name files and destinations (`JobsAreWellFormed`),
and invocations are commands with at least one source, a file or the standard input, of which a replay
has two, and with files for destinations (`CommandsAreWellFormed`, which the parser of arguments
sees to); a run artifact that was tampered with was so in one of the six contracts that
`_require_replay_compatibility` and its reader compare (`suite.run/1` records no observations that
could be forged).
`MCEvidence` asks of adapters plans of bundles of the seven kinds and natural bounds (`OptionsAreWellFormed`);
`KnowledgeIsWellFormed` says of the callers of the compatibility reports that they know known coordinates. `MCDefinitions` asks of a
layout that names are sequences of segments and that a file declares each name of a section once
(`LayoutsAreWellFormed`; `parse_module` refuses others), of a document that it has one actor if it is of DSL 1 and that each actor has a
main flow (`DocumentsAreWellFormed`), of derived values that they are finitely many
(`DerivationsAreFinite`), of a document prepared that its resources are finitely many trees whose leaves
are at paths of which none continues another, that a fault refers to no input and that no constraint has the
name of an invariant (`DocumentsAreWellFormed` of `Preparation`), and of executions that what they use
is a number (`ExecutionsAreSized`). Names
are not `@composition`, under which the resolver keeps the resources of modules: a root that spells
such a reference out is not among the layouts.

**Scheduler.** Ranks are injective on a finite ready set, so positions 0..n-1 of the sorted list
are each taken exactly once (induction on the cardinality is replaced by a bijection argument);
digest modulo n is one of them.

**Coordinator.** `RunnerMatchesHistory` alone is not inductive: `Commit` copies the candidate, so
one must know what the completed phases put into it and that the state has not moved since. The
inductive invariant `IInv` adds to `TypeOK`: `Counting` (one decision per commit, one more during
an attempt), `AttemptIsFresh` (the selected route is the route of the chosen actor in the
current state; after the phase `patch`, `timestamp` or `emit` the candidate holds what that phase
computes; the completed phases do not raise) and `DecisionsInOrder` (ordinals, ready sets,
outcomes; what the schedule constructor checks). `SerialSpec` follows from it: a `Commit`
maps to a step of the chosen actor, `Complete` to the end, an exit by exception to `stopped`, and
every other action stutters.

**Determinism and replay.** That the route of an actor may be thrown away after every round, and that a
schedule can be recomputed, are facts about folds over the history. `HInv` adds to `IInv` that in
every phase the coordinator is where `View` says: a function of scenario and history that starts at
the initial state and, after n commits, has the state and the time of the nth and the stacks that
`PositionsOf` folds out of the first n. From a view the routes, the selection, its decision and what
raises are determined (`Determined`), so that two executions of one scenario and seed have histories of
which one is a prefix of the other (`OneHistory`), and can end in one way only (`OneConclusion`). The argument does not
ask whether an execution is compared with a schedule: `HInv` holds for the second execution of
`ExactReplay` as well. `RInv` puts the two together: the first execution is explained by its scenario
and seed (`OriginalIsExplained`), the presented schedule carries the coordinates the second one started with, and what is
judged at the end are two ends of the same execution or a disagreement with a record.

**Induction over data.** The induction theorems of the library take an operator, which no installed
prover can instantiate; well-foundedness (`NatLessThanWellFounded`, `WFMin`) is about sets. A set of
naturals that has 0 and with each number its successor is therefore everything (`SetInduction`), a
nonempty one has a least element (`LeastElement`), and a recursive function is known by its equation
once a function that satisfies it is known to exist (`PositionsDef`, `FlattenDef`, `BytesDef`).

**Batch.** `IInv` says that the delivered items are the first items of a serial execution
(`DeliveredSerially`), that the generator is in the loop its plan calls for and how it was left
(`PhaseMatchesPlan`), that exactly the first `submitted` requests have futures and the queued
ones are never ahead of started ones (`FuturesSubmitted`). `WindowIsBounded` is the extra
conjunct for `AheadWithinWindow`.

**Minimizer.** That a claim of minimality is honest rests on what the current pass has behind it
(`Settled`: no position before the current one belongs to a deletion that is certain to preserve
the failure), and `Settled` on what the runs of a candidate tell about the oracle (`Underway`:
each outcome observed is one the oracle has, so one that is not `same` refutes certainty). The
passes start again after each deletion because `Settled` is about the actors removed so far. With
`Accounted`, the exact count of evaluations before the end, they make the counts and the
refinement inductive: `Judge` with an acceptance maps to `Delete(position)`, the step into `ended`
to `ClaimMinimal`, `GiveUp` or `Reject`, everything else stutters.

**Publication.** `TargetsAreWhole` needs to know that what is, or ever was, at a path was forced to
the disk when it was whole (`WholeOnDisk`), and that no operation writes again to a file it has
forced (`Progress`: the files at and behind its position are not on the disk before `Sync`).
`RaisedLeavesNothing` has an invariant of its own, `Cleaned`: a publication is only at its own
target (`Placed`), and for every label the publications and the temporary name that an operation
may still have, each with the failed unlink that excuses it (`TempOf`, `Excused`). An operation
adds files of its own only, so that the steps of others cannot disturb either.
The refinement of `AbsentPublication` needs what an operation holds at each label (`HeldBy`): which of
its paths show its file, and that nobody else's clean-up will unlink there. That is where
`CleanUpMeetsOwnFiles` comes in, and finding 1 is what happens without it.

**Adapters.** `PInv`, in `Evidence_proofs`, says how far the caller is in each phase (`Progress`: until the iterable is
exhausted the window is full whenever the caller turns to a receipt), that no position behind it gave a
cause to stop (`PublicationSound`, `Kept`), that the bytes are those of the receipts (`Counted`), and
that out of the loop the outcome is that of `Expected` (`Settled`). `Expected` is the first position of
a sequential publication at which anything stops it; each exit of the caller is shown to be at the least
cause there is, whatever calls have ended.

**Exports.** `EInv`, also in `Evidence_proofs`, follows an operation through its labels: how many files it has staged (`InPlace`),
that a migration goes on only with a copy that matches its descriptor and that a rename only moves what
was validated (`Checked`), and that the operation is at its destination exactly when its rename
succeeded (`Outcome`, `Placed`). Edits of sources do not enter it: what was read is judged by its
digest alone.

**Compatibility.** The proof, in `Evidence_proofs`, is about the tables. Each rule requires of a replay what it requires of an
execution, and says why where it requires nothing (`RulesAreSound`); each route has one step, which the
executor knows for this kind and schema (`RoutesAreKnown`), so that planned is accepted
(`PlannedIsAccepted`). `MInv` adds where the last report comes from: a state of knowledge that the
present one extends, which is what makes capabilities monotone.

**Materializer.** While a transaction is open every row of its result was prepared (`Open`), so that
every row, in the database or in a transaction, is the one row of its caller, attempt and place, with
the key it brings or one of its own (`Shaped`), and no two share a key (`Keyed`). `Whole` and `Reported`
follow with the commit, which adds all rows of an attempt at once. Two rows of one place are of two
attempts; each left all its rows (`Whole`), so a row of the result that brings its key would be there
from both attempts under one key, against `Keyed`: hence the result brings none (`TwiceUnkeyed`). That is
as much as the code guarantees; that a result is there once needs a key in one of its rows.

**The run of the evidence.** `ComponentInv` holds the invariant of the component that runs; the
others do not touch its variables.

**Compiler.** `CompileInv` says of the depth-first search that the flows under way call one another,
each the next, and that those finished call finished ones only and hold no circle
(`SearchIsDepthFirst`). A call back to a flow under way closes a circle, which is then really there; and when the
search is through, there is none (`ActorsAreCompiled`). The frames of a run call one another
(`FramesAreCalls`), so a flow entered again would be a circle of flows. That is the argument why
Engine 1 may recur without a bound of its own.

**Expressions.** What the parser carries down an expression are flags. `FlagsAreKept`: what is
forbidden at an operator is forbidden below it, except where a constraint lifts it (see the
divergences); hence the verdict on the reference at the end is that of the whole path
(`VerdictIsParsed`). Derived values are computed in layers (`DerivedAreLayered`); a circle is left
over when no layer can be taken.

**Suites.** Budgets are sums over the cases, and sums over sequences are recursive: `PartialSums` states
what such a sum is as a function, which exists by induction over the natural numbers and is the only
one. `SuiteInv` then says that each case is what execution makes of it, given what those before it
used (`CasesAreExecuted`), and that whatever result there is was written by the executor for some seed, up to
the state in it (`AreCases`, `EvidenceIsOffered`). What verifies has its parts linked (`VerifiedIsLinked`), the
links lead from the request to the schedule and the failure in it, and these the executor wrote for one seed;
the state is on no link, which is why only a replay tells about it.

**Composition.** The bound on what is read is a sum over the files accepted so far. A sum over a finite
set is the value of a recursive function on its subsets, which exists by induction on their size
(`Sums`). `ComposedIsMerged` says that what was composed is a function of the root and of what was loaded
(`MergedOf`), whatever the order of loading, which is half of what the identity promises. What
remains is about that function. If no declaration of a module begins with the name of another
alias (`Apart`), the place of an entry tells its owner and its name, so that counting loses nothing and a
lookup at a rewritten reference finds exactly what the reference meant, for each kind of reference and
section; one that is left as it is, a node of a path, finds what it would mean in the root (`PathsHold`).
A circle among composed resources is taken apart: its resources of modules depend on
resources of modules only, so they are a circle by themselves, written as such; if there are none, the
circle is within the root.

**Preparation.** A value is a tree, known by its paths. Putting a value at a path leaves every other path as
it was (`GraftIs`, `GraftKeeps`), so a resource that was made as declared stays so while what it
refers to stays, and two trees that agree in every resource are one. `Layered` says that resources are
resolved, ordered or remain, and that none refers to one that comes after it: a set of which every member
refers into the set never leaves what remains, so what remains when no layer can be taken is such a set and nothing
else is refused (`Knot`). `Making` and `Based` say that those resolved are as declared in the tree there is,
hence in the one at the end. `LeadsTo` says which trees the faults up to a position
lead to as the set of steps they take, without computing them, so that two runs over one base are at one tree
(`Faulted`, `Repeated`); `Local` that what lies under no applied path is as it was resolved. `Kept` holds what
is known of the run that is replayed, whose hashes name the inputs it read: with the same values there,
the replay makes each resource what it was (`Agree`).

**Command line.** `IInv` follows one invocation. What it loaded passed what is refused of it (`Loading`); the
files are those it found until it publishes (`Unwritten`). While a run of either engine publishes, some number
j of its outputs is at their destinations, the others are pending, and everything else is as it was
(`Publishing`); when it prints, all of them are (`AllAreThere`). If j is
not zero, the destinations were absent and differ from one another, because they were looked at
before the first was written; that is why taking back what was created restores the files as they
were, and why no later destination is found taken. What a run prints or leaves is of its scenario and its
seed (`RunPrinted`), and so is whatever an earlier one left (`KeptIs`): a replay of that passes each contract in
turn, in either engine, and prints it (`KeptReplays`, `ReplayPrinted`). That an artifact on the wrong scenario is
an incompatible replay is a fact about classes of exceptions: the first family that has one of
the bases of the error is the least of the indices that hit (`FirstFamily`, `Incompatible`), and about the
order of `EnvelopeFails`, which lets one other error come first (`PluginsFirst`). The property itself is
part of the invariant (`Judged`): it speaks of ended invocations, which stay what they are until the next one.

**The run of the definitions.** As for the evidence, `DefinitionsInv` holds the invariant of the
component that runs.

The inductive invariants were checked with TLC as invariants of the instances above before they
were proved.

Model-checked only: liveness (`Termination`, `Answered`, `SearchEnds`, `PublicationsEnd`,
`CompilationEnds`, `EveryInvocationEnds` and the end of a walk in `WalksAsEngineOne`), which TLAPS
does not treat; `WalksAsEngineOne`, `EvaluationIsSound`, `MatrixIsExact` and `ComparisonIsSound`, whose
reference definitions recur over flows, values, dimensions and graphs: what a recursive operator
computes for every input needs an induction over data, which is out of reach. Every other property of
the passing runs is stated by a theorem.

## Findings

1. *A failed publication removes the file that was there* (`cli/main.py:699`, `854`; run
   `replay_removes_existing`). A replay artifact or trace view is published without a check; when anything but
   the link fails, the destination is unlinked by its path. With a full disk, a file that existed
   before is deleted and nothing replaces it; tests require an existing destination to be preserved.
2. *Engine 2 ignores resource faults* (`dsl/actor_runtime.py:310`; run `fault_ignored`). The parser
   accepts faults at `before_validation` in DSL 2 and the architecture says they complete before
   scheduling starts; only Engine 1 applies them.
3. *An impact report of DSL 2 cannot be made when a path is cut* (`impact.py:362`; run
   `finding_unclassified`). An entity at the bound of the search is classified `UNKNOWN`, which is not
   among the four classifications that `impact/2` has and counts; `to_jsonable` raises `KeyError`. It
   takes an actor of 256 steps of which the first is new.

### Divergences noted while modelling

The models follow the code in all of these; no run is kept for them, and the properties above are
stated so that they hold where the code does what it does on purpose.

- Invariants are evaluated after emissions and the transition are resolved (`runner.py:82`), before
  them according to `docs/phase5-architecture.md:148`. Atomicity holds.
- A step fault that raises does so after its decision is recorded and before the `try` block
  (`dsl/actor_runtime.py:410`): the attempt leaves none of the evidence that
  `docs/phase5-architecture.md:175` promises.
- A canonical record is longer than 128 bytes, so the 8 MiB of a schedule (`schedule.py:258`) are
  exhausted before the 65,536 selections that `docs/phase5-architecture.md:734` says pass, and that is
  found when the run is over.
- A batch stream that raised and is pulled again builds an envelope of the items so far under the
  hash of the whole plan (`batch/runtime.py:159`; `docs/phase2-architecture.md:99`).
- An output whose temporary name could not be removed is not among those rolled back
  (`cli/main.py:638`, against its docstring at `614`).
- A migration compares the digest of its copy only when the descriptor declares one, and does not
  look for changes of its source (`evidence/migration.py:203`; `docs/phase3-public-contract.md:162`).
- The executor of migrations does not compare the product version: a plan built by hand for an
  artifact of product 2 runs along a route of product 1 (`evidence/migration.py:152`;
  `docs/phase3-architecture.md:606`, `625`).
- A native result that cannot be built is recorded as an `ERROR` case and the suite goes on
  (`engine2_suite.py:700`); `docs/engine2-suite.md:55` says it aborts.
- Faults of DSL 2 are checked against one of the steps of an identity that several actors may have
  (`dsl/parser.py:409`; `docs/dsl-reference.md:230`). `FaultsHitDeclared` is about DSL 1.
- Below `$append`, `$object` and `$sum_field` a constraint may refer to state
  (`dsl/parser.py:260`; `docs/dsl-reference.md:94`). `AcceptedResolves` leaves these places out.
- A declaration of a module whose name begins with another alias lands in that namespace, and a
  resource of that name is shadowed without an error (`composition/resolver.py:138`;
  `docs/phase2-architecture.md:77`). `LinksAreFaithful` and `NoNewCycles` assume that names are apart.
- The `selector.subflow_path` of a module's fault is not moved into the namespace of its alias
  (`composition/resolver.py:270`), although the nodes it lists are (`composition/resolver.py:190`): a
  fault restricted to a path through its own module as its author names it never applies, without an
  error, and one may apply below a node of the root that has the name. `docs/dsl-reference.md:229` has
  paths restrict faults and `docs/phase2-architecture.md:77` has aliases namespace every declaration.
  `PathsAreOfTheRoot` states what the code does.
- A primary key has to be named and may be `None` (`adapters/sqlalchemy.py:152`, `114`), though
  `docs/sqlalchemy.md:19` has the required value validated before any write and
  `docs/sqlalchemy.md:30` no identity generated by the database. Where the database does generate
  it, a result that is tried again after a commit that went unanswered is there twice. `NoRowTwice` says
  when.
- A matrix case offered from outside is compared by Python equality, which takes `True` for `1`, and its
  own assignment is bound (`matrix/runtime.py:51`; `docs/phase2-architecture.md:91`).
- `TypeError` and `KeyError` raised by operators of a valid scenario end with the exit families of
  validation and of internal errors (`cli/main.py:1425`; `docs/phase2-public-contract.md:74`).
- An artifact of Engine 1 on another scenario of the same `id` that declares a plugin ends with
  the family of failed executions, because `_prevalidate_plugins` (`dsl/runtime.py:215`) precedes the
  comparison of the hashes; `docs/phase2-architecture.md:62` has family 5 for what replay rejects.
  `WrongScenarioIsIncompatible` names the exception.
- `replay - --scenario -` reads the standard input twice, the second time empty
  (`cli/main.py:714`; `docs/phase2-public-contract.md:77`).

- A `$ref` within the value of a resource is not an edge, only a resource that is a `$ref` as a whole
  (`impact.py:246`; `docs/phase4-architecture.md:417`): constraints on such a resource are not reported.
- The targets of a call within a subflow are looked for under that subflow (`impact.py:231`), and a
  dotted or nested fault path under a name that is not there (`impact.py:274`, `277`): the search goes
  to an entity nobody declared and ends there.
- The graph of DSL 2 has no edges of resources, validators, faults or the oracle (`impact.py:298`); a
  change of one of the last three is counted though it is no node, so that the amplification may
  exceed one. `Amplified` says which.
- Faults in another order are no difference (`definition_diff.py:104`), though the hash of the
  definition and what the faults do may be another. `DiffIsExact` is about flows there.
- A path that is cut makes `UNKNOWN` of an entity that was changed itself (`impact.py:362`), and what
  lies beyond it is not listed.

## Not modelled

- `diff/compare.py`, which compares two finished runs field by field.
- Suite models, packs, plugins and assertions: data and pure functions; what
  other components test of them is modelled there, and what a plugin or an assertion may raise is a
  fate in `ActorExecution`, `Preparation` and `EngineSuite`.
- Reading of YAML and canonical JSON with their limits, hashing (perfect in the models; the digest
  of the scheduler is a constant operator), rendering, scaffolding, the arguments' syntax.
- The generators' named streams and identifiers: that addresses are unique (`WalksAsEngineOne`) is what they rely on.
- The strict reader of bundle documents and the builders of bundles: data validation.
