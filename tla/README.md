# turbo-test in TLA+

turbo-test runs vitest suites on V8. It is one process: a main thread that plans
the run and reports it, worker threads that each own V8 isolates, a pool of
threads for native addons' asynchronous work, and whatever threads the addons
start. The JavaScript it executes is single-threaded; what is hard to get right
is what surrounds it: hand-overs between threads, memory owned by whoever is
last to let go, registries and thread-locals that outlive the file or the isolate
they came from, caches that several workers and runs share, work that is retried,
and results that must not go missing.

This directory specifies those parts, checks them with TLC on small instances,
and proves the central ones with TLAPS for every value of the constants.
`PROJECT.json` lists the components, the runs, the mutants, the theorems, the
hazards, and the source lines each definition stands for. Source files are named
relative to `src/src/`.

- [The system](#the-system)
- [The modules](#the-modules)
- [The runs](#the-runs): instances, bounds, symmetry, fairness
- [What disagrees with the code's own words](#what-disagrees-with-the-codes-own-words)
- [Deviations that no run reports](#deviations-that-no-run-reports)
- [The proofs](#the-proofs)
- [What is not modelled](#what-is-not-modelled)

## The system

| part | source | state | operations | what it talks to |
|---|---|---|---|---|
| Launcher, configuration | `launcher.rs`, `cli.rs` | flags, filters, configuration | read the command line, discover and select files, forward to the runner | starts the run |
| Schedule | `cli.rs` | the durations file | cut the shard, order by past duration | gives the worker pool its order |
| Affected tests | `graph.rs` | memo of import closures | visit, select | file selection |
| Worker pool | `cli.rs` (`run_files`) | cursor, failed count, results | pull, bail, count, push, join, tally | every worker; the reporters |
| One file | `cli.rs` (`execute_file`), `runner.rs`, `heap_guard.rs` | thread-locals: isolate, registry, setup mocks, document | run (reused or fresh), retry, recycle, panic, end | registry, DOM, event loop |
| Module registry and mocks | `runner.rs` | modules of both kinds, mocks, snapshots of them | resolve, load, link, evaluate, mock, unmock, reset | transforms |
| Transforms and caches | `runner.rs`, `esm_cjs.rs` | memory LRU, files on disk, code caches | look up, store, lower, defer | other processes sharing the directory |
| Event loop | `runner.rs` (`drive_tests_bounded`), `runtime.js` | timers, nextTicks, native tasks | turn, wait, give up | addons, test runtime |
| Test runtime | `runtime.js` | suites, hooks, attempts | collect, run, retry, time out, report | event loop, reporters |
| Node-API | `napi_host.rs` | envs, scopes, references, records, hooks | calls, collections, teardown | addons |
| Threadsafe functions | `napi_host_async.rs` | queue, count, state, tasks posted | create, call, acquire, release, dispatch, finalize | native threads and event loop |
| Async work | `napi_host_async.rs` | the pool's jobs, in-flight counts | create, queue, cancel, delete, complete | pool threads and event loop |
| Coverage | `coverage.rs`, `runner.rs` | counts shared by the workers | map, merge, gate | exit code |
| Reporters, snapshots, `expect` | `human.rs`, `runtime.js`, ... | output | format, compare | results |

Interactions. A worker takes a file (worker pool), runs it in its own or a new
isolate (one file), which fills the thread's registry and drives the event loop;
native tasks reach that loop from pool threads (async work) and from addon
threads (threadsafe functions) through `NativeLoop`, a mutex-guarded queue with
a condition variable. Isolates share nothing but the pool, the addon lock, the
caches and the run's counters.

What is hard, and what makes each part correct:

- *Concurrency*: threadsafe functions (who frees, lost dispatches and wakeups),
  the pool's queue, the cursor and bail, workers that share a cache directory.
- *Failure*: a panic or heap exhaustion in the middle of a file, a throwing setup
  file, module or mock factory, a file whose retries disagree, a cache half written.
- *Staleness*: what one file leaves in a reused isolate, importers of a module that
  is mocked after they captured it, a source edited while it is cached.
- *Ordering*: teardown against work in flight, finalizers that register hooks,
  hooks around tests, the memo of the import graph against the order of the tests.
- *Timeouts*: a body left behind by its timeout, the turn limit of the event loop,
  timers against native tasks.

`hazards` in `PROJECT.json` gives each at its line with the properties that cover
it, or the reason why none does.

## The modules

| module | models | composed in |
|---|---|---|
| `CallQueue` | abstract: what a threadsafe function promises its callers | implemented by `ThreadsafeFunction` |
| `ThreadsafeFunction` | the function, its callers, the JS thread's dispatch, finalization, teardown | `MCThreadsafeFunction` |
| `WorkRounds` | abstract: the rounds of a `napi_async_work` | implemented by `AsyncWork` |
| `AsyncWork` | works, pool threads, each isolate's loop and in-flight count | `MCAsyncWork` |
| `RunFiles` | the worker pool of a run and its exit code | `MCRun`, `MCWholeRun` |
| `ExecuteFile` | one worker: retries, the two ways to run a file, thread-locals | `MCRun`, `MCWholeRun` |
| `TestRun` | the suites, hooks and tests of one file, and its report | `MCRun`, `MCWholeRun` |
| `EventLoop` | the event loop of the files of one isolate | `MCEventLoop` |
| `NodeApi` | the calls of addons: entries, scopes, exceptions, references, records | `MCNapi` |
| `Teardown` | the disposal of an isolate with addons | `MCNapi` |
| `ModuleRegistry` | the module runner: modules as CommonJS, mocks, eviction, reset | `MCModuleRegistry` |
| `EsmGraph` | the ES module loaders: load, link, evaluate, mocks, reset | `MCModules`, `MCSources` |
| `SourceCache` | sources, transforms and code caches, in memory and on disk | `MCSourceCache`, `MCModules`, `MCSources` |
| `CommandLine` | from a command line to the order of the files | `MCWholeRun` |
| `AffectedTests` | the memoized import closure, and test selection | `MCAffectedTests`, `MCSources` |
| `EsmToCjs` | ES modules lowered to CommonJS, against the language | `MCSources` |
| `Coverage` | counts mapped to source, merged by workers, the gate | `MCWholeRun` |
| `...Proofs` | inductive invariants, safety, refinements | |

`MCRun`, `MCNapi` and `MCModules` hold several components that share no variables: a
behaviour is of one of them, named by `machine`, and the others' variables do not
change. `MCWholeRun` adds the stages of a run before and after `MCRun`'s, and
`MCSources` puts what is done with source files together, in the same way, by `stage`.
Where two components meet, the one takes what the other gives as any of the values it
can give: `RunFiles` the outcome of a file, `ExecuteFile` what a file leaves in the
registry and its verdict, `RunFiles` again the order that `CommandLine` makes.

### ThreadsafeFunction

`queue`, `threadCount`, `state` and `dispatchPosted` are `TsfnShared`, guarded by
one lock; a step is a critical section. `Call` and `Resume` are
`napi_call_threadsafe_function` (before and after a wait), `Acquire` and `Release`
the calls of those names, `DispatchOpen`, `DispatchClosing` and `CallJs` are
`dispatch_one` in its two parts (under the lock, and the call into JavaScript),
`Drain` and `Finish` are `finalize_tsfn`, `CloseForTeardown` the disposal of the
isolate. A thread is a unit of `thread_count`, and keeps Node's contract: it uses
the function only while it holds it. The tasks of other functions in the loop
are left out: they only delay this one's.

### AsyncWork

`Queue` and `NotifyOne` are two steps because the code notifies after it unlocks;
a pool thread is `Take`, `Executed`, `Sleep` and spurious wakeups. Disposal stops
an isolate's JS thread at any time, works in flight or not, as the code does: the
wait for a file ends with its promise. What `execute` does in the addon is not
modelled.

### RunFiles

`Look` (bail) and `Pull` (the cursor) are separate steps, as are `Execute`,
`Count` and `Push`. The code's atomics are relaxed; the model interleaves them in
one order. For the cursor that is exact (a read-modify-write on one location).
For the failure count a relaxed load may lag behind, so `BailOvershoot` is about
a memory where it does not: in practice files run for milliseconds and a lag of
nanoseconds adds nothing observable.

### ExecuteFile

A run is `Begin...` (the isolate is created or reset, setup files run), `Run`, and
`End...`; a `Panic` may come after either of the first two. The registry is a set
of handles with the isolate, the kind (module, linked and not evaluated, setup
mock, test mock) and the file each comes from. `saved` and `forceFresh` are what
`run_fresh_with` swaps out. `Decide` is the retry loop and the choice of the
fresh verdict. Setup mocks are hoisted, so they are registered even when the
setup file throws. Isolate numbers are reused as soon as nothing in the thread
refers to them, so that the state space is finite without a bound on files.

### TestRun

`stack` holds a frame of `runSuite` for every suite entered; an attempt at a test
goes step by step through the `beforeEach` hooks of its chain, its body, the
`afterEach` hooks, the cleanups and the handlers, each of which does as it should,
throws or skips; a body may also time out, be left behind, and do later what it
still would. `phase` and `told` are what the file is told as. What is out of the
ordinary in one behaviour is bounded by `MaxOdd`, so that every pair of odd events
meets in every arrangement of the file.

### EventLoop

A turn of `drive_tests_bounded` is a sequence of steps (`pc`): nextTicks,
microtasks, native tasks, the choice of the next macrotask, the wait for native
work for as long as that timer's delay, the timer, the guard on turns. While `js`
is set a callback runs and may queue ticks and microtasks, set and clear timers,
install fake timers and advance them, queue works, call and (un)reference the
threadsafe function. `gen` is the generation of the file: timers carry theirs.
The clocks are virtual, as in the code.

### NodeApi and Teardown

In `NodeApi`, `stack` is the isolate's entries into addon code, `scope` the handle
scope an env's calls are made in, and an exception is in one of the places the
code keeps it: `pending` on an env, put `aside` by a finalizer's entry, kept in
`uncaught` to be reported, or `settled`. A collection may come whenever the engine
runs. Calls that change none of this are
classes (`Plain`, `Guarded` and so on) whose members share their entry code.
`Teardown` has the isolate's one list of registrations (envs, hooks, asynchronous
hooks, open functions) and works it off as `AddonEnvs::drop` does, newest first,
again while hooks register more. Which kind of addon code registers what during
the disposal is the constant `Registers`.

### ModuleRegistry

Exports objects are cells with an identity: importers are bound to cells and read
them live, which is what makes a re-mock in place reach them and an eviction
necessary where it does not. `stack` holds the bodies executing. `RegisterMock`
is the whole of `register_mock_value`; its callers (hoisted, `doMock`, settled
late, setup) are actions. Cells that neither a map nor a body holds are
collected, which keeps the state finite. A module whose load gives accessors without a
setter, as an ES module lowered to CommonJS does, is in `GetterOnly`: both app modules
of the instance are. A mock that is put over such exports changes nothing but the
records (`Accessors`), and `declared`, the reference of `ServesLatestMock`, holds no
names then (`InForce`).

### EsmGraph

The loaders are synchronous and mutually recursive: they are operators from a
registry to a registry (`LoadAll`, `LinkAll`, `EvaluateAll` over worklists), and
an action is a stage of a whole call: load, instantiate, evaluate, return. `asks`
of a record is what its imports were to get when it was linked: the reference
that `ReadsWhatWasAsked` compares with. Being recursive, the module is one that
TLC checks and nothing is proved about.

### SourceCache

Texts are version numbers, all of one size; the file system's clock shows every
`Grain`-th tick. A load is a sequence of steps between which files are edited and
the process killed: stamp, look in memory, read, look on disk, transform, write
(to a temporary file and rename, or in place on the ES-module path), keep in
memory, compile with or without the code cache, enqueue its production.

### CommandLine, AffectedTests, EsmToCjs, Coverage

Sequential stages. `CommandLine` reads a command line token by token, by the
launcher's rules and then, what is forwarded, by the runner's; flags are in
classes (takes a value, may take one, takes none), patterns are what they match.
`AffectedTests` has the recursion of the visit as a stack of frames, the guard
against cycles as membership in `visited`; `Reach` is the reference. `EsmToCjs`
runs every small program of imports and exports twice, as ES modules and as the
lowered CommonJS, and compares the order of bodies and every read. `Coverage`
gives all sources one shape with a branch, a function and a throwing statement;
two workers map and merge what their files ran, and the properties compare the
tables with the runs themselves. The source map is a shift by the helpers before the
code, in which one line begins with blanks (`BlankFirst`): it is credited to the end
of the line before it. The gate is that of the lines metric.

## The runs

All properties below hold, except those of the five runs marked **violated**.
Every property of a passing run has mutants of the mapped code (`mutants` in
`PROJECT.json`) under which TLC finds it violated. `CHECK_DEADLOCK FALSE` is set
where the system may stop: a function nobody calls, a finished run, an ended
worker, a finished stage. Async work never stops (a pool thread can always wake
or sleep) and is checked for deadlock.

| run | instance | shows |
|---|---|---|
| `tsfn` | 3 threads (one acquired by another), queue limit 1, 2 calls each, fair | `Safety` (`NoUseAfterFree`, `NoLeak`, `NoLostWakeup`), that it implements `CallQueue`, `Progress` (every datum is settled, blocked callers return, the function is freed) |
| `work` | 2 isolates, 3 works, 2 pool threads, 2 rounds, fair | `Safety` (`NoUseAfterFree`, `InFlightExact`, `WorkConserving`), that it implements `WorkRounds`, `Progress` (rounds complete, the queue drains) |
| `run` | every command line of 3 tokens; pool: 2 workers, 4 files, bail 2; worker: 2 files, one with a document, all three modes; tests: every arrangement of 2 tests and a describe block; coverage: 2 workers and 2 test files | `AsAsked`, `ShardsCover`; `RunOnce`, `BailOvershoot`, `NoSilentSkip`, `RunEnds`; `RunsAlone` (own handles, clean start, own document), `Verdict`; `HooksAround`, `EachTestTold`; `TellsWhatRan`, `GateIsHonest` |
| `napi` | calls: 2 addons, an object, 2 records (or one and a reference), 2 exceptions, 2 nested entries; disposal: 2 envs, a hook of each kind, 2 functions, fair | `Exceptions`, `ScopeLive`, `FinalizedOnce`, `WrapLive`; `DisposalSafe`, `NothingLeft`, `DisposalEnds` |
| `event_loop` | 2 files, delays 0 and 2, 4 calls of the host by JavaScript, 1 call of the function, fair | `EndsWhenDone`, `OwnFile`, `InTurn`, `LoopEnds` |
| `event_loop_stale` | the same with native work awaited while stale timers are there | **violated**: `EndsWhenDone` |
| `registry` | 2 files on one isolate, 2 app modules that export accessors, 2 packages that import each other, a throwing body that is run again | `ServesLatestMock`, `MocksOfThisFile`, `MocksReachTheApp` (importers hold the mock's object, packages a load's) |
| `registry_accessors` | the same | **violated**: `EveryImporterSeesTheUpdate` |
| `modules` | every import graph of 3 tests; cache: 2 workers, 2 modules, 2 edits; graph: 2 test files, 3 app modules, 3 packages, 2 calls by the tests of each; every program of 3 modules with 3 declarations | `NoOverSelection`, `ExactWithoutCycles`; `LoadsWhatWasThere`, `CodeCacheSound`; `ReadsWhatWasAsked`, `ServesWhatWasAsked`, `OneInstance`; `RunsLikeTheSource` |
| `esm_link` | the graph with re-mocks of modules that importers are linked to | **violated**: `LinksTheMock` |
| `cache_torn` | the cache | **violated**: `NeverHalfWritten` |
| `affected_superset` | the import graphs | **violated**: `NeverUnderSelects` |

### Bounds

- *tsfn, work.* A queue of one is full after one call, so that three threads
  block, are woken together and find it full again; a third thread is needed so
  that one may abort while two wait. Two calls each let a thread come back after a
  wait. Two pool threads and two isolates are the fewest that take out of order and
  share the pool with an isolate that is gone; two rounds let a work be queued
  again, after completion or cancellation.
- *run.* Four files and two workers let both be anywhere in their loops when bail
  is reached and the cursor at its end. `MaxIsolate` is 4: the worker's, the fresh
  run's, and one each for the document and the snapshot, so that a stale reference
  is never mistaken for a new isolate. A describe block before, around and without
  tests gives hooks of one and two levels; `MaxOdd` 3 lets three things out of the
  ordinary (a mode, a filter, a retry, a throw, a timeout, a skip) meet. Three tokens
  have a flag, its value and a filter in every order. Of the two sources of the
  coverage, the one that the report leaves out runs to its end or throws
  (`LeftOutRuns`).
- *napi.* Two addons let one be entered from the other's code and a finalizer of
  either on top; depth 2 of explicit entries has every pair of kinds of entry, and
  finalizers nest beyond it. One object with two records is wrapped again after a
  removed wrap; a wrap with the reference it hands back is a record and a reference,
  which is all that `MaxKept` leaves room for. In the disposal, a registration while
  it goes on makes it go round again.
- *event_loop.* Delays of 0 and 2 and a test timeout of 3 give timers that fire in
  the order of due time and in that of creation; two files leave timers to the
  next; a file's third turn is stopped by the guard.
- *registry, modules.* The app modules and packages are a chain with a cycle of
  packages (registry) and packages that share one (graph); two files are needed
  for anything stale, a third adds no new state to leave: the reset between files
  does not depend on their number. The cache's grain of two ticks makes a
  version's time ambiguous, its window of two makes it settle within the bound on
  the clock, and its capacity of one evicts. For the selection, three files have every
  cycle of two and three, with an import after the cyclic one, and all three are tests,
  so that a test that an earlier one imports is found in the memo; for the lowering,
  three modules have every cycle and a chain of `export *`.

### Symmetry

Used in runs, or parts of runs, of safety only: threads in `modules`, `esm_link` and
`cache_torn`. In `napi`, whose `DisposalEnds` is about
the disposal alone, the addons of the *calls* are interchangeable: no state of a
disposal names them, so the permutations are the identity on every behaviour the
liveness property is about.

### Fairness

The JS thread takes its turns while the loop has tasks (`WF` of its steps) and the
operating system schedules a notified thread (`WF` of `Resume`, of a pool thread's
`Take` and `Executed`): nothing makes a thread call, release or queue. A file's run
ends because of the turn limit and the heap guard, so a worker's steps are fair in
`RunFiles`. In `EventLoop` the loop turns, a callback returns and the pool runs its
works; a test's promise need not settle and nobody has to call the threadsafe
function, which is why `LoopEnds` excepts the wait for a referenced one. A disposal
is one thread's sequential code (`WF(Disposal)`), and asynchronous hooks complete.

## What disagrees with the code's own words

- `affected_superset`. `graph.rs` promises a superset of the affected tests. With
  an import cycle it does not compute one: the guard's empty memo entry is read as
  a closure, and the sets built on it are memoized for the tests that follow. The
  positive results draw the line: nothing is selected that is not affected
  (`NoOverSelection`), and the selection is exact without cycles
  (`ExactWithoutCycles`; with cycles, up to and including the first test that is
  visited, proved as `FirstVisitSelects`). `affected_tests` is used by
  `bin/m5_affected.rs` only.
- `event_loop_stale`. The loop waits for native work at most until the next timer
  is due, and counts the timers of a previous file, which it drops only afterwards:
  with none of its own it then gives the file up with work in flight
  (`runner.rs:9163`), where `napi_host_async.rs:7-10` says that it waits. The run
  `event_loop` keeps native work and stale timers apart.
- `cache_torn`. The ES-module path writes cache entries in place
  (`runner.rs:4049`, `4061`), where another worker may read half of one; the
  comment of `write_atomic` says that caches are renamed into place.
- `esm_link`. An ES module that a package loaded before `vi.doMock` mocked it is
  what project modules linked afterwards get (`runner.rs:6705`), while `import()`
  of the same path gives the mock.
- `registry_accessors`. On the reuse path, `vi.mock` of a module that is registered
  copies the mock onto its exports (`runner.rs:4235-4260`: "every importer sees the
  update"). The exports of an ES module lowered to CommonJS are accessors without a
  setter (`esm_cjs.rs:1150-1156`), on which the copy has no effect: a module that was
  really loaded, in an earlier file that left it registered or by `vi.importActual`, and
  is mocked later is recorded as mocked, its importers are evicted, and they get the
  real values. The run `registry` has such modules, and shows what remains: the records,
  the identity of the objects, and the values of all other mocks.

## Deviations that no run reports

Places where the code differs from its comments or from vitest, met while
modelling. The model does what the code does, and the instances or a property's
hypothesis keep them apart unless noted; constants that bring them back are named.

*Module registry.* The mock of a module that is being loaded, declared by one that its
load requires, is overwritten when the load ends (kept apart by `DeclaresApart`). A
mock declared by a module that another requires may come after that one was bound to
an importer (`OnlyEntriesDeclare`). `UnmocksSetup = TRUE`: a file's `vi.unmock` of a
setup mock outlives the file (`runner.rs:5926`). A mock that is put in place over a
load which a package holds is what that package reads, into later files too, where the
comment of `actual_exports` promises a package the real exports (5818-5825);
`MocksReachTheApp` says of packages that they hold the objects of loads, and that
these are as they were loaded unless a mock was put over them (`PackagesBindLoads`).
`importActual` of a mocked module on an import cycle lets importers capture the real
one (`NoCycleThroughMocks`). Names that a re-mock adds to a setup mock stay after it
is restored; the mocks of the instance all have the same names. `vi.unmock` evicts no
importers, and the reset of the app's registry keeps importers in packages bound to
the previous file's mock.

*ES modules.* Import edges are recorded by `native_require` alone, so importers
that are ES modules are not evicted (61-63). `Remocks = TRUE`: a re-mock in place
does not reach a synthetic module that was evaluated, and a re-mock of a setup mock
leaks to the next file. `vi.resetModules` drops an ES module only when a CommonJS
record has its path (5945). A module that was registered before its requests failed
to load stays registered. A package linked after an unmock gets another instance
than one linked while the module was mocked, and an evaluated package that threw
rethrows the previous file's error.

*Caches.* esbuild reads the file again after it was hashed (the comment at 1031
admits it; `Esbuild` modules are not edited in the runs). Package bundles are keyed
by the entry file and `package.json` alone (2763-2806). A stamp is the times read
first and the hash of the bytes read after them (`source_stamp`, 4502-4549): a file
that changes between the two and is put back within the window can get the stamp of
another of its texts. `Write` puts no file back within `Window` of a change.

*Node-API.* `CollectsRunning = TRUE`: the record whose finalizer runs at teardown is
still armed, so a collection of its object meanwhile runs it again
(`napi_host.rs:234-240`), where the comment of `Finalizer` says once (334-336). With it,
TLC finds `FinalizedOnce` violated within nine states; the run `napi` and the proofs
are about what holds without it.
`FailsRegistered = TRUE`: an init that fails after it registered leaves its
registrations and unmaps its code (4165-4170), which `MappedCode` states and which fails
then. `HandledOnly`: `Registers` leaves out what the code does not handle, a threadsafe
function's finalizer that makes another, and hooks or functions registered by finalizers
of an env that is being freed; these would be left.

*Event loop.* `waited` counts a wait that timed out twice (`runtime.js:145-149`,
246). A hung hook with a referenced function waits for ever. Native completions of a
previous file run in the next file's loop.

*Tests.* A body that its timeout left behind may still skip its test (modelled) or
count an assertion for a later one (not modelled). Hooks have no timeout of their
own: a hung hook makes the file an error. `ctx.skip` in a hook or handler makes a
failed test skipped.

*Attempts.* The error kept is the first equal attempt's while the load error noted
is the last run's (`cli.rs:59`, `runner.rs:9470`).

*Command line.* Untracked files are listed relative to the working directory and
joined to the repository's root; a `git diff` that fails is skipped
(`launcher.rs:1148-1190`).

*Lowering.* `export *` is evaluated after all other requires; names exported from
elsewhere on a request cycle read differently; an early read of a default export
gives `undefined`. `StarsLast` and `NoReExportOnCycle` are the hypotheses of
`RunsLikeTheSource`.

## The proofs

`ThreadsafeFunctionProofs`: for any threads, queue limit and number of calls. The
properties are not inductive by themselves: that a step frees nothing in use
depends on the count being the number of holders (`CountInv`), on there being at
most one task, of the right kind, for the phase the function is in (`TaskInv`,
`PhaseInv`), on a dispatch being posted whenever one is due (`DispatchInv`) and on
callers that wait holding the function (`CallInv`). `Inductive` is their
conjunction; each action has a lemma that it preserves it, `InductiveInvariance`
puts them together, and `TypeCorrect`, `SafetyHolds`, `NothingLost` and
`AccountedHolds` follow. `Refinement` maps each step to one of `CallQueue` or a
stutter: a call to `Accept`, an abort or a closing dispatch to `Close`, `CallJs` to
`Handle`, `Drain` to `Drop` (`Accounted` is what makes the datum handed over the
right one).

`AsyncWorkProofs`: for any works, isolates and pool threads. That no pointer to a
deleted work is left depends on a work being in one place at most (the jobs, a
thread, a loop: `OnePlace`) and there once (`JobsOnce`, `WorkOnce`, `ReadyOnce`),
and on what is in a place having a round under way (`RoundInv`), which is what the
addon's right to queue or delete it excludes. A work posted to a loop is of that
loop's isolate (`OwnInv`), so that completing it takes it out of that isolate's
count (`InFlightExact`). Sleeping threads have nothing (`IdleInv`), so that each
wakeup adds a thread that looks, which the conservation of jobs counts on. The
`...Moves` lemmas say where every work is after each step that moves one;
invariance, `SafetyHolds` and `Refinement` (each step moves one work through its
round of `WorkRounds`, or none) are read off them.

`RunProofs`, of the pool: for any number of files and workers, any bail and failures.
`Inductive` adds to the properties where a worker's file is (`HeldInv`), why a
worker stops (`EndInv`), where the counted failures are (`FailInv`) and how many
may still start a file once bail is reached (`BailInv`: those that looked before
and did not pull, of whom the worker that counted is not one). `TypeCorrect`,
`RunOnceHolds`, `BailOvershootHolds`, `NoSilentSkipHolds` and
`OnlyBailSkipsHolds` follow.

`AffectedTestsProofs`: for any import graph, list of tests and change. `Reach` is
shown to be closed, least and transitive; then `Inductive` says, of the visit under
way, that the stack is a path of imports (`PathInv`: without cycles, no import is
on it), that frames and memo entries hold only what their file reaches (`FrameInv`,
`MemoInv`), that without cycles a frame has the closure of all it has but the file
it waits for (`ExactInv`), and that during the first visit what was visited is in
some frame (`FirstInv`), so that the set of the bottom frame, with its test, is
closed when the visit ends. `AffectedTypeCorrect`, `NeverOverSelects`,
`ExactSelection` and `FirstVisitSelects` follow.

`RunProofs`, of a worker (`W!`): for any files, documents and isolates. What a run
meets is what the thread-locals have, so the invariant says of each stage whose that
is: a run has an isolate, and the worker's registry is aside during a fresh run only
(`StageInv`); the worker's isolate has what setup left on it, and nothing of a file
that ended (`SetupKept`). The verdict depends on the order of the runs: of one way,
then of the other, at most three each, retried only after errors (`RunsInv`,
`KeptInv`), and the error noted is that of the run under way (`NotedInv`).
`ExecuteTypeCorrect`, `RunsAloneHolds` and `VerdictHolds` follow, under
`ExecuteAssumption`.

`RunProofs`, of the tests of a file (`T!`): for any tree of suites and tests that
`describe` and `it` can collect (every task in one place, none within itself:
`Nested`), any number of hooks of each kind but none, any modes, retries and
options. Which hooks are due is a matter of where the walk is, so `HooksInv` relates
the history that the property reads to the frames and the attempt that the code
keeps. The stack is one path of the tree (`NestInv`); what comes before a frame's next
task was told and recorded, what comes after was not, and nothing outside a suite
under way is half told (`VisitInv`). What a frame counts is how many of its suite's
hooks were called (`FrameInv`), and a suite that left has called all that were due, up
to one that threw (`CalledInv`). A test is tried within suites that all run
(`AttInv`), and each step of an attempt says what was called before it, the
`beforeEach` hooks forwards and their undoing backwards (`DidInv`, by `Deeds`).
`Chain` and `Runnable` are recursive functions: `ChainStep` and the lemmas on
`Runnable` show that they have the fixed point their definitions write, by the
wellfoundedness in `Nested`. `HooksAroundHolds` follows, under `TestRunAssumption`.

What a test is told as adds `ToldInv` to it. A frame holds what the suites around its
tasks come to: spoilt by one (its `beforeAll` threw, or `.only` is forbidden in it), or
else the mode of the outermost one that is not to run (`ModesInv`); so the guards of
`runSuite` give the next test what `MustBeTold` asks of it (`ToldNext`). An attempt's
`pending`, `ok` and `errors` are what its steps came to (`TriesInv`, by `Came`), so
another follows only one that did not do. What a record was made of stays as it was,
because no test of a suite is recorded before the suite's `beforeAll` hooks were called
(`RecordsInv`). The counts are the records' (`CountsInv`), and a failure that the file
counted is that of a test, a hook or a suite that was left, or of a suite under way that
will be told as failed, or of a file with nothing collected (`FailuresInv`); a file that
passes has none. `EachTestToldHolds` follows, under `TestRunAssumption`.

`MachinesApart` shows that a behaviour of `MCRun` is one of each machine it composes,
and `RunSafe` states together what the run checks of all three.

`NapiProofs`, of the calls: for any addons, objects and depth of entries. Calls are in the
scope of their own entry because of what each entry saved: the innermost entry of
an env has its scope, and each gives back that of the one below it (`StackInv`). A
finalizer runs once because a record that is finalized has its entry on the stack,
one only (`RunInv`); what a wrapped object points at was not freed because, while
the isolate lives, everything that a live object or an env points at is held
(`HeldInv`), and a collection takes no object that a strong reference has
(`AliveInv`). `ScopeLiveHolds`, `FinalizedOnceHolds` and `WrapLiveHolds` follow.
`ExceptionsHolds` counts exceptions without counting: the four places they are kept
in are disjoint, make up all that were raised, and hold each once (`KeptInv`). That a
throw overwrites none rests on whose code has one: of an env's entries the innermost
is the top, or has a finalizer right above it (`Confined`), so that what returns to
JS finds the env below with none; what a finalizer set aside was so confined when it
was entered (`ConfinedInv`). The exception is an env whose init panicked with one
pending, which nothing entered before. They assume that `None` is no object (and no
number), and `CollectsRunning = FALSE`: see *Node-API* above for what happens without
it.

`NapiProofs`, of the disposal (`D!`): for any envs, hooks and items, inits that fail
or not, when each kind of item that code may register is one the disposal handles
(`HandledOnly`, a hypothesis of each theorem) and `None` is no env. The disposal works
its list off backwards, so the invariant is about the order of the list: each entry is
there once and everything after the entry of its env (`WellListed`), so that an env
goes last. What is open is listed, closed by this round or on its way out (`OpenInv`,
`TsfnInv`), which leaves nothing when the list is empty, and code runs only for an env
that is there (`CodeInv`). Registrations and removals happen at any time, also from
the hooks and finalizers the disposal runs, so each part has to survive them in the
middle of a round. `DisposalSafeHolds` and `NothingLeftHolds` follow;
`CallsAndDisposal` shows that a behaviour of `MCNapi` is one of `NodeApi` and one of
`Teardown`.

`EventLoopProofs`: for any delays, files, calls, works and limits. The callbacks and
the fake clock are this file's (`FileInv`), past the queues nothing runs and nothing
is queued (`LoopInv`), and the loop waits as long as the first timer has to go and
passes native work over only after that (`WaitInv`): `OwnFileHolds` and
`QueuesFirstHolds` need no more. That the loop gives a file up only when nothing of it
is left (`EndsWhenDoneHolds`), and fires a timer only after the wait for it
(`FiresAfterWaitHolds`, `InTurnHolds`), needs that no native work is awaited among
timers of an earlier file (`StaleInv`): it is a hypothesis of these theorems
(`WorkAmongStale = FALSE`), and `event_loop_stale` refutes the first otherwise. The
first of some timers exists because a nonempty set of numbers has a smallest element
(`Smallest`, from the well-foundedness of the naturals).

`SourceCacheProofs`: for any files, workers, clock grain, window and capacity. A
version is kept under the stamp its load began with, while the file, its times and
the clock go on. The invariant says of each version kept, or carried by a load that
may still keep it, that under the file's current times it is the file's text, or an
earlier one under a stamp that has a hash, of a text up to it (`VersionInv`); of each
load, that a version under the same stamp is one the file had since the load began,
or, before the hash is taken, that the hash will tell them apart (`MatchInv`). A
write keeps both because its times are new, or less than `Grain`, and so less than
`Window`, old: then the stamps of them have hashes (`WriteTimes`). A transform on
disk is that of its text (`DiskInv`; not on the ES-module path, see `cache_torn`).
`LoadsWhatWasThereHolds`, `CodeCacheSoundHolds` and `CapHolds` follow. The proof is
what showed that a file must not be put back to an earlier text within `Window` of a
change (*Caches*, above), which the two texts of the run do not.

`ModuleRegistryProofs`: for any modules, import graph, mocks, files and factories. The
mock in force of a path is not always where the properties look for it: while the
module is loaded for `importActual` or for a package, it is in the frame of that load
(`MockOf`). The invariant says of it, wherever it is, that it holds what was declared
last (`MockInv`), and whose it is (`OwnerInv`); that no path has two loads, so that
what one puts aside no other does, and that the bodies on the stack require each other
in turn (`StackInv`); that real loads are no mock's objects and as they were made while
no mock is in force (`RealInv`), and packages bound to those only (`LinkInv`); that a
package that ran is kept (`OnceInv`). `ServesLatestMockHolds`, `MocksOfThisFileHolds`
and `PackagesApartHolds` follow. That importers see the mock is of all that the
registry's objects lead to, at any distance: some set has what is served and what
executes and all it leads to short of mocks, and is bound to the mocks in force
(`SeesInv`); `Closure` is shown to be the least closed set, by which the collector, the
eviction and the property are stated. An eviction takes out of it what reaches the
mocked module, because every import was recorded as an edge; `MocksReachTheAppHolds`
follows.

They are about the modules and mocks that `MocksApart` and `ImportersApart` describe,
which the run's instance is one of (TLC evaluates them there): setup's mocks left alone,
no module that mocks what leads back to it; and, for the importers, mocks declared by
modules that nothing requires (test files and setup files) and no import cycle through a
mocked module. None can be left out: without any one of the four, TLC finds an instance
of the model that violates `ServesLatestMock` or `MocksReachTheApp` (*Deviations*,
above). Which exports are accessors is any set of modules. What the theorems say of
those is less, by the words of the properties: a mock put over accessors has no names
that `ServesLatestMock` could ask for, and its importers hold an object that gives the
real values.

The only assumptions are the modules' ASSUMEs (finite sets of threads, works and
workers, natural limits, tests that are files, owners that are isolates, a window no
shorter than the clock's grain), which the code enforces and TLC evaluates in the
runs, and those of `RunProofs`, `NapiProofs`, `EventLoopProofs` and
`ModuleRegistryProofs`, named above.

Only model-checked:

- liveness, which is out of the prover's reach (fairness and `ENABLED`);
- `EsmGraph` (`modules`): its operators are recursive, and the prover takes no module
  that declares one;
- `CommandLine` and `Coverage` (`run`) and `EsmToCjs` (`modules`): what they compute is a sort, a
  selection from a sequence or a fold over a set, and what those return for every
  input is shown by induction on the data, which the installed provers cannot do.

## What is not modelled

- The addon lock (`napi_host.rs:480`): every entry into addon code holds one
  process-wide lock. The models take one thread at a time through addon code;
  whether an addon blocks inside a call is the addon's.
- Of the module registry: assets, JSON, built-in modules, addons and
  `require.cache`, lazy stubs, inlined packages, import cycles of ES modules, and
  the rewriting of source that scopes hoisted mocks and spies on ES exports.
- Of the test runtime: concurrent tests, tests registered during a run,
  asynchronous describe callbacks, fixtures, snapshots, annotations. `expect`,
  spies and snapshots are sequential library code over values.
- Of the event loop: the pump of `resolve_pending_mocks`, a captured real
  `setTimeout`, the asynchronous variants of the fake timers' advance.
- Of the caches: bundles of packages. The transforms themselves are text to text.
- The file of the durations (read, merged and written without a lock: runs of one
  project lose each other's samples, which changes a later order and nothing else),
  reporter and environment options, patterns and globs.
- The rules that find branches in each syntax, the formats of coverage reports,
  reporters, parse errors, assets: formatting and text.
- Structured clone and text decoding (values, no state between steps), startup
  snapshots (built once, before the workers), and the DOM, which is another
  project's crate: `ExecuteFile` has only whose document is in the thread's slot.
