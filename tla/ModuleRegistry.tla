--------------------------- MODULE ModuleRegistry ---------------------------
(***************************************************************************)
(* The module registry of one isolate that runs several test files         *)
(* (src/src/runner.rs): require(), the module runner's load of a module,   *)
(* vi.mock / vi.doMock / vi.unmock / vi.importActual / vi.resetModules,    *)
(* the eviction of the importers of a mocked module, and the reset between *)
(* two files, which keeps what setup mocked.                               *)
(*                                                                         *)
(* A path is a member of Modules.  An exports object is a cell of "heap":  *)
(* objects keep their identity, importers hold cells and read them live.   *)
(* `cjs_exports`, `cjs_synth_by_path` and `cjs_export_names` are written   *)
(* and removed together on this path and are one map here, "exports".      *)
(***************************************************************************)
EXTENDS Naturals, Sequences, FiniteSets, Functions

CONSTANTS
  App,           \* the project's own modules
  Pkgs,          \* modules under node_modules
  Imports,       \* what a module's body requires, in order: [Modules -> Seq(Modules)]
  Declares,      \* what a module's body mocks first (vi.mock is hoisted): [Modules -> SUBSET Modules]
  Mockable,      \* the modules that tests and setup mock
  Async,         \* the mockable modules that some factory mocks asynchronously
  MayThrow,      \* modules whose body may throw
  Decorated,     \* modules run once more with metadata when their body throws
  GetterOnly,    \* modules whose real exports are accessors without a setter
  Names,         \* the names a module exports
  UnmocksSetup,  \* whether a file may unmock a module that setup mocked
  MaxFiles, MaxMocks, MaxHeap   \* bounds: files, factories run per file, objects of a module alive at once

Modules == App \union Pkgs

ASSUME RegistryAssumption ==
  /\ App \intersect Pkgs = {} /\ Async \subseteq Mockable /\ Mockable \subseteq Modules /\ Decorated \subseteq MayThrow
  /\ MayThrow \subseteq App /\ GetterOnly \subseteq Modules /\ UnmocksSetup \in BOOLEAN
  /\ IsFiniteSet(Modules) /\ Names # {}
  /\ Imports \in [Modules -> Seq(Modules)] /\ Declares \in [Modules -> SUBSET Mockable]
  /\ MaxFiles \in Nat \ {0} /\ MaxMocks \in Nat /\ MaxHeap \in Nat

VARIABLES
  heap,        \* the exports objects of each path alive: whether a mock made it or a load did, what
               \* its names hold, the object each import of the module is bound to, and (history)
               \* whether a mock was put over what the load made
  exports,     \* cjs_exports: the object an import of the path is served
  real,        \* real_exports: the object of the path's own load
  mocks,       \* the paths with a registered mock
  edges,       \* import_edges: <<imported, importer>>
  stack,       \* the module bodies executing, innermost last (loading, REQUIRE_STACK)
  phase,       \* setup (first file), prepass, drain, run
  file, made,  \* which file runs; the factories it ran
  setupMocks, snapshot,  \* SETUP_MOCKS, SETUP_MOCK_SNAPSHOT
  queue,       \* __pendingMocks: the entry's mocks whose async factory has not settled
  waits,       \* __ttDoMockWaits: the async doMock of a path not yet settled, as the file it is of
  declared,    \* (history) what the mock in force of a path holds; no names when none is, or when
               \* it was put over accessors, which do not take it
  touched,     \* (history) the paths a test mocked or unmocked
  loads        \* (history) how often a package's body ran to its end: never, once, or 2 for more
vars == <<heap, exports, real, mocks, edges, stack, phase, file, made, setupMocks, snapshot,
          queue, waits, declared, touched, loads>>

registry == <<exports, real, mocks>>
fileVars == <<phase, file, setupMocks, snapshot>>
history == <<declared, touched, loads>>

None == <<"", 0>>                      \* no object
Real == <<0, 0>>                       \* what a name of a module's own load holds
NoNames == [n \in {} |-> Real]
Nowhere == [m \in Modules |-> None]
Free == [mock |-> FALSE, over |-> FALSE, val |-> NoNames, bound |-> <<>>]

Init ==
  /\ heap = [m \in Modules |-> [i \in 1..MaxHeap |-> Free]] /\ exports = Nowhere /\ real = Nowhere /\ mocks = {} /\ edges = {}
  /\ stack = <<>> /\ phase = "setup" /\ file = 1 /\ made = 0
  /\ setupMocks = {} /\ snapshot = [m \in Modules |-> NoNames]
  /\ queue = <<>> /\ waits = [m \in Modules |-> 0]
  /\ declared = [m \in Modules |-> NoNames] /\ touched = {} /\ loads = [m \in Pkgs |-> 0]

----------------------------------------------------------------------------
(* The objects and the maps *)

Top == stack[Len(stack)]
Below == SubSeq(stack, 1, Len(stack) - 1)
IsLoading(m) == \E i \in DOMAIN stack : stack[i].mod = m
LoadingObject(m) == (CHOOSE f \in {stack[i] : i \in DOMAIN stack} : f.mod = m).obj

Object(ref) == heap[ref[1]][ref[2]]
RealObject(m) == [mock |-> FALSE, over |-> FALSE, val |-> [n \in Names |-> Real],
                  bound |-> [i \in DOMAIN Imports[m] |-> None]]
MockObject(v) == [mock |-> TRUE, over |-> FALSE, val |-> v, bound |-> <<>>]

\* the least superset of S that F, which gives the successors of each element, does not lead out of
Closure(F, S) ==
  LET closure[T \in SUBSET DOMAIN F] ==
        LET more == T \union UNION {F[x] : x \in T} IN IF more = T THEN T ELSE closure[more]
  IN closure[S]

\* what an object's imports are bound to
Bounds(o) == Range(o.bound) \ {None}

\* the objects that the maps and the executing bodies hold, directly or through an import; the
\* engine collects the others
Held(h) ==
  LET roots == {exports'[m] : m \in Modules} \union {real'[m] : m \in Modules}
               \union {stack'[i].obj : i \in DOMAIN stack'}
               \union {stack'[i].saved : i \in DOMAIN stack'}
  IN Closure([r \in Modules \X (1..MaxHeap) |-> Bounds(h[r[1]][r[2]])], roots \ {None})
Live(h) ==
  LET held == Held(h)
  IN [m \in Modules |-> [i \in 1..MaxHeap |-> IF <<m, i>> \in held THEN h[m][i] ELSE Free]]
FreeCells(m) == {i \in 1..MaxHeap : heap[m][i] = Free}
NewCell(m) == <<m, CHOOSE i \in FreeCells(m) : \A j \in FreeCells(m) : i <= j>>
Write(ref, o) == [heap EXCEPT ![ref[1]][ref[2]] = o]
Bind(ref, k, to) == [heap EXCEPT ![ref[1]][ref[2]].bound[k] = to]

\* what the load of a lowered ES module made: __copyProps gives accessors without a setter
Accessors(m, o) == m \in GetterOnly /\ ~o.mock

\* `dst.set(k, v)` for every name of "v": an accessor without a setter keeps what it reads
Assign(m, o, v) ==
  IF Accessors(m, o) THEN o
  ELSE [o EXCEPT !.val = [n \in DOMAIN o.val \union DOMAIN v |->
                            IF n \in DOMAIN v THEN v[n] ELSE o.val[n]]]

Evict(map, S) == [m \in Modules |-> IF m \in S THEN None ELSE map[m]]

\* what importing "m" reaches backwards: app modules that are not mocked themselves
EvictsPackagesToo(m, mocked) == {x \in Modules \ mocked : <<m, x>> \in edges}  \* mutant: packages are not spared
DirectImporters(m, mocked) == {x \in App \ mocked : <<m, x>> \in edges}
OnlyDirectOnes(m, mocked) == DirectImporters(m, mocked)  \* mutant: no transitive importers
Importers(m, mocked) == Closure([x \in Modules |-> DirectImporters(x, mocked)], {m}) \ {m}

\* a mock is put over a registered object
PutOver(m, o, v) == [Assign(m, o, v) EXCEPT !.over = ~o.mock]

\* what a mock of a path would hold, registered now
InForce(m, v) == IF exports[m] # None /\ Accessors(m, Object(exports[m])) THEN NoNames ELSE v

\* register_mock_value: a registered object takes the names of the mock in place and keeps its
\* identity, else the mock's own object is registered; then the importers are evicted
RegisterMock(m, v) ==
  LET mocked == mocks \union {m}
      gone   == Importers(m, mocked)
      placed == IF exports[m] # None THEN exports[m] ELSE NewCell(m)
  IN /\ exports[m] # None \/ FreeCells(m) # {}
     /\ mocks' = mocked
     /\ exports' = [Evict(exports, gone) EXCEPT ![m] = placed]
     /\ real' = Evict(real, gone)
     /\ heap' = Live(Write(placed, IF exports[m] # None THEN PutOver(m, Object(placed), v)
                                   ELSE MockObject(v)))

\* what a factory returns: some of the names, holding a value of its own, <<whose, which>> with
\* setup as file 0
Owner == IF phase = "setup" THEN 0 ELSE file
Returns(who, k) == UNION {[S -> {<<who, k>>}] : S \in (SUBSET Names) \ {{}}}
Runs == made < MaxMocks /\ made' = made + 1

----------------------------------------------------------------------------
(* require() and the load of a module *)

\* load_cjs_inner up to the call of the body; "saved" is the mock that actual_exports put aside
Start(m, saved) ==
  /\ FreeCells(m) # {}
  /\ heap' = Write(NewCell(m), RealObject(m))
  /\ stack' = Append(stack, [mod |-> m, obj |-> NewCell(m), next |-> 0, saved |-> saved,
                             retried |-> FALSE])

\* actual_exports of a module that was never really loaded: its mock's records go meanwhile
LoadActual(m) ==
  LET saved == IF m \in mocks THEN exports[m] ELSE None
  IN /\ Start(m, saved)
     /\ mocks' = mocks \ {m}
     /\ exports' = IF m \in mocks THEN [exports EXCEPT ![m] = None] ELSE exports
     /\ UNCHANGED real

ServesPackagesTheMock(m, package) ==  \* mutant: a package's own require sees the mock
  IF IsLoading(m) THEN LoadingObject(m) ELSE exports[m]
\* what native_require serves at once to a package (which never sees a mock) or to app code
Served(m, package) ==
  IF IsLoading(m) THEN LoadingObject(m)
  ELSE IF package /\ m \in mocks THEN real[m]
  ELSE exports[m]

\* native_require by the body on top of the stack
Requires ==
  /\ stack # <<>> /\ Top.next \in DOMAIN Imports[Top.mod]
  /\ LET m       == Imports[Top.mod][Top.next]
         package == Top.mod \in Pkgs
         got     == Served(m, package)
     IN /\ edges' = edges \union {<<m, Top.mod>>}
        /\ \/ /\ got # None
              /\ heap' = Bind(Top.obj, Top.next, got)
              /\ stack' = [stack EXCEPT ![Len(stack)].next = @ + 1]
              /\ UNCHANGED registry
           \/ got = None /\ package /\ m \in mocks /\ LoadActual(m)
           \/ got = None /\ ~(package /\ m \in mocks) /\ Start(m, None) /\ UNCHANGED registry
  /\ UNCHANGED <<fileVars, history, made, queue, waits>>

\* the module's own vi.mock calls, hoisted above what it requires
RunsHoisted ==
  /\ stack # <<>> /\ Top.next = 0
  /\ stack' = [stack EXCEPT ![Len(stack)].next = 1]
  /\ \/ Declares[Top.mod] = {} /\ UNCHANGED <<heap, registry, made, declared, touched>>
     \/ \E m \in Declares[Top.mod], v \in Returns(Owner, MaxMocks + 1) :
          /\ RegisterMock(m, v)
          /\ declared' = [declared EXCEPT ![m] = InForce(m, v)]
          /\ touched' = IF phase = "setup" THEN touched ELSE touched \union {m}
          /\ UNCHANGED made
  /\ UNCHANGED <<edges, fileVars, queue, waits, loads>>

\* put the mock back that actual_exports put aside
LostAfterActual(map, f) == map  \* mutant: the mock's record is not put back
Restored(map, f) == IF f.saved = None THEN map ELSE [map EXCEPT ![f.mod] = f.saved]
Remocked(f) == IF f.saved = None THEN mocks ELSE mocks \union {f.mod}

\* the body returned: the module is registered, and the requirer is given what it asked for
Finishes ==
  /\ stack # <<>> /\ Top.next = Len(Imports[Top.mod]) + 1
  /\ LET f == Top
         registered == [exports EXCEPT ![f.mod] = f.obj]
     IN /\ real' = [real EXCEPT ![f.mod] = f.obj]
        /\ exports' = Restored(registered, f)
        /\ mocks' = Remocked(f)
        /\ loads' = IF f.mod \in Pkgs /\ loads[f.mod] < 2 THEN [loads EXCEPT ![f.mod] = @ + 1] ELSE loads
        /\ IF Below = <<>> THEN stack' = <<>> /\ heap' = Live(heap)
           ELSE LET g == Below[Len(Below)]
                IN /\ stack' = [Below EXCEPT ![Len(Below)].next = @ + 1]
                   /\ heap' = Live(Bind(g.obj, g.next, f.obj))
  /\ UNCHANGED <<edges, fileVars, made, queue, waits, declared, touched>>

\* the body threw: nothing is registered; the requirer caught it, or throws next itself
Throws ==
  /\ stack # <<>> /\ Top.next > 0 /\ Top.mod \in MayThrow
  /\ ~(Top.mod \in Decorated /\ ~Top.retried)
  /\ exports' = Restored(exports, Top)
  /\ mocks' = Remocked(Top)
  /\ stack' = IF Below = <<>> THEN <<>> ELSE [Below EXCEPT ![Len(Below)].next = @ + 1]
  /\ UNCHANGED real
  /\ heap' = Live(heap)
  /\ UNCHANGED <<edges, fileVars, history, made, queue, waits>>

\* a decorated module whose body threw runs once more, with an object of its own
RunsAgain ==
  /\ stack # <<>> /\ Top.next > 0
  /\ Top.mod \in Decorated /\ ~Top.retried
  /\ FreeCells(Top.mod) # {}
  /\ UNCHANGED registry
  /\ stack' = [stack EXCEPT ![Len(stack)].obj = NewCell(Top.mod), ![Len(stack)].next = 0,
                            ![Len(stack)].retried = TRUE]
  /\ heap' = Live(Write(NewCell(Top.mod), RealObject(Top.mod)))
  /\ UNCHANGED <<edges, fileVars, history, made, queue, waits>>

LoadStep == Requires \/ RunsHoisted \/ Finishes \/ Throws \/ RunsAgain

----------------------------------------------------------------------------
(* What setup, the entry's prepass and the tests do: no body is executing *)

Idle == stack = <<>> /\ phase # "drain"

\* require() or import() of a module by the test file or by setup
Imported(m) ==
  /\ Idle /\ exports[m] = None
  /\ Start(m, None)
  /\ UNCHANGED <<registry, edges, fileVars, history, made, queue, waits>>

\* vi.importActual, or importOriginal in a factory, of a module never really loaded
ImportActual(m) ==
  /\ Idle /\ m \in Mockable /\ real[m] = None
  /\ LoadActual(m)
  /\ UNCHANGED <<edges, fileVars, history, made, queue, waits>>

\* a mock with a synchronous factory: registered at once, and an async doMock of the module that
\* has not settled is superseded
Mock(m) ==
  /\ Idle /\ m \in Mockable /\ Runs
  /\ \E v \in Returns(Owner, made + 1) :
       /\ UNCHANGED stack /\ RegisterMock(m, v)
       /\ declared' = [declared EXCEPT ![m] = InForce(m, v)]
  /\ waits' = [waits EXCEPT ![m] = 0]
  /\ touched' = IF phase = "setup" THEN touched ELSE touched \union {m}
  /\ UNCHANGED <<edges, fileVars, queue, loads>>

\* the entry's vi.mock with an async factory, in the prepass: queued (one per module and file)
QueueMock(m) ==
  /\ Idle /\ phase = "prepass" /\ m \in Async
  /\ \A i \in DOMAIN queue : queue[i] # m
  /\ queue' = Append(queue, m)
  /\ UNCHANGED <<heap, registry, edges, stack, fileVars, history, made, waits>>

\* run_entry_mocks: the queue was resolved, drain_pending_mocks registers it in order; a factory
\* that has not settled after the last turn of the pump is left out
Drain ==
  /\ phase = "drain" /\ stack = <<>> /\ queue # <<>>
  /\ queue' = Tail(queue)
  /\ UNCHANGED stack
  /\ \/ \E v \in Returns(file, made + 1) :
          /\ Runs
          /\ RegisterMock(Head(queue), v)
          /\ declared' = [declared EXCEPT ![Head(queue)] = InForce(Head(queue), v)]
          /\ touched' = touched \union {Head(queue)}
     \/ UNCHANGED <<heap, registry, made, declared, touched>>
  /\ UNCHANGED <<edges, fileVars, waits, loads>>

\* a vi.doMock with an async factory, and the turn in which it settles
DoMockAsync(m) ==
  /\ Idle /\ phase = "run" /\ m \in Async
  /\ waits' = [waits EXCEPT ![m] = file]
  /\ UNCHANGED <<heap, registry, edges, stack, fileVars, history, made, queue>>

Settles(m) ==
  /\ Idle /\ waits[m] # 0 /\ Runs
  /\ \E v \in Returns(waits[m], made + 1) :
       /\ UNCHANGED stack /\ RegisterMock(m, v)
       /\ declared' = [declared EXCEPT ![m] = InForce(m, v)]
  /\ waits' = [waits EXCEPT ![m] = 0]
  /\ touched' = touched \union {m}
  /\ UNCHANGED <<edges, fileVars, queue, loads>>

\* vi.unmock / vi.doUnmock: the mock and the module's own load go, its importers stay
Unmock(m) ==
  /\ Idle /\ phase = "run" /\ m \in Mockable
  /\ UnmocksSetup \/ m \notin setupMocks
  /\ mocks' = mocks \ {m}
  /\ exports' = [exports EXCEPT ![m] = None]
  /\ real' = [real EXCEPT ![m] = None]
  /\ waits' = [waits EXCEPT ![m] = 0]
  /\ declared' = [declared EXCEPT ![m] = NoNames]
  /\ touched' = touched \union {m}
  /\ UNCHANGED <<edges, stack, fileVars, made, queue, loads>>
  /\ heap' = Live(heap)

\* vi.resetModules: the app's real loads go; mocks and packages stay
ResetModules ==
  /\ Idle /\ phase = "run"
  /\ LET gone == {m \in App : exports[m] # None} \ mocks
     IN exports' = Evict(exports, gone) /\ real' = Evict(real, gone)
  /\ UNCHANGED <<mocks, edges, stack, fileVars, history, made, queue, waits>>
  /\ heap' = Live(heap)

----------------------------------------------------------------------------
(* The phases of a file, and the next file on the isolate *)

\* run_test_file_reused after the setup files: what is mocked now is setup's
EndSetup ==
  /\ Idle /\ phase = "setup"
  /\ phase' = "prepass" /\ made' = 0
  /\ setupMocks' = mocks
  /\ snapshot' = [m \in Modules |->
                    IF m \in mocks /\ exports[m] # None THEN Object(exports[m]).val ELSE NoNames]
  /\ UNCHANGED <<heap, registry, edges, stack, file, history, queue, waits>>

Resolved ==
  /\ Idle /\ phase = "prepass"
  /\ phase' = "drain"
  /\ UNCHANGED <<heap, registry, edges, stack, file, setupMocks, snapshot, history, made, queue, waits>>

EntryLoads ==
  /\ phase = "drain" /\ queue = <<>>
  /\ phase' = "run"
  /\ UNCHANGED <<heap, registry, edges, stack, file, setupMocks, snapshot, history, made, queue, waits>>

\* restore_setup_mocks: the names setup's mocks had are put back, in place
LeavesRemocks(kept) == heap  \* mutant: restore_setup_mocks is not called
Restore(kept) ==
  [m \in Modules |-> [i \in 1..MaxHeap |->
     IF kept[m] = <<m, i>> THEN Assign(m, heap[m][i], snapshot[m]) ELSE heap[m][i]]]

\* __ttDoMockWaits.clear()
KeepsWaits == waits  \* mutant: the reset leaves a file's pending doMocks to the next
ClearedWaits == [m \in Modules |-> 0]

\* reset_app_registry, restore_setup_mocks and __ttResetForNextFile
NextFile ==
  /\ Idle /\ phase = "run" /\ file < MaxFiles
  /\ LET kept == Evict(exports, mocks \ setupMocks)
     IN /\ exports' = kept
        /\ real' = Evict(real, mocks \ setupMocks)
        /\ UNCHANGED stack
        /\ heap' = Live(Restore(kept))
  /\ mocks' = mocks \intersect setupMocks
  /\ queue' = <<>> /\ waits' = ClearedWaits
  /\ file' = file + 1 /\ made' = 0 /\ phase' = "prepass"
  /\ declared' = [m \in Modules |-> InForce(m, snapshot[m])]
  /\ UNCHANGED <<edges, setupMocks, snapshot, touched, loads>>

TestStep ==
  \/ \E m \in Modules : Imported(m) \/ ImportActual(m) \/ Mock(m) \/ QueueMock(m)
                        \/ DoMockAsync(m) \/ Settles(m) \/ Unmock(m)
  \/ ResetModules

Next == LoadStep \/ TestStep \/ Drain \/ EndSetup \/ Resolved \/ EntryLoads \/ NextFile

Spec == Init /\ [][Next]_vars

----------------------------------------------------------------------------
(* The modules and mocks that the properties are about: of others the code *)
(* keeps less, see the README                                              *)

\* no load of "m" comes to "x"
ImportsClosed(S) == \A x \in S : Range(Imports[x]) \subseteq S
Unreached(m, x) == \E S \in SUBSET Modules : m \in S /\ x \notin S /\ ImportsClosed(S)

\* setup's mocks left alone by the files, and no module that is reached from one it mocks
DeclaresApart == \A x \in Modules : \A m \in Declares[x] : Unreached(m, x)
MocksApart == ~UnmocksSetup /\ DeclaresApart

\* vi.mock is called by modules that nothing requires, as test files and setup are, and no app
\* module is reached from a mockable one that it requires
OnlyEntriesDeclare == \A x, y \in Modules : Declares[x] # {} => x \notin Range(Imports[y])
NoCycleThroughMocks ==
  \A m \in Mockable, x \in App : m \in Range(Imports[x]) => Unreached(m, x)
ImportersApart == OnlyEntriesDeclare /\ NoCycleThroughMocks

----------------------------------------------------------------------------
(* Properties *)

References == {None} \union (Modules \X (1..MaxHeap))
TypeOK ==
  /\ exports \in [Modules -> References] /\ real \in [Modules -> References]
  /\ mocks \subseteq Modules /\ edges \subseteq Modules \X Modules
  /\ phase \in {"setup", "prepass", "drain", "run"} /\ file \in 1..MaxFiles

\* Whatever was loaded, mocked, unmocked, loaded for importActual or reset before, in this file
\* or in an earlier one, an import of a mocked module is served the names of the mock declared
\* last: the test's, or setup's again in the next file (register_mock_value, actual_exports,
\* restore_setup_mocks).  Accessors take no names: a mock put over them holds none.
ServesLatestMock ==
  \A m \in Modules : DOMAIN declared[m] # {} /\ ~IsLoading(m) =>
    /\ m \in mocks /\ exports[m] # None
    /\ \A n \in DOMAIN declared[m] : Object(exports[m]).val[n] = declared[m][n]

\* A mock that a file declared does not outlive it: what a module that only tests mock is served
\* as its mock comes from the file that runs (reset_app_registry, __ttDoMockWaits.clear).
MocksOfThisFile ==
  \A m \in mocks \ setupMocks : ~IsLoading(m) =>
    \A n \in DOMAIN Object(exports[m]).val :
      Object(exports[m]).val[n] = Real \/ Object(exports[m]).val[n][1] = Owner

\* A module the registry serves never reaches a mocked module behind its mock: along the objects
\* its imports were bound to, an app module bound to a path that is mocked now holds the object an
\* import of that path is served (invalidate_importers and the in-place re-mock).
Untouched(r) == ~Object(r).mock /\ ~Object(r).over
Reached ==
  Closure([r \in Modules \X (1..MaxHeap) |->
             {to \in Bounds(Object(r)) : Untouched(to) /\ to[1] \in App \ mocks}],
          {exports[m] : m \in App \ mocks} \ {None})
ImportersHoldTheMock ==
  stack = <<>> =>
    \A r \in Reached : \A to \in Bounds(Object(r)) :
      to[1] \in mocks => to = exports[to[1]]

\* What a package requires is a module's own load, never the object a mock made
\* (turbo-test#135), and reads what the load made, unless a mock was put over that very object.
PackagesBindLoads ==
  \A p \in Pkgs, i \in 1..MaxHeap :
    \A to \in Bounds(heap[p][i]) :
      /\ ~Object(to).mock
      /\ ~Object(to).over \/ to[1] \in GetterOnly =>
           \A n \in DOMAIN Object(to).val : Object(to).val[n] = Real

\* A package that no test mocks or unmocks is evaluated at most once by an isolate, whatever app
\* modules are evicted, reset or loaded again around it: its singletons stay single.
PackagesRunOnce == \A m \in Pkgs \ touched : loads[m] <= 1

\* Packages are bound to no mock and stay single.
PackagesApart == PackagesBindLoads /\ PackagesRunOnce

\* The object of a mock is held by every module of the app that imports what it mocks, and by no
\* package.
MocksReachTheApp == ImportersHoldTheMock /\ PackagesApart

\* What the code does not keep.  A mock of a registered module is served, by that path, to
\* whoever imports it: "mutate the existing object in place: copy the new mock's props onto it.
\* Identity is preserved; every importer sees the update" (register_mock_value).
EveryImporterSeesTheUpdate ==
  \A m \in mocks : ~IsLoading(m) =>
    \E n \in DOMAIN Object(exports[m]).val : Object(exports[m]).val[n] # Real
=============================================================================
