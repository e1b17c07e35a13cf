------------------------------ MODULE EsmGraph ------------------------------
(***************************************************************************)
(* The ES module graph of one isolate (src/src/runner.rs): how the modules *)
(* that do not go through the module runner are loaded, linked and         *)
(* evaluated, what a mock, an unmock, vi.resetModules and the reset        *)
(* between two files do to their records, and what import() returns.       *)
(*                                                                         *)
(* The loaders are synchronous functions of one thread that call each      *)
(* other and the engine: an action is a whole call from outside, and the   *)
(* functions are operators from a registry to a registry.  A registry is a *)
(* record: the maps of the code's Registry (a path absent from a map is at *)
(* 0), the engine's module records ("heap"), the CommonJS exports objects  *)
(* ("objs", which keep their identity); and, of the call, the modules      *)
(* whose body throws during it ("bad"), the bodies that ran to their end   *)
(* ("ran"), and why it failed ("err").                                     *)
(***************************************************************************)
EXTENDS Naturals, Sequences, FiniteSets, SequencesExt

CONSTANTS
  App, Pkgs,      \* the modules of the project and those under node_modules
  Cjs,            \* those of CommonJS, which import nothing; the others are ES modules
  Missing,        \* specifiers that do not resolve, or resolve to a file that does not compile
  Entries,        \* the test files of the worker, in order: [1..n -> App]
  Imports,        \* the static imports of an ES module, in order
  Mockable,       \* the modules that tests mock
  MayThrow,       \* the modules whose body may throw
  Setups,         \* the sets of modules that the setup file may have mocked
  Remocks,        \* whether a module is mocked that importers are linked to, or that setup mocked
  MaxOps          \* bound: the calls of one file's tests

Paths == App \union Pkgs
Es == Paths \ Cjs

EsmGraphAssumption ==
  /\ App \intersect Pkgs = {} /\ Cjs \subseteq Paths /\ Missing \intersect Paths = {}
  /\ Entries \in Seq(App \ (Cjs \union Mockable)) /\ Len(Entries) > 0
  /\ Imports \in [Es -> Seq(Paths \union Missing)]
  /\ Mockable \subseteq Paths /\ MayThrow \subseteq Paths
  /\ Setups \subseteq SUBSET Mockable
  /\ Remocks \in BOOLEAN /\ MaxOps \in Nat
  \* what a package's import of a mocked module loads has nothing that fails
  /\ \A p \in Pkgs \ Cjs : \A k \in DOMAIN Imports[p] :
       Imports[p][k] \in Mockable \ Cjs => Imports[Imports[p][k]] = <<>>

VARIABLES
  reg,            \* REGISTRY and the engine's module records
  calling,        \* the entry or the import() that is being loaded, linked and evaluated
  reuse,          \* on_reuse_path
  setupMocks,     \* SETUP_MOCKS
  file, phase,    \* the file that runs; "tests" while its tests run, "over" after
  ops,            \* the calls its tests have made
  result,         \* what the last import() gave
  asked,          \* (history) what app code importing the module now should get
  runs            \* (history) how often each body has run to its end
vars == <<reg, calling, reuse, setupMocks, file, phase, ops, result, asked, runs>>

(* What a module exports: <<file, number, kind>>, with setup as file 0. *)
Real == <<0, 0, "real">>
Mock(f, n, kind) == <<f, n, kind>>
Throws(v) == v[3] = "error"            \* the stand-in of a factory that threw
NoCall == [path |-> "", stage |-> "none"]
NoResult == [path |-> "", err |-> "", value |-> Real, id |-> 0]

Nowhere == [p \in Paths |-> 0]
NoRegistry ==
  [esm |-> Nowhere, synth |-> Nowhere, exports |-> Nowhere, real |-> Nowhere, mocks |-> {},
   hashes |-> {}, heap |-> <<>>, objs |-> <<>>, ran |-> <<>>, bad |-> {}, err |-> ""]

Failed(s, why) == [s EXCEPT !.err = why]
Ok(s) == s.err = ""

\* a record of the engine: a module of source ("es"), a synthetic module of a mock or a CommonJS
\* module ("synth"), or a synthetic namespace of a CommonJS module ("view")
Record(p, kind) ==
  [path |-> p, kind |-> kind, status |-> "unlinked", links |-> <<>>, file |-> 0, asks |-> <<>>,
   obj |-> 0, value |-> Real]
Added(s, p, kind) ==   \* its hash is known from here on: path_by_hash, variant_by_hash
  [s EXCEPT !.heap = Append(@, Record(p, kind)), !.hashes = @ \union {Len(s.heap) + 1}]
Newest(s) == Len(s.heap)

----------------------------------------------------------------------------
(* Loading *)

\* load_cjs: a body that throws registers nothing
LoadCjs(s, p) ==
  IF s.synth[p] # 0 THEN s
  ELSE IF p \in s.bad THEN Failed(s, "threw")
  ELSE LET t == Added(s, p, "synth")
       IN [t EXCEPT !.synth[p] = Newest(t), !.objs = Append(@, Real),
                    !.exports[p] = Len(t.objs) + 1, !.ran = Append(@, [path |-> p, id |-> 0])]

Mocked(s, p) == p \in s.mocks /\ s.synth[p] # 0

\* load_graph: a module is registered before its requests are loaded, and stays when one fails
Registered(s, p) == LET t == Added(s, p, "es") IN [t EXCEPT !.esm[p] = Newest(t)]

\* load_dep, without the requests of the module
LoadOne(s, p) ==
  IF p \in Missing THEN Failed(s, "missing")
  ELSE IF Mocked(s, p) THEN s
  ELSE IF p \in Cjs THEN LoadCjs(s, p)
  ELSE IF s.esm[p] # 0 THEN s ELSE Registered(s, p)

\* what is to be loaded next: the requests of a module that was not there, before its siblings
Requested(s, p) ==
  IF p \in Es /\ ~Mocked(s, p) /\ s.esm[p] = 0 THEN Imports[p] ELSE <<>>

\* the calls of load_graph and load_dep, depth first; the first request that fails ends them
RECURSIVE LoadAll(_, _)
LoadAll(s, requests) ==
  IF requests = <<>> \/ ~Ok(s) THEN s
  ELSE LET p == Head(requests)
       IN LoadAll(LoadOne(s, p), Requested(s, p) \o Tail(requests))

Load(s, p) == LoadAll(s, <<p>>)

----------------------------------------------------------------------------
(* Linking: resolve_callback and the engine's instantiation *)

FactoryError(s, p) == p \in s.mocks /\ s.exports[p] # 0 /\ Throws(s.objs[s.exports[p]])

\* an external package's import of a mocked ES module
WantsReal(s, from, p) == from \in Pkgs /\ p \in s.mocks /\ p \in Es

\* real_esm_for: the mock's records are put aside while the real module loads
Aside(s, p) == [s EXCEPT !.mocks = @ \ {p}, !.exports[p] = 0, !.synth[p] = 0, !.esm[p] = 0]
MockStaysAside(t, s, p) ==      \* mutant: the path is not a mock's any more
  [t EXCEPT !.exports[p] = s.exports[p], !.synth[p] = s.synth[p], !.esm[p] = s.esm[p],
            !.real[p] = IF Ok(t) THEN t.esm[p] ELSE 0]

PutBack(t, s, p) ==
  [t EXCEPT !.mocks = s.mocks, !.exports[p] = s.exports[p], !.synth[p] = s.synth[p],
            !.esm[p] = s.esm[p], !.real[p] = IF Ok(t) THEN t.esm[p] ELSE 0]

RealIsNotKept(s, p) == PutBack(Load(Aside(s, p), p), s, p)   \* mutant: loaded for every importer
RealEsm(s, p) == IF s.real[p] # 0 THEN s ELSE PutBack(Load(Aside(s, p), p), s, p)

Loaded(s, p) == IF s.esm[p] # 0 THEN s.esm[p] ELSE s.synth[p]

\* a registry and the record that the import of p by the record id is bound to
To(s, id) == [s |-> s, id |-> id]
Nothing(s, why) == To(Failed(s, why), 0)

Resolve(s, id, p) ==
  IF id \notin s.hashes THEN Nothing(s, "unknown")
  ELSE IF p \in Missing THEN Nothing(s, "missing")
  ELSE IF FactoryError(s, p) THEN Nothing(s, "factory")
  ELSE IF WantsReal(s, s.heap[id].path, p) THEN
    LET t == RealEsm(s, p) IN IF Ok(t) THEN To(t, t.real[p]) ELSE To(t, 0)
  ELSE IF p \in Cjs /\ s.exports[p] # 0 THEN          \* variant_module
    LET t == Added(s, p, "view") IN To(t, Newest(t))
  ELSE IF Loaded(s, p) # 0 THEN To(s, Loaded(s, p))
  ELSE LET t == Load(s, p)                          \* not loaded yet
       IN To(t, IF Ok(t) THEN Loaded(t, p) ELSE 0)

Bind(s, id, p) ==
  IF ~Ok(s) THEN s
  ELSE LET r == Resolve(s, id, p)
       IN [r.s EXCEPT !.heap[id].links = Append(@, r.id), !.heap[id].asks = Append(@, asked[p])]

LinkOne(s, id) ==
  LET t == [s EXCEPT !.heap[id].status = "linked", !.heap[id].file = file]
  IN IF s.heap[id].status # "unlinked" THEN s
     ELSE IF t.heap[id].kind # "es" THEN t
     ELSE FoldLeft(LAMBDA u, p : Bind(u, id, p), t, Imports[t.heap[id].path])

\* a call of the engine for a record: before its requests, and after them
Enter(id) == [id |-> id, entered |-> FALSE]
Leave(id) == [id |-> id, entered |-> TRUE]
Requests(s, id) == [k \in DOMAIN s.heap[id].links |-> Enter(s.heap[id].links[k])]

\* a record's requests are all bound, then the records they are bound to are linked
ToLink(s, call) ==
  IF call.entered THEN Requests(s, call.id)
  ELSE IF s.heap[call.id].status = "unlinked" THEN <<Leave(call.id)>> ELSE <<>>

RECURSIVE LinkAll(_, _)
LinkAll(s, calls) ==
  IF calls = <<>> \/ ~Ok(s) THEN s
  ELSE LinkAll(IF Head(calls).entered THEN s ELSE LinkOne(s, Head(calls).id),
               ToLink(s, Head(calls)) \o Tail(calls))

\* an instantiation that fails leaves every record it reached as it was; what was loaded stays
Undone(s, before) ==
  IF Ok(s) THEN s
  ELSE [s EXCEPT !.heap = before.heap \o
          [i \in 1..(Len(@) - Len(before.heap)) |->
             Record(@[Len(before.heap) + i].path, @[Len(before.heap) + i].kind)]]
Linked(s, id) ==
  Undone(LinkAll(s, <<Enter(id)>>), s)

----------------------------------------------------------------------------
(* Evaluation *)

\* what an importer reads from a record: a view reads its exports object, a synthetic module what
\* it copied when it was evaluated
Value(s, id) ==
  CASE s.heap[id].kind = "es" -> Real
    [] s.heap[id].kind = "synth" -> s.heap[id].value
    [] s.heap[id].kind = "view" -> s.objs[s.heap[id].obj]

\* synth_eval, variant_eval: the exports of the path registered now, or turbo-test's own error
SynthEval(s, id) ==
  LET obj == s.exports[s.heap[id].path]
  IN IF id \notin s.hashes \/ obj = 0
     THEN Failed([s EXCEPT !.heap[id].status = "errored"], "unloaded")
     ELSE [s EXCEPT !.heap[id].status = "evaluated", !.heap[id].obj = obj,
                    !.heap[id].value = s.objs[obj]]

Body(s, id) ==
  IF s.heap[id].path \in s.bad THEN Failed([s EXCEPT !.heap[id].status = "errored"], "threw")
  ELSE [s EXCEPT !.heap[id].status = "evaluated",
                 !.ran = Append(@, [path |-> s.heap[id].path, id |-> id])]

\* the requests first, in order; the first that throws fails the modules that wait for it, and
\* those after it are left linked
EvaluateOne(s, call) ==
  LET status == s.heap[call.id].status
  IN CASE call.entered /\ Ok(s) -> Body(s, call.id)
       [] call.entered /\ ~Ok(s) -> [s EXCEPT !.heap[call.id].status = "errored"]
       [] ~call.entered /\ Ok(s) /\ status = "errored" -> Failed(s, "threw")
       [] ~call.entered /\ Ok(s) /\ status = "linked" /\ s.heap[call.id].kind # "es" ->
            SynthEval(s, call.id)
       [] OTHER -> s

Awaits(s, call) ==
  IF /\ ~call.entered /\ Ok(s) /\ s.heap[call.id].status = "linked"
     /\ s.heap[call.id].kind = "es"
  THEN Requests(s, call.id) \o <<Leave(call.id)>>
  ELSE <<>>

RECURSIVE EvaluateAll(_, _)
EvaluateAll(s, calls) ==
  IF calls = <<>> THEN s
  ELSE EvaluateAll(EvaluateOne(s, Head(calls)), Awaits(s, Head(calls)) \o Tail(calls))

----------------------------------------------------------------------------
(* Mocks *)

\* register_mock_value: on the reuse path a registered exports object takes the mock's names and
\* keeps its identity and its synthetic module.  (The importers evicted are those that
\* native_require recorded: no ES module.)
RegisterMock(s, p, v) ==
  IF reuse /\ s.exports[p] # 0
  THEN [s EXCEPT !.objs[s.exports[p]] = v, !.mocks = @ \union {p}]
  ELSE LET t == Added(s, p, "synth")
       IN [t EXCEPT !.synth[p] = Newest(t), !.objs = Append(@, v),
                    !.exports[p] = Len(t.objs) + 1, !.mocks = @ \union {p}]

RegisterMocks(s, made) ==    \* made: the values of the mocks, by path
  FoldLeft(LAMBDA t, p : RegisterMock(t, p, made[p]), s, SetToSeq(DOMAIN made))

Bound(s, p) == s.esm[p] # 0 \/ (s.synth[p] # 0 /\ s.heap[s.synth[p]].status # "unlinked")
MayMock(s, p) == Remocks \/ (~Bound(s, p) /\ p \notin setupMocks)

\* a call finds no error and no trace of another; B: the modules whose body throws during it
Begun(s, B) == [s EXCEPT !.err = "", !.ran = <<>>, !.bad = B]
Settled(s) == Begun(s, {})
Testing == phase = "tests" /\ calling = NoCall /\ ops < MaxOps

(* A test calls vi.doMock. *)
DoMock(p) ==
  /\ Testing /\ MayMock(reg, p)
  /\ \E kind \in {"mock", "error"} :
       LET v == Mock(file, ops + 1, kind)
       IN reg' = RegisterMock(Settled(reg), p, v) /\ asked' = [asked EXCEPT ![p] = v]
  /\ ops' = ops + 1 /\ result' = NoResult
  /\ UNCHANGED <<calling, reuse, setupMocks, file, phase, runs>>

\* native_unmock: the module's records go, the real one that packages were given stays
Unmock(p) ==
  /\ Testing /\ p \in reg.mocks \ setupMocks
  /\ reg' = [Settled(reg) EXCEPT !.mocks = @ \ {p}, !.exports[p] = 0, !.synth[p] = 0, !.esm[p] = 0]
  /\ asked' = [asked EXCEPT ![p] = Real]
  /\ ops' = ops + 1 /\ result' = NoResult
  /\ UNCHANGED <<calling, reuse, setupMocks, file, phase, runs>>

ResetModules ==
  LET gone == {p \in App \ reg.mocks : reg.synth[p] # 0 \/ reg.exports[p] # 0}
      less(map) == [p \in Paths |-> IF p \in gone THEN 0 ELSE map[p]]
  IN /\ Testing
     /\ reg' = [Settled(reg) EXCEPT !.exports = less(@), !.synth = less(@), !.esm = less(@)]
     /\ ops' = ops + 1 /\ result' = NoResult
     /\ UNCHANGED <<calling, reuse, setupMocks, file, phase, asked, runs>>

----------------------------------------------------------------------------
(* The entry of a file, and import() in a test *)

Target(s, p) == IF Mocked(s, p) THEN s.synth[p] ELSE Loaded(s, p)

\* the namespace: a CommonJS module's is a view of its exports, read live
Namespace(s, p, id) ==
  IF p \notin s.mocks /\ s.esm[p] = 0 THEN s.objs[s.exports[p]] ELSE Value(s, id)

\* the call begins by loading the module's graph; B: the modules whose body throws during it
Begin(p) ==
  /\ \E B \in {{}} \union {{q} : q \in MayThrow} : reg' = Load(Begun(reg, B), p)
  /\ calling' = [path |-> p, stage |-> "link"]
  /\ UNCHANGED <<reuse, setupMocks, file, phase, asked, runs>>

LoadEntry ==
  /\ phase = "entry" /\ calling = NoCall
  /\ Begin(Entries[file]) /\ UNCHANGED <<ops, result>>

Import(p) == Testing /\ Begin(p) /\ ops' = ops + 1 /\ result' = NoResult

Instantiate ==
  /\ calling.stage = "link" /\ Ok(reg)
  /\ reg' = IF FactoryError(reg, calling.path) THEN Failed(reg, "factory")
            ELSE Linked(reg, Target(reg, calling.path))
  /\ calling' = [calling EXCEPT !.stage = "evaluate"]
  /\ UNCHANGED <<reuse, setupMocks, file, phase, ops, result, asked, runs>>

Evaluate ==
  /\ calling.stage = "evaluate" /\ Ok(reg)
  /\ reg' = EvaluateAll(reg, <<Enter(Target(reg, calling.path))>>)
  /\ calling' = [calling EXCEPT !.stage = "return"]
  /\ UNCHANGED <<reuse, setupMocks, file, phase, ops, result, asked, runs>>

\* an error of the entry is the file's, and no test runs; import() rejects with its own
Return ==
  /\ calling # NoCall /\ (calling.stage = "return" \/ ~Ok(reg))
  /\ calling' = NoCall
  /\ IF phase = "entry" THEN phase' = (IF Ok(reg) THEN "tests" ELSE "over") /\ UNCHANGED result
     ELSE /\ result' =
               IF Ok(reg) THEN [path |-> calling.path, err |-> "",
                                id |-> Target(reg, calling.path),
                                value |-> Namespace(reg, calling.path, Target(reg, calling.path))]
               ELSE [NoResult EXCEPT !.path = calling.path, !.err = reg.err]
          /\ UNCHANGED phase
  /\ runs' = [p \in Paths |-> runs[p] + Cardinality({i \in DOMAIN reg.ran : reg.ran[i].path = p})]
  /\ UNCHANGED <<reg, reuse, setupMocks, file, ops, asked>>

----------------------------------------------------------------------------
(* A file *)

NothingStale(s) == {}      \* mutant: only what the file mocked goes

\* unevaluated_modules: what a failed file left linked, or loaded, and not evaluated
Unevaluated(s) ==
  {p \in Es : s.esm[p] # 0 /\ s.heap[s.esm[p]].status \notin {"evaluated", "errored"}}

Mocks(S, v) == [p \in S |-> v]
SetupMock == Mock(0, 1, "mock")

\* reset_app_registry, then restore_setup_mocks: what a file put into a setup mock's object goes
Reset(s) ==
  LET gone == (s.mocks \ setupMocks) \union Unevaluated(s)
      less(map) == [p \in Paths |-> IF p \in gone THEN 0 ELSE map[p]]
      live == {p \in Paths \ gone : s.exports[p] # 0 \/ s.esm[p] # 0}
      t == [s EXCEPT !.exports = less(@), !.synth = less(@), !.real = less(@), !.esm = less(@),
                     !.hashes = {i \in @ : s.heap[i].path \in live},
                     !.mocks = @ \intersect setupMocks]
  IN RegisterMocks(t, Mocks({p \in setupMocks : t.exports[p] # 0}, SetupMock))

Asking(S, v) == [p \in Paths |-> IF p \in S THEN v ELSE Real]

Init ==
  /\ reuse \in BOOLEAN /\ setupMocks \in Setups
  /\ reg = RegisterMocks(NoRegistry, Mocks(setupMocks, SetupMock))
  /\ asked = Asking(setupMocks, SetupMock)
  /\ calling = NoCall /\ file = 0 /\ phase = "over" /\ ops = 0 /\ result = NoResult
  /\ runs = [p \in Paths |-> 0]

\* the reset, if it is not the first file, and the file's hoisted mocks (run_entry_mocks); a file
\* that does not run on the reuse path has an isolate of its own
StartFile ==
  /\ phase = "over" /\ file < Len(Entries) /\ (file = 0 \/ reuse)
  /\ LET s == IF file = 0 THEN reg ELSE Reset(Settled(reg))
         v == Mock(file + 1, 0, "mock")
     IN \E S \in SUBSET {p \in Mockable : MayMock(s, p)} :
          /\ reg' = RegisterMocks(s, Mocks(S, v))
          /\ asked' = [p \in Paths |-> IF p \in S THEN v ELSE Asking(setupMocks, SetupMock)[p]]
  /\ file' = file + 1 /\ phase' = "entry" /\ ops' = 0 /\ result' = NoResult
  /\ UNCHANGED <<calling, reuse, setupMocks, runs>>

EndFile ==
  /\ phase = "tests" /\ calling = NoCall
  /\ phase' = "over"
  /\ UNCHANGED <<reg, calling, reuse, setupMocks, file, ops, result, asked, runs>>

Next ==
  \/ StartFile \/ LoadEntry \/ Instantiate \/ Evaluate \/ Return \/ EndFile \/ ResetModules
  \/ \E p \in Mockable : DoMock(p) \/ Unmock(p)
  \/ \E p \in Paths \ {Entries[i] : i \in DOMAIN Entries} : Import(p)

Spec == Init /\ [][Next]_vars

----------------------------------------------------------------------------
(* Properties *)

TypeOK ==
  /\ reg.mocks \subseteq Paths /\ setupMocks \subseteq Mockable
  /\ \A map \in {reg.esm, reg.synth, reg.real} : \A p \in Paths : map[p] \in 0..Len(reg.heap)
  /\ \A p \in Paths : reg.exports[p] \in 0..Len(reg.objs)
  /\ phase \in {"entry", "tests", "over"} /\ ops \in 0..MaxOps

(* A body that runs, if it imports anything, was linked in the file that   *)
(* runs, and reads what it is to get: app code the mock in force, when it  *)
(* was linked or now, and a package the real ES modules, never a mock.     *)
ReadsWhatWasAsked ==
  \A i \in {reg.ran[k].id : k \in DOMAIN reg.ran} \ {0} :
    LET r == reg.heap[i]
        q(k) == Imports[r.path][k]
    IN /\ r.links = <<>> \/ r.file = file
       /\ \A k \in DOMAIN r.links :
            IF r.path \in Pkgs /\ q(k) \in Es THEN Value(reg, r.links[k]) = Real
            ELSE Value(reg, r.links[k]) \in {r.asks[k], asked[q(k)]}

(* import() in a test gives the mock in force, or the module itself when   *)
(* there is none.  It fails with an error of the module's or the mock's,   *)
(* never because the registry lost what a record needs.                    *)
ServesWhatWasAsked ==
  /\ result.path # "" /\ result.err = "" => result.value = asked[result.path]
  /\ result.path # "" /\ Throws(asked[result.path]) => result.err = "factory"
  /\ result.err = "factory" => \E p \in Paths : Throws(asked[p])
  /\ reg.err \notin {"unknown", "unloaded"}

(* The body of a package runs once in an isolate, however many files       *)
(* import it, unless a file mocks it; and the packages that are linked in  *)
(* one file while an ES module is mocked share one real module.            *)
OneInstance ==
  /\ \A p \in Pkgs \ Mockable : runs[p] <= 1
  /\ \A i, j \in DOMAIN reg.heap :
       LET a == reg.heap[i]
           b == reg.heap[j]
       IN a.path \in Pkgs /\ b.path \in Pkgs /\ a.file = b.file =>
            \A k \in DOMAIN a.links, l \in DOMAIN b.links :
              LET q == Imports[a.path][k]
              IN q = Imports[b.path][l] /\ q \in Es /\ Real \notin {a.asks[k], b.asks[l]}
                   => a.links[k] = b.links[l]

(* A module of the project that is linked while an ES module it imports    *)
(* is mocked is linked to the mock's synthetic module.                     *)
LinksTheMock ==
  \A i \in DOMAIN reg.heap :
    LET r == reg.heap[i]
    IN r.path \in App => \A k \in DOMAIN r.links :
         Imports[r.path][k] \in Es /\ r.asks[k] # Real => reg.heap[r.links[k]].kind = "synth"
=============================================================================
