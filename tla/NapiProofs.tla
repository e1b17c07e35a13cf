----------------------------- MODULE NapiProofs -----------------------------
(***************************************************************************)
(* The proofs of the calls of an isolate's addons, and of its disposal.    *)
(*                                                                         *)
(* Scopes, finalizers, wraps and exceptions, for any addons, objects,      *)
(* references and depth of entries: calls are made in the scope of their   *)
(* own entry, a finalizer runs once, what a wrap key points at was not     *)
(* freed, and no exception is lost or thrown twice.  (CollectsRunning is   *)
(* FALSE in all of these: a collection does not find the record whose      *)
(* finalizer runs at teardown, which would be finalized twice.)            *)
(*                                                                         *)
(* Then the disposal, D of MCNapi, for any addons, hooks, functions and    *)
(* finalizers: what the list holds can be worked off in its order, addon   *)
(* code meets envs that are there, and nothing is left at the end,         *)
(* whatever is registered and removed, but for what finalizers register    *)
(* when the disposal is past it (HandledOnly).                             *)
(***************************************************************************)
EXTENDS MCNapi, FiniteSetTheorems, SequenceTheorems, TLAPS

Kinds == {"call", "task", "init", "finalize"}
RecordStates == {"held", "dropped", "finalizing", "finalized"}
OrNone(S) == S \union {None}

Entries == [env : Envs, kind : Kinds, record : OrNone(Nat), outer : OrNone(Nat),
            aside : OrNone(Nat)]
FinalizerRecords == [env : Envs, object : OrNone(Objects), state : RecordStates,
                     ownRef : OrNone(Nat), runs : Nat]
References == [env : Envs, object : Objects, count : Nat,
               value : {"strong", "weak", "empty", "deleted"}]

(* The types of the variables, but for where exceptions end up. *)
TypeInv ==
  /\ phase \in {"live", "teardown", "gone"}
  /\ loaded \in Seq(Envs)
  /\ stack \in Seq(Entries)
  /\ scope \in [Envs -> OrNone(Nat)]
  /\ pending \in [Envs -> OrNone(Nat)]
  /\ raised \in Nat
  /\ rooted \subseteq alive /\ alive \subseteq Objects
  /\ wrapped \in [Objects -> OrNone(Nat)]
  /\ records \in Seq(FinalizerRecords)
  /\ instance \in [Envs -> OrNone(Nat)]
  /\ dead \subseteq Records
  /\ refs \in Seq(References)

(* Entries are of envs that are there; the innermost of an env has its     *)
(* scope, and each gives back that of the one below it.                    *)
StackInv ==
  /\ \A i \in DOMAIN stack : stack[i].env \in Loaded
  /\ \A i \in DOMAIN stack :
       (\A j \in DOMAIN stack : j > i => stack[j].env # stack[i].env) =>
         scope[stack[i].env] = i
  /\ \A i, k \in DOMAIN stack : i < k /\ stack[i].env = stack[k].env =>
       /\ stack[k].kind # "init"
       /\ (\A j \in DOMAIN stack : i < j /\ j < k => stack[j].env # stack[k].env) =>
            stack[k].outer = i
  /\ phase = "gone" => stack = <<>> /\ loaded = <<>>

(* A record runs when it is finalized, which is under its entry; it is     *)
(* held by an env that is there.                                           *)
RunInv ==
  /\ \A r \in Records :
       /\ records[r].runs = IF records[r].state \in {"held", "dropped"} THEN 0 ELSE 1
       /\ records[r].state = "held" => records[r].env \in Loaded
       /\ records[r].state = "finalizing" =>
            \E i \in DOMAIN stack : stack[i].kind = "finalize" /\ stack[i].record = r
  /\ \A i \in DOMAIN stack : stack[i].kind = "finalize" =>
       /\ stack[i].record \in Records
       /\ records[stack[i].record].state = "finalizing"
       /\ \A j \in DOMAIN stack :
            stack[j].kind = "finalize" /\ stack[j].record = stack[i].record => j = i

(* While the isolate lives, what a live object or an env points at is held.*)
HeldInv ==
  /\ \A o \in Objects : wrapped[o] # None =>
       /\ wrapped[o] \in Records /\ records[wrapped[o]].object = o
       /\ o \in alive /\ ~TearingDown => records[wrapped[o]].state = "held"
  /\ \A e \in Envs : instance[e] # None =>
       /\ instance[e] \in Records
       /\ records[instance[e]].object = None /\ records[instance[e]].env = e
       /\ ~TearingDown => records[instance[e]].state = "held"

(* Only objects that are not referenced strongly were collected.           *)
AliveInv ==
  /\ \A r \in dead : records[r].object \in Objects \ alive
  /\ \A r \in Refs : refs[r].value = "strong" => refs[r].object \in alive

Inductive == TypeInv /\ StackInv /\ RunInv /\ HeldInv /\ AliveInv

-----------------------------------------------------------------------------
(* Sequences                                                               *)

(* The elements of a sequence. *)
LEMMA Elements ==
  ASSUME NEW S, NEW s \in Seq(S)
  PROVE  Len(s) \in Nat /\ DOMAIN s = 1 .. Len(s) /\ \A i \in DOMAIN s : s[i] \in S
OBVIOUS

(* A sequence that is appended to. *)
LEMMA Appended ==
  ASSUME NEW S, NEW s \in Seq(S), NEW x
  PROVE  /\ Len(s) \in Nat /\ DOMAIN s = 1 .. Len(s)
         /\ DOMAIN Append(s, x) = 1 .. (Len(s) + 1)
         /\ Append(s, x)[Len(s) + 1] = x
         /\ \A i \in 1 .. Len(s) : Append(s, x)[i] = s[i]
         /\ \A i \in 1 .. Len(s) : s[i] \in S
         /\ x \in S => Append(s, x) \in Seq(S)
<1>1. Len(s) \in Nat /\ DOMAIN s = 1 .. Len(s) /\ \A i \in 1 .. Len(s) : s[i] \in S
  OBVIOUS
<1>2. x \in S => Append(s, x) \in Seq(S)
  OBVIOUS
<1>3. /\ DOMAIN Append(s, x) = 1 .. (Len(s) + 1)
      /\ Append(s, x)[Len(s) + 1] = x
      /\ \A i \in 1 .. Len(s) : Append(s, x)[i] = s[i]
  OBVIOUS
<1>4. QED
  BY <1>1, <1>2, <1>3

(* A sequence without its last element. *)
LEMMA Shortened ==
  ASSUME NEW S, NEW s \in Seq(S), s # <<>>
  PROVE  /\ Len(s) \in Nat \ {0} /\ DOMAIN s = 1 .. Len(s) /\ s[Len(s)] \in S
         /\ SubSeq(s, 1, Len(s) - 1) \in Seq(S)
         /\ DOMAIN SubSeq(s, 1, Len(s) - 1) = 1 .. (Len(s) - 1)
         /\ \A i \in 1 .. (Len(s) - 1) : SubSeq(s, 1, Len(s) - 1)[i] = s[i]
<1>1. Len(s) \in Nat /\ Len(s) # 0 /\ DOMAIN s = 1 .. Len(s)
  OBVIOUS
<1>2. s[Len(s)] \in S
  BY <1>1
<1>3. SubSeq(s, 1, Len(s) - 1) \in Seq(S)
  BY <1>1
<1>4. /\ DOMAIN SubSeq(s, 1, Len(s) - 1) = 1 .. (Len(s) - 1)
      /\ \A i \in 1 .. (Len(s) - 1) : SubSeq(s, 1, Len(s) - 1)[i] = s[i]
  BY <1>1
<1>5. QED
  BY <1>1, <1>2, <1>3, <1>4

(* A sequence with one element replaced. *)
LEMMA Replaced ==
  ASSUME NEW S, NEW s \in Seq(S), NEW i \in DOMAIN s, NEW x \in S
  PROVE  /\ [s EXCEPT ![i] = x] \in Seq(S) /\ DOMAIN [s EXCEPT ![i] = x] = DOMAIN s
         /\ [s EXCEPT ![i] = x][i] = x
         /\ \A j \in DOMAIN s : j # i => [s EXCEPT ![i] = x][j] = s[j]
OBVIOUS

-----------------------------------------------------------------------------
(* Entries and scopes                                                      *)

(* Some addon code runs, or the isolate lives. *)
LEMMA NotGone ==
  ASSUME StackInv, stack # <<>> \/ phase = "live"
  PROVE  phase # "gone"
BY DEF StackInv

(* Addon code is entered. *)
LEMMA EnterStack ==
  ASSUME TypeInv, StackInv, NEW e \in Envs, NEW kind, NEW record, NEW aside,
         Enter(e, kind, record, aside),
         e \in Loaded', Loaded \subseteq Loaded', kind = "init" => e \notin Loaded,
         phase # "gone", phase' = phase
  PROVE  StackInv'
<1> DEFINE N == Len(stack)
           x == [env |-> e, kind |-> kind, record |-> record, outer |-> scope[e],
                 aside |-> aside]
<1>1. stack' = Append(stack, x) /\ scope' = [scope EXCEPT ![e] = N + 1]
  BY DEF Enter, Depth
<1>2. /\ N \in Nat /\ DOMAIN stack = 1 .. N /\ DOMAIN stack' = 1 .. (N + 1)
      /\ stack'[N + 1] = x /\ \A i \in 1 .. N : stack'[i] = stack[i]
      /\ \A i \in 1 .. N : stack[i].env \in Envs
  <2>1. stack \in Seq(Entries) /\ \A y \in Entries : y.env \in Envs
    BY DEF TypeInv, Entries
  <2>2. QED
    BY <1>1, <2>1, Appended
<1>3. /\ scope'[e] = N + 1
      /\ \A f \in Envs : f # e => scope'[f] = scope[f]
  BY <1>1 DEF TypeInv
<1>4. x.env = e /\ x.kind = kind /\ x.outer = scope[e]
  OBVIOUS
<1> HIDE DEF x
<1>5. \A i \in DOMAIN stack' : stack'[i].env \in Loaded'
  BY <1>2, <1>4 DEF StackInv
<1>6. ASSUME NEW i \in DOMAIN stack',
             \A j \in DOMAIN stack' : j > i => stack'[j].env # stack'[i].env
      PROVE  scope'[stack'[i].env] = i
  <2>1. CASE i = N + 1
    BY <1>2, <1>3, <1>4, <2>1
  <2>2. CASE i # N + 1
    <3>1. i \in 1 .. N /\ stack'[i] = stack[i]
      BY <1>2, <2>2
    <3>2. stack[i].env # e
      BY <1>2, <1>4, <1>6, <3>1
    <3>3. \A j \in DOMAIN stack : j > i => stack[j].env # stack[i].env
      BY <1>2, <1>6, <3>1
    <3>4. scope[stack[i].env] = i
      BY <1>2, <3>1, <3>3 DEF StackInv
    <3>5. QED
      BY <1>2, <1>3, <3>1, <3>2, <3>4
  <2>3. QED
    BY <2>1, <2>2
<1>7. ASSUME NEW i \in DOMAIN stack', NEW k \in DOMAIN stack',
             i < k, stack'[i].env = stack'[k].env
      PROVE  /\ stack'[k].kind # "init"
             /\ (\A j \in DOMAIN stack' : i < j /\ j < k => stack'[j].env # stack'[k].env) =>
                  stack'[k].outer = i
  <2>1. i \in 1 .. N /\ stack'[i] = stack[i]
    BY <1>2, <1>7
  <2>2. CASE k = N + 1
    <3>1. stack[i].env = e /\ kind # "init"
      BY <1>2, <1>4, <1>7, <2>1, <2>2 DEF StackInv
    <3>2. ASSUME \A j \in DOMAIN stack' : i < j /\ j < k => stack'[j].env # stack'[k].env
          PROVE  scope[e] = i
      <4>1. \A j \in DOMAIN stack : j > i => stack[j].env # stack[i].env
        BY <1>2, <1>4, <1>7, <2>1, <2>2, <3>2
      <4>2. QED
        BY <1>2, <2>1, <3>1, <4>1 DEF StackInv
    <3>3. QED
      BY <1>2, <1>4, <2>2, <3>1, <3>2
  <2>3. CASE k # N + 1
    <3>1. k \in 1 .. N /\ stack'[k] = stack[k]
      BY <1>2, <2>3
    <3>2. stack[k].kind # "init"
      BY <1>2, <1>7, <2>1, <3>1 DEF StackInv
    <3>3. ASSUME \A j \in DOMAIN stack' : i < j /\ j < k => stack'[j].env # stack'[k].env
          PROVE  stack[k].outer = i
      <4>1. \A j \in DOMAIN stack : i < j /\ j < k => stack[j].env # stack[k].env
        BY <1>2, <3>1, <3>3
      <4>2. QED
        BY <1>2, <1>7, <2>1, <3>1, <4>1 DEF StackInv
    <3>4. QED
      BY <3>1, <3>2, <3>3
  <2>4. QED
    BY <2>2, <2>3
<1>8. phase' # "gone"
  OBVIOUS
<1>9. QED
  BY <1>5, <1>6, <1>7, <1>8 DEF StackInv

(* Addon code returns. *)
LEMMA PopStackInv ==
  ASSUME TypeInv, StackInv, stack # <<>>, stack' = Pop,
         RestoreScope \/ (Top.kind = "init" /\ UNCHANGED scope),
         UNCHANGED <<phase, loaded>>
  PROVE  StackInv'
<1> DEFINE N == Len(stack)
<1>1. /\ N \in Nat \ {0} /\ DOMAIN stack = 1 .. N /\ DOMAIN stack' = 1 .. (N - 1)
      /\ \A i \in 1 .. (N - 1) : stack'[i] = stack[i]
      /\ stack[N] \in Entries
  BY Shortened DEF TypeInv, Pop, Depth
<1>2. Top = stack[N] /\ stack[N].env \in Envs
  BY <1>1 DEF Top, Depth, Entries
<1>3. \A i \in DOMAIN stack' : stack'[i].env \in Loaded'
  BY <1>1 DEF StackInv, Loaded
<1>4. ASSUME NEW i \in DOMAIN stack', NEW k \in DOMAIN stack',
             i < k, stack'[i].env = stack'[k].env
      PROVE  /\ stack'[k].kind # "init"
             /\ (\A j \in DOMAIN stack' : i < j /\ j < k => stack'[j].env # stack'[k].env) =>
                  stack'[k].outer = i
  <2>1. /\ i \in DOMAIN stack /\ k \in DOMAIN stack
        /\ stack'[i] = stack[i] /\ stack'[k] = stack[k]
    BY <1>1
  <2>2. stack[k].kind # "init"
    BY <1>4, <2>1 DEF StackInv
  <2>3. ASSUME \A j \in DOMAIN stack' : i < j /\ j < k => stack'[j].env # stack'[k].env
        PROVE  stack[k].outer = i
    <3>1. \A j \in DOMAIN stack : i < j /\ j < k => stack[j].env # stack[k].env
      BY <1>1, <2>1, <2>3
    <3>2. QED
      BY <1>4, <2>1, <3>1 DEF StackInv
  <2>4. QED
    BY <2>1, <2>2, <2>3
<1>5. ASSUME NEW i \in DOMAIN stack',
             \A j \in DOMAIN stack' : j > i => stack'[j].env # stack'[i].env
      PROVE  scope'[stack'[i].env] = i
  <2>1. i \in 1 .. (N - 1) /\ stack'[i] = stack[i] /\ i < N
    BY <1>1
  <2>2. \A j \in DOMAIN stack : i < j /\ j < N => stack[j].env # stack[i].env
    BY <1>1, <1>5, <2>1
  <2>3. CASE stack[i].env = stack[N].env
    <3>1. stack[N].outer = i /\ stack[N].kind # "init"
      BY <1>1, <2>1, <2>2, <2>3 DEF StackInv
    <3>2. RestoreScope
      BY <1>2, <3>1
    <3>3. QED
      BY <1>2, <2>1, <2>3, <3>1, <3>2 DEF RestoreScope, TypeInv
  <2>4. CASE stack[i].env # stack[N].env
    <3>1. scope[stack[i].env] = i
      BY <1>1, <2>1, <2>2, <2>4 DEF StackInv
    <3>2. stack[i] \in Entries
      BY <1>1, <2>1, Elements DEF TypeInv
    <3>3. scope'[stack[i].env] = scope[stack[i].env]
      BY <1>2, <2>4, <3>2 DEF RestoreScope, TypeInv, Entries
    <3>4. QED
      BY <2>1, <3>1, <3>3
  <2>5. QED
    BY <2>3, <2>4
<1>6. phase' # "gone"
  BY NotGone
<1>7. QED
  BY <1>3, <1>4, <1>5, <1>6 DEF StackInv

(* Nothing of it changes. *)
LEMMA SameStack ==
  ASSUME StackInv, UNCHANGED <<phase, loaded, stack, scope>>
  PROVE  StackInv'
BY DEF StackInv, Loaded

(* With no addon code running, the isolate's end may change the rest. *)
LEMMA EmptyStack ==
  ASSUME stack = <<>>, stack' = <<>>, phase' = "gone" => loaded' = <<>>
  PROVE  StackInv'
BY DEF StackInv

(* The last env of the loaded ones goes; another comes. *)
LEMMA LoadedAppend ==
  ASSUME TypeInv, NEW e \in Envs, loaded' = Append(loaded, e)
  PROVE  Loaded' = Loaded \union {e} /\ loaded' \in Seq(Envs)
<1>1. /\ DOMAIN loaded = 1 .. Len(loaded) /\ DOMAIN loaded' = 1 .. (Len(loaded) + 1)
      /\ loaded'[Len(loaded) + 1] = e /\ \A i \in 1 .. Len(loaded) : loaded'[i] = loaded[i]
      /\ Len(loaded) \in Nat /\ loaded' \in Seq(Envs)
  BY Appended DEF TypeInv
<1>2. QED
  BY <1>1 DEF Loaded

(* Each step keeps the stack's invariant. *)
LEMMA StackNext ==
  ASSUME TypeInv, StackInv, RunInv, CollectsRunning = FALSE, [Next]_vars
  PROVE  StackInv'
<1>1. CASE UNCHANGED vars
  BY <1>1, SameStack DEF vars
<1>2. ASSUME NEW e \in Envs, Invoke(e) \/ RunNativeTask(e)
      PROVE  StackInv'
  <2>1. e \in Loaded' /\ Loaded' = Loaded /\ phase' = phase
    BY <1>2 DEF Invoke, RunNativeTask, Loaded
  <2>2. phase # "gone"
    BY <1>2, NotGone DEF Invoke, RunNativeTask, JsRuns
  <2>3. \E kind \in {"call", "task"} : Enter(e, kind, None, None)
    BY <1>2 DEF Invoke, RunNativeTask
  <2>4. QED
    BY <2>1, <2>2, <2>3, EnterStack
<1>3. ASSUME NEW e \in Envs, LoadAddon(e)
      PROVE  StackInv'
  <2>1. Loaded' = Loaded \union {e} /\ phase' = phase
    BY <1>3, LoadedAppend DEF LoadAddon
  <2>2. phase # "gone"
    BY <1>3, NotGone DEF LoadAddon, JsRuns
  <2>3. QED
    BY <1>3, <2>1, <2>2, EnterStack DEF LoadAddon
<1>4. CASE AddonCalls \/ RunUncaught \/ \E o \in Objects : Forget(o) \/ Collect(o)
  BY <1>4, SameStack DEF AddonCalls, Throw, GetAndClear, SetInstanceData, Wrap, AddFinalizer,
     RemoveWrap, CreateReference, ReferenceRef, ReferenceUnref, DeleteReference,
     GetReferenceValue, ChangeRef, RunUncaught, Forget, Collect
<1>5. CASE ReturnToJs \/ ReturnFromInit \/ ReturnFromTask \/ ReturnFromFinalizer
  BY <1>5, PopStackInv DEF ReturnToJs, ReturnFromInit, ReturnFromTask, ReturnFromFinalizer
<1>6. ASSUME NEW r \in Records, RunFinalizer(r), InV8 \/ phase = "teardown",
             UNCHANGED <<phase, loaded>>, records[r].state = "held"
      PROVE  StackInv'
  <2>1. records[r].env \in Loaded /\ records[r].env \in Envs /\ Loaded' = Loaded
    <3>1. records[r] \in FinalizerRecords
      BY DEF TypeInv, Records
    <3>2. QED
      BY <1>6, <3>1 DEF RunInv, FinalizerRecords, Loaded
  <2>2. phase # "gone"
    BY <1>6, NotGone DEF InV8
  <2>3. Enter(records[r].env, "finalize", r, pending[records[r].env])
    BY <1>6 DEF RunFinalizer
  <2>4. QED
    BY <1>6, <2>1, <2>2, <2>3, EnterStack
<1>7. ASSUME NEW r \in Records, FinalizerCollected(r)
      PROVE  StackInv'
  BY <1>6, <1>7 DEF FinalizerCollected
<1>8. CASE TeardownFinalizers
  BY <1>6, <1>8 DEF TeardownFinalizers, Held
<1>9. CASE Dispose \/ FreeEnv \/ Gone
  BY <1>9, EmptyStack DEF Dispose, FreeEnv, Gone
<1>10. QED
  BY <1>1, <1>2, <1>3, <1>4, <1>5, <1>7, <1>8, <1>9 DEF Next

-----------------------------------------------------------------------------
(* What the steps change                                                   *)

(* The innermost entry. *)
LEMMA TopEntry ==
  ASSUME TypeInv, StackInv, stack # <<>>
  PROVE  Top \in Entries /\ Top.env \in Envs /\ Top.env \in Loaded /\ phase # "gone"
<1>1. Top \in Entries /\ Top = stack[Len(stack)] /\ Len(stack) \in DOMAIN stack
  BY Shortened DEF TypeInv, Top, Depth
<1>2. QED
  BY <1>1 DEF StackInv, Entries

(* A record that is added. *)
LEMMA AddedRecord ==
  ASSUME TypeInv, NEW x \in FinalizerRecords, records' = Append(records, x)
  PROVE  /\ Records = 1 .. Len(records) /\ Records' = Records \union {Len(records) + 1}
         /\ Len(records) \in Nat /\ Len(records) + 1 \notin Records
         /\ records'[Len(records) + 1] = x
         /\ \A r \in Records : records'[r] = records[r]
         /\ records' \in Seq(FinalizerRecords)
<1>1. records \in Seq(FinalizerRecords)
  BY DEF TypeInv
<1>2. /\ Len(records) \in Nat /\ DOMAIN records = 1 .. Len(records)
      /\ DOMAIN records' = 1 .. (Len(records) + 1)
      /\ records'[Len(records) + 1] = x
      /\ \A r \in 1 .. Len(records) : records'[r] = records[r]
      /\ records' \in Seq(FinalizerRecords)
  BY <1>1, Appended
<1>3. QED
  BY <1>2 DEF Records

(* Track's record. *)
LEMMA TrackedRecord ==
  ASSUME TypeInv, NEW e \in Envs, NEW o \in Objects, NEW withRef \in BOOLEAN,
         Track(e, o, withRef)
  PROVE  \E x \in FinalizerRecords :
           /\ records' = Append(records, x)
           /\ x.env = e /\ x.object = o /\ x.state = "held" /\ x.runs = 0
<1> DEFINE y == NewRecord(e, o)
           x == [y EXCEPT !.ownRef = IF withRef THEN Len(refs) + 1 ELSE None]
<1>1. Len(refs) \in Nat
  BY Elements DEF TypeInv
<1>2. y = [env |-> e, object |-> o, state |-> "held", ownRef |-> None, runs |-> 0]
  BY DEF NewRecord
<1>3. x \in FinalizerRecords /\ x.env = e /\ x.object = o /\ x.state = "held" /\ x.runs = 0
  BY <1>1, <1>2 DEF FinalizerRecords, RecordStates, OrNone
<1>4. records' = Append(records, x)
  BY DEF Track
<1> HIDE DEF x
<1>5. QED
  BY <1>3, <1>4

(* Track's reference is weak. *)
LEMMA TrackedRef ==
  ASSUME TypeInv, NEW e \in Envs, NEW o \in Objects, NEW withRef \in BOOLEAN,
         Track(e, o, withRef)
  PROVE  /\ refs' \in Seq(References)
         /\ \A r \in Refs' : \/ r \in Refs /\ refs'[r] = refs[r]
                             \/ refs'[r].value = "weak"
<1>1. CASE withRef
  <2> DEFINE x == NewRef(e, o, 0)
  <2>1. x \in References /\ x.value = "weak"
    BY DEF NewRef, References
  <2>2. refs' = Append(refs, x)
    BY <1>1 DEF Track
  <2> HIDE DEF x
  <2>3. refs \in Seq(References)
    BY DEF TypeInv
  <2>4. QED
    BY <2>1, <2>2, <2>3, Appended DEF Refs
<1>2. CASE ~withRef
  BY <1>2 DEF Track, TypeInv, Refs
<1>3. QED
  BY <1>1, <1>2

(* A record that changes state. *)
LEMMA ChangedRecord ==
  ASSUME TypeInv, NEW r \in Records, NEW s \in RecordStates, NEW n \in Nat,
         records' = [records EXCEPT ![r] = [records[r] EXCEPT !.state = s, !.runs = n]]
  PROVE  /\ Records' = Records /\ records' \in Seq(FinalizerRecords)
         /\ records'[r].state = s /\ records'[r].runs = n
         /\ records'[r].env = records[r].env /\ records'[r].object = records[r].object
         /\ \A q \in Records : q # r => records'[q] = records[q]
<1> DEFINE x == [records[r] EXCEPT !.state = s, !.runs = n]
<1>1. records \in Seq(FinalizerRecords) /\ records[r] \in FinalizerRecords
  BY Elements DEF TypeInv, Records
<1>2. /\ x \in FinalizerRecords /\ x.state = s /\ x.runs = n
      /\ x.env = records[r].env /\ x.object = records[r].object
  BY <1>1 DEF FinalizerRecords
<1> HIDE DEF x
<1>3. records' = [records EXCEPT ![r] = x]
  BY DEF x
<1>4. r \in DOMAIN records
  BY DEF Records
<1>5. /\ records' \in Seq(FinalizerRecords) /\ DOMAIN records' = DOMAIN records
      /\ records'[r] = x /\ \A q \in DOMAIN records : q # r => records'[q] = records[q]
  BY <1>1, <1>2, <1>3, <1>4, Replaced
<1>6. QED
  BY <1>2, <1>5 DEF Records

(* A record that is dropped. *)
LEMMA DroppedRecord ==
  ASSUME TypeInv, NEW r \in Records, records' = [records EXCEPT ![r].state = "dropped"]
  PROVE  /\ Records' = Records /\ records' \in Seq(FinalizerRecords)
         /\ records'[r].state = "dropped" /\ records'[r].runs = records[r].runs
         /\ records'[r].env = records[r].env /\ records'[r].object = records[r].object
         /\ \A q \in Records : q # r => records'[q] = records[q]
<1>1. records[r] \in FinalizerRecords /\ r \in DOMAIN records
  BY Elements DEF TypeInv, Records
<1>2. PICK n \in Nat : n = records[r].runs
  BY <1>1 DEF FinalizerRecords
<1>3. records' = [records EXCEPT ![r] = [records[r] EXCEPT !.state = "dropped", !.runs = n]]
  <2>1. [records[r] EXCEPT !.state = "dropped"] = [records[r] EXCEPT !.state = "dropped", !.runs = n]
    BY <1>1, <1>2 DEF FinalizerRecords
  <2>2. QED
    BY <2>1
<1>4. "dropped" \in RecordStates
  BY DEF RecordStates
<1>5. /\ Records' = Records /\ records' \in Seq(FinalizerRecords)
      /\ records'[r].state = "dropped" /\ records'[r].runs = n
      /\ records'[r].env = records[r].env /\ records'[r].object = records[r].object
      /\ \A q \in Records : q # r => records'[q] = records[q]
  BY ONLY TypeInv, r \in Records, n \in Nat, <1>3, <1>4, ChangedRecord
<1>6. QED
  BY <1>2, <1>5

(* A record whose finalizer returns. *)
LEMMA FinalizedRecord ==
  ASSUME TypeInv, NEW r \in Records, records' = [records EXCEPT ![r].state = "finalized"]
  PROVE  /\ Records' = Records /\ records' \in Seq(FinalizerRecords)
         /\ records'[r].state = "finalized" /\ records'[r].runs = records[r].runs
         /\ records'[r].env = records[r].env /\ records'[r].object = records[r].object
         /\ \A q \in Records : q # r => records'[q] = records[q]
<1>1. records[r] \in FinalizerRecords /\ r \in DOMAIN records
  BY Elements DEF TypeInv, Records
<1>2. PICK n \in Nat : n = records[r].runs
  BY <1>1 DEF FinalizerRecords
<1>3. records' = [records EXCEPT ![r] = [records[r] EXCEPT !.state = "finalized", !.runs = n]]
  <2>1. [records[r] EXCEPT !.state = "finalized"] = [records[r] EXCEPT !.state = "finalized", !.runs = n]
    BY <1>1, <1>2 DEF FinalizerRecords
  <2>2. QED
    BY <2>1
<1>4. "finalized" \in RecordStates
  BY DEF RecordStates
<1>5. /\ Records' = Records /\ records' \in Seq(FinalizerRecords)
      /\ records'[r].state = "finalized" /\ records'[r].runs = n
      /\ records'[r].env = records[r].env /\ records'[r].object = records[r].object
      /\ \A q \in Records : q # r => records'[q] = records[q]
  BY ONLY TypeInv, r \in Records, n \in Nat, <1>3, <1>4, ChangedRecord
<1>6. QED
  BY <1>2, <1>5

(* A record whose finalizer is entered. *)
LEMMA FinalizingRecord ==
  ASSUME TypeInv, NEW r \in Records, RunFinalizer(r)
  PROVE  /\ Records' = Records /\ records' \in Seq(FinalizerRecords)
         /\ records'[r].state = "finalizing" /\ records'[r].runs = records[r].runs + 1
         /\ records'[r].env = records[r].env /\ records'[r].object = records[r].object
         /\ \A q \in Records : q # r => records'[q] = records[q]
<1>1. records[r] \in FinalizerRecords /\ r \in DOMAIN records
  BY Elements DEF TypeInv, Records
<1>2. PICK n \in Nat : n = records[r].runs + 1
  BY <1>1 DEF FinalizerRecords
<1>3. records' = [records EXCEPT ![r] = [records[r] EXCEPT !.state = "finalizing", !.runs = n]]
  <2>1. records' = [records EXCEPT ![r].state = "finalizing", ![r].runs = @ + 1]
    BY DEF RunFinalizer
  <2>2. QED
    BY <1>1, <1>2, <2>1 DEF FinalizerRecords
<1>4. "finalizing" \in RecordStates
  BY DEF RecordStates
<1>5. /\ Records' = Records /\ records' \in Seq(FinalizerRecords)
      /\ records'[r].state = "finalizing" /\ records'[r].runs = n
      /\ records'[r].env = records[r].env /\ records'[r].object = records[r].object
      /\ \A q \in Records : q # r => records'[q] = records[q]
  BY ONLY TypeInv, r \in Records, n \in Nat, <1>3, <1>4, ChangedRecord
<1>6. QED
  BY <1>2, <1>5

(* SetInstanceData's records: one more, and the one before is dropped.     *)
LEMMA InstanceRecords ==
  ASSUME TypeInv, HeldInv, SetInstanceData, NEW e \in Envs, e = Top.env, NEW n,
         n = Len(records) + 1
  PROVE  /\ Records' = Records \union {n} /\ n \notin Records /\ n \in Nat
         /\ records' \in Seq(FinalizerRecords)
         /\ instance' = [instance EXCEPT ![e] = n]
         /\ records'[n].env = e /\ records'[n].object = None
         /\ records'[n].state = "held" /\ records'[n].runs = 0
         /\ \A r \in Records : r # instance[e] => records'[r] = records[r]
         /\ instance[e] = None => \A r \in Records : records'[r] = records[r]
         /\ instance[e] # None =>
              /\ instance[e] \in Records
              /\ records'[instance[e]].runs = records[instance[e]].runs
              /\ records'[instance[e]].env = records[instance[e]].env
              /\ records'[instance[e]].object = records[instance[e]].object
              /\ records'[instance[e]].state = "dropped"
<1> DEFINE x == NewRecord(e, None)
           new == Append(records, x)
<1>1. /\ x \in FinalizerRecords /\ x.env = e /\ x.object = None /\ x.state = "held"
      /\ x.runs = 0
  BY DEF NewRecord, FinalizerRecords, RecordStates, OrNone
<1> HIDE DEF x
<1>2. /\ records \in Seq(FinalizerRecords)
      /\ n \in Nat /\ DOMAIN new = 1 .. n /\ Records = 1 .. Len(records) /\ Len(records) \in Nat
      /\ new[n] = x /\ (\A r \in Records : new[r] = records[r])
      /\ new \in Seq(FinalizerRecords)
  <2>1. records \in Seq(FinalizerRecords)
    BY DEF TypeInv
  <2>2. QED
    BY <1>1, <2>1, Appended DEF Records
<1>3. /\ records' = IF instance[e] = None THEN new
                    ELSE [new EXCEPT ![instance[e]].state = "dropped"]
      /\ instance' = [instance EXCEPT ![e] = n]
  BY DEF SetInstanceData, x
<1> HIDE DEF new
<1>4. CASE instance[e] = None
  <2>1. records' = new
    BY <1>3, <1>4
  <2>2. Records' = Records \union {n}
    BY <1>2, <2>1 DEF Records
  <2>3. n \notin Records
    BY <1>2
  <2>4. \A r \in Records : records'[r] = records[r]
    BY <1>2, <2>1
  <2>5. records'[n] = x
    BY <1>2, <2>1
  <2>6. QED
    BY <1>1, <1>2, <1>3, <1>4, <2>1, <2>2, <2>3, <2>4, <2>5
<1>5. CASE instance[e] # None
  <2>1. PICK r \in Records : r = instance[e]
    BY <1>5 DEF HeldInv
  <2> DEFINE y == [new[r] EXCEPT !.state = "dropped"]
  <2>2. new[r] = records[r] /\ new[r] \in FinalizerRecords /\ r # n /\ r \in DOMAIN new
    BY <1>2, Elements
  <2>3. /\ y \in FinalizerRecords /\ y.runs = records[r].runs /\ y.env = records[r].env
        /\ y.object = records[r].object /\ y.state = "dropped"
    BY <2>2 DEF FinalizerRecords, RecordStates
  <2>4. records' = [new EXCEPT ![r] = y]
    BY <1>3, <1>5, <2>1
  <2> HIDE DEF y
  <2>5. /\ records' \in Seq(FinalizerRecords) /\ DOMAIN records' = DOMAIN new
        /\ records'[r] = y /\ \A q \in DOMAIN new : q # r => records'[q] = new[q]
    BY <1>2, <2>2, <2>3, <2>4, Replaced
  <2>6. Records' = Records \union {n}
    BY <1>2, <2>5 DEF Records
  <2>7. QED
    BY <1>1, <1>2, <1>3, <2>1, <2>2, <2>3, <2>5, <2>6
<1>6. QED
  BY <1>4, <1>5

-----------------------------------------------------------------------------
(* Records                                                                 *)

(* What a step of the stack does to the entries of finalizers: nothing, or *)
(* it adds or takes the top one.                                           *)
Finalizing(i, r) == i \in DOMAIN stack /\ stack[i].kind = "finalize" /\ stack[i].record = r

(* The records stay as they are, or one that is not running changes to     *)
(* what does not run, or one is added, while no finalizer comes or goes.   *)
LEMMA RunKept ==
  ASSUME TypeInv, RunInv, Loaded \subseteq Loaded',
         \A i, r : Finalizing(i, r)' <=> Finalizing(i, r),
         Records \subseteq Records',
         \A r \in Records :
           \/ records'[r] = records[r]
           \/ /\ records[r].state = "held" /\ records'[r].state = "dropped"
              /\ records'[r].runs = records[r].runs,
         \A r \in Records' \ Records :
           /\ records'[r].state = "held" /\ records'[r].runs = 0
           /\ records'[r].env \in Loaded
  PROVE  RunInv'
<1>1. ASSUME NEW r \in Records'
      PROVE  /\ records'[r].runs = IF records'[r].state \in {"held", "dropped"} THEN 0 ELSE 1
             /\ records'[r].state = "held" => records'[r].env \in Loaded'
             /\ records'[r].state = "finalizing" =>
                  \E i \in DOMAIN stack' : stack'[i].kind = "finalize" /\ stack'[i].record = r
  <2>1. CASE r \in Records /\ records'[r] = records[r]
    <3>1. records[r].state = "finalizing" => \E i : Finalizing(i, r)
      BY <2>1 DEF RunInv, Finalizing
    <3>2. records[r].state = "finalizing" => \E i : Finalizing(i, r)'
      BY <3>1
    <3>3. QED
      BY <2>1, <3>2 DEF RunInv, Finalizing
  <2>2. CASE r \in Records /\ records'[r] # records[r]
    BY <2>2 DEF RunInv
  <2>3. CASE r \notin Records
    BY <2>3
  <2>4. QED
    BY <2>1, <2>2, <2>3
<1>2. ASSUME NEW i \in DOMAIN stack', stack'[i].kind = "finalize"
      PROVE  /\ stack'[i].record \in Records'
             /\ records'[stack'[i].record].state = "finalizing"
             /\ \A j \in DOMAIN stack' :
                  stack'[j].kind = "finalize" /\ stack'[j].record = stack'[i].record => j = i
  <2>0. PICK r : r = stack'[i].record
    OBVIOUS
  <2>1. Finalizing(i, r)'
    BY <1>2, <2>0 DEF Finalizing
  <2>2. Finalizing(i, r)
    BY <2>1
  <2>3. /\ r \in Records /\ records[r].state = "finalizing"
        /\ \A j : Finalizing(j, r) => j = i
    BY <2>2 DEF RunInv, Finalizing
  <2>4. \A j : Finalizing(j, r)' => j = i
    BY <2>3
  <2>5. QED
    BY <2>0, <2>3, <2>4 DEF Finalizing
<1>3. QED
  BY <1>1, <1>2 DEF RunInv

(* The invariant after a step, said of the finalizers. *)
LEMMA RunFromFinalizing ==
  ASSUME \A r \in Records' :
           /\ records'[r].runs = IF records'[r].state \in {"held", "dropped"} THEN 0 ELSE 1
           /\ records'[r].state = "held" => records'[r].env \in Loaded'
           /\ records'[r].state = "finalizing" => \E i : Finalizing(i, r)',
         \A i, r : Finalizing(i, r)' =>
           /\ r \in Records' /\ records'[r].state = "finalizing"
           /\ \A j : Finalizing(j, r)' => j = i
  PROVE  RunInv'
<1>1. ASSUME NEW i \in DOMAIN stack', stack'[i].kind = "finalize"
      PROVE  /\ stack'[i].record \in Records'
             /\ records'[stack'[i].record].state = "finalizing"
             /\ \A j \in DOMAIN stack' :
                  stack'[j].kind = "finalize" /\ stack'[j].record = stack'[i].record => j = i
  <2>1. PICK r : r = stack'[i].record
    OBVIOUS
  <2>2. Finalizing(i, r)'
    BY <1>1, <2>1 DEF Finalizing
  <2>3. QED
    BY <2>1, <2>2 DEF Finalizing
<1>2. \A r \in Records' : records'[r].state = "finalizing" =>
        \E i \in DOMAIN stack' : stack'[i].kind = "finalize" /\ stack'[i].record = r
  BY DEF Finalizing
<1>3. QED
  BY <1>1, <1>2 DEF RunInv

(* Finalizers come and go with the entries that are theirs. *)
LEMMA EnterFinalizing ==
  ASSUME TypeInv, NEW e \in Envs, NEW kind, NEW record, NEW aside,
         Enter(e, kind, record, aside)
  PROVE  \A i, r : Finalizing(i, r)' <=>
           Finalizing(i, r) \/ (i = Len(stack) + 1 /\ kind = "finalize" /\ r = record)
<1> DEFINE x == [env |-> e, kind |-> kind, record |-> record, outer |-> scope[e],
                 aside |-> aside]
<1>1. stack' = Append(stack, x)
  BY DEF Enter
<1>2. /\ Len(stack) \in Nat /\ DOMAIN stack = 1 .. Len(stack)
      /\ DOMAIN stack' = 1 .. (Len(stack) + 1)
      /\ stack'[Len(stack) + 1] = x
      /\ \A i \in 1 .. Len(stack) : stack'[i] = stack[i]
  BY <1>1, Appended DEF TypeInv
<1>3. x.kind = kind /\ x.record = record
  OBVIOUS
<1> HIDE DEF x
<1>4. QED
  BY <1>2, <1>3 DEF Finalizing

(* What runs, when an entry that is no finalizer's returns. *)
LEMMA PopFinalizing ==
  ASSUME TypeInv, stack # <<>>, stack' = Pop
  PROVE  /\ \A i, r : Finalizing(i, r)' <=> Finalizing(i, r) /\ i # Len(stack)
         /\ Top.kind = "finalize" <=> Finalizing(Len(stack), Top.record)
         /\ \A r : Finalizing(Len(stack), r) => r = Top.record
<1>1. /\ Len(stack) \in Nat \ {0} /\ DOMAIN stack = 1 .. Len(stack)
      /\ DOMAIN stack' = 1 .. (Len(stack) - 1)
      /\ \A i \in 1 .. (Len(stack) - 1) : stack'[i] = stack[i]
  BY Shortened DEF TypeInv, Pop, Depth
<1>2. Top = stack[Len(stack)]
  BY DEF Top, Depth
<1>3. QED
  BY <1>1, <1>2 DEF Finalizing

(* A finalizer is entered: its record was held. *)
LEMMA RunFinalizerRun ==
  ASSUME TypeInv, RunInv, NEW r \in Records, RunFinalizer(r), records[r].state = "held",
         UNCHANGED loaded
  PROVE  RunInv'
<1> DEFINE N == Len(stack) + 1
<1>1. /\ records[r] \in FinalizerRecords /\ records[r].env \in Envs /\ records[r].runs = 0
      /\ \A q \in Records : records[q] \in FinalizerRecords
  <2>1. \A q \in Records : records[q] \in FinalizerRecords
    BY Elements DEF TypeInv, Records
  <2>2. QED
    BY <2>1 DEF RunInv, FinalizerRecords
<1>2. \A i, q : Finalizing(i, q)' <=> Finalizing(i, q) \/ (i = N /\ q = r)
  BY <1>1, EnterFinalizing DEF RunFinalizer
<1>3. /\ Records' = Records /\ Loaded' = Loaded
      /\ records'[r].state = "finalizing" /\ records'[r].runs = 1
      /\ \A q \in Records : q # r => records'[q] = records[q]
  <2>1. /\ Records' = Records /\ records'[r].state = "finalizing"
        /\ records'[r].runs = records[r].runs + 1
        /\ \A q \in Records : q # r => records'[q] = records[q]
    BY FinalizingRecord
  <2>2. QED
    BY <1>1, <2>1 DEF Loaded
<1>4. \A i : ~Finalizing(i, r)
  BY DEF Finalizing, RunInv
<1>5. N \notin DOMAIN stack
  BY Elements DEF TypeInv
<1>6. ASSUME NEW q \in Records'
      PROVE  /\ records'[q].runs = IF records'[q].state \in {"held", "dropped"} THEN 0 ELSE 1
             /\ records'[q].state = "held" => records'[q].env \in Loaded'
             /\ records'[q].state = "finalizing" => \E i : Finalizing(i, q)'
  <2>1. CASE q = r
    BY <1>2, <1>3, <2>1
  <2>2. CASE q # r
    <3>1. records[q].state = "finalizing" => \E i : Finalizing(i, q)
      BY <1>3, <2>2 DEF RunInv, Finalizing
    <3>2. QED
      BY <1>2, <1>3, <2>2, <3>1 DEF RunInv
  <2>3. QED
    BY <2>1, <2>2
<1>7. ASSUME NEW i, NEW q, Finalizing(i, q)'
      PROVE  /\ q \in Records' /\ records'[q].state = "finalizing"
             /\ \A j : Finalizing(j, q)' => j = i
  <2>1. CASE q = r
    BY <1>2, <1>3, <1>4, <1>7, <2>1
  <2>2. CASE q # r
    <3>1. Finalizing(i, q)
      BY <1>2, <1>7, <2>2
    <3>2. q \in Records /\ records[q].state = "finalizing" /\ \A j : Finalizing(j, q) => j = i
      BY <3>1 DEF RunInv, Finalizing
    <3>3. QED
      BY <1>2, <1>3, <2>2, <3>2
  <2>3. QED
    BY <2>1, <2>2
<1>8. QED
  BY <1>6, <1>7, RunFromFinalizing

(* A finalizer returns: its record ran. *)
LEMMA ReturnFromFinalizerRun ==
  ASSUME TypeInv, RunInv, ReturnFromFinalizer
  PROVE  RunInv'
<1> DEFINE N == Len(stack)
<1>1. /\ stack # <<>> /\ stack' = Pop /\ Top.kind = "finalize" /\ UNCHANGED loaded
      /\ records' = [records EXCEPT ![Top.record].state = "finalized"]
  BY DEF ReturnFromFinalizer
<1>2. PICK r : r = Top.record
  OBVIOUS
<1>3. /\ Finalizing(N, r)
      /\ \A i, q : Finalizing(i, q)' <=> Finalizing(i, q) /\ i # N
      /\ \A q : Finalizing(N, q) => q = r
  BY <1>1, <1>2, PopFinalizing
<1>4. /\ r \in Records /\ records[r].state = "finalizing"
      /\ \A i : Finalizing(i, r) => i = N
  BY <1>3 DEF RunInv, Finalizing
<1>5. records[r].runs = 1 /\ records[r] \in FinalizerRecords
  <2>1. records[r] \in FinalizerRecords
    BY <1>4, Elements DEF TypeInv, Records
  <2>2. QED
    BY <1>4, <2>1 DEF RunInv
<1>6. /\ Records' = Records /\ Loaded' = Loaded
      /\ records'[r].state = "finalized" /\ records'[r].runs = 1
      /\ \A q \in Records : q # r => records'[q] = records[q]
  BY <1>1, <1>2, <1>4, <1>5 DEF Records, Loaded, FinalizerRecords
<1>7. ASSUME NEW q \in Records'
      PROVE  /\ records'[q].runs = IF records'[q].state \in {"held", "dropped"} THEN 0 ELSE 1
             /\ records'[q].state = "held" => records'[q].env \in Loaded'
             /\ records'[q].state = "finalizing" => \E i : Finalizing(i, q)'
  <2>1. CASE q = r
    BY <1>6, <2>1
  <2>2. CASE q # r
    <3>1. records[q].state = "finalizing" => \E i : Finalizing(i, q)
      BY <1>6 DEF RunInv, Finalizing
    <3>2. QED
      BY <1>3, <1>6, <2>2, <3>1 DEF RunInv
  <2>3. QED
    BY <2>1, <2>2
<1>8. ASSUME NEW i, NEW q, Finalizing(i, q)'
      PROVE  /\ q \in Records' /\ records'[q].state = "finalizing"
             /\ \A j : Finalizing(j, q)' => j = i
  <2>1. Finalizing(i, q) /\ i # N
    BY <1>3, <1>8
  <2>2. q # r
    BY <1>4, <2>1
  <2>3. q \in Records /\ records[q].state = "finalizing" /\ \A j : Finalizing(j, q) => j = i
    BY <2>1 DEF RunInv, Finalizing
  <2>4. QED
    BY <1>3, <1>6, <2>2, <2>3
<1>9. QED
  BY <1>7, <1>8, RunFromFinalizing

(* The env that is freed held nothing. *)
LEMMA FreeEnvRun ==
  ASSUME TypeInv, RunInv, FreeEnv
  PROVE  RunInv'
<1>1. /\ stack = <<>> /\ stack' = <<>> /\ loaded # <<>> /\ UNCHANGED records
      /\ loaded' = SubSeq(loaded, 1, Len(loaded) - 1)
      /\ Held(loaded[Len(loaded)]) = {}
  BY DEF FreeEnv
<1>2. Loaded \subseteq Loaded' \union {loaded[Len(loaded)]}
  <2>1. /\ DOMAIN loaded = 1 .. Len(loaded) /\ Len(loaded) \in Nat
        /\ DOMAIN loaded' = 1 .. (Len(loaded) - 1)
        /\ \A i \in 1 .. (Len(loaded) - 1) : loaded'[i] = loaded[i]
    BY <1>1, Shortened DEF TypeInv
  <2>2. QED
    BY <2>1 DEF Loaded
<1>3. \A r \in Records : records[r].state = "held" => records[r].env \in Loaded'
  BY <1>1, <1>2 DEF RunInv, Held
<1>4. QED
  BY <1>1, <1>3 DEF RunInv, Records

(* No finalizer is entered or returns. *)
LEMMA SameFinalizers ==
  ASSUME UNCHANGED stack
  PROVE  \A i, r : Finalizing(i, r)' <=> Finalizing(i, r)
BY DEF Finalizing

(* A call of an addon keeps the invariant. *)
LEMMA CallRun ==
  ASSUME TypeInv, StackInv, RunInv, HeldInv, AddonCalls
  PROVE  RunInv'
<1>1. UNCHANGED <<stack, loaded, phase>> /\ Loaded' = Loaded
  BY DEF AddonCalls, Throw, GetAndClear, SetInstanceData, Wrap, AddFinalizer, RemoveWrap,
     CreateReference, ReferenceRef, ReferenceUnref, DeleteReference, GetReferenceValue,
     ChangeRef, Loaded
<1>2. \A i, r : Finalizing(i, r)' <=> Finalizing(i, r)
  BY <1>1, SameFinalizers
<1>3. CASE UNCHANGED records
  BY <1>1, <1>2, <1>3, RunKept DEF Records
<1>4. ASSUME NEW o \in Objects, NEW withRef \in BOOLEAN,
             Wrap(o, withRef) \/ AddFinalizer(o, withRef)
      PROVE  RunInv'
  <2>1. stack # <<>> /\ Track(Top.env, o, withRef)
    BY <1>4 DEF Wrap, AddFinalizer
  <2>2. PICK e \in Envs : e = Top.env /\ e \in Loaded
    BY <2>1, TopEntry
  <2>3. PICK x \in FinalizerRecords :
          /\ records' = Append(records, x)
          /\ x.env = e /\ x.object = o /\ x.state = "held" /\ x.runs = 0
    BY <2>1, <2>2, TrackedRecord
  <2>4. /\ Records' = Records \union {Len(records) + 1}
        /\ records'[Len(records) + 1] = x
        /\ \A r \in Records : records'[r] = records[r]
    BY <2>3, AddedRecord
  <2>5. QED
    BY <1>1, <1>2, <2>2, <2>3, <2>4, RunKept
<1>5. ASSUME NEW o \in Objects, RemoveWrap(o)
      PROVE  RunInv'
  <2>1. PICK r \in Records : r = wrapped[o] /\ records[r].state = "held"
    <3>1. o \in alive /\ ~TearingDown /\ wrapped[o] # None
      BY <1>5 DEF RemoveWrap, Enters, Guarded, TypeInv
    <3>2. QED
      BY <3>1 DEF HeldInv
  <2>2. records' = [records EXCEPT ![r].state = "dropped"]
    BY <1>5, <2>1 DEF RemoveWrap
  <2>3. /\ Records' = Records /\ records'[r].state = "dropped"
        /\ records'[r].runs = records[r].runs
        /\ \A q \in Records : q # r => records'[q] = records[q]
    BY <2>2, DroppedRecord
  <2>4. QED
    BY <1>1, <1>2, <2>1, <2>3, RunKept
<1>6. CASE SetInstanceData
  <2>1. stack # <<>> /\ ~TearingDown
    BY <1>6 DEF SetInstanceData
  <2>2. PICK e \in Envs : e = Top.env /\ e \in Loaded
    BY <2>1, TopEntry
  <2>3. PICK n : n = Len(records) + 1
    OBVIOUS
  <2>4. /\ Records' = Records \union {n}
        /\ records'[n].env = e /\ records'[n].state = "held" /\ records'[n].runs = 0
        /\ \A r \in Records : r # instance[e] => records'[r] = records[r]
    BY <1>6, <2>2, <2>3, InstanceRecords
  <2>5. CASE instance[e] # None
    <3>1. PICK q \in Records : q = instance[e]
      BY <1>6, <2>2, <2>3, <2>5, InstanceRecords
    <3>2. records'[q].runs = records[q].runs /\ records'[q].state = "dropped"
      BY <1>6, <2>2, <2>3, <2>5, <3>1, InstanceRecords
    <3>3. records[q].state = "held"
      BY <2>1, <2>5, <3>1 DEF HeldInv
    <3>4. \A r \in Records : r # q => records'[r] = records[r]
      BY <2>4, <3>1
    <3>5. QED
      BY <1>1, <1>2, <2>2, <2>4, <3>2, <3>3, <3>4, RunKept
  <2>6. CASE instance[e] = None
    <3>1. \A r \in Records : records'[r] = records[r]
      BY <1>6, <2>2, <2>3, <2>6, InstanceRecords
    <3>2. QED
      BY <1>1, <1>2, <2>2, <2>4, <3>1, RunKept
  <2>7. QED
    BY <2>5, <2>6
<1>7. CASE \/ Throw \/ GetAndClear
           \/ \E o \in Objects : \E count \in 0 .. 1 : CreateReference(o, count)
           \/ \E r \in Refs : ReferenceRef(r) \/ ReferenceUnref(r) \/ DeleteReference(r)
                              \/ GetReferenceValue(r)
  <2>1. UNCHANGED records
    BY <1>7 DEF Throw, GetAndClear, CreateReference, ReferenceRef, ReferenceUnref,
       DeleteReference, GetReferenceValue, ChangeRef, data
  <2>2. QED
    BY <1>3, <2>1
<1>8. QED
  BY <1>4, <1>5, <1>6, <1>7 DEF AddonCalls

(* Each step keeps the records' runs. *)
LEMMA RunNext ==
  ASSUME TypeInv, StackInv, RunInv, HeldInv, CollectsRunning = FALSE, [Next]_vars
  PROVE  RunInv'
<1>1. CASE UNCHANGED vars
  BY <1>1, SameFinalizers, RunKept DEF vars, data, Records, Loaded
<1>2. ASSUME NEW e \in Envs, Invoke(e) \/ RunNativeTask(e) \/ LoadAddon(e)
      PROVE  RunInv'
  <2>1. UNCHANGED records /\ Loaded \subseteq Loaded'
    <3>1. Loaded' = Loaded \/ Loaded' = Loaded \union {e}
      BY <1>2, LoadedAppend DEF Invoke, RunNativeTask, LoadAddon, Loaded
    <3>2. QED
      BY <1>2, <3>1 DEF Invoke, RunNativeTask, LoadAddon, data
  <2>2. \E kind \in {"call", "task", "init"} : Enter(e, kind, None, None)
    BY <1>2 DEF Invoke, RunNativeTask, LoadAddon
  <2>3. \A i, r : Finalizing(i, r)' <=> Finalizing(i, r)
    BY <2>2, EnterFinalizing
  <2>4. QED
    BY <2>1, <2>3, RunKept DEF Records
<1>3. CASE AddonCalls
  BY <1>3, CallRun
<1>4. CASE ReturnToJs \/ ReturnFromInit \/ ReturnFromTask
  <2>1. /\ stack # <<>> /\ stack' = Pop /\ Top.kind # "finalize"
        /\ UNCHANGED <<records, loaded>>
    BY <1>4 DEF ReturnToJs, ReturnFromInit, ReturnFromTask, data
  <2>2. \A i, r : Finalizing(i, r)' <=> Finalizing(i, r)
    BY <2>1, PopFinalizing
  <2>3. QED
    BY <2>1, <2>2, RunKept DEF Records, Loaded
<1>5. CASE ReturnFromFinalizer
  BY <1>5, ReturnFromFinalizerRun
<1>6. ASSUME NEW r \in Records, FinalizerCollected(r)
      PROVE  RunInv'
  BY <1>6, RunFinalizerRun DEF FinalizerCollected
<1>7. CASE TeardownFinalizers
  BY <1>7, RunFinalizerRun DEF TeardownFinalizers, Held
<1>8. CASE FreeEnv
  BY <1>8, FreeEnvRun
<1>9. CASE RunUncaught \/ Dispose \/ Gone \/ \E o \in Objects : Forget(o) \/ Collect(o)
  <2>1. UNCHANGED <<stack, loaded, records>>
    BY <1>9 DEF RunUncaught, Dispose, Gone, Forget, Collect, data
  <2>2. QED
    BY <2>1, SameFinalizers, RunKept DEF Records, Loaded
<1>10. QED
  BY <1>1, <1>2, <1>3, <1>4, <1>5, <1>6, <1>7, <1>8, <1>9 DEF Next

-----------------------------------------------------------------------------
(* What is held                                                            *)

(* The records stay, or one stops being held whose object was collected,   *)
(* or the isolate is going.                                                *)
LEMMA HeldKept ==
  ASSUME TypeInv, HeldInv, None \notin Objects, UNCHANGED <<wrapped, instance>>,
         alive' \subseteq alive, TearingDown => TearingDown',
         Records \subseteq Records',
         \A r \in Records :
           /\ records'[r].env = records[r].env /\ records'[r].object = records[r].object
           /\ \/ records[r].state = "held" => records'[r].state = "held"
              \/ TearingDown'
              \/ records[r].object \in Objects \ alive
  PROVE  HeldInv'
<1>1. ASSUME NEW o \in Objects, wrapped'[o] # None
      PROVE  /\ wrapped'[o] \in Records' /\ records'[wrapped'[o]].object = o
             /\ o \in alive' /\ ~TearingDown' => records'[wrapped'[o]].state = "held"
  <2>1. PICK r \in Records : r = wrapped[o] /\ r = wrapped'[o]
    BY <1>1 DEF HeldInv
  <2>2. records[r].object = o /\ (o \in alive /\ ~TearingDown => records[r].state = "held")
    BY <1>1, <2>1 DEF HeldInv
  <2>3. QED
    BY <2>1, <2>2
<1>2. ASSUME NEW e \in Envs, instance'[e] # None
      PROVE  /\ instance'[e] \in Records'
             /\ records'[instance'[e]].object = None /\ records'[instance'[e]].env = e
             /\ ~TearingDown' => records'[instance'[e]].state = "held"
  <2>1. PICK r \in Records : r = instance[e] /\ r = instance'[e]
    BY <1>2 DEF HeldInv
  <2>2. /\ records[r].object = None /\ records[r].env = e
        /\ ~TearingDown => records[r].state = "held"
    BY <1>2, <2>1 DEF HeldInv
  <2>3. QED
    BY <2>1, <2>2
<1>3. QED
  BY <1>1, <1>2 DEF HeldInv

(* What calls make of it. *)
LEMMA CallHeld ==
  ASSUME TypeInv, StackInv, HeldInv, None \notin Objects, AddonCalls
  PROVE  HeldInv'
<1>1. UNCHANGED <<alive, phase>>
  BY DEF AddonCalls, Throw, GetAndClear, SetInstanceData, Wrap, AddFinalizer, RemoveWrap,
     CreateReference, ReferenceRef, ReferenceUnref, DeleteReference, GetReferenceValue,
     ChangeRef, data
<1>2. TearingDown' <=> TearingDown
  BY <1>1 DEF TearingDown
<1>3. ASSUME NEW o \in Objects, NEW withRef \in BOOLEAN,
             Wrap(o, withRef) \/ AddFinalizer(o, withRef)
      PROVE  HeldInv'
  <2>1. stack # <<>> /\ Track(Top.env, o, withRef) /\ UNCHANGED instance
    BY <1>3 DEF Wrap, AddFinalizer
  <2>2. PICK e \in Envs : e = Top.env
    BY <2>1, TopEntry
  <2>3. PICK x \in FinalizerRecords :
          /\ records' = Append(records, x)
          /\ x.env = e /\ x.object = o /\ x.state = "held" /\ x.runs = 0
    BY <2>1, <2>2, TrackedRecord
  <2>4. PICK n : n = Len(records) + 1
    OBVIOUS
  <2>5. /\ Records' = Records \union {n} /\ n \notin Records /\ records'[n] = x
        /\ \A r \in Records : records'[r] = records[r]
    BY <2>3, <2>4, AddedRecord
  <2>6. wrapped' = wrapped \/ wrapped' = [wrapped EXCEPT ![o] = n]
    BY <1>3, <2>4 DEF Wrap, AddFinalizer
  <2>7. ASSUME NEW p \in Objects, wrapped'[p] # None
        PROVE  /\ wrapped'[p] \in Records' /\ records'[wrapped'[p]].object = p
               /\ p \in alive' /\ ~TearingDown' => records'[wrapped'[p]].state = "held"
    <3>1. CASE p = o /\ wrapped'[p] = n
      BY <2>3, <2>5, <3>1
    <3>2. CASE ~(p = o /\ wrapped'[p] = n)
      <4>1. wrapped'[p] = wrapped[p]
        BY <2>6, <3>2 DEF TypeInv
      <4>2. PICK r \in Records : r = wrapped[p] /\ r = wrapped'[p]
        BY <2>7, <4>1 DEF HeldInv
      <4>3. records[r].object = p /\ (p \in alive /\ ~TearingDown => records[r].state = "held")
        BY <2>7, <4>1, <4>2 DEF HeldInv
      <4>4. QED
        BY <1>1, <1>2, <2>5, <4>2, <4>3
    <3>3. QED
      BY <3>1, <3>2
  <2>8. ASSUME NEW f \in Envs, instance'[f] # None
        PROVE  /\ instance'[f] \in Records'
               /\ records'[instance'[f]].object = None /\ records'[instance'[f]].env = f
               /\ ~TearingDown' => records'[instance'[f]].state = "held"
    <3>1. PICK r \in Records : r = instance[f] /\ r = instance'[f]
      BY <2>1, <2>8 DEF HeldInv
    <3>2. /\ records[r].object = None /\ records[r].env = f
          /\ ~TearingDown => records[r].state = "held"
      BY <2>1, <2>8, <3>1 DEF HeldInv
    <3>3. QED
      BY <1>2, <2>5, <3>1, <3>2
  <2>9. QED
    BY <2>7, <2>8 DEF HeldInv
<1>4. ASSUME NEW o \in Objects, RemoveWrap(o)
      PROVE  HeldInv'
  <2>1. /\ wrapped[o] # None /\ wrapped' = [wrapped EXCEPT ![o] = None]
        /\ records' = [records EXCEPT ![wrapped[o]].state = "dropped"]
        /\ UNCHANGED instance
    BY <1>4 DEF RemoveWrap, Unwrapped
  <2>2. PICK r \in Records : r = wrapped[o] /\ records[r].object = o
    BY <2>1 DEF HeldInv
  <2>3. /\ Records' = Records /\ records'[r].object = o
        /\ \A q \in Records : q # r => records'[q] = records[q]
    BY <2>1, <2>2, DroppedRecord
  <2>4. ASSUME NEW p \in Objects, wrapped'[p] # None
        PROVE  /\ wrapped'[p] \in Records' /\ records'[wrapped'[p]].object = p
               /\ p \in alive' /\ ~TearingDown' => records'[wrapped'[p]].state = "held"
    <3>1. p # o /\ wrapped'[p] = wrapped[p]
      BY <2>1, <2>4 DEF TypeInv
    <3>2. PICK q \in Records : q = wrapped[p] /\ q = wrapped'[p]
      BY <2>4, <3>1 DEF HeldInv
    <3>3. records[q].object = p /\ (p \in alive /\ ~TearingDown => records[q].state = "held")
      BY <2>4, <3>1, <3>2 DEF HeldInv
    <3>4. q # r
      BY <2>2, <3>1, <3>3
    <3>5. QED
      BY <1>1, <1>2, <2>3, <3>2, <3>3, <3>4
  <2>5. ASSUME NEW f \in Envs, instance'[f] # None
        PROVE  /\ instance'[f] \in Records'
               /\ records'[instance'[f]].object = None /\ records'[instance'[f]].env = f
               /\ ~TearingDown' => records'[instance'[f]].state = "held"
    <3>1. PICK q \in Records : q = instance[f] /\ q = instance'[f]
      BY <2>1, <2>5 DEF HeldInv
    <3>2. /\ records[q].object = None /\ records[q].env = f
          /\ ~TearingDown => records[q].state = "held"
      BY <2>1, <2>5, <3>1 DEF HeldInv
    <3>3. q # r
      BY <2>2, <3>2
    <3>4. QED
      BY <1>2, <2>3, <3>1, <3>2, <3>3
  <2>6. QED
    BY <2>4, <2>5 DEF HeldInv
<1>5. CASE SetInstanceData
  <2>1. stack # <<>> /\ UNCHANGED wrapped
    BY <1>5 DEF SetInstanceData
  <2>2. PICK e \in Envs : e = Top.env
    BY <2>1, TopEntry
  <2>3. PICK n : n = Len(records) + 1
    OBVIOUS
  <2>4. /\ Records' = Records \union {n} /\ n \notin Records
        /\ instance' = [instance EXCEPT ![e] = n]
        /\ records'[n].env = e /\ records'[n].object = None /\ records'[n].state = "held"
        /\ \A r \in Records : r # instance[e] => records'[r] = records[r]
        /\ instance[e] = None => \A r \in Records : records'[r] = records[r]
    BY <1>5, <2>2, <2>3, InstanceRecords
  <2>5. instance[e] # None =>
          /\ instance[e] \in Records /\ records[instance[e]].object = None
          /\ records[instance[e]].env = e
    BY DEF HeldInv
  <2>6. ASSUME NEW p \in Objects, wrapped'[p] # None
        PROVE  /\ wrapped'[p] \in Records' /\ records'[wrapped'[p]].object = p
               /\ p \in alive' /\ ~TearingDown' => records'[wrapped'[p]].state = "held"
    <3>1. PICK q \in Records : q = wrapped[p] /\ q = wrapped'[p]
      BY <2>1, <2>6 DEF HeldInv
    <3>2. records[q].object = p /\ (p \in alive /\ ~TearingDown => records[q].state = "held")
      BY <2>1, <2>6, <3>1 DEF HeldInv
    <3>3. records'[q] = records[q]
      BY <2>4, <2>5, <3>2
    <3>4. QED
      BY <1>1, <1>2, <2>4, <3>1, <3>2, <3>3
  <2>7. ASSUME NEW f \in Envs, instance'[f] # None
        PROVE  /\ instance'[f] \in Records'
               /\ records'[instance'[f]].object = None /\ records'[instance'[f]].env = f
               /\ ~TearingDown' => records'[instance'[f]].state = "held"
    <3>1. CASE f = e
      <4>1. instance'[f] = n
        BY <2>4, <3>1 DEF TypeInv
      <4>2. QED
        BY <2>4, <3>1, <4>1
    <3>2. CASE f # e
      <4>1. instance'[f] = instance[f]
        BY <2>4, <3>2 DEF TypeInv
      <4>2. PICK q \in Records : q = instance[f] /\ q = instance'[f]
        BY <2>7, <4>1 DEF HeldInv
      <4>3. /\ records[q].object = None /\ records[q].env = f
            /\ ~TearingDown => records[q].state = "held"
        BY <2>7, <4>1, <4>2 DEF HeldInv
      <4>4. records'[q] = records[q]
        BY <2>4, <2>5, <3>2, <4>3
      <4>5. QED
        BY <1>2, <2>4, <4>2, <4>3, <4>4
    <3>3. QED
      BY <3>1, <3>2
  <2>8. QED
    BY <2>6, <2>7 DEF HeldInv
<1>6. CASE \/ Throw \/ GetAndClear
           \/ \E o \in Objects : \E count \in 0 .. 1 : CreateReference(o, count)
           \/ \E r \in Refs : ReferenceRef(r) \/ ReferenceUnref(r) \/ DeleteReference(r)
                              \/ GetReferenceValue(r)
  <2>1. UNCHANGED <<records, wrapped, instance>>
    BY <1>6 DEF Throw, GetAndClear, CreateReference, ReferenceRef, ReferenceUnref,
       DeleteReference, GetReferenceValue, ChangeRef, data
  <2>2. QED
    BY <1>1, <1>2, <2>1, HeldKept DEF Records
<1>7. QED
  BY <1>3, <1>4, <1>5, <1>6 DEF AddonCalls

(* Each step keeps it. *)
LEMMA HeldNext ==
  ASSUME TypeInv, StackInv, RunInv, HeldInv, AliveInv, None \notin Objects,
         CollectsRunning = FALSE, [Next]_vars
  PROVE  HeldInv'
<1>1. CASE \/ UNCHANGED vars
           \/ \E e \in Envs : Invoke(e) \/ RunNativeTask(e) \/ LoadAddon(e)
           \/ ReturnToJs \/ ReturnFromInit \/ ReturnFromTask \/ RunUncaught
           \/ Dispose \/ FreeEnv \/ Gone
           \/ \E o \in Objects : Forget(o) \/ Collect(o)
  <2>1. UNCHANGED <<records, wrapped, instance>>
    BY <1>1 DEF vars, Invoke, RunNativeTask, LoadAddon, ReturnToJs, ReturnFromInit,
       ReturnFromTask, RunUncaught, Dispose, FreeEnv, Gone, Forget, Collect, data
  <2>2. alive' \subseteq alive
    BY <1>1 DEF vars, Invoke, RunNativeTask, LoadAddon, ReturnToJs, ReturnFromInit,
       ReturnFromTask, RunUncaught, Dispose, FreeEnv, Gone, Forget, Collect, data
  <2>3. phase' = phase \/ phase' \in {"teardown", "gone"}
    BY <1>1 DEF vars, Invoke, RunNativeTask, LoadAddon, ReturnToJs, ReturnFromInit,
       ReturnFromTask, RunUncaught, Dispose, FreeEnv, Gone, Forget, Collect
  <2>4. TearingDown => TearingDown'
    BY <2>3 DEF TearingDown
  <2>5. QED
    BY <2>1, <2>2, <2>4, HeldKept DEF Records
<1>2. CASE AddonCalls
  BY <1>2, CallHeld
<1>3. CASE ReturnFromFinalizer
  <2>1. /\ stack # <<>> /\ Top.kind = "finalize" /\ stack' = Pop
        /\ records' = [records EXCEPT ![Top.record].state = "finalized"]
        /\ UNCHANGED <<wrapped, instance, alive, phase>>
    BY <1>3 DEF ReturnFromFinalizer
  <2>2. PICK r \in Records : r = Top.record /\ records[r].state = "finalizing"
    <3>1. Finalizing(Len(stack), Top.record)
      BY <2>1, PopFinalizing
    <3>2. QED
      BY <3>1 DEF Finalizing, RunInv
  <2>3. /\ Records' = Records
        /\ records'[r].env = records[r].env /\ records'[r].object = records[r].object
        /\ \A q \in Records : q # r => records'[q] = records[q]
    BY <2>1, <2>2, FinalizedRecord
  <2>4. QED
    BY <2>1, <2>2, <2>3, HeldKept DEF TearingDown
<1>4. ASSUME NEW r \in Records, RunFinalizer(r), UNCHANGED <<wrapped, instance, alive, phase>>,
             TearingDown \/ r \in dead
      PROVE  HeldInv'
  <2>1. /\ Records' = Records
        /\ records'[r].env = records[r].env /\ records'[r].object = records[r].object
        /\ \A q \in Records : q # r => records'[q] = records[q]
    BY <1>4, FinalizingRecord
  <2>2. TearingDown' \/ records[r].object \in Objects \ alive
    BY <1>4 DEF AliveInv, TearingDown
  <2>3. QED
    BY <1>4, <2>1, <2>2, HeldKept DEF TearingDown
<1>5. ASSUME NEW r \in Records, FinalizerCollected(r)
      PROVE  HeldInv'
  BY <1>4, <1>5 DEF FinalizerCollected
<1>6. CASE TeardownFinalizers
  BY <1>4, <1>6 DEF TeardownFinalizers, Held, TearingDown
<1>7. QED
  BY <1>1, <1>2, <1>3, <1>5, <1>6 DEF Next
-----------------------------------------------------------------------------
(* What is alive                                                           *)

(* A reference that is added. *)
LEMMA CreatedRef ==
  ASSUME TypeInv, NEW x \in References, refs' = Append(refs, x)
  PROVE  /\ refs' \in Seq(References)
         /\ \A r \in Refs' : (r \in Refs /\ refs'[r] = refs[r]) \/ refs'[r] = x
<1>1. refs \in Seq(References)
  BY DEF TypeInv
<1>2. QED
  BY <1>1, Appended DEF Refs

(* A reference that changes. *)
LEMMA ChangedRef ==
  ASSUME TypeInv, NEW r \in Refs, NEW x \in References, refs' = [refs EXCEPT ![r] = x]
  PROVE  /\ refs' \in Seq(References) /\ Refs' = Refs
         /\ \A q \in Refs' : (q \in Refs /\ refs'[q] = refs[q]) \/ refs'[q] = x
<1>1. refs \in Seq(References) /\ r \in DOMAIN refs
  BY DEF TypeInv, Refs
<1>2. QED
  BY <1>1, Replaced DEF Refs

(* A reference stays one when its count or its value changes. *)
LEMMA RefEdits ==
  ASSUME NEW x \in References
  PROVE  /\ [x EXCEPT !.value = "empty"] \in References
         /\ [x EXCEPT !.value = "empty"].value = "empty"
         /\ [x EXCEPT !.count = x.count + 1, !.value = "strong"] \in References
         /\ [x EXCEPT !.count = x.count + 1, !.value = "strong"].object = x.object
         /\ x.count > 0 =>
              LET y == [x EXCEPT !.count = x.count - 1,
                                 !.value = IF x.count = 1 THEN "weak" ELSE x.value]
              IN  y \in References /\ y.object = x.object
<1>1. x.count \in Nat
  BY DEF References
<1>2. x.value \in {"strong", "weak", "empty", "deleted"}
  BY DEF References
<1>3. /\ [x EXCEPT !.value = "empty"] \in References
      /\ [x EXCEPT !.value = "empty"].value = "empty"
  BY DEF References
<1>4. x.count + 1 \in Nat
  BY <1>1
<1>5. /\ [x EXCEPT !.count = x.count + 1, !.value = "strong"] \in References
      /\ [x EXCEPT !.count = x.count + 1, !.value = "strong"].object = x.object
  BY <1>4 DEF References
<1>6. ASSUME x.count > 0
      PROVE  LET y == [x EXCEPT !.count = x.count - 1,
                                !.value = IF x.count = 1 THEN "weak" ELSE x.value]
             IN  y \in References /\ y.object = x.object
  <2>1. PICK n \in Nat : n = x.count - 1
    BY <1>1, <1>6
  <2>2. PICK v \in {"strong", "weak", "empty", "deleted"} :
          v = IF x.count = 1 THEN "weak" ELSE x.value
    BY <1>2
  <2>3. /\ [x EXCEPT !.count = n, !.value = v] \in References
        /\ [x EXCEPT !.count = n, !.value = v].object = x.object
    BY DEF References
  <2>4. QED
    BY <2>1, <2>2, <2>3
<1>7. QED
  BY <1>3, <1>5, <1>6

(* A record's own reference loses its value. *)
LEMMA EmptiedRef ==
  ASSUME TypeInv, NEW ref, OwnRefEmptied(ref)
  PROVE  /\ refs' \in Seq(References)
         /\ \A q \in Refs' : (q \in Refs /\ refs'[q] = refs[q]) \/ refs'[q].value # "strong"
<1>1. refs \in Seq(References)
  BY DEF TypeInv
<1>2. CASE UNCHANGED refs
  BY <1>1, <1>2 DEF Refs
<1>3. CASE refs' = [refs EXCEPT ![ref].value = "empty"] /\ ref \in Refs
  <2>1. refs[ref] \in References
    BY <1>1, <1>3, Elements DEF Refs
  <2>2. PICK x \in References : x = [refs[ref] EXCEPT !.value = "empty"]
    BY <2>1, RefEdits
  <2>3. x.value = "empty"
    BY <2>1, <2>2, RefEdits
  <2>4. refs' = [refs EXCEPT ![ref] = x]
    BY <1>3, <2>2
  <2>5. QED
    BY <1>3, <2>3, <2>4, ChangedRef
<1>4. CASE refs' = [refs EXCEPT ![ref].value = "empty"] /\ ref \notin Refs
  <2>1. refs' = refs
    BY <1>1, <1>4 DEF Refs
  <2>2. QED
    BY <1>2, <2>1
<1>5. QED
  BY <1>2, <1>3, <1>4 DEF OwnRefEmptied

(* A reference that is strong after a step, and was not as it is, is to    *)
(* what is alive.                                                          *)
RefsFrom(old) ==
  /\ refs' \in Seq(References)
  /\ \A r \in Refs' : \/ r \in Refs /\ refs'[r] = refs[r]
                      \/ refs'[r].value # "strong"
                      \/ refs'[r].object \in old

(* Nothing of the references changes. *)
LEMMA SameRefs ==
  ASSUME TypeInv, UNCHANGED refs
  PROVE  RefsFrom(alive)
BY DEF RefsFrom, TypeInv, Refs

(* What calls make of the references. *)
LEMMA CallRefs ==
  ASSUME TypeInv, StackInv, AliveInv, AddonCalls
  PROVE  RefsFrom(alive)
<1>1. CASE \/ Throw \/ GetAndClear \/ SetInstanceData \/ \E o \in Objects : RemoveWrap(o)
           \/ \E r \in Refs : GetReferenceValue(r)
  BY <1>1, SameRefs DEF Throw, GetAndClear, SetInstanceData, RemoveWrap, GetReferenceValue, data
<1>2. ASSUME NEW o \in Objects, NEW withRef \in BOOLEAN,
             Wrap(o, withRef) \/ AddFinalizer(o, withRef)
      PROVE  RefsFrom(alive)
  <2>1. stack # <<>> /\ Track(Top.env, o, withRef)
    BY <1>2 DEF Wrap, AddFinalizer
  <2>2. PICK e \in Envs : e = Top.env
    BY <2>1, TopEntry
  <2>3. QED
    BY <2>1, <2>2, TrackedRef DEF RefsFrom
<1>3. ASSUME NEW o \in Objects, NEW count \in 0 .. 1, CreateReference(o, count)
      PROVE  RefsFrom(alive)
  <2>1. stack # <<>> /\ o \in alive /\ refs' = Append(refs, NewRef(Top.env, o, count))
    BY <1>3 DEF CreateReference, TypeInv
  <2>2. PICK e \in Envs : e = Top.env
    BY <2>1, TopEntry
  <2>3. NewRef(e, o, count) \in References /\ NewRef(e, o, count).object = o
    BY DEF NewRef, References
  <2>4. PICK x \in References : x = NewRef(e, o, count) /\ x.object = o
    BY <2>3
  <2>5. QED
    BY <2>1, <2>2, <2>4, CreatedRef DEF RefsFrom
<1>4. ASSUME NEW r \in Refs, ReferenceRef(r) \/ ReferenceUnref(r) \/ DeleteReference(r)
      PROVE  RefsFrom(alive)
  <2>1. refs[r] \in References
    BY Elements DEF TypeInv, Refs
  <2>2. refs[r].value = "strong" => refs[r].object \in alive
    BY DEF AliveInv
  <2>3. HasValue(r) => refs[r].object \in alive
    BY <2>2 DEF HasValue
  <2>4. PICK x \in References :
          /\ refs' = [refs EXCEPT ![r] = x]
          /\ x.value # "strong" \/ x.object \in alive
    <3>1. CASE ReferenceRef(r)
      <4>1. CASE HasValue(r)
        <5> DEFINE y == [refs[r] EXCEPT !.count = @ + 1, !.value = "strong"]
        <5>1. y \in References /\ y.object = refs[r].object
          BY <2>1, RefEdits
        <5>2. refs' = [refs EXCEPT ![r] = y]
          BY <3>1, <4>1 DEF ReferenceRef, ChangeRef
        <5> HIDE DEF y
        <5>3. QED
          BY <2>3, <4>1, <5>1, <5>2
      <4>2. CASE ~HasValue(r)
        <5> DEFINE y == [refs[r] EXCEPT !.value = "empty"]
        <5>1. y \in References /\ y.value = "empty"
          BY <2>1, RefEdits
        <5>2. refs' = [refs EXCEPT ![r] = y]
          BY <3>1, <4>2 DEF ReferenceRef, ChangeRef
        <5> HIDE DEF y
        <5>3. QED
          BY <5>1, <5>2
      <4>3. QED
        BY <4>1, <4>2
    <3>2. CASE ReferenceUnref(r)
      <4>1. CASE HasValue(r)
        <5> DEFINE y == [refs[r] EXCEPT !.count = @ - 1,
                                        !.value = IF refs[r].count = 1 THEN "weak" ELSE @]
        <5>1. refs[r].count > 0
          BY <3>2 DEF ReferenceUnref
        <5>2. y \in References /\ y.object = refs[r].object
          BY <2>1, <5>1, RefEdits
        <5>3. refs' = [refs EXCEPT ![r] = y]
          BY <3>2, <4>1 DEF ReferenceUnref, ChangeRef
        <5> HIDE DEF y
        <5>4. QED
          BY <2>3, <4>1, <5>2, <5>3
      <4>2. CASE ~HasValue(r)
        <5> DEFINE y == [refs[r] EXCEPT !.value = "empty"]
        <5>1. y \in References /\ y.value = "empty"
          BY <2>1, RefEdits
        <5>2. refs' = [refs EXCEPT ![r] = y]
          BY <3>2, <4>2 DEF ReferenceUnref, ChangeRef
        <5> HIDE DEF y
        <5>3. QED
          BY <5>1, <5>2
      <4>3. QED
        BY <4>1, <4>2
    <3>3. CASE DeleteReference(r)
      <4> DEFINE y == [refs[r] EXCEPT !.value = "deleted"]
      <4>1. y \in References /\ y.value = "deleted"
        BY <2>1 DEF References
      <4>2. refs' = [refs EXCEPT ![r] = y]
        BY <3>3 DEF DeleteReference, ChangeRef
      <4> HIDE DEF y
      <4>3. QED
        BY <4>1, <4>2
    <3>4. QED
      BY <1>4, <3>1, <3>2, <3>3
  <2>5. QED
    BY <2>4, ChangedRef DEF RefsFrom
<1>5. QED
  BY <1>1, <1>2, <1>3, <1>4 DEF AddonCalls

(* What any step makes of the references. *)
LEMMA RefsNext ==
  ASSUME TypeInv, StackInv, AliveInv, [Next]_vars
  PROVE  RefsFrom(alive)
<1>1. CASE \/ UNCHANGED vars
           \/ \E e \in Envs : Invoke(e) \/ RunNativeTask(e) \/ LoadAddon(e)
           \/ ReturnToJs \/ ReturnFromInit \/ ReturnFromTask \/ ReturnFromFinalizer
           \/ RunUncaught \/ Dispose \/ Gone
           \/ \E o \in Objects : Forget(o) \/ Collect(o)
  BY <1>1, SameRefs DEF vars, Invoke, RunNativeTask, LoadAddon, ReturnToJs, ReturnFromInit,
     ReturnFromTask, ReturnFromFinalizer, RunUncaught, Dispose, Gone, Forget, Collect, data
<1>2. CASE AddonCalls
  BY <1>2, CallRefs
<1>3. ASSUME NEW r \in Records, RunFinalizer(r)
      PROVE  RefsFrom(alive)
  BY <1>3, EmptiedRef DEF RunFinalizer, RefsFrom
<1>4. CASE FreeEnv
  <2>1. PICK e : refs' = [r \in Refs |-> IF refs[r].env = e THEN [refs[r] EXCEPT !.value = "deleted"]
                                         ELSE refs[r]]
    BY <1>4 DEF FreeEnv
  <2>2. \A r \in Refs : refs[r] \in References
    BY Elements DEF TypeInv, Refs
  <2>3. \A r \in Refs : /\ refs'[r] \in References
                        /\ refs'[r] = refs[r] \/ refs'[r].value = "deleted"
    BY <2>1, <2>2 DEF References
  <2>4. Len(refs) \in Nat /\ Refs = 1 .. Len(refs)
    BY Elements DEF TypeInv, Refs
  <2>5. refs' \in [1 .. Len(refs) -> References]
    BY <2>1, <2>3, <2>4
  <2>6. refs' \in Seq(References) /\ Refs' = Refs
    BY <2>4, <2>5 DEF Refs
  <2>7. QED
    BY <2>3, <2>6 DEF RefsFrom
<1>5. QED
  BY <1>1, <1>2, <1>3, <1>4 DEF Next, FinalizerCollected, TeardownFinalizers, Held
(* What any step makes of the records. *)
RecordsKept ==
  /\ records' \in Seq(FinalizerRecords) /\ Records \subseteq Records'
  /\ \A r \in Records : records'[r].object = records[r].object

(* Nothing of the records changes. *)
LEMMA SameRecords ==
  ASSUME TypeInv, UNCHANGED records
  PROVE  RecordsKept
BY DEF RecordsKept, TypeInv, Records

(* Every record keeps its type. *)
LEMMA RecordsNext ==
  ASSUME TypeInv, StackInv, RunInv, HeldInv, [Next]_vars
  PROVE  RecordsKept
<1>1. CASE \/ UNCHANGED vars
           \/ \E e \in Envs : Invoke(e) \/ RunNativeTask(e) \/ LoadAddon(e)
           \/ ReturnToJs \/ ReturnFromInit \/ ReturnFromTask
           \/ RunUncaught \/ Dispose \/ FreeEnv \/ Gone
           \/ \E o \in Objects : Forget(o) \/ Collect(o)
           \/ Throw \/ GetAndClear
           \/ \E o \in Objects : \E count \in 0 .. 1 : CreateReference(o, count)
           \/ \E r \in Refs : ReferenceRef(r) \/ ReferenceUnref(r) \/ DeleteReference(r)
                              \/ GetReferenceValue(r)
  BY <1>1, SameRecords DEF vars, Invoke, RunNativeTask, LoadAddon, ReturnToJs, ReturnFromInit,
     ReturnFromTask, RunUncaught, Dispose, FreeEnv, Gone, Forget, Collect, data,
     Throw, GetAndClear, CreateReference, ReferenceRef, ReferenceUnref,
     DeleteReference, GetReferenceValue, ChangeRef
<1>2. ASSUME NEW o \in Objects, NEW withRef \in BOOLEAN,
             Wrap(o, withRef) \/ AddFinalizer(o, withRef)
      PROVE  RecordsKept
  <2>1. stack # <<>> /\ Track(Top.env, o, withRef)
    BY <1>2 DEF Wrap, AddFinalizer
  <2>2. PICK e \in Envs : e = Top.env
    BY <2>1, TopEntry
  <2>3. PICK x \in FinalizerRecords : records' = Append(records, x)
    BY <2>1, <2>2, TrackedRecord
  <2>4. QED
    BY <2>3, AddedRecord DEF RecordsKept
<1>3. ASSUME NEW o \in Objects, RemoveWrap(o)
      PROVE  RecordsKept
  <2>1. wrapped[o] # None /\ records' = [records EXCEPT ![wrapped[o]].state = "dropped"]
    BY <1>3 DEF RemoveWrap
  <2>2. PICK r \in Records : r = wrapped[o]
    BY <2>1 DEF HeldInv
  <2>3. /\ Records' = Records /\ records' \in Seq(FinalizerRecords)
        /\ records'[r].object = records[r].object
        /\ \A q \in Records : q # r => records'[q] = records[q]
    BY <2>1, <2>2, DroppedRecord
  <2>4. QED
    BY <2>3 DEF RecordsKept
<1>4. CASE SetInstanceData
  <2>1. PICK e \in Envs : e = Top.env
    BY <1>4, TopEntry DEF SetInstanceData
  <2>2. PICK n : n = Len(records) + 1
    OBVIOUS
  <2>3. /\ Records' = Records \union {n} /\ records' \in Seq(FinalizerRecords)
        /\ \A r \in Records : r # instance[e] => records'[r] = records[r]
        /\ instance[e] = None => \A r \in Records : records'[r] = records[r]
        /\ instance[e] # None => records'[instance[e]].object = records[instance[e]].object
    BY <1>4, <2>1, <2>2, InstanceRecords
  <2>4. QED
    BY <2>3 DEF RecordsKept
<1>5. CASE ReturnFromFinalizer
  <2>1. /\ stack # <<>> /\ Top.kind = "finalize" /\ stack' = Pop
        /\ records' = [records EXCEPT ![Top.record].state = "finalized"]
    BY <1>5 DEF ReturnFromFinalizer
  <2>2. PICK r \in Records : r = Top.record
    <3>1. Finalizing(Len(stack), Top.record)
      BY <2>1, PopFinalizing
    <3>2. QED
      BY <3>1 DEF Finalizing, RunInv
  <2>3. /\ Records' = Records /\ records' \in Seq(FinalizerRecords)
        /\ records'[r].object = records[r].object
        /\ \A q \in Records : q # r => records'[q] = records[q]
    BY <2>1, <2>2, FinalizedRecord
  <2>4. QED
    BY <2>3 DEF RecordsKept
<1>6. ASSUME NEW r \in Records, RunFinalizer(r)
      PROVE  RecordsKept
  BY <1>6, FinalizingRecord DEF RecordsKept
<1>7. QED
  BY <1>1, <1>2, <1>3, <1>4, <1>5, <1>6
     DEF Next, AddonCalls, FinalizerCollected, TeardownFinalizers, Held

(* What any step makes of the objects and of the records owed a callback:  *)
(* only a collection adds to them, which takes an object that nothing      *)
(* references strongly.                                                    *)
LEMMA Collected ==
  ASSUME [Next]_vars
  PROVE  \/ UNCHANGED alive /\ dead' \subseteq dead
         \/ \E o \in alive \ rooted : /\ ~Strong(o) /\ alive' = alive \ {o}
                                      /\ dead' = dead \union Armed(o)
                                      /\ UNCHANGED <<rooted, records, refs>>
<1>1. CASE UNCHANGED vars
  BY <1>1 DEF vars, data
<1>2. CASE \/ \E e \in Envs : Invoke(e) \/ RunNativeTask(e) \/ LoadAddon(e)
           \/ ReturnToJs \/ ReturnFromInit \/ ReturnFromTask \/ ReturnFromFinalizer
           \/ RunUncaught \/ Dispose \/ FreeEnv \/ Gone
           \/ \E o \in Objects : Forget(o)
           \/ \E r \in Records : FinalizerCollected(r)
           \/ TeardownFinalizers
  BY <1>2 DEF Invoke, RunNativeTask, LoadAddon, ReturnToJs, ReturnFromInit,
     ReturnFromTask, ReturnFromFinalizer, RunUncaught, Dispose, FreeEnv, Gone, Forget,
     FinalizerCollected, TeardownFinalizers, data
<1>3. CASE AddonCalls
  BY <1>3 DEF AddonCalls, Throw, GetAndClear, SetInstanceData, Wrap, AddFinalizer, RemoveWrap,
     CreateReference, ReferenceRef, ReferenceUnref, DeleteReference, GetReferenceValue,
     ChangeRef, data
<1>4. ASSUME NEW o \in Objects, Collect(o)
      PROVE  /\ o \in alive \ rooted /\ ~Strong(o) /\ alive' = alive \ {o}
             /\ dead' = dead \union Armed(o) /\ UNCHANGED <<rooted, records, refs>>
  BY <1>4 DEF Collect
<1>5. QED
  BY <1>1, <1>2, <1>3, <1>4 DEF Next

(* Each step keeps what is alive. *)
LEMMA AliveNext ==
  ASSUME TypeInv, StackInv, RunInv, HeldInv, AliveInv, [Next]_vars
  PROVE  AliveInv'
<1>1. RefsFrom(alive) /\ RecordsKept
  BY RefsNext, RecordsNext
<1>2. dead \subseteq Records /\ alive \subseteq Objects
  BY DEF TypeInv
<1>3. CASE UNCHANGED alive /\ dead' \subseteq dead
  BY <1>1, <1>2, <1>3 DEF AliveInv, RefsFrom, RecordsKept
<1>4. ASSUME NEW o \in alive \ rooted, ~Strong(o), alive' = alive \ {o},
             dead' = dead \union Armed(o), UNCHANGED <<rooted, records, refs>>
      PROVE  AliveInv'
  <2>1. \A r \in dead' : records'[r].object \in Objects \ alive'
    BY <1>2, <1>4 DEF AliveInv, Armed
  <2>2. \A r \in Refs' : refs'[r].value = "strong" => refs'[r].object \in alive'
    BY <1>4 DEF AliveInv, Strong, Refs
  <2>3. QED
    BY <2>1, <2>2 DEF AliveInv
<1>5. QED
  BY <1>3, <1>4, Collected

-----------------------------------------------------------------------------
(* Types                                                                   *)

(* An entry's stack and scope. *)
LEMMA EnterTypes ==
  ASSUME TypeInv, NEW e \in Envs, NEW kind \in Kinds, NEW record \in OrNone(Nat),
         NEW aside \in OrNone(Nat), Enter(e, kind, record, aside)
  PROVE  stack' \in Seq(Entries) /\ scope' \in [Envs -> OrNone(Nat)]
<1> DEFINE x == [env |-> e, kind |-> kind, record |-> record, outer |-> scope[e],
                 aside |-> aside]
<1>1. stack' = Append(stack, x) /\ scope' = [scope EXCEPT ![e] = Depth + 1]
  BY DEF Enter
<1>2. x \in Entries
  BY DEF Entries, TypeInv
<1> HIDE DEF x
<1>3. stack \in Seq(Entries)
  BY DEF TypeInv
<1>4. stack' \in Seq(Entries) /\ Depth \in Nat
  BY <1>1, <1>2, <1>3, Appended DEF Depth
<1>5. QED
  BY <1>1, <1>4 DEF TypeInv, OrNone

(* The types of the isolate's end, the addons and the entries. *)
StackTypes ==
  /\ phase \in {"live", "teardown", "gone"}
  /\ loaded \in Seq(Envs)
  /\ stack \in Seq(Entries)
  /\ scope \in [Envs -> OrNone(Nat)]

(* Every entry and scope keeps its type. *)
LEMMA StackTypesNext ==
  ASSUME TypeInv, StackInv, [Next]_vars
  PROVE  StackTypes'
<1>1. CASE \/ UNCHANGED vars
           \/ AddonCalls \/ RunUncaught \/ Dispose \/ Gone
           \/ \E o \in Objects : Forget(o) \/ Collect(o)
  BY <1>1 DEF vars, AddonCalls, Throw, GetAndClear, SetInstanceData, Wrap, AddFinalizer,
     RemoveWrap, CreateReference, ReferenceRef, ReferenceUnref, DeleteReference,
     GetReferenceValue, ChangeRef, RunUncaught, Dispose, Gone, Forget, Collect, StackTypes,
     TypeInv
<1>2. ASSUME NEW e \in Envs, Invoke(e) \/ RunNativeTask(e) \/ LoadAddon(e)
      PROVE  StackTypes'
  <2>1. phase' = phase /\ loaded' \in Seq(Envs)
    BY <1>2, LoadedAppend DEF Invoke, RunNativeTask, LoadAddon, TypeInv
  <2>2. \E kind \in Kinds : Enter(e, kind, None, None)
    BY <1>2 DEF Invoke, RunNativeTask, LoadAddon, Kinds
  <2>3. None \in OrNone(Nat)
    BY DEF OrNone
  <2>4. QED
    BY <2>1, <2>2, <2>3, EnterTypes DEF StackTypes, TypeInv
<1>3. CASE ReturnToJs \/ ReturnFromInit \/ ReturnFromTask \/ ReturnFromFinalizer
  <2>1. /\ stack # <<>> /\ stack' = Pop /\ UNCHANGED <<phase, loaded>>
        /\ RestoreScope \/ UNCHANGED scope
    BY <1>3 DEF ReturnToJs, ReturnFromInit, ReturnFromTask, ReturnFromFinalizer
  <2>2. stack' \in Seq(Entries)
    BY <2>1, Shortened DEF TypeInv, Pop, Depth
  <2>3. Top.outer \in OrNone(Nat)
    BY <2>1, TopEntry DEF Entries
  <2>4. QED
    BY <2>1, <2>2, <2>3 DEF StackTypes, TypeInv, RestoreScope
<1>4. ASSUME NEW r \in Records, RunFinalizer(r), UNCHANGED <<phase, loaded>>
      PROVE  StackTypes'
  <2>1. records[r] \in FinalizerRecords /\ r \in Nat
    BY Elements DEF TypeInv, Records
  <2>2. PICK e \in Envs : e = records[r].env
    BY <2>1 DEF FinalizerRecords
  <2>3. Enter(e, "finalize", r, pending[e])
    BY <1>4, <2>2 DEF RunFinalizer
  <2>4. r \in OrNone(Nat) /\ "finalize" \in Kinds /\ pending[e] \in OrNone(Nat)
    BY <2>1 DEF OrNone, Kinds, TypeInv
  <2>5. QED
    BY <1>4, <2>3, <2>4, EnterTypes DEF StackTypes, TypeInv
<1>5. CASE FreeEnv
  <2>1. /\ loaded # <<>> /\ loaded' = SubSeq(loaded, 1, Len(loaded) - 1)
        /\ UNCHANGED <<phase, stack>>
        /\ scope' = [scope EXCEPT ![loaded[Len(loaded)]] = None]
    BY <1>5 DEF FreeEnv
  <2>2. loaded' \in Seq(Envs)
    BY <2>1, Shortened DEF TypeInv
  <2>3. QED
    BY <2>1, <2>2 DEF StackTypes, TypeInv, OrNone
<1>6. QED
  BY <1>1, <1>2, <1>3, <1>4, <1>5 DEF Next, FinalizerCollected, TeardownFinalizers, Held
(* The types of what was raised and is pending. *)
ExceptionTypes == pending \in [Envs -> OrNone(Nat)] /\ raised \in Nat

(* An exception that is thrown stays one. *)
LEMMA ThrownType ==
  ASSUME NEW x \in Nat, NEW rest, NEW pend \in [Envs -> OrNone(Nat)], NEW seen,
         ThrownToJs(x, rest, pend, seen)
  PROVE  pending' \in [Envs -> OrNone(Nat)]
BY DEF ThrownToJs, OrNone

(* Every exception that pends was raised. *)
LEMMA ExceptionTypesNext ==
  ASSUME TypeInv, StackInv, [Next]_vars
  PROVE  ExceptionTypes'
<1>1. /\ pending \in [Envs -> OrNone(Nat)] /\ raised \in Nat /\ None \in OrNone(Nat)
      /\ \A e : [pending EXCEPT ![e] = None] \in [Envs -> OrNone(Nat)]
  BY DEF TypeInv, OrNone
<1>2. CASE UNCHANGED <<pending, raised>>
  BY <1>1, <1>2 DEF ExceptionTypes
<1>3. CASE Throw
  <2>1. raised' = raised + 1 /\ pending' = [pending EXCEPT ![Top.env] = raised + 1]
    BY <1>3 DEF Throw
  <2>2. QED
    BY <1>1, <2>1 DEF ExceptionTypes, OrNone
<1>4. CASE ReturnToJs
  <2>1. PICK e \in Envs : e = Top.env
    BY <1>4, TopEntry DEF ReturnToJs
  <2>2. CASE UNCHANGED <<pending, raised>>
    BY <1>2, <2>2
  <2>3. CASE /\ pending[e] # None /\ UNCHANGED raised
             /\ ThrownToJs(pending[e], Pop, [pending EXCEPT ![e] = None], settled)
    <3>1. pending[e] \in Nat
      BY <1>1, <2>3 DEF OrNone
    <3>2. QED
      BY <1>1, <2>3, <3>1, ThrownType DEF ExceptionTypes
  <2>4. CASE /\ raised' = raised + 1
             /\ ThrownToJs(raised + 1, Pop, [pending EXCEPT ![e] = None], settled \union Taken(e))
    <3>1. raised + 1 \in Nat
      BY <1>1
    <3>2. QED
      BY <1>1, <2>4, <3>1, ThrownType DEF ExceptionTypes
  <2>5. QED
    BY <1>4, <2>1, <2>2, <2>3, <2>4 DEF ReturnToJs
<1>5. CASE ReturnFromInit
  <2>1. PICK e \in Envs : e = Top.env
    BY <1>5, TopEntry DEF ReturnFromInit
  <2>2. CASE UNCHANGED <<pending, raised>>
    BY <1>2, <2>2
  <2>3. CASE /\ pending[e] # None /\ UNCHANGED raised
             /\ ThrownToJs(pending[e], Pop, [pending EXCEPT ![e] = None], settled)
    <3>1. pending[e] \in Nat
      BY <1>1, <2>3 DEF OrNone
    <3>2. QED
      BY <1>1, <2>3, <3>1, ThrownType DEF ExceptionTypes
  <2>4. CASE raised' = raised + 1 /\ ThrownToJs(raised + 1, Pop, pending, settled)
    <3>1. raised + 1 \in Nat
      BY <1>1
    <3>2. QED
      BY <1>1, <2>4, <3>1, ThrownType DEF ExceptionTypes
  <2>5. QED
    BY <1>5, <2>1, <2>2, <2>3, <2>4 DEF ReturnFromInit
<1>6. CASE ReturnFromFinalizer
  <2>1. stack # <<>> /\ pending' = [pending EXCEPT ![Top.env] = Top.aside] /\ UNCHANGED raised
    BY <1>6 DEF ReturnFromFinalizer, PutBack
  <2>2. Top.aside \in OrNone(Nat)
    BY <2>1, TopEntry DEF Entries
  <2>3. QED
    BY <1>1, <2>1, <2>2 DEF ExceptionTypes
<1>7. CASE \E e : pending' = [pending EXCEPT ![e] = None] /\ UNCHANGED raised
  BY <1>1, <1>7 DEF ExceptionTypes
<1>8. CASE GetAndClear \/ ReturnFromTask \/ FreeEnv
  BY <1>7, <1>8 DEF GetAndClear, ReturnFromTask, FreeEnv
<1>9. ASSUME NEW r \in Records, RunFinalizer(r), UNCHANGED exceptions
      PROVE  ExceptionTypes'
  BY <1>7, <1>9 DEF RunFinalizer, exceptions
<1>10. CASE AddonCalls
  BY <1>2, <1>3, <1>8, <1>10 DEF AddonCalls, SetInstanceData, Wrap, AddFinalizer, RemoveWrap,
     CreateReference, ReferenceRef, ReferenceUnref, DeleteReference, GetReferenceValue,
     ChangeRef, exceptions
<1>11. CASE \/ UNCHANGED vars
            \/ \E e \in Envs : Invoke(e) \/ RunNativeTask(e) \/ LoadAddon(e)
            \/ RunUncaught \/ Dispose \/ Gone
            \/ \E o \in Objects : Forget(o) \/ Collect(o)
  BY <1>2, <1>11 DEF vars, Invoke, RunNativeTask, LoadAddon, RunUncaught, Dispose, Gone,
     Forget, Collect, exceptions
<1>12. QED
  BY <1>4, <1>5, <1>6, <1>8, <1>9, <1>10, <1>11
     DEF Next, FinalizerCollected, TeardownFinalizers, Held

(* The types of what JS holds. *)
ObjectTypes ==
  /\ rooted \subseteq alive /\ alive \subseteq Objects
  /\ wrapped \in [Objects -> OrNone(Nat)]
  /\ instance \in [Envs -> OrNone(Nat)]

(* Objects, wraps and instance data keep their types. *)
LEMMA ObjectTypesNext ==
  ASSUME TypeInv, StackInv, AliveInv, [Next]_vars
  PROVE  ObjectTypes'
<1>1. /\ rooted \subseteq alive /\ alive \subseteq Objects
      /\ wrapped \in [Objects -> OrNone(Nat)] /\ instance \in [Envs -> OrNone(Nat)]
      /\ Len(records) + 1 \in OrNone(Nat) /\ None \in OrNone(Nat)
  BY Elements DEF TypeInv, OrNone
<1>2. CASE UNCHANGED <<wrapped, instance, alive>> /\ rooted' \subseteq rooted
  BY <1>1, <1>2 DEF ObjectTypes
<1>3. ASSUME NEW o \in Objects, NEW withRef \in BOOLEAN, Wrap(o, withRef)
      PROVE  ObjectTypes'
  BY <1>1, <1>3 DEF Wrap, ObjectTypes
<1>4. ASSUME NEW o \in Objects, RemoveWrap(o)
      PROVE  ObjectTypes'
  BY <1>1, <1>4 DEF RemoveWrap, Unwrapped, ObjectTypes
<1>5. CASE SetInstanceData
  BY <1>1, <1>5 DEF SetInstanceData, ObjectTypes
<1>6. ASSUME NEW r \in Refs, GetReferenceValue(r)
      PROVE  ObjectTypes'
  <2>1. refs[r].object \in alive
    BY <1>6 DEF GetReferenceValue, HasValue, AliveInv
  <2>2. QED
    BY <1>1, <1>6, <2>1 DEF GetReferenceValue, ObjectTypes
<1>7. ASSUME NEW o \in Objects, Collect(o)
      PROVE  ObjectTypes'
  BY <1>1, <1>7 DEF Collect, ObjectTypes
<1>8. CASE \/ Throw \/ GetAndClear
           \/ \E o \in Objects : \/ \E withRef \in BOOLEAN : AddFinalizer(o, withRef)
                                 \/ \E count \in 0 .. 1 : CreateReference(o, count)
           \/ \E r \in Refs : ReferenceRef(r) \/ ReferenceUnref(r) \/ DeleteReference(r)
  BY <1>2, <1>8 DEF Throw, GetAndClear, AddFinalizer, CreateReference, ReferenceRef,
     ReferenceUnref, DeleteReference, ChangeRef, data
<1>9. CASE \/ UNCHANGED vars
           \/ \E e \in Envs : Invoke(e) \/ RunNativeTask(e) \/ LoadAddon(e)
           \/ ReturnToJs \/ ReturnFromInit \/ ReturnFromTask \/ ReturnFromFinalizer
           \/ RunUncaught \/ Dispose \/ FreeEnv \/ Gone
           \/ \E o \in Objects : Forget(o)
           \/ \E r \in Records : FinalizerCollected(r)
           \/ TeardownFinalizers
  BY <1>2, <1>9 DEF vars, Invoke, RunNativeTask, LoadAddon, ReturnToJs, ReturnFromInit,
     ReturnFromTask, ReturnFromFinalizer, RunUncaught, Dispose, FreeEnv, Gone, Forget,
     FinalizerCollected, TeardownFinalizers, data
<1>10. QED
  BY <1>3, <1>4, <1>5, <1>6, <1>7, <1>8, <1>9 DEF Next, AddonCalls

(* Each step keeps the types. *)
LEMMA TypeNext ==
  ASSUME TypeInv, StackInv, RunInv, HeldInv, AliveInv, [Next]_vars
  PROVE  TypeInv'
<1>1. StackTypes' /\ ExceptionTypes' /\ ObjectTypes'
  BY StackTypesNext, ExceptionTypesNext, ObjectTypesNext
<1>2. RefsFrom(alive) /\ RecordsKept
  BY RefsNext, RecordsNext
<1>3. dead' \subseteq Records'
  BY <1>2, Collected DEF TypeInv, RecordsKept, Armed
<1>4. QED
  BY <1>1, <1>2, <1>3 DEF TypeInv, StackTypes, ExceptionTypes, ObjectTypes, RefsFrom,
     RecordsKept

-----------------------------------------------------------------------------
(* The initial states. *)
LEMMA InitInductive == Init => Inductive
<1> SUFFICES ASSUME Init PROVE Inductive
  OBVIOUS
<1>1. /\ loaded = <<>> /\ stack = <<>> /\ records = <<>> /\ refs = <<>> /\ dead = {}
      /\ phase = "live"
      /\ wrapped = [o \in Objects |-> None] /\ instance = [e \in Envs |-> None]
  BY DEF Init
<1>2. Records = {} /\ Refs = {} /\ DOMAIN stack = {}
  BY <1>1 DEF Records, Refs
<1>3. TypeInv
  BY <1>1, <1>2 DEF Init, TypeInv, OrNone
<1>4. StackInv /\ RunInv
  BY <1>1, <1>2 DEF StackInv, RunInv
<1>5. HeldInv /\ AliveInv
  BY <1>1, <1>2 DEF HeldInv, AliveInv
<1>6. QED
  BY <1>3, <1>4, <1>5 DEF Inductive

(* The invariant that the properties rest on: which env's scope each entry *)
(* has, which finalizers run, who holds a record and what is alive are one *)
(* bookkeeping, whatever the addons call and whenever V8 collects          *)
(* (call_addon, run_finalizer and the finalizers' records of napi_host.rs).*)
THEOREM InductiveInvariance ==
  ASSUME None \notin Objects, CollectsRunning = FALSE
  PROVE  Spec => []Inductive
<1>1. Inductive /\ [Next]_vars => Inductive'
  BY TypeNext, StackNext, RunNext, HeldNext, AliveNext DEF Inductive
<1>2. QED
  BY <1>1, InitInductive, PTL DEF Spec

(* The addon code that runs makes its calls in the scope of its own entry, *)
(* at any depth of entries into any addons (Env::scope).                   *)
THEOREM ScopeLiveHolds ==
  ASSUME None \notin Objects, CollectsRunning = FALSE
  PROVE  Spec => []ScopeLive
<1>1. Inductive => ScopeLive
  <2> SUFFICES ASSUME Inductive, stack # <<>> PROVE scope[Top.env] = Depth
    BY DEF ScopeLive
  <2>1. Len(stack) \in Nat \ {0} /\ DOMAIN stack = 1 .. Len(stack)
    BY Shortened DEF Inductive, TypeInv
  <2>2. \A j \in DOMAIN stack : ~(j > Len(stack))
    BY <2>1
  <2>3. QED
    BY <2>1, <2>2 DEF Inductive, StackInv, Top, Depth
<1>2. QED
  BY <1>1, InductiveInvariance, PTL

(* A finalizer runs once: not again, not after its wrap was removed, and   *)
(* by the end of the isolate not never (the doc of Finalizer), as long as  *)
(* no collection takes the object whose finalizer is running at teardown:  *)
(* its record is still armed then, and is finalized again                  *)
(* (CollectsRunning = TRUE).                                               *)
THEOREM FinalizedOnceHolds ==
  ASSUME None \notin Objects, CollectsRunning = FALSE
  PROVE  Spec => []FinalizedOnce
<1>1. Inductive => FinalizedOnce
  <2> SUFFICES ASSUME Inductive, NEW r \in Records
               PROVE  /\ records[r].runs <= 1
                      /\ records[r].state \in {"held", "dropped"} => records[r].runs = 0
                      /\ phase = "gone" => records[r].state \in {"dropped", "finalized"}
    BY DEF FinalizedOnce
  <2>0. records[r] \in FinalizerRecords
    BY Elements DEF Inductive, TypeInv, Records
  <2>1. records[r].state \in RecordStates
    BY <2>0 DEF FinalizerRecords
  <2>2. records[r].runs = IF records[r].state \in {"held", "dropped"} THEN 0 ELSE 1
    BY DEF Inductive, RunInv
  <2>3. ASSUME phase = "gone" PROVE records[r].state \notin {"held", "finalizing"}
    <3>1. stack = <<>> /\ loaded = <<>>
      BY <2>3 DEF Inductive, StackInv
    <3>2. DOMAIN stack = {} /\ Loaded = {}
      BY <3>1 DEF Loaded
    <3>3. QED
      BY <3>2 DEF Inductive, RunInv
  <2>4. QED
    BY <2>1, <2>2, <2>3 DEF RecordStates
<1>2. QED
  BY <1>1, InductiveInvariance, PTL

(* What napi_unwrap reads was not freed: an object JS has is wrapped by a  *)
(* record that is held, as long as calls are let in (napi_wrap and         *)
(* napi_remove_wrap, against collections and finalizers).                  *)
THEOREM WrapLiveHolds ==
  ASSUME None \notin Objects, CollectsRunning = FALSE
  PROVE  Spec => []WrapLive
<1>1. Inductive => WrapLive
  BY DEF Inductive, TypeInv, HeldInv, WrapLive
<1>2. QED
  BY <1>1, InductiveInvariance, PTL
-----------------------------------------------------------------------------
(* Exceptions                                                              *)

Sorts == {Plain, Guarded, Throws, RunsJs}

(* The exceptions that envs hold, that finalizers set aside, and that the  *)
(* event loop is to report.                                                *)
Pendings(f) == {f[e] : e \in Envs} \ {None}
Asides(s) == {s[i].aside : i \in DOMAIN s} \ {None}
Reports(s) == {s[i] : i \in DOMAIN s}

OneEnv(f) == \A e, d \in Envs : f[e] = f[d] /\ f[e] # None => e = d
OneAside(s) == \A i, j \in DOMAIN s : s[i].aside = s[j].aside /\ s[i].aside # None => i = j
OneReport(s) == \A i, j \in DOMAIN s : s[i] = s[j] => i = j

(* Each of n exceptions is in one of four places. *)
Parts(n, p, a, u, d) ==
  /\ \A x \in 1 .. n : x \in p \/ x \in a \/ x \in u \/ x \in d
  /\ p \subseteq 1 .. n /\ a \subseteq 1 .. n /\ u \subseteq 1 .. n /\ d \subseteq 1 .. n
  /\ \A x \in p : x \notin a /\ x \notin u /\ x \notin d
  /\ \A x \in a : x \notin u /\ x \notin d
  /\ \A x \in u : x \notin d

(* Each raised exception is in one place. *)
KeptInv ==
  /\ uncaught \in Seq(Nat)
  /\ OneEnv(pending) /\ OneAside(stack) /\ OneReport(uncaught)
  /\ Parts(raised, Pendings(pending), Asides(stack), Reports(uncaught), settled)

(* Of the first n entries, the last one of e is the nth or has a finalizer *)
(* on top of it; or there is none, and e's init panicked.                  *)
Confined(b, s, e, n) ==
  \/ \E i \in 1 .. n :
       /\ s[i].env = e
       /\ \A j \in 1 .. n : j > i => s[j].env # e
       /\ i < n => s[i + 1].kind = "finalize"
  \/ e \in b /\ \A i \in 1 .. n : s[i].env # e

(* Who has an exception is confined, and was when it was set aside. *)
ConfinedInv ==
  /\ \A e \in Envs : pending[e] # None => Confined(broken, stack, e, Len(stack))
  /\ \A k \in DOMAIN stack : stack[k].aside # None =>
       stack[k].kind = "finalize" /\ Confined(broken, stack, stack[k].env, k - 1)

(* A call that throws or runs JS is one js_call guards. *)
LEMMA SortsOfCalls ==
  \A k \in Classes : k \in Sorts /\ (k.throws \/ k.runsJs => k.guarded)
<1>1. ASSUME NEW N, NEW c, NEW k \in All(N, c)
      PROVE  k.class = c
  BY DEF All
<1>2. /\ \A k \in ValueCalls : k.class \in Sorts
      /\ \A k \in StringCreateCalls : k.class \in Sorts
      /\ \A k \in StringReadCalls : k.class \in Sorts
      /\ \A k \in CoercionCalls : k.class \in Sorts
      /\ \A k \in ObjectCalls : k.class \in Sorts
      /\ \A k \in KindCalls : k.class \in Sorts
      /\ \A k \in PropertyCalls : k.class \in Sorts
      /\ \A k \in ShapeCalls : k.class \in Sorts
  BY <1>1, Zenon DEF Sorts, ValueCalls, StringCreateCalls, StringReadCalls, CoercionCalls,
     ObjectCalls, KindCalls, PropertyCalls, ShapeCalls
<1>3. /\ \A k \in FunctionCalls : k.class \in Sorts
      /\ \A k \in ArrayBufferCalls : k.class \in Sorts
      /\ \A k \in ViewCalls : k.class \in Sorts
      /\ \A k \in BufferCalls : k.class \in Sorts
      /\ \A k \in NumberCalls : k.class \in Sorts
      /\ \A k \in BigIntCalls : k.class \in Sorts
      /\ \A k \in DateArrayCalls : k.class \in Sorts
  BY <1>1, Zenon DEF Sorts, FunctionCalls, ArrayBufferCalls, ViewCalls, BufferCalls,
     NumberCalls, BigIntCalls, DateArrayCalls
<1>4. /\ \A k \in TagCalls : k.class \in Sorts
      /\ \A k \in PromiseCalls : k.class \in Sorts
      /\ \A k \in ErrorCalls : k.class \in Sorts
      /\ \A k \in ErrorInfoCalls : k.class \in Sorts
      /\ \A k \in ScopeCalls : k.class \in Sorts
      /\ \A k \in DefineCalls : k.class \in Sorts
      /\ \A k \in AsyncCalls : k.class \in Sorts
  BY <1>1, Zenon DEF Sorts, TagCalls, PromiseCalls, ErrorCalls, ErrorInfoCalls, ScopeCalls,
     DefineCalls, AsyncCalls
<1>5. \A k \in Table : k.class \in Sorts
  BY <1>2, <1>3, <1>4, Zenon DEF Table
<1>6. \A k \in Classes : k \in Sorts
  BY <1>5 DEF Classes
<1>7. \A k \in Sorts : k.throws \/ k.runsJs => k.guarded
  BY DEF Sorts, Plain, Guarded, Throws, RunsJs
<1>8. QED
  BY <1>6, <1>7

(* With an exception pending nothing throws and no JS runs. *)
LEMMA GuardedCalls ==
  ASSUME stack # <<>>,
         JsRuns \/ \E k \in Classes : k.throws /\ Enters(k)
  PROVE  pending[Top.env] = None
<1>1. PICK k \in Classes : (k.throws \/ k.runsJs) /\ Enters(k)
  BY DEF JsRuns
<1>2. k.guarded
  BY <1>1, SortsOfCalls
<1>3. QED
  BY <1>1, <1>2 DEF Enters, NoException

-----------------------------------------------------------------------------
(* Where exceptions are                                                    *)

(* An env has another exception, or none. *)
LEMMA HeldBy ==
  ASSUME NEW f, NEW g, NEW e \in Envs, \A d \in Envs \ {e} : g[d] = f[d],
         OneEnv(f), g[e] = None \/ g[e] \notin Pendings(f)
  PROVE  OneEnv(g) /\ Pendings(g) = (Pendings(f) \ {f[e]}) \union ({g[e]} \ {None})
<1>1. \A d \in Envs : d # e => g[d] = f[d]
  OBVIOUS
<1>2. \A d \in Envs : f[d] # None => f[d] \in Pendings(f)
  BY DEF Pendings
<1>3. OneEnv(g)
  BY <1>1, <1>2 DEF OneEnv
<1>4. ASSUME NEW x \in Pendings(g)
      PROVE  x \in (Pendings(f) \ {f[e]}) \union ({g[e]} \ {None})
  <2>1. PICK d \in Envs : x = g[d] /\ x # None
    BY <1>4 DEF Pendings
  <2>2. CASE d = e
    BY <1>1, <2>1, <2>2
  <2>3. CASE d # e
    BY <1>1, <1>2, <2>1, <2>3 DEF OneEnv
  <2>4. QED
    BY <2>2, <2>3
<1>5. ASSUME NEW x \in (Pendings(f) \ {f[e]}) \union ({g[e]} \ {None})
      PROVE  x \in Pendings(g)
  <2>1. CASE x = g[e] /\ x # None
    BY <1>1, <2>1 DEF Pendings
  <2>2. CASE x \in Pendings(f) \ {f[e]}
    <3>1. PICK d \in Envs : x = f[d] /\ x # None
      BY <2>2 DEF Pendings
    <3>2. QED
      BY <1>1, <2>2, <3>1 DEF Pendings
  <2>3. QED
    BY <1>5, <2>1, <2>2
<1>6. QED
  BY <1>1, <1>3, <1>4, <1>5

(* An entry sets aside an exception, or none. *)
LEMMA PushedAside ==
  ASSUME NEW s \in Seq(Entries), NEW x \in Entries, OneAside(s),
         x.aside = None \/ x.aside \notin Asides(s)
  PROVE  /\ OneAside(Append(s, x))
         /\ Asides(Append(s, x)) = Asides(s) \union ({x.aside} \ {None})
<1> DEFINE t == Append(s, x)
<1>1. /\ Len(s) \in Nat /\ DOMAIN s = 1 .. Len(s) /\ DOMAIN t = 1 .. (Len(s) + 1)
      /\ t[Len(s) + 1] = x /\ \A i \in 1 .. Len(s) : t[i] = s[i]
  BY Appended
<1> HIDE DEF t
<1>2. \A i \in DOMAIN s : s[i].aside # None => s[i].aside \in Asides(s)
  BY DEF Asides
<1>3. OneAside(t)
  BY <1>1, <1>2 DEF OneAside
<1>4. Asides(t) = Asides(s) \union ({x.aside} \ {None})
  <2>1. DOMAIN t = DOMAIN s \union {Len(s) + 1}
    BY <1>1
  <2>2. QED
    BY <1>1, <2>1 DEF Asides
<1>5. QED
  BY <1>3, <1>4 DEF t

(* An entry returns. *)
LEMMA PoppedAside ==
  ASSUME NEW s \in Seq(Entries), s # <<>>, OneAside(s)
  PROVE  /\ OneAside(SubSeq(s, 1, Len(s) - 1))
         /\ Asides(SubSeq(s, 1, Len(s) - 1)) = Asides(s) \ {s[Len(s)].aside}
<1> DEFINE t == SubSeq(s, 1, Len(s) - 1)
           N == Len(s)
<1>1. /\ N \in Nat \ {0} /\ DOMAIN s = 1 .. N /\ DOMAIN t = 1 .. (N - 1)
      /\ \A i \in 1 .. (N - 1) : t[i] = s[i]
  BY Shortened
<1> HIDE DEF t, N
<1>2. OneAside(t)
  BY <1>1 DEF OneAside
<1>3. DOMAIN s = DOMAIN t \union {N} /\ N \notin DOMAIN t
  BY <1>1
<1>4. \A i \in DOMAIN t : s[i].aside # None => s[i].aside # s[N].aside
  BY <1>3 DEF OneAside
<1>5. Asides(t) = Asides(s) \ {s[N].aside}
  BY <1>1, <1>3, <1>4 DEF Asides
<1>6. QED
  BY <1>2, <1>5 DEF t, N

(* A finalizer leaves an exception to report. *)
LEMMA Deferred ==
  ASSUME NEW s \in Seq(Nat), NEW x \in Nat, OneReport(s), x \notin Reports(s)
  PROVE  /\ Append(s, x) \in Seq(Nat) /\ OneReport(Append(s, x))
         /\ Reports(Append(s, x)) = Reports(s) \union {x}
<1> DEFINE t == Append(s, x)
<1>1. /\ Len(s) \in Nat /\ DOMAIN s = 1 .. Len(s) /\ DOMAIN t = 1 .. (Len(s) + 1)
      /\ t[Len(s) + 1] = x /\ (\A i \in 1 .. Len(s) : t[i] = s[i]) /\ t \in Seq(Nat)
  BY Appended
<1> HIDE DEF t
<1>2. DOMAIN t = DOMAIN s \union {Len(s) + 1}
  BY <1>1
<1>3. OneReport(t)
  BY <1>1, <1>2 DEF OneReport, Reports
<1>4. Reports(t) = Reports(s) \union {x}
  BY <1>1, <1>2 DEF Reports
<1>5. QED
  BY <1>1, <1>3, <1>4 DEF t

(* The event loop reports the first. *)
LEMMA Reported ==
  ASSUME NEW s \in Seq(Nat), s # <<>>, OneReport(s)
  PROVE  /\ Tail(s) \in Seq(Nat) /\ OneReport(Tail(s)) /\ Head(s) \in Reports(s)
         /\ Reports(Tail(s)) = Reports(s) \ {Head(s)}
<1> DEFINE t == Tail(s)
           N == Len(s)
<1>1. /\ N \in Nat \ {0} /\ DOMAIN s = 1 .. N /\ DOMAIN t = 1 .. (N - 1)
      /\ (\A i \in 1 .. (N - 1) : t[i] = s[i + 1]) /\ t \in Seq(Nat) /\ Head(s) = s[1]
  OBVIOUS
<1> HIDE DEF t, N
<1>2. \A i \in DOMAIN t : i \in Int /\ i + 1 \in DOMAIN s
  BY <1>1
<1>3. 1 \in DOMAIN s /\ \A i \in DOMAIN t : i + 1 \in DOMAIN s /\ i + 1 # 1
  BY <1>1
<1>4. OneReport(t)
  <2> SUFFICES ASSUME NEW i \in DOMAIN t, NEW j \in DOMAIN t, t[i] = t[j] PROVE i = j
    BY DEF OneReport
  <2>1. s[i + 1] = s[j + 1]
    BY <1>1
  <2>2. i + 1 = j + 1
    BY <1>2, <2>1 DEF OneReport
  <2>3. QED
    BY <1>2, <2>2
<1>5. ASSUME NEW x \in Reports(t)
      PROVE  x \in Reports(s) /\ x # s[1]
  <2>1. PICK i \in DOMAIN t : x = t[i]
    BY <1>5 DEF Reports
  <2>2. x = s[i + 1] /\ i + 1 \in DOMAIN s /\ i + 1 # 1
    BY <1>1, <1>3, <2>1
  <2>3. QED
    BY <1>3, <2>2 DEF Reports, OneReport
<1>6. ASSUME NEW x \in Reports(s), x # s[1]
      PROVE  x \in Reports(t)
  <2>1. PICK i \in 1 .. N : x = s[i] /\ i # 1
    BY <1>1, <1>6 DEF Reports
  <2>2. i - 1 \in DOMAIN t /\ t[i - 1] = s[i]
    BY <1>1, <2>1
  <2>3. QED
    BY <2>1, <2>2 DEF Reports
<1>7. Head(s) \in Reports(s)
  BY <1>1, <1>3 DEF Reports
<1>8. QED
  BY <1>1, <1>4, <1>5, <1>6, <1>7 DEF t

(* An exception is thrown to JS: the addon code below has it, or it is done *)
(* with.                                                                   *)
LEMMA Thrown ==
  ASSUME None \notin Nat, NEW n \in Nat, NEW x \in 1 .. n, NEW rest \in Seq(Entries),
         NEW pend \in [Envs -> OrNone(Nat)], NEW a, NEW u, NEW d,
         OneEnv(pend), Parts(n, Pendings(pend), a, u, d \union {x}), x \notin d,
         rest # <<>> => pend[rest[Len(rest)].env] = None,
         ThrownToJs(x, rest, pend, d)
  PROVE  OneEnv(pending') /\ Parts(n, Pendings(pending'), a, u, settled')
<1>1. CASE settled' = d \union {x} /\ pending' = pend
  BY <1>1
<1>2. CASE /\ rest # <<>> /\ settled' = d
           /\ pending' = [pend EXCEPT ![rest[Len(rest)].env] = x]
  <2>1. rest[Len(rest)] \in Entries
    BY <1>2, Shortened
  <2>2. PICK f \in Envs : f = rest[Len(rest)].env
    BY <2>1 DEF Entries
  <2>3. x \notin Pendings(pend) /\ x \in OrNone(Nat) /\ x # None
    BY DEF Parts, OrNone
  <2>4. OneEnv(pending') /\ Pendings(pending') = (Pendings(pend) \ {None}) \union {x}
    <3>1. pending'[f] = x /\ \A g \in Envs \ {f} : pending'[g] = pend[g]
      BY <1>2, <2>2
    <3>2. /\ OneEnv(pending')
          /\ Pendings(pending') = (Pendings(pend) \ {pend[f]}) \union ({x} \ {None})
      BY <2>2, <2>3, <3>1, HeldBy
    <3>3. {x} \ {None} = {x} /\ pend[f] = None
      BY <1>2, <2>2, <2>3
    <3>4. QED
      BY <3>2, <3>3
  <2>5. Pendings(pending') = Pendings(pend) \union {x}
    BY <2>4 DEF Pendings
  <2>6. QED
    BY <1>2, <2>4, <2>5 DEF Parts
<1>3. QED
  BY <1>1, <1>2 DEF ThrownToJs

(* What the innermost entry's env has, and has set aside. *)
LEMMA TopExceptions ==
  ASSUME None \notin Nat, TypeInv, StackInv, KeptInv, ConfinedInv, stack # <<>>
  PROVE  /\ Top.aside \in OrNone(Nat) /\ pending[Top.env] \in OrNone(Nat)
         /\ Top.kind # "finalize" => Top.aside = None
         /\ pending[Top.env] # None => pending[Top.env] \in Pendings(pending)
         /\ Top.aside # None => Top.aside \in Asides(stack)
         /\ Pop \in Seq(Entries) /\ OneAside(Pop) /\ Asides(Pop) = Asides(stack) \ {Top.aside}
<1>1. Top \in Entries /\ Top.env \in Envs
  BY TopEntry
<1>2. /\ Top = stack[Len(stack)] /\ Len(stack) \in DOMAIN stack
      /\ Pop = SubSeq(stack, 1, Len(stack) - 1) /\ Pop \in Seq(Entries)
  BY Shortened DEF Top, Depth, Pop, TypeInv
<1>3. Top.aside \in OrNone(Nat) /\ pending[Top.env] \in OrNone(Nat)
  BY <1>1 DEF Entries, TypeInv
<1>4. Top.kind # "finalize" => Top.aside = None
  BY <1>2 DEF ConfinedInv
<1>5. /\ pending[Top.env] # None => pending[Top.env] \in Pendings(pending)
      /\ Top.aside # None => Top.aside \in Asides(stack)
  BY <1>1, <1>2 DEF Pendings, Asides
<1>6. OneAside(Pop) /\ Asides(Pop) = Asides(stack) \ {Top.aside}
  BY <1>2, PoppedAside DEF KeptInv, TypeInv
<1>7. QED
  BY <1>2, <1>3, <1>4, <1>5, <1>6

(* The addon code below that of e has nothing pending: it made a call that *)
(* runs JS.                                                                *)
LEMMA BelowIdle ==
  ASSUME TypeInv, StackInv, ConfinedInv, stack # <<>>, Top.kind # "finalize", Pop # <<>>
  PROVE  LET f == Pop[Len(Pop)].env
         IN  /\ f # Top.env => pending[f] = None
             /\ Top.kind = "init" => f # Top.env
<1> DEFINE N == Len(stack)
           f == Pop[Len(Pop)].env
<1>1. /\ N \in Nat /\ N > 1 /\ DOMAIN stack = 1 .. N /\ Top = stack[N]
      /\ Pop[Len(Pop)] = stack[N - 1]
  <2>1. N \in Nat \ {0} /\ DOMAIN stack = 1 .. N /\ Top = stack[N]
    BY Shortened DEF TypeInv, Top, Depth
  <2>2. Len(Pop) = N - 1 /\ N # 1 /\ \A i \in 1 .. (N - 1) : Pop[i] = stack[i]
    BY <2>1 DEF Pop, Depth
  <2>3. N > 1 /\ N - 1 \in 1 .. (N - 1)
    BY <2>1, <2>2
  <2>4. QED
    BY <2>1, <2>2, <2>3
<1>2. f = stack[N - 1].env /\ f \in Envs
  <2>1. N - 1 \in DOMAIN stack
    BY <1>1
  <2>2. stack[N - 1] \in Entries
    BY <2>1, Elements DEF TypeInv
  <2>3. QED
    BY <1>1, <2>2 DEF Entries
<1>3. ASSUME f # Top.env, pending[f] # None
      PROVE  FALSE
  <2>1. Confined(broken, stack, f, N)
    BY <1>2, <1>3 DEF ConfinedInv
  <2>2. PICK i \in 1 .. N : /\ stack[i].env = f
                            /\ \A j \in 1 .. N : j > i => stack[j].env # f
                            /\ i < N => stack[i + 1].kind = "finalize"
    BY <1>1, <1>2, <2>1 DEF Confined
  <2>3. i = N - 1
    <3>1. i # N
      BY <1>1, <1>3, <2>2
    <3>2. ~(N - 1 > i)
      BY <1>1, <1>2, <2>2
    <3>3. i \in 1 .. N /\ N \in Nat
      BY <1>1, <2>2
    <3>4. QED
      BY <3>1, <3>2, <3>3
  <2>4. QED
    BY <1>1, <2>2, <2>3
<1>4. ASSUME Top.kind = "init", f = Top.env
      PROVE  FALSE
  <2>1. N - 1 \in DOMAIN stack /\ N \in DOMAIN stack /\ N - 1 < N
    BY <1>1
  <2>2. QED
    BY <1>1, <1>2, <1>4, <2>1 DEF StackInv
<1>5. QED
  BY <1>3, <1>4

(* What is pending, raised or reported stays, and so do the entries. *)
LEMMA SameKept ==
  ASSUME KeptInv, UNCHANGED <<stack, pending, raised, uncaught, settled>>
  PROVE  KeptInv'
BY DEF KeptInv, OneEnv, OneAside, OneReport, Parts, Pendings, Asides, Reports

(* An exception leaves its env, which has none then. *)
LEMMA Cleared ==
  ASSUME TypeInv, KeptInv, NEW e \in Envs
  PROVE  LET clear == [pending EXCEPT ![e] = None]
         IN  /\ clear \in [Envs -> OrNone(Nat)] /\ OneEnv(clear)
             /\ Pendings(clear) = Pendings(pending) \ {pending[e]}
             /\ Parts(raised, Pendings(clear), Asides(stack), Reports(uncaught),
                      settled \union Taken(e))
<1> DEFINE clear == [pending EXCEPT ![e] = None]
<1>1. clear = [pending EXCEPT ![e] = None]
  OBVIOUS
<1> HIDE DEF clear
<1>2. /\ pending \in [Envs -> OrNone(Nat)] /\ OneEnv(pending)
      /\ clear \in [Envs -> OrNone(Nat)] /\ clear[e] = None
      /\ \A d \in Envs \ {e} : clear[d] = pending[d]
  BY <1>1 DEF OrNone, TypeInv, KeptInv
<1>3. /\ OneEnv(clear)
      /\ Pendings(clear) = (Pendings(pending) \ {pending[e]}) \union ({clear[e]} \ {None})
  BY <1>2, HeldBy
<1>4. Pendings(clear) = Pendings(pending) \ {pending[e]}
  BY <1>2, <1>3
<1>5. Parts(raised, Pendings(clear), Asides(stack), Reports(uncaught),
            settled \union Taken(e))
  <2>1. pending[e] # None => pending[e] \in Pendings(pending)
    BY DEF Pendings
  <2>2. CASE pending[e] = None
    <3>1. Pendings(clear) = Pendings(pending) /\ settled \union Taken(e) = settled
      BY <1>4, <2>2 DEF Pendings, Taken
    <3>2. QED
      BY <3>1 DEF KeptInv
  <2>3. CASE pending[e] # None
    <3>1. settled \union Taken(e) = settled \union {pending[e]}
      BY <2>3 DEF Taken
    <3>2. QED
      BY <1>4, <2>1, <2>3, <3>1 DEF KeptInv, Parts
  <2>4. QED
    BY <2>2, <2>3
<1>6. QED
  BY <1>2, <1>3, <1>4, <1>5 DEF clear

(* Addon code is entered. *)
LEMMA EnterKept ==
  ASSUME None \notin Nat, TypeInv, KeptInv, NEW x \in Entries,
         stack' = Append(stack, x), UNCHANGED <<raised, uncaught, settled>>,
         \/ x.aside = None /\ UNCHANGED pending
         \/ x.aside = pending[x.env] /\ pending' = [pending EXCEPT ![x.env] = None]
  PROVE  KeptInv'
<1>1. x.env \in Envs /\ x.aside \in OrNone(Nat)
  BY DEF Entries
<1>2. /\ uncaught' \in Seq(Nat) /\ OneReport(uncaught') /\ Reports(uncaught') = Reports(uncaught)
      /\ OneEnv(pending) /\ OneAside(stack) /\ pending \in [Envs -> OrNone(Nat)]
      /\ stack \in Seq(Entries)
      /\ Parts(raised, Pendings(pending), Asides(stack), Reports(uncaught), settled)
  BY DEF KeptInv, TypeInv, OneReport, Reports
<1>3. CASE x.aside = None /\ UNCHANGED pending
  <2>1. OneAside(stack') /\ Asides(stack') = Asides(stack) \union ({None} \ {None})
    BY <1>2, <1>3, PushedAside
  <2>2. Asides(stack') = Asides(stack)
    BY <2>1
  <2>3. QED
    BY <1>2, <1>3, <2>1, <2>2 DEF KeptInv
<1>4. CASE x.aside # None /\ x.aside = pending[x.env] /\ pending' = [pending EXCEPT ![x.env] = None]
  <2>1. x.aside \in Pendings(pending)
    BY <1>1, <1>4 DEF Pendings
  <2>2. x.aside \notin Asides(stack)
    BY <1>2, <2>1 DEF Parts
  <2>3. OneAside(stack') /\ Asides(stack') = Asides(stack) \union {x.aside}
    <3>1. /\ OneAside(Append(stack, x))
          /\ Asides(Append(stack, x)) = Asides(stack) \union ({x.aside} \ {None})
      BY <1>2, <2>2, PushedAside
    <3>2. {x.aside} \ {None} = {x.aside}
      BY <1>4
    <3>3. QED
      BY <3>1, <3>2
  <2>4. OneEnv(pending') /\ Pendings(pending') = Pendings(pending) \ {x.aside}
    <3>1. PICK e \in Envs : e = x.env
      BY <1>1
    <3>2. /\ OneEnv([pending EXCEPT ![e] = None])
          /\ Pendings([pending EXCEPT ![e] = None]) = Pendings(pending) \ {pending[e]}
      BY <3>1, Cleared
    <3>3. QED
      BY <1>4, <3>1, <3>2
  <2>5. Parts(raised, Pendings(pending'), Asides(stack'), Reports(uncaught), settled)
    BY <1>2, <2>1, <2>3, <2>4 DEF Parts
  <2>6. QED
    BY <1>2, <2>3, <2>4, <2>5 DEF KeptInv
<1>5. CASE x.aside = None /\ pending' = [pending EXCEPT ![x.env] = None] /\ pending[x.env] = None
  <2>1. pending' = pending
    BY <1>1, <1>2, <1>5
  <2>2. QED
    BY <1>3, <1>5, <2>1
<1>6. QED
  BY <1>3, <1>4, <1>5

(* One more is raised. *)
LEMMA OneMore ==
  ASSUME NEW n \in Nat, NEW p, NEW a, NEW u, NEW d, Parts(n, p, a, u, d)
  PROVE  /\ Parts(n + 1, p, a, u, d \union {n + 1})
         /\ Parts(n + 1, p \union {n + 1}, a, u, d)
         /\ n + 1 \notin p /\ n + 1 \notin a /\ n + 1 \notin u /\ n + 1 \notin d
<1>1. /\ 1 .. (n + 1) = (1 .. n) \union {n + 1} /\ n + 1 \notin 1 .. n
  OBVIOUS
<1>2. QED
  BY <1>1 DEF Parts

(* One that was set aside takes the place of one that goes elsewhere. *)
LEMMA PutAgain ==
  ASSUME NEW n, NEW p, NEW a, NEW u, NEW d, NEW x, NEW y, Parts(n, p, a, u, d),
         y # None => y \in p, x # None => x \in a, None \notin p, None \notin a
  PROVE  LET q == (p \ {y}) \union ({x} \ {None})
             new == {y} \ {None}
         IN  Parts(n, q, a \ {x}, u \union new, d) /\ Parts(n, q, a \ {x}, u, d \union new)
<1>1. CASE y = None /\ x = None
  BY <1>1 DEF Parts
<1>2. CASE y = None /\ x # None
  BY <1>2 DEF Parts
<1>3. CASE y # None /\ x = None
  BY <1>3 DEF Parts
<1>4. CASE y # None /\ x # None
  BY <1>4 DEF Parts
<1>5. QED
  BY <1>1, <1>2, <1>3, <1>4

(* What an entry that set nothing aside leaves to JS is kept. *)
LEMMA ThrownKept ==
  ASSUME None \notin Nat, TypeInv, StackInv, KeptInv, ConfinedInv,
         stack # <<>>, Top.kind # "finalize", stack' = Pop, UNCHANGED uncaught,
         raised' \in Nat, NEW x \in 1 .. raised', NEW pend \in [Envs -> OrNone(Nat)], NEW d,
         OneEnv(pend), x \notin d,
         Parts(raised', Pendings(pend), Asides(stack), Reports(uncaught), d \union {x}),
         Pop # <<>> => pend[Pop[Len(Pop)].env] = None,
         ThrownToJs(x, Pop, pend, d)
  PROVE  KeptInv'
<1>1. Pop \in Seq(Entries) /\ OneAside(Pop) /\ Asides(Pop) = Asides(stack)
  BY TopExceptions DEF Asides
<1>2. /\ OneEnv(pending')
      /\ Parts(raised', Pendings(pending'), Asides(stack), Reports(uncaught), settled')
  BY <1>1, Thrown
<1>3. QED
  BY <1>1, <1>2 DEF KeptInv, OneReport, Reports

(* An addon function returns to JS. *)
LEMMA ReturnToJsKept ==
  ASSUME None \notin Nat, TypeInv, StackInv, KeptInv, ConfinedInv, ReturnToJs
  PROVE  KeptInv'
<1>1. PICK e \in Envs : e = Top.env
  BY TopEntry DEF ReturnToJs
<1> DEFINE clear == [pending EXCEPT ![e] = None]
<1>2. /\ clear \in [Envs -> OrNone(Nat)] /\ OneEnv(clear)
      /\ Pendings(clear) = Pendings(pending) \ {pending[e]}
      /\ Parts(raised, Pendings(clear), Asides(stack), Reports(uncaught),
               settled \union Taken(e))
  BY Cleared
<1>3. /\ stack # <<>> /\ Top.kind # "finalize" /\ stack' = Pop /\ uncaught' = uncaught
      /\ Top.kind = "call"
  BY DEF ReturnToJs
<1>4. Pop # <<>> => clear[Pop[Len(Pop)].env] = None
  <2>1. ASSUME Pop # <<>> PROVE Pop[Len(Pop)] \in Entries
    BY <1>3, <2>1, TopExceptions, Shortened
  <2>2. ASSUME Pop # <<>> PROVE Pop[Len(Pop)].env \in Envs
    BY <2>1, <2>2 DEF Entries
  <2>3. QED
    BY <1>1, <1>3, <2>2, BelowIdle DEF TypeInv
<1>5. raised \in Nat /\ Parts(raised, Pendings(pending), Asides(stack), Reports(uncaught), settled)
  BY DEF TypeInv, KeptInv
<1> HIDE DEF clear
<1>6. CASE pending[e] = None /\ UNCHANGED <<raised, settled, pending>>
  <2>1. OneAside(Pop) /\ Asides(Pop) = Asides(stack)
    BY <1>3, TopExceptions DEF Asides
  <2>2. QED
    BY <1>3, <1>6, <2>1 DEF KeptInv, OneReport, Reports
<1>7. CASE pending[e] # None /\ ThrownToJs(pending[e], Pop, clear, settled) /\ raised' = raised
  <2>1. pending[e] \in Pendings(pending)
    BY <1>7 DEF Pendings
  <2>2. pending[e] \in 1 .. raised /\ pending[e] \notin settled
    BY <1>5, <2>1 DEF Parts
  <2>3. Taken(e) = {pending[e]}
    BY <1>7 DEF Taken
  <2>4. Parts(raised', Pendings(clear), Asides(stack), Reports(uncaught),
              settled \union {pending[e]})
    BY <1>2, <1>7, <2>3
  <2>5. raised' \in Nat /\ pending[e] \in 1 .. raised'
    BY <1>5, <1>7, <2>2
  <2>6. QED
    BY <1>2, <1>3, <1>4, <1>7, <2>2, <2>4, <2>5, ThrownKept
<1>8. CASE /\ raised' = raised + 1
           /\ ThrownToJs(raised + 1, Pop, clear, settled \union Taken(e))
  <2>1. /\ Parts(raised + 1, Pendings(clear), Asides(stack), Reports(uncaught),
                 (settled \union Taken(e)) \union {raised + 1})
        /\ raised + 1 \notin settled \union Taken(e)
    BY <1>2, <1>5, OneMore
  <2>2. raised' \in Nat /\ raised + 1 \in 1 .. raised'
    BY <1>5, <1>8
  <2>3. QED
    BY <1>2, <1>3, <1>4, <1>8, <2>1, <2>2, ThrownKept
<1>9. \/ pending[e] = None /\ UNCHANGED <<raised, settled, pending>>
      \/ pending[e] # None /\ ThrownToJs(pending[e], Pop, clear, settled) /\ raised' = raised
      \/ /\ raised' = raised + 1
         /\ ThrownToJs(raised + 1, Pop, clear, settled \union Taken(e))
  BY <1>1 DEF ReturnToJs, clear
<1>10. QED
  BY <1>6, <1>7, <1>8, <1>9

(* A module init returns. *)
LEMMA ReturnFromInitKept ==
  ASSUME None \notin Nat, TypeInv, StackInv, KeptInv, ConfinedInv, ReturnFromInit
  PROVE  KeptInv'
<1>1. PICK e \in Envs : e = Top.env
  BY TopEntry DEF ReturnFromInit
<1> DEFINE clear == [pending EXCEPT ![e] = None]
<1>2. /\ clear \in [Envs -> OrNone(Nat)] /\ OneEnv(clear)
      /\ Parts(raised, Pendings(clear), Asides(stack), Reports(uncaught),
               settled \union Taken(e))
  BY Cleared
<1>3. /\ stack # <<>> /\ Top.kind # "finalize" /\ stack' = Pop /\ uncaught' = uncaught
      /\ Top.kind = "init"
  BY DEF ReturnFromInit
<1>4. /\ Pop # <<>> => clear[Pop[Len(Pop)].env] = None
      /\ Pop # <<>> => pending[Pop[Len(Pop)].env] = None
  <2>1. ASSUME Pop # <<>> PROVE Pop[Len(Pop)] \in Entries
    BY <1>3, <2>1, TopExceptions, Shortened
  <2>2. ASSUME Pop # <<>> PROVE Pop[Len(Pop)].env \in Envs
    BY <2>1, <2>2 DEF Entries
  <2>3. QED
    BY <1>1, <1>3, <2>2, BelowIdle DEF TypeInv
<1>5. /\ raised \in Nat /\ OneEnv(pending) /\ pending \in [Envs -> OrNone(Nat)]
      /\ Parts(raised, Pendings(pending), Asides(stack), Reports(uncaught), settled)
  BY DEF TypeInv, KeptInv
<1> HIDE DEF clear
<1>6. CASE pending[e] = None /\ UNCHANGED <<raised, settled, pending>>
  <2>1. OneAside(Pop) /\ Asides(Pop) = Asides(stack)
    BY <1>3, TopExceptions DEF Asides
  <2>2. QED
    BY <1>3, <1>6, <2>1 DEF KeptInv, OneReport, Reports
<1>7. CASE pending[e] # None /\ ThrownToJs(pending[e], Pop, clear, settled) /\ raised' = raised
  <2>1. pending[e] \in Pendings(pending)
    BY <1>7 DEF Pendings
  <2>2. pending[e] \in 1 .. raised /\ pending[e] \notin settled
    BY <1>5, <2>1 DEF Parts
  <2>3. Taken(e) = {pending[e]}
    BY <1>7 DEF Taken
  <2>4. Parts(raised', Pendings(clear), Asides(stack), Reports(uncaught),
              settled \union {pending[e]})
    BY <1>2, <1>7, <2>3
  <2>5. raised' \in Nat /\ pending[e] \in 1 .. raised'
    BY <1>5, <1>7, <2>2
  <2>6. QED
    BY <1>2, <1>3, <1>4, <1>7, <2>2, <2>4, <2>5, ThrownKept
<1>8. CASE raised' = raised + 1 /\ ThrownToJs(raised + 1, Pop, pending, settled)
  <2>1. /\ Parts(raised + 1, Pendings(pending), Asides(stack), Reports(uncaught),
                 settled \union {raised + 1})
        /\ raised + 1 \notin settled
    BY <1>5, OneMore
  <2>2. raised' \in Nat /\ raised + 1 \in 1 .. raised'
    BY <1>5, <1>8
  <2>3. QED
    BY <1>3, <1>4, <1>5, <1>8, <2>1, <2>2, ThrownKept
<1>9. \/ pending[e] = None /\ UNCHANGED <<raised, settled, pending>>
      \/ pending[e] # None /\ ThrownToJs(pending[e], Pop, clear, settled) /\ raised' = raised
      \/ raised' = raised + 1 /\ ThrownToJs(raised + 1, Pop, pending, settled)
  BY <1>1 DEF ReturnFromInit, clear
<1>10. QED
  BY <1>6, <1>7, <1>8, <1>9

(* A task returns. *)
LEMMA ReturnFromTaskKept ==
  ASSUME None \notin Nat, TypeInv, StackInv, KeptInv, ConfinedInv, ReturnFromTask
  PROVE  KeptInv'
<1>1. PICK e \in Envs : e = Top.env
  BY TopEntry DEF ReturnFromTask
<1>2. /\ stack # <<>> /\ Top.kind # "finalize" /\ stack' = Pop
      /\ settled' = settled \union Taken(e) /\ pending' = [pending EXCEPT ![e] = None]
      /\ UNCHANGED <<raised, uncaught>>
  BY <1>1 DEF ReturnFromTask
<1>3. OneAside(Pop) /\ Asides(Pop) = Asides(stack)
  BY <1>2, TopExceptions DEF Asides
<1>4. /\ OneEnv(pending')
      /\ Parts(raised, Pendings(pending'), Asides(stack), Reports(uncaught), settled')
  BY <1>2, Cleared
<1>5. QED
  BY <1>2, <1>3, <1>4 DEF KeptInv, OneReport, Reports

(* A finalizer returns: what it left is reported, or dropped; what was set *)
(* aside is back.                                                          *)
LEMMA ReturnFromFinalizerKept ==
  ASSUME None \notin Nat, TypeInv, StackInv, KeptInv, ConfinedInv, ReturnFromFinalizer
  PROVE  KeptInv'
<1>1. PICK e \in Envs : e = Top.env
  BY TopEntry DEF ReturnFromFinalizer
<1> DEFINE x == Top.aside
           y == pending[e]
<1>2. /\ stack # <<>> /\ stack' = Pop /\ raised' = raised
      /\ Leftover(e) /\ pending' = [pending EXCEPT ![e] = x]
  BY <1>1 DEF ReturnFromFinalizer, PutBack
<1>3. /\ x \in OrNone(Nat) /\ y \in OrNone(Nat)
      /\ y # None => y \in Pendings(pending)
      /\ x # None => x \in Asides(stack)
      /\ OneAside(Pop) /\ Asides(Pop) = Asides(stack) \ {x}
  BY <1>1, <1>2, TopExceptions
<1>4. /\ Parts(raised, Pendings(pending), Asides(stack), Reports(uncaught), settled)
      /\ OneEnv(pending) /\ OneReport(uncaught) /\ uncaught \in Seq(Nat)
      /\ pending \in [Envs -> OrNone(Nat)]
  BY DEF KeptInv, TypeInv
<1> HIDE DEF x, y
<1>5. OneEnv(pending') /\ Pendings(pending') = (Pendings(pending) \ {y}) \union ({x} \ {None})
  <2>1. x = None \/ x \notin Pendings(pending)
    BY <1>3, <1>4 DEF Parts
  <2>2. pending'[e] = x /\ \A d \in Envs \ {e} : pending'[d] = pending[d]
    BY <1>1, <1>2, <1>4
  <2>3. OneEnv(pending)
    BY <1>4
  <2>4. QED
    BY <1>1, <2>1, <2>2, <2>3, HeldBy DEF y
<1> DEFINE new == {y} \ {None}
<1>6. Taken(e) = new
  BY DEF Taken, y
<1>7. /\ Parts(raised, Pendings(pending'), Asides(stack'), Reports(uncaught) \union new, settled)
       /\ Parts(raised, Pendings(pending'), Asides(stack'), Reports(uncaught), settled \union new)
  <2>1. None \notin Pendings(pending) /\ None \notin Asides(stack)
    BY DEF Pendings, Asides
  <2>2. LET q == (Pendings(pending) \ {y}) \union ({x} \ {None})
            a == Asides(stack) \ {x}
        IN  /\ Parts(raised, q, a, Reports(uncaught) \union new, settled)
            /\ Parts(raised, q, a, Reports(uncaught), settled \union new)
    BY <1>3, <1>4, <2>1, PutAgain
  <2>3. Asides(stack') = Asides(stack) \ {x}
    BY <1>2, <1>3
  <2>4. QED
    BY <1>5, <2>2, <2>3
<1>8. CASE TearingDown
  <2>1. settled' = settled \union new /\ uncaught' = uncaught
    BY <1>2, <1>6, <1>8 DEF Leftover
  <2>2. Parts(raised, Pendings(pending'), Asides(stack'), Reports(uncaught), settled')
    BY <1>7, <2>1
  <2>3. QED
    BY <1>2, <1>3, <1>4, <1>5, <2>1, <2>2 DEF KeptInv
<1>9. CASE ~TearingDown
  <2>1. /\ uncaught' = IF y = None THEN uncaught ELSE Append(uncaught, y)
        /\ settled' = settled
    BY <1>2, <1>9 DEF Leftover, y
  <2>2. /\ uncaught' \in Seq(Nat) /\ OneReport(uncaught')
        /\ Reports(uncaught') = Reports(uncaught) \union new
    <3>1. CASE y = None
      BY <1>4, <2>1, <3>1
    <3>2. CASE y # None
      <4>1. y \in Nat /\ y \notin Reports(uncaught) /\ new = {y}
        BY <1>3, <1>4, <3>2 DEF OrNone, Parts
      <4>2. uncaught' = Append(uncaught, y)
        BY <2>1, <3>2
      <4>3. QED
        BY <1>4, <4>1, <4>2, Deferred
    <3>3. QED
      BY <3>1, <3>2
  <2>3. Parts(raised, Pendings(pending'), Asides(stack'), Reports(uncaught'), settled)
    BY <1>7, <2>2
  <2>4. QED
    BY <1>2, <1>3, <1>5, <2>1, <2>2, <2>3 DEF KeptInv
<1>10. QED
  BY <1>8, <1>9

(* Each step keeps every exception, once. *)
LEMMA KeptNext ==
  ASSUME None \notin Nat, TypeInv, StackInv, RunInv, KeptInv, ConfinedInv, [Next]_vars
  PROVE  KeptInv'
<1>1. /\ pending \in [Envs -> OrNone(Nat)] /\ raised \in Nat
      /\ OneEnv(pending) /\ OneReport(uncaught) /\ uncaught \in Seq(Nat) /\ OneAside(stack)
      /\ Parts(raised, Pendings(pending), Asides(stack), Reports(uncaught), settled)
  BY DEF TypeInv, KeptInv
<1>2. CASE \/ UNCHANGED vars \/ SetInstanceData \/ Dispose
           \/ \E o \in Objects : \/ \E withRef \in BOOLEAN : Wrap(o, withRef)
                                                             \/ AddFinalizer(o, withRef)
                                 \/ RemoveWrap(o)
                                 \/ \E count \in 0 .. 1 : CreateReference(o, count)
           \/ \E r \in Refs : ReferenceRef(r) \/ ReferenceUnref(r) \/ DeleteReference(r)
                              \/ GetReferenceValue(r)
           \/ \E o \in Objects : Forget(o) \/ Collect(o)
  BY <1>2, SameKept DEF vars, exceptions, SetInstanceData, Dispose, Wrap, AddFinalizer,
     RemoveWrap, CreateReference, ReferenceRef, ReferenceUnref, DeleteReference,
     GetReferenceValue, ChangeRef, Forget, Collect
<1>3. ASSUME NEW e \in Envs, Invoke(e) \/ RunNativeTask(e) \/ LoadAddon(e)
      PROVE  KeptInv'
  <2>1. PICK kind \in Kinds : Enter(e, kind, None, None)
    BY <1>3 DEF Invoke, RunNativeTask, LoadAddon, Kinds
  <2> DEFINE x == [env |-> e, kind |-> kind, record |-> None, outer |-> scope[e],
                   aside |-> None]
  <2>2. x \in Entries /\ x.aside = None
    BY DEF Entries, OrNone, TypeInv
  <2>3. stack' = Append(stack, x)
    BY <2>1 DEF Enter
  <2> HIDE DEF x
  <2>4. UNCHANGED <<pending, raised, uncaught, settled>>
    BY <1>3 DEF Invoke, RunNativeTask, LoadAddon, exceptions
  <2>5. QED
    BY <2>2, <2>3, <2>4, EnterKept
<1>4. ASSUME NEW r \in Records, RunFinalizer(r), UNCHANGED exceptions
      PROVE  KeptInv'
  <2>1. records[r] \in FinalizerRecords /\ r \in Nat
    BY Elements DEF TypeInv, Records
  <2>2. PICK e \in Envs : e = records[r].env
    BY <2>1 DEF FinalizerRecords
  <2>3. Enter(e, "finalize", r, pending[e]) /\ pending' = [pending EXCEPT ![e] = None]
    BY <1>4, <2>2 DEF RunFinalizer
  <2> DEFINE x == [env |-> e, kind |-> "finalize", record |-> r, outer |-> scope[e],
                   aside |-> pending[e]]
  <2>4. x \in Entries /\ x.env = e /\ x.aside = pending[e]
    BY <2>1 DEF Entries, OrNone, TypeInv, Kinds
  <2>5. stack' = Append(stack, x)
    BY <2>3 DEF Enter
  <2> HIDE DEF x
  <2>6. UNCHANGED <<raised, uncaught, settled>>
    BY <1>4 DEF exceptions
  <2>7. QED
    BY <2>3, <2>4, <2>5, <2>6, EnterKept
<1>5. CASE TeardownFinalizers \/ \E r \in Records : FinalizerCollected(r)
  BY <1>4, <1>5 DEF TeardownFinalizers, FinalizerCollected, Held
<1>6. CASE Throw
  <2>1. PICK e \in Envs : e = Top.env
    BY <1>6, TopEntry DEF Throw
  <2>2. /\ raised' = raised + 1 /\ pending' = [pending EXCEPT ![e] = raised + 1]
        /\ UNCHANGED <<stack, uncaught, settled>> /\ pending[e] = None
    BY <1>6, <2>1, GuardedCalls DEF Throw
  <2>3. /\ Parts(raised + 1, Pendings(pending) \union {raised + 1}, Asides(stack),
                 Reports(uncaught), settled)
        /\ raised + 1 \notin Pendings(pending)
    BY <1>1, OneMore
  <2>4. raised + 1 \in OrNone(Nat) /\ raised + 1 # None
    BY <1>1 DEF OrNone
  <2>5. /\ OneEnv(pending')
        /\ Pendings(pending') = (Pendings(pending) \ {None}) \union ({raised + 1} \ {None})
    <3>1. PICK x \in OrNone(Nat) : x = raised + 1
      BY <2>4
    <3>2. x \notin Pendings(pending)
      BY <2>3, <3>1
    <3>3. OneEnv(pending) /\ pending[e] = None
      BY <1>1, <2>2
    <3>4. pending'[e] = x /\ \A d \in Envs \ {e} : pending'[d] = pending[d]
      BY <1>1, <2>1, <2>2, <3>1
    <3>5. /\ OneEnv(pending')
          /\ Pendings(pending') = (Pendings(pending) \ {pending[e]}) \union ({x} \ {None})
      BY <2>1, <3>1, <3>2, <3>3, <3>4, HeldBy
    <3>6. QED
      BY <3>1, <3>3, <3>4, <3>5
  <2>6. Pendings(pending') = Pendings(pending) \union {raised + 1}
    BY <2>4, <2>5 DEF Pendings
  <2>7. QED
    BY <1>1, <2>2, <2>3, <2>5, <2>6 DEF KeptInv
<1>7. CASE GetAndClear \/ FreeEnv
  <2>1. PICK e \in Envs : /\ pending' = [pending EXCEPT ![e] = None]
                          /\ settled' = settled \union Taken(e)
                          /\ UNCHANGED <<stack, raised, uncaught>>
    <3>1. CASE GetAndClear
      BY <3>1, TopEntry DEF GetAndClear, NoException, Taken
    <3>2. CASE FreeEnv
      <4>1. loaded \in Seq(Envs) /\ loaded # <<>>
        BY <3>2 DEF FreeEnv, TypeInv
      <4>2. loaded[Len(loaded)] \in Envs
        BY <4>1, Shortened
      <4>3. QED
        BY <3>2, <4>2 DEF FreeEnv
    <3>3. QED
      BY <1>7, <3>1, <3>2
  <2>2. /\ OneEnv(pending')
        /\ Parts(raised, Pendings(pending'), Asides(stack), Reports(uncaught), settled')
    BY <2>1, Cleared
  <2>3. QED
    BY <1>1, <2>1, <2>2 DEF KeptInv
<1>8. CASE RunUncaught
  <2>1. /\ uncaught # <<>> /\ uncaught' = Tail(uncaught)
        /\ settled' = settled \union {Head(uncaught)}
        /\ UNCHANGED <<stack, pending, raised>>
    BY <1>8 DEF RunUncaught
  <2>2. /\ uncaught' \in Seq(Nat) /\ OneReport(uncaught') /\ Head(uncaught) \in Reports(uncaught)
        /\ Reports(uncaught') = Reports(uncaught) \ {Head(uncaught)}
    BY <1>1, <2>1, Reported
  <2>3. Parts(raised, Pendings(pending), Asides(stack), Reports(uncaught'), settled')
    BY <1>1, <2>1, <2>2 DEF Parts
  <2>4. QED
    BY <1>1, <2>1, <2>2, <2>3 DEF KeptInv
<1>9. CASE Gone
  <2>1. /\ uncaught' = <<>> /\ settled' = settled \union Reports(uncaught)
        /\ UNCHANGED <<stack, pending, raised>>
    BY <1>9 DEF Gone, Reports
  <2>2. uncaught' \in Seq(Nat) /\ OneReport(uncaught') /\ Reports(uncaught') = {}
    BY <2>1 DEF OneReport, Reports
  <2>3. Parts(raised, Pendings(pending), Asides(stack), {}, settled')
    BY <1>1, <2>1 DEF Parts
  <2>4. QED
    BY <1>1, <2>1, <2>2, <2>3 DEF KeptInv
<1>10. QED
  BY <1>2, <1>3, <1>5, <1>6, <1>7, <1>8, <1>9, ReturnToJsKept, ReturnFromInitKept,
     ReturnFromTaskKept, ReturnFromFinalizerKept DEF Next, AddonCalls

-----------------------------------------------------------------------------
(* Whose code has an exception                                             *)

(* What is below the first n entries does not matter, nor more panics. *)
LEMMA SameBelow ==
  ASSUME NEW b, NEW c, b \subseteq c, NEW s, NEW t, NEW e, NEW n \in Nat,
         \A i \in 1 .. n : t[i] = s[i], Confined(b, s, e, n)
  PROVE  Confined(c, t, e, n)
<1>1. CASE e \in b /\ \A i \in 1 .. n : s[i].env # e
  BY <1>1 DEF Confined
<1>2. ASSUME NEW i \in 1 .. n, s[i].env = e, \A j \in 1 .. n : j > i => s[j].env # e,
             i < n => s[i + 1].kind = "finalize"
      PROVE  Confined(c, t, e, n)
  <2>1. t[i].env = e /\ \A j \in 1 .. n : j > i => t[j].env # e
    BY <1>2
  <2>2. i < n => i + 1 \in 1 .. n
    OBVIOUS
  <2>3. i < n => t[i + 1].kind = "finalize"
    BY <1>2, <2>2
  <2>4. QED
    BY <2>1, <2>3 DEF Confined
<1>3. QED
  BY <1>1, <1>2 DEF Confined

(* The entry of another env comes on top: a finalizer, or not right above. *)
LEMMA OneAbove ==
  ASSUME NEW b, NEW s, NEW e, NEW n \in Nat, Confined(b, s, e, n),
         s[n + 1].env # e, s[n + 1].kind = "finalize" \/ n = 0 \/ s[n].env # e
  PROVE  Confined(b, s, e, n + 1)
<1>1. \A j \in 1 .. (n + 1) : j \in 1 .. n \/ j = n + 1
  OBVIOUS
<1>2. CASE e \in b /\ \A i \in 1 .. n : s[i].env # e
  BY <1>1, <1>2 DEF Confined
<1>3. ASSUME NEW i \in 1 .. n, s[i].env = e, \A j \in 1 .. n : j > i => s[j].env # e,
             i < n => s[i + 1].kind = "finalize"
      PROVE  Confined(b, s, e, n + 1)
  <2>1. i \in 1 .. (n + 1) /\ \A j \in 1 .. (n + 1) : j > i => s[j].env # e
    BY <1>1, <1>3
  <2>2. s[i + 1].kind = "finalize"
    BY <1>3
  <2>3. QED
    BY <1>3, <2>1, <2>2 DEF Confined
<1>4. QED
  BY <1>2, <1>3 DEF Confined

(* The entry of another env goes. *)
LEMMA OneBelow ==
  ASSUME NEW b, NEW s, NEW e, NEW n \in Nat, Confined(b, s, e, n + 1), s[n + 1].env # e
  PROVE  Confined(b, s, e, n)
<1>1. \A j \in 1 .. n : j \in 1 .. (n + 1)
  OBVIOUS
<1>2. CASE e \in b /\ \A i \in 1 .. (n + 1) : s[i].env # e
  BY <1>1, <1>2 DEF Confined
<1>3. ASSUME NEW i \in 1 .. (n + 1), s[i].env = e,
             \A j \in 1 .. (n + 1) : j > i => s[j].env # e,
             i < n + 1 => s[i + 1].kind = "finalize"
      PROVE  Confined(b, s, e, n)
  <2>1. i \in 1 .. n
    BY <1>3
  <2>2. i < n => s[i + 1].kind = "finalize"
    BY <1>3
  <2>3. QED
    BY <1>1, <1>3, <2>1, <2>2 DEF Confined
<1>4. QED
  BY <1>2, <1>3 DEF Confined

(* The innermost entry's env. *)
LEMMA Innermost ==
  ASSUME NEW b, NEW s, NEW n \in Nat \ {0}
  PROVE  Confined(b, s, s[n].env, n)
<1>1. n \in 1 .. n /\ (\A j \in 1 .. n : ~(j > n)) /\ ~(n < n)
  OBVIOUS
<1>2. QED
  BY <1>1 DEF Confined

(* The entries stay, and nobody else's exceptions come. *)
LEMMA SameConfined ==
  ASSUME TypeInv, ConfinedInv, UNCHANGED <<broken, stack>>,
         \A f \in Envs : pending'[f] # None =>
           pending[f] # None \/ (stack # <<>> /\ f = Top.env)
  PROVE  ConfinedInv'
<1>1. Len(stack) \in Nat /\ (stack # <<>> => Len(stack) # 0)
  BY Elements, Shortened DEF TypeInv
<1>2. ASSUME NEW f \in Envs, pending'[f] # None
      PROVE  Confined(broken, stack, f, Len(stack))
  BY <1>1, <1>2, Innermost DEF ConfinedInv, Top, Depth
<1>3. QED
  BY <1>2 DEF ConfinedInv

(* Addon code is entered. *)
LEMMA EnterConfined ==
  ASSUME TypeInv, ConfinedInv, NEW x \in Entries, stack' = Append(stack, x), broken' = broken,
         \/ /\ x.kind = "finalize" /\ x.aside = pending[x.env]
            /\ pending' = [pending EXCEPT ![x.env] = None]
         \/ x.aside = None /\ UNCHANGED pending /\ (stack # <<>> => pending[Top.env] = None)
  PROVE  ConfinedInv'
<1> DEFINE N == Len(stack)
<1>1. /\ N \in Nat /\ DOMAIN stack = 1 .. N /\ DOMAIN stack' = 1 .. (N + 1)
      /\ stack'[N + 1] = x /\ \A i \in 1 .. N : stack'[i] = stack[i]
  BY Appended DEF TypeInv
<1>2. Len(stack') = N + 1 /\ x.env \in Envs /\ \A i \in 1 .. (N + 1) : i \in 1 .. N \/ i = N + 1
  BY <1>1 DEF Entries
<1>3. ASSUME NEW e, NEW n \in 0 .. N, Confined(broken, stack, e, n)
      PROVE  Confined(broken, stack', e, n)
  <2>1. n \in Nat /\ \A i \in 1 .. n : stack'[i] = stack[i]
    BY <1>1
  <2>2. QED
    BY <1>3, <2>1, SameBelow
<1>4. N \in 0 .. N
  BY <1>1
<1>5. ASSUME NEW f \in Envs, pending'[f] # None
      PROVE  Confined(broken, stack', f, N + 1)
  <2>1. CASE f = x.env
    <3>1. N + 1 \in Nat \ {0} /\ f = stack'[N + 1].env
      BY <1>1, <2>1
    <3>2. QED
      BY <3>1, Innermost
  <2>2. CASE f # x.env
    <3>1. pending[f] # None
      BY <1>2, <1>5, <2>2 DEF TypeInv
    <3>2. Confined(broken, stack, f, N)
      BY <3>1 DEF ConfinedInv
    <3>3. Confined(broken, stack', f, N)
      BY <1>3, <1>4, <3>2
    <3>4. CASE x.kind = "finalize"
      BY <1>1, <2>2, <3>3, <3>4, OneAbove
    <3>5. CASE x.kind # "finalize"
      <4>1. N = 0 \/ stack'[N].env # f
        <5>1. stack = <<>> => N = 0
          OBVIOUS
        <5>2. ASSUME N # 0 PROVE Top = stack'[N]
          <6>1. N \in 1 .. N
            BY <1>1, <5>2
          <6>2. QED
            BY <1>1, <6>1 DEF Top, Depth
        <5>3. QED
          BY <3>1, <3>5, <5>1, <5>2
      <4>2. QED
        BY <1>1, <2>2, <3>3, <4>1, OneAbove
    <3>6. QED
      BY <3>4, <3>5
  <2>3. QED
    BY <2>1, <2>2
<1>6. ASSUME NEW k \in DOMAIN stack', stack'[k].aside # None
      PROVE  stack'[k].kind = "finalize" /\ Confined(broken, stack', stack'[k].env, k - 1)
  <2>1. CASE k \in 1 .. N
    <3>1. stack'[k] = stack[k] /\ k - 1 \in Nat /\ \A i \in 1 .. (k - 1) : stack'[i] = stack[i]
      BY <1>1, <2>1
    <3>2. stack[k].kind = "finalize" /\ Confined(broken, stack, stack[k].env, k - 1)
      BY <1>1, <1>6, <2>1, <3>1 DEF ConfinedInv
    <3>3. k - 1 \in 0 .. N
      BY <1>1, <2>1
    <3>4. Confined(broken, stack', stack[k].env, k - 1)
      BY <1>3, <3>2, <3>3
    <3>5. QED
      BY <3>1, <3>2, <3>4
  <2>2. CASE k = N + 1
    <3>1. x.kind = "finalize" /\ pending[x.env] # None
      BY <1>1, <1>6, <2>2
    <3>2. Confined(broken, stack, x.env, N)
      BY <1>2, <3>1 DEF ConfinedInv
    <3>3. Confined(broken, stack', x.env, N)
      BY <1>3, <1>4, <3>2
    <3>4. (N + 1) - 1 = N
      BY <1>1
    <3>5. QED
      BY <1>1, <2>2, <3>1, <3>3, <3>4
  <2>3. QED
    BY <1>1, <1>2, <2>1, <2>2
<1>7. QED
  BY <1>2, <1>5, <1>6 DEF ConfinedInv

(* Addon code returns. *)
LEMMA PopConfined ==
  ASSUME TypeInv, ConfinedInv, stack # <<>>, stack' = Pop, broken \subseteq broken',
         \A f \in Envs : pending'[f] # None =>
           \/ f # Top.env /\ pending[f] # None
           \/ Pop # <<>> /\ f = Pop[Len(Pop)].env
           \/ f = Top.env /\ Confined(broken', stack, f, Depth - 1)
  PROVE  ConfinedInv'
<1> DEFINE N == Len(stack)
<1>1. /\ N \in Nat \ {0} /\ DOMAIN stack = 1 .. N /\ DOMAIN stack' = 1 .. (N - 1)
      /\ \A i \in 1 .. (N - 1) : stack'[i] = stack[i]
      /\ Top = stack[N] /\ Depth = N /\ stack' \in Seq(Entries)
  BY Shortened DEF TypeInv, Pop, Top, Depth
<1>2. Len(stack') = N - 1 /\ N - 1 \in Nat /\ (stack' # <<>> => N - 1 # 0)
  <2>1. N - 1 \in Nat
    BY <1>1
  <2>2. Len(stack') = N - 1
    BY <1>1, <2>1 DEF Pop, Depth
  <2>3. stack' # <<>> => Len(stack') # 0
    BY <1>1, Shortened
  <2>4. QED
    BY <2>1, <2>2, <2>3
<1>3. ASSUME NEW b, b \subseteq broken', NEW e, NEW n \in 0 .. (N - 1), Confined(b, stack, e, n)
      PROVE  Confined(broken', stack', e, n)
  <2>1. n \in Nat /\ \A i \in 1 .. n : stack'[i] = stack[i]
    BY <1>1
  <2>2. QED
    BY <1>3, <2>1, SameBelow
<1>4. N - 1 \in 0 .. (N - 1) /\ broken' \subseteq broken'
  BY <1>1
<1>5. ASSUME NEW f \in Envs, pending'[f] # None
      PROVE  Confined(broken', stack', f, N - 1)
  <2>1. CASE f # Top.env /\ pending[f] # None
    <3>1. Confined(broken, stack, f, N)
      BY <2>1 DEF ConfinedInv
    <3>2. (N - 1) + 1 = N
      BY <1>1
    <3>3. Confined(broken, stack, f, N - 1)
      BY <1>1, <1>2, <2>1, <3>1, <3>2, OneBelow
    <3>4. QED
      BY <1>3, <1>4, <3>3
  <2>2. CASE stack' # <<>> /\ f = stack'[N - 1].env
    BY <1>2, <2>2, Innermost
  <2>3. CASE Confined(broken', stack, f, N - 1)
    BY <1>3, <1>4, <2>3
  <2>4. QED
    BY <1>1, <1>2, <1>5, <2>1, <2>2, <2>3
<1>6. ASSUME NEW k \in DOMAIN stack', stack'[k].aside # None
      PROVE  stack'[k].kind = "finalize" /\ Confined(broken', stack', stack'[k].env, k - 1)
  <2>1. /\ k \in DOMAIN stack /\ stack'[k] = stack[k] /\ k - 1 \in Nat
        /\ \A i \in 1 .. (k - 1) : stack'[i] = stack[i]
    BY <1>1
  <2>2. stack[k].kind = "finalize" /\ Confined(broken, stack, stack[k].env, k - 1)
    BY <1>6, <2>1 DEF ConfinedInv
  <2>3. k - 1 \in 0 .. (N - 1)
    BY <1>1
  <2>4. QED
    BY <1>3, <2>1, <2>2, <2>3
<1>7. QED
  BY <1>2, <1>5, <1>6 DEF ConfinedInv

(* Each step keeps exceptions under the code that has them. *)
LEMMA ConfinedNext ==
  ASSUME None \notin Nat, TypeInv, StackInv, RunInv, KeptInv, ConfinedInv, [Next]_vars
  PROVE  ConfinedInv'
<1>1. pending \in [Envs -> OrNone(Nat)]
  BY DEF TypeInv
<1>2. CASE \/ UNCHANGED vars \/ SetInstanceData \/ Dispose \/ RunUncaught \/ Gone
           \/ \E o \in Objects : \/ \E withRef \in BOOLEAN : Wrap(o, withRef)
                                                             \/ AddFinalizer(o, withRef)
                                 \/ RemoveWrap(o)
                                 \/ \E count \in 0 .. 1 : CreateReference(o, count)
           \/ \E r \in Refs : ReferenceRef(r) \/ ReferenceUnref(r) \/ DeleteReference(r)
                              \/ GetReferenceValue(r)
           \/ \E o \in Objects : Forget(o) \/ Collect(o)
  <2>1. UNCHANGED <<broken, stack, pending>>
    BY <1>2 DEF vars, SetInstanceData, Dispose, RunUncaught, Gone, Wrap, AddFinalizer,
       RemoveWrap, CreateReference, ReferenceRef, ReferenceUnref, DeleteReference,
       GetReferenceValue, ChangeRef, Forget, Collect
  <2>2. QED
    BY <2>1, SameConfined
<1>3. CASE Throw \/ GetAndClear \/ FreeEnv
  <2>1. UNCHANGED <<broken, stack>>
    BY <1>3 DEF Throw, GetAndClear, FreeEnv
  <2>2. ASSUME NEW f \in Envs, pending'[f] # None, pending[f] = None
        PROVE  stack # <<>> /\ f = Top.env
    <3>1. CASE Throw
      BY <1>1, <2>2, <3>1 DEF Throw
    <3>2. CASE GetAndClear
      BY <1>1, <2>2, <3>2 DEF GetAndClear
    <3>3. CASE FreeEnv
      BY <1>1, <2>2, <3>3 DEF FreeEnv
    <3>4. QED
      BY <1>3, <3>1, <3>2, <3>3
  <2>3. QED
    BY <2>1, <2>2, SameConfined
<1>4. ASSUME NEW e \in Envs, Invoke(e) \/ RunNativeTask(e) \/ LoadAddon(e)
      PROVE  ConfinedInv'
  <2>1. PICK kind \in Kinds : Enter(e, kind, None, None)
    BY <1>4 DEF Invoke, RunNativeTask, LoadAddon, Kinds
  <2> DEFINE x == [env |-> e, kind |-> kind, record |-> None, outer |-> scope[e],
                   aside |-> None]
  <2>2. x \in Entries /\ x.aside = None
    BY DEF Entries, OrNone, TypeInv
  <2>3. stack' = Append(stack, x)
    BY <2>1 DEF Enter
  <2> HIDE DEF x
  <2>4. UNCHANGED <<broken, pending>> /\ (JsRuns \/ stack = <<>>)
    BY <1>4 DEF Invoke, RunNativeTask, LoadAddon
  <2>5. stack # <<>> => pending[Top.env] = None
    BY <2>4, GuardedCalls
  <2>6. QED
    BY <2>2, <2>3, <2>4, <2>5, EnterConfined
<1>5. ASSUME NEW r \in Records, RunFinalizer(r), broken' = broken
      PROVE  ConfinedInv'
  <2>1. records[r] \in FinalizerRecords /\ r \in Nat
    BY Elements DEF TypeInv, Records
  <2>2. PICK e \in Envs : e = records[r].env
    BY <2>1 DEF FinalizerRecords
  <2>3. Enter(e, "finalize", r, pending[e]) /\ pending' = [pending EXCEPT ![e] = None]
    BY <1>5, <2>2 DEF RunFinalizer
  <2> DEFINE x == [env |-> e, kind |-> "finalize", record |-> r, outer |-> scope[e],
                   aside |-> pending[e]]
  <2>4. x \in Entries /\ x.env = e /\ x.aside = pending[e] /\ x.kind = "finalize"
    BY <2>1 DEF Entries, OrNone, TypeInv, Kinds
  <2>5. stack' = Append(stack, x)
    BY <2>3 DEF Enter
  <2> HIDE DEF x
  <2>6. QED
    BY <1>5, <2>3, <2>4, <2>5, EnterConfined
<1>6. CASE TeardownFinalizers \/ \E r \in Records : FinalizerCollected(r)
  BY <1>5, <1>6 DEF TeardownFinalizers, FinalizerCollected, Held
<1>7. CASE ReturnToJs \/ ReturnFromTask \/ (ReturnFromInit /\ raised' = raised)
  <2>1. PICK e \in Envs : e = Top.env
    BY <1>7, TopEntry DEF ReturnToJs, ReturnFromTask, ReturnFromInit
  <2> DEFINE clear == [pending EXCEPT ![e] = None]
             f0 == Pop[Len(Pop)].env
  <2>2. /\ stack # <<>> /\ stack' = Pop /\ broken' = broken
        /\ \/ pending' = pending /\ pending[e] = None
           \/ pending' = clear
           \/ \E y \in {pending[e], raised + 1} :
                Pop # <<>> /\ pending' = [clear EXCEPT ![f0] = y]
    <3>1. raised + 1 # raised
      BY DEF TypeInv
    <3>2. CASE ReturnToJs
      BY <2>1, <3>2 DEF ReturnToJs, ThrownToJs
    <3>3. CASE ReturnFromTask
      BY <2>1, <3>3 DEF ReturnFromTask
    <3>4. CASE ReturnFromInit /\ raised' = raised
      BY <2>1, <3>1, <3>4 DEF ReturnFromInit, ThrownToJs
    <3>5. QED
      BY <1>7, <3>2, <3>3, <3>4
  <2>3. ASSUME NEW f \in Envs, pending'[f] # None
        PROVE  (f # e /\ pending[f] # None) \/ (Pop # <<>> /\ f = f0)
    <3>1. DOMAIN clear = Envs /\ \A d \in Envs : clear[d] # None => d # e /\ pending[d] # None
      BY <1>1
    <3> HIDE DEF clear, f0
    <3>2. CASE pending' = pending /\ pending[e] = None
      BY <2>3, <3>2
    <3>3. CASE pending' = clear
      BY <2>3, <3>1, <3>3
    <3>4. ASSUME NEW y, Pop # <<>>, pending' = [clear EXCEPT ![f0] = y], f # f0
          PROVE  f # e /\ pending[f] # None
      <4>1. pending'[f] = clear[f]
        BY <3>1, <3>4
      <4>2. QED
        BY <2>3, <3>1, <4>1
    <3>5. QED
      BY <2>2, <3>2, <3>3, <3>4
  <2>4. QED
    BY <2>1, <2>2, <2>3, PopConfined
<1>8. CASE ReturnFromInit /\ raised' # raised
  <2>1. PICK e \in Envs : e = Top.env
    BY <1>8, TopEntry DEF ReturnFromInit
  <2>2. /\ stack # <<>> /\ stack' = Pop /\ Top.kind = "init"
        /\ broken' = IF pending[e] = None THEN broken ELSE broken \union {e}
        /\ ThrownToJs(raised + 1, Pop, pending, settled)
    BY <1>8, <2>1 DEF ReturnFromInit
  <2>3. pending[e] # None => Confined(broken', stack, e, Depth - 1)
    <3>1. /\ Len(stack) \in Nat \ {0} /\ DOMAIN stack = 1 .. Len(stack)
          /\ Top = stack[Len(stack)] /\ Depth = Len(stack)
      BY <2>2, Shortened DEF TypeInv, Top, Depth
    <3>2. \A i \in 1 .. (Depth - 1) : stack[i].env # e
      BY <2>1, <2>2, <3>1 DEF StackInv
    <3>3. QED
      BY <2>2, <3>2 DEF Confined
  <2>4. ASSUME NEW f \in Envs, pending'[f] # None
        PROVE  \/ f # e /\ pending[f] # None
               \/ Pop # <<>> /\ f = Pop[Len(Pop)].env
               \/ f = e /\ pending[e] # None
    BY <1>1, <2>2, <2>4 DEF ThrownToJs
  <2>5. QED
    BY <2>1, <2>2, <2>3, <2>4, PopConfined
<1>9. CASE ReturnFromFinalizer
  <2>1. PICK e \in Envs : e = Top.env
    BY <1>9, TopEntry DEF ReturnFromFinalizer
  <2>2. /\ stack # <<>> /\ stack' = Pop /\ broken' = broken
        /\ pending' = [pending EXCEPT ![e] = Top.aside]
    BY <1>9, <2>1 DEF ReturnFromFinalizer, PutBack
  <2>3. Top.aside # None => Confined(broken', stack, e, Depth - 1)
    <3>1. Len(stack) \in DOMAIN stack /\ Top = stack[Len(stack)] /\ Depth = Len(stack)
      BY <2>2, Shortened DEF TypeInv, Top, Depth
    <3>2. QED
      BY <2>1, <2>2, <3>1 DEF ConfinedInv
  <2>4. ASSUME NEW f \in Envs, pending'[f] # None
        PROVE  (f # e /\ pending[f] # None) \/ (f = e /\ Top.aside # None)
    <3>1. CASE f = e
      <4>1. pending'[e] = Top.aside
        BY <1>1, <2>1, <2>2
      <4>2. QED
        BY <2>4, <3>1, <4>1
    <3>2. CASE f # e
      <4>1. pending'[f] = pending[f]
        BY <1>1, <2>2, <3>2
      <4>2. QED
        BY <2>4, <3>2, <4>1
    <3>3. QED
      BY <3>1, <3>2
  <2>5. QED
    BY <2>1, <2>2, <2>3, <2>4, PopConfined
<1>10. QED
  BY <1>2, <1>3, <1>4, <1>6, <1>7, <1>8, <1>9 DEF Next, AddonCalls

(* The isolate starts with no exception. *)
LEMMA InitExceptions == Init => KeptInv /\ ConfinedInv
<1> SUFFICES ASSUME Init PROVE KeptInv /\ ConfinedInv
  OBVIOUS
<1>1. /\ pending = [e \in Envs |-> None] /\ stack = <<>> /\ uncaught = <<>>
      /\ settled = {} /\ raised = 0
  BY DEF Init
<1>2. DOMAIN stack = {} /\ DOMAIN uncaught = {} /\ 1 .. raised = {}
  BY <1>1
<1>3. Pendings(pending) = {} /\ Asides(stack) = {} /\ Reports(uncaught) = {}
  BY <1>1, <1>2 DEF Pendings, Asides, Reports
<1>4. Parts(raised, Pendings(pending), Asides(stack), Reports(uncaught), settled)
  BY <1>1, <1>2, <1>3 DEF Parts
<1>5. KeptInv
  BY <1>1, <1>2, <1>4 DEF KeptInv, OneEnv, OneAside, OneReport
<1>6. ConfinedInv
  BY <1>1, <1>2 DEF ConfinedInv
<1>7. QED
  BY <1>5, <1>6

(* A set whose only element is counted. *)
LEMMA Counted ==
  ASSUME NEW S
  PROVE  /\ S = {} => Cardinality(S) = 0
         /\ \A x : S = {x} => Cardinality(S) = 1
BY FS_EmptySet, FS_Singleton

(* Each exception is counted once. *)
LEMMA KeptCounts ==
  ASSUME None \notin Nat, KeptInv
  PROVE  ExceptionKept
<1> SUFFICES ASSUME NEW x \in 1 .. raised
             PROVE  Cardinality({e \in Envs : pending[e] = x})
                    + Cardinality({i \in DOMAIN stack : stack[i].aside = x})
                    + Cardinality({i \in DOMAIN uncaught : uncaught[i] = x})
                    + (IF x \in settled THEN 1 ELSE 0) = 1
  BY DEF ExceptionKept
<1> DEFINE P == {e \in Envs : pending[e] = x}
           A == {i \in DOMAIN stack : stack[i].aside = x}
           U == {i \in DOMAIN uncaught : uncaught[i] = x}
<1>1. x # None
  OBVIOUS
<1>2. /\ x \in Pendings(pending) => \E e : P = {e}
      /\ x \notin Pendings(pending) => P = {}
  BY <1>1 DEF Pendings, KeptInv, OneEnv
<1>3. /\ x \in Asides(stack) => \E i : A = {i}
      /\ x \notin Asides(stack) => A = {}
  BY <1>1 DEF Asides, KeptInv, OneAside
<1>4. /\ x \in Reports(uncaught) => \E i : U = {i}
      /\ x \notin Reports(uncaught) => U = {}
  BY DEF Reports, KeptInv, OneReport
<1> HIDE DEF P, A, U
<1>5. /\ Cardinality(P) = IF x \in Pendings(pending) THEN 1 ELSE 0
      /\ Cardinality(A) = IF x \in Asides(stack) THEN 1 ELSE 0
      /\ Cardinality(U) = IF x \in Reports(uncaught) THEN 1 ELSE 0
  BY <1>2, <1>3, <1>4, Counted
<1>6. Parts(raised, Pendings(pending), Asides(stack), Reports(uncaught), settled)
  BY DEF KeptInv
<1>7. Cardinality(P) + Cardinality(A) + Cardinality(U)
        + (IF x \in settled THEN 1 ELSE 0) = 1
  BY <1>5, <1>6 DEF Parts
<1>8. QED
  BY <1>7 DEF P, A, U

(* No exception is lost, thrown twice or met by code it is not for,        *)
(* whatever addons throw, catch and nest, whatever their inits and         *)
(* callbacks do when they panic and wherever finalizers are entered        *)
(* (last_exception and its takers, run_finalizer and defer_uncaught).      *)
THEOREM ExceptionsHolds ==
  ASSUME None \notin Objects \union Nat, CollectsRunning = FALSE
  PROVE  Spec => []Exceptions
<1> DEFINE IInv == Inductive /\ KeptInv /\ ConfinedInv
<1>1. Init => IInv
  BY InitInductive, InitExceptions
<1>2. IInv /\ [Next]_vars => IInv'
  BY TypeNext, StackNext, RunNext, HeldNext, AliveNext, KeptNext, ConfinedNext DEF Inductive
<1>3. IInv => Exceptions
  <2> SUFFICES ASSUME IInv PROVE ExceptionKept /\ PendingConfined
    BY DEF Exceptions
  <2>1. Len(stack) \in Nat /\ DOMAIN stack = 1 .. Len(stack)
    BY Elements DEF Inductive, TypeInv
  <2>2. ASSUME NEW e \in Envs \ broken, pending[e] # None
        PROVE  \E i \in DOMAIN stack :
                 /\ stack[i].env = e
                 /\ \A j \in DOMAIN stack : j > i => stack[j].env # e
                 /\ i < Depth => stack[i + 1].kind = "finalize"
    BY <2>1, <2>2 DEF ConfinedInv, Confined, Depth
  <2>3. QED
    BY <2>2, KeptCounts DEF PendingConfined
<1>4. QED
  BY <1>1, <1>2, <1>3, PTL DEF Spec

-----------------------------------------------------------------------------
(* The disposal                                                            *)

(* What is on an isolate's list.                                           *)
ItemKinds == {"env", "hook", "async", "tsfn"}
Ids == Addons \union Hooks \union AsyncHooks \union Tsfns
Items == [kind : ItemKinds, env : Addons, id : Ids]
Members(s) == {s[k] : k \in 1 .. Len(s)}
EnvItem(e) == D!Item("env", e, e)

(* A list in the order it was made in: everything comes after its env, and *)
(* is listed once.                                                         *)
WellListed(s) ==
  /\ s \in Seq(Items)
  /\ \A i, j \in 1 .. Len(s) : s[i].kind = s[j].kind /\ s[i].id = s[j].id => i = j
  /\ \A i \in 1 .. Len(s) :
       IF s[i].kind = "env" THEN s[i].id = s[i].env
       ELSE \E j \in 1 .. Len(s) : j < i /\ s[j] = EnvItem(s[i].env)

(* A sequence that repeats nothing.                                        *)
NoRepeats(s) == \A i, j \in 1 .. Len(s) : s[i] = s[j] => i = j

TeardownTypes ==
  /\ lib \in [Addons -> {"none", "mapped", "closed"}]
  /\ env \in [Addons -> {"none", "open", "freed"}]
  /\ tsfns \in [Tsfns -> Addons \union {None}]
  /\ kept = [e \in Addons |-> kept[e]]
  /\ held \in [Addons -> {"none", "held", "run"}]
  /\ pc \in {"live", "pop", "finalize", "done"}
  /\ closing \in Seq(Tsfns) /\ waiting \subseteq Addons /\ dropping \in Addons \union {None}
  /\ aborted = FALSE

(* What is listed can be worked off: its env is there and is not on its    *)
(* way out, a function is open, a handle was not freed.                    *)
ListedInv ==
  \A x \in Members(list) :
    /\ env[x.env] = "open" /\ x.env \notin waiting /\ x.env # dropping
    /\ x.kind = "tsfn" => x.id \in Tsfns /\ tsfns[x.id] = x.env /\ x.id \notin Members(closing)
    /\ x.kind = "async" => x.id \in handles

(* An open function is listed or was closed by this round, and holds an    *)
(* env that is there.                                                      *)
TsfnInv ==
  \A t \in Tsfns :
    tsfns[t] # None =>
      /\ env[tsfns[t]] = "open" /\ tsfns[t] # dropping
      /\ D!Item("tsfn", tsfns[t], t) \in Members(list) \/ t \in Members(closing)

ClosingInv == NoRepeats(closing) /\ \A t \in Members(closing) : tsfns[t] # None

(* An env is listed, held by a function or being dropped while it is open; *)
(* nothing is left of it before or after.                                  *)
OpenInv ==
  \A e \in Addons :
    /\ env[e] = "open" => EnvItem(e) \in Members(list) \/ e \in waiting \/ e = dropping
    /\ env[e] # "open" => kept[e] = <<>>
    /\ held[e] = "run" => e = dropping \/ env[e] = "freed"
    /\ lib[e] = "none" <=> env[e] = "none"
    /\ e \in waiting => env[e] = "open" /\ D!HoldsEnv(e) /\ e # dropping
    /\ e = dropping => env[e] = "open"

(* The code that runs is what its part of the disposal runs.               *)
CodeInv ==
  code # None =>
    /\ code.env \in Addons /\ env[code.env] = "open"
    /\ \/ code.kind \in {"init", "call"} /\ pc = "live"
       \/ /\ code.kind \in {"hook", "async"} /\ pc = "pop"
          /\ EnvItem(code.env) \in Members(list)
       \/ /\ code.kind = "tsfn" /\ code.id \in Tsfns /\ tsfns[code.id] = code.env
          /\ pc = "live" \/ (pc = "finalize" /\ closing # <<>> /\ code.id = Head(closing))
       \/ code.kind = "finalizer" /\ code.env = dropping
    /\ code.kind # "finalizer" => dropping = None

PhaseInv ==
  /\ pc = "live" => /\ waiting = {} /\ dropping = None /\ closing = <<>>
                    /\ \A e \in Addons : env[e] # "freed"
  /\ pc \in {"finalize", "done"} => list = <<>>
  /\ pc = "done" => closing = <<>> /\ waiting = {} /\ dropping = None

TeardownInv ==
  /\ TeardownTypes /\ WellListed(list) /\ ListedInv /\ TsfnInv
  /\ ClosingInv /\ OpenInv /\ CodeInv /\ PhaseInv

-----------------------------------------------------------------------------
(* Lists                                                                   *)

(* A list's items, and that they come from it.                             *)
LEMMA ListMembers ==
  ASSUME NEW s, WellListed(s)
  PROVE  /\ s \in Seq(Items) /\ Len(s) \in Nat /\ DOMAIN s = 1 .. Len(s)
         /\ \A i \in 1 .. Len(s) : s[i] \in Items
         /\ Members(s) \subseteq Items
         /\ s = <<>> <=> Members(s) = {}
         /\ \A x \in Members(s) :
              IF x.kind = "env" THEN x = EnvItem(x.env) /\ x.id = x.env
              ELSE EnvItem(x.env) \in Members(s)
<1>1. s \in Seq(Items) /\ Len(s) \in Nat /\ DOMAIN s = 1 .. Len(s)
  BY LenProperties DEF WellListed
<1>2. \A i \in 1 .. Len(s) : s[i] \in Items
  BY <1>1, ElementOfSeq
<1>3. Members(s) \subseteq Items
  BY <1>2 DEF Members
<1>4. s = <<>> <=> Members(s) = {}
  <2>1. s = <<>> <=> Len(s) = 0
    BY <1>1, EmptySeq
  <2>2. Len(s) # 0 => 1 \in 1 .. Len(s)
    BY <1>1
  <2>3. QED
    BY <1>1, <2>1, <2>2 DEF Members
<1>5. ASSUME NEW x \in Members(s)
      PROVE  IF x.kind = "env" THEN x = EnvItem(x.env) /\ x.id = x.env
              ELSE EnvItem(x.env) \in Members(s)
  <2>1. PICK i \in 1 .. Len(s) : x = s[i]
    BY DEF Members
  <2>2. CASE x.kind = "env"
    <3>1. x \in Items /\ x.id = x.env
      BY <1>2, <2>1, <2>2 DEF WellListed
    <3>2. QED
      BY <2>2, <3>1 DEF Items, EnvItem, D!Item
  <2>3. CASE x.kind # "env"
    <3>1. \E j \in 1 .. Len(s) : s[j] = EnvItem(s[i].env)
      BY <2>1, <2>3 DEF WellListed
    <3>2. QED
      BY <2>1, <2>3, <3>1 DEF Members
  <2>4. QED
    BY <2>2, <2>3
<1>6. QED
  BY <1>1, <1>2, <1>3, <1>4, <1>5

(* An item is added at the end, its env before it.                         *)
LEMMA ItemAdded ==
  ASSUME NEW s, WellListed(s), NEW x \in Items,
         \A y \in Members(s) : ~(y.kind = x.kind /\ y.id = x.id),
         IF x.kind = "env" THEN x.id = x.env ELSE EnvItem(x.env) \in Members(s)
  PROVE  WellListed(Append(s, x)) /\ Members(Append(s, x)) = Members(s) \union {x}
<1> DEFINE n == Len(s)
           r == Append(s, x)
<1>1. s \in Seq(Items) /\ n \in Nat
  BY ListMembers
<1>2. /\ r \in Seq(Items) /\ Len(r) = n + 1 /\ r[n + 1] = x
      /\ \A i \in 1 .. n : r[i] = s[i]
  BY <1>1, AppendProperties
<1>3. \A i \in 1 .. n + 1 : i \in 1 .. n \/ i = n + 1
  BY <1>1
<1>4. /\ \A i \in 1 .. n : i \in 1 .. n + 1 /\ i < n + 1
      /\ n + 1 \in 1 .. n + 1
  BY <1>1
<1> HIDE DEF r, n
<1>5. Members(r) = Members(s) \union {x}
  <2>1. ASSUME NEW i \in 1 .. n + 1
        PROVE  r[i] \in {s[k] : k \in 1 .. n} \union {x}
    BY <1>2, <1>3
  <2>2. ASSUME NEW y \in {s[k] : k \in 1 .. n} \union {x}
        PROVE  \E i \in 1 .. n + 1 : r[i] = y
    BY <1>2, <1>4
  <2>3. {r[i] : i \in 1 .. n + 1} = {s[k] : k \in 1 .. n} \union {x}
    BY <2>1, <2>2
  <2>4. QED
    BY <1>2, <2>3 DEF Members, n
<1>6. ASSUME NEW i \in 1 .. n + 1, NEW j \in 1 .. n + 1,
             r[i].kind = r[j].kind, r[i].id = r[j].id
      PROVE  i = j
  <2>1. \A k \in 1 .. n : s[k] \in Members(s)
    BY DEF Members, n
  <2>2. \A k \in 1 .. n : ~(s[k].kind = x.kind /\ s[k].id = x.id)
    BY <2>1
  <2>3. CASE i \in 1 .. n /\ j \in 1 .. n
    BY <1>2, <1>6, <2>3 DEF WellListed, n
  <2>4. QED
    BY <1>2, <1>3, <1>6, <2>2, <2>3
<1>7. ASSUME NEW i \in 1 .. n + 1
      PROVE  IF r[i].kind = "env" THEN r[i].id = r[i].env
             ELSE \E j \in 1 .. n + 1 : j < i /\ r[j] = EnvItem(r[i].env)
  <2>1. CASE i \in 1 .. n
    <3>1. IF s[i].kind = "env" THEN s[i].id = s[i].env
          ELSE \E j \in 1 .. n : j < i /\ s[j] = EnvItem(s[i].env)
      BY <2>1 DEF WellListed, n
    <3>2. CASE s[i].kind = "env"
      BY <1>2, <2>1, <3>1, <3>2
    <3>3. CASE s[i].kind # "env"
      <4>1. PICK j \in 1 .. n : j < i /\ s[j] = EnvItem(s[i].env)
        BY <3>1, <3>3
      <4>2. j \in 1 .. n + 1 /\ r[j] = EnvItem(r[i].env) /\ r[i].kind # "env"
        BY <1>2, <1>4, <2>1, <3>3, <4>1
      <4>3. QED
        BY <4>1, <4>2
    <3>4. QED
      BY <3>2, <3>3
  <2>2. CASE i = n + 1
    <3>1. CASE x.kind = "env"
      BY <1>2, <2>2, <3>1
    <3>2. CASE x.kind # "env"
      <4>1. PICK j \in 1 .. n : s[j] = EnvItem(x.env)
        BY <3>2 DEF Members, n
      <4>2. QED
        BY <1>2, <1>4, <2>2, <3>2, <4>1
    <3>3. QED
      BY <3>1, <3>2
  <2>3. QED
    BY <1>3, <2>1, <2>2
<1>8. WellListed(r)
  BY <1>2, <1>6, <1>7 DEF WellListed
<1>9. QED
  BY <1>5, <1>8 DEF r

(* Taking one item out of a sequence moves those after it down.            *)
LEMMA MovedDown ==
  ASSUME NEW S, NEW s \in Seq(S), NEW i \in 1 .. Len(s)
  PROVE  /\ D!RemoveAt(s, i) \in Seq(S)
         /\ Len(D!RemoveAt(s, i)) = Len(s) - 1
         /\ \A j \in 1 .. Len(s) - 1 : D!RemoveAt(s, i)[j] = s[IF j < i THEN j ELSE j + 1]
<1> DEFINE n == Len(s)
           before == SubSeq(s, 1, i - 1)
           after == SubSeq(s, i + 1, n)
<1>1. n \in Nat /\ i \in 1 .. n /\ \A j \in 1 .. n : s[j] \in S
  BY ElementOfSeq, LenProperties
<1>2. /\ before \in Seq(S) /\ Len(before) = i - 1
      /\ \A j \in 1 .. i - 1 : before[j] = s[j]
  BY <1>1, SubSeqProperties
<1>3. /\ after \in Seq(S) /\ Len(after) = n - i
      /\ \A j \in 1 .. n - i : after[j] = s[i + j]
  BY <1>1, SubSeqProperties
<1> HIDE DEF before, after
<1>4. D!RemoveAt(s, i) = before \o after
  BY DEF D!RemoveAt, before, after
<1> HIDE DEF n
<1>5. /\ before \o after \in Seq(S) /\ Len(before \o after) = Len(before) + Len(after)
      /\ \A j \in 1 .. Len(before) + Len(after) :
           (before \o after)[j] = IF j <= Len(before) THEN before[j] ELSE after[j - Len(before)]
  BY <1>2, <1>3, ConcatProperties
<1>6. Len(before) + Len(after) = n - 1
  BY <1>1, <1>2, <1>3
<1>7. ASSUME NEW j \in 1 .. n - 1
      PROVE  (before \o after)[j] = s[IF j < i THEN j ELSE j + 1]
  <2>1. CASE j < i
    <3>1. j <= Len(before) /\ j \in 1 .. i - 1
      BY <1>1, <1>2, <2>1
    <3>2. QED
      BY <1>2, <1>5, <1>6, <2>1, <3>1
  <2>2. CASE ~(j < i)
    <3>1. ~(j <= Len(before)) /\ j - Len(before) \in 1 .. n - i /\ i + (j - Len(before)) = j + 1
      BY <1>1, <1>2, <2>2
    <3>2. after[j - Len(before)] = s[j + 1]
      BY <1>3, <3>1
    <3>3. QED
      BY <1>5, <1>6, <2>2, <3>1, <3>2
  <2>3. QED
    BY <2>1, <2>2
<1>8. QED
  BY <1>4, <1>5, <1>6, <1>7 DEF n

(* An item goes, with nothing listed that needs it.                        *)
LEMMA TakenOut ==
  ASSUME NEW s, WellListed(s), NEW i \in 1 .. Len(s),
         s[i].kind # "env" \/ i = Len(s)
  PROVE  WellListed(D!RemoveAt(s, i)) /\ Members(D!RemoveAt(s, i)) = Members(s) \ {s[i]}
<1> DEFINE n == Len(s)
           r == D!RemoveAt(s, i)
           At(j) == IF j < i THEN j ELSE j + 1
<1>1. s \in Seq(Items) /\ n \in Nat /\ i \in 1 .. n
  BY ListMembers
<1>2. /\ r \in Seq(Items) /\ Len(r) = n - 1
      /\ \A j \in 1 .. n - 1 : r[j] = s[At(j)]
  BY <1>1, MovedDown
<1>3. /\ \A j \in 1 .. n - 1 : At(j) \in 1 .. n /\ At(j) # i
      /\ \A k \in 1 .. n : k # i => \E j \in 1 .. n - 1 : At(j) = k
  <2>1. ASSUME NEW j \in 1 .. n - 1
        PROVE  At(j) \in 1 .. n /\ At(j) # i
    BY <1>1
  <2>2. ASSUME NEW k \in 1 .. n, k # i
        PROVE  \E j \in 1 .. n - 1 : At(j) = k
    <3>1. CASE k < i
      <4>1. k \in 1 .. n - 1 /\ At(k) = k
        BY <1>1, <3>1
      <4>2. QED
        BY <4>1
    <3>2. CASE k > i
      <4>1. k - 1 \in 1 .. n - 1 /\ At(k - 1) = k
        BY <1>1, <3>2
      <4>2. QED
        BY <4>1
    <3>3. QED
      BY <1>1, <2>2, <3>1, <3>2
  <2>3. QED
    BY <2>1, <2>2
<1>4. \A j, k \in 1 .. n - 1 : (At(j) = At(k) => j = k) /\ (At(j) < At(k) => j < k)
  BY <1>1
<1>5. \A j, k \in 1 .. n : s[j].kind = s[k].kind /\ s[j].id = s[k].id => j = k
  BY DEF WellListed
<1> HIDE DEF n, r, At
<1>6. Members(r) = Members(s) \ {s[i]}
  <2>1. ASSUME NEW j \in 1 .. n - 1
        PROVE  r[j] \in {s[k] : k \in 1 .. n} \ {s[i]}
    <3>1. At(j) \in 1 .. n /\ At(j) # i /\ r[j] = s[At(j)]
      BY <1>2, <1>3
    <3>2. s[At(j)] # s[i]
      BY <1>1, <1>5, <3>1
    <3>3. QED
      BY <3>1, <3>2
  <2>2. ASSUME NEW k \in 1 .. n, s[k] # s[i]
        PROVE  \E j \in 1 .. n - 1 : r[j] = s[k]
    BY <1>2, <1>3, <2>2
  <2>3. {r[j] : j \in 1 .. n - 1} = {s[k] : k \in 1 .. n} \ {s[i]}
    BY <2>1, <2>2
  <2>4. QED
    BY <1>2, <2>3 DEF Members, n
<1>7. ASSUME NEW j \in 1 .. n - 1, NEW k \in 1 .. n - 1,
             r[j].kind = r[k].kind, r[j].id = r[k].id
      PROVE  j = k
  <2>1. At(j) \in 1 .. n /\ At(k) \in 1 .. n
    BY <1>3
  <2>2. s[At(j)].kind = s[At(k)].kind /\ s[At(j)].id = s[At(k)].id
    BY <1>2, <1>7
  <2>3. QED
    BY <1>4, <1>5, <2>1, <2>2
<1>8. ASSUME NEW j \in 1 .. n - 1
      PROVE  IF r[j].kind = "env" THEN r[j].id = r[j].env
             ELSE \E k \in 1 .. n - 1 : k < j /\ r[k] = EnvItem(r[j].env)
  <2>1. At(j) \in 1 .. n /\ At(j) # i /\ r[j] = s[At(j)]
    BY <1>2, <1>3
  <2>2. IF r[j].kind = "env" THEN r[j].id = r[j].env
        ELSE \E m \in 1 .. n : m < At(j) /\ s[m] = EnvItem(r[j].env)
    BY <2>1 DEF WellListed, n
  <2>3. CASE r[j].kind = "env"
    BY <2>2, <2>3
  <2>4. CASE r[j].kind # "env"
    <3>1. PICK m \in 1 .. n : m < At(j) /\ s[m] = EnvItem(r[j].env)
      BY <2>2, <2>4
    <3>2. m # i
      <4>1. s[m].kind = "env"
        BY <3>1 DEF EnvItem, D!Item
      <4>2. m # n
        BY <1>1, <2>1, <3>1
      <4>3. QED
        BY <4>1, <4>2 DEF n
    <3>3. PICK k \in 1 .. n - 1 : At(k) = m
      BY <1>3, <3>2
    <3>4. k < j /\ r[k] = EnvItem(r[j].env)
      BY <1>2, <1>4, <3>1, <3>3
    <3>5. QED
      BY <2>4, <3>4
  <2>5. QED
    BY <2>3, <2>4
<1>9. WellListed(r)
  BY <1>2, <1>7, <1>8 DEF WellListed
<1>10. QED
  BY <1>6, <1>9 DEF r

(* The newest item is taken: when it is an env, nothing of it is left.     *)
LEMMA NewestTaken ==
  ASSUME NEW s, WellListed(s), s # <<>>
  PROVE  /\ D!Last(s) \in Members(s) /\ D!Last(s) \in Items
         /\ WellListed(D!Front(s)) /\ Members(D!Front(s)) = Members(s) \ {D!Last(s)}
         /\ D!Last(s).kind = "env" => \A y \in Members(D!Front(s)) : y.env # D!Last(s).env
<1> DEFINE n == Len(s)
<1>1. s \in Seq(Items) /\ n \in Nat /\ n # 0 /\ n \in 1 .. n
  BY ListMembers, EmptySeq
<1>2. D!Last(s) \in Members(s) /\ D!Last(s) \in Items
  BY <1>1, ListMembers DEF D!Last, Members
<1>3. D!Front(s) = D!RemoveAt(s, n)
  <2>1. SubSeq(s, n + 1, n) = <<>>
    BY <1>1, SubSeqEmpty
  <2>2. SubSeq(s, 1, n - 1) \in Seq(Items)
    <3>1. \A j \in 1 .. n : s[j] \in Items
      BY ListMembers
    <3>2. QED
      BY <1>1, <3>1, SubSeqProperties
  <2>3. SubSeq(s, 1, n - 1) \o <<>> = SubSeq(s, 1, n - 1)
    BY <2>2, ConcatEmptySeq
  <2>4. QED
    BY <2>1, <2>3 DEF D!Front, D!RemoveAt
<1>4. WellListed(D!Front(s)) /\ Members(D!Front(s)) = Members(s) \ {D!Last(s)}
  BY <1>1, <1>3, TakenOut DEF D!Last
<1>5. ASSUME D!Last(s).kind = "env", NEW y \in Members(D!Front(s)), y.env = D!Last(s).env
      PROVE  FALSE
  <2>1. EnvItem(y.env) \in Members(D!Front(s))
    BY <1>4, ListMembers
  <2>2. D!Last(s) = EnvItem(D!Last(s).env)
    BY <1>2, <1>5, ListMembers
  <2>3. QED
    BY <1>4, <1>5, <2>1, <2>2
<1>6. QED
  BY <1>2, <1>4, <1>5

(* Without takes out what it names and nothing else.                       *)
LEMMA WithoutOne ==
  ASSUME WellListed(list), NEW kind \in ItemKinds \ {"env"}, NEW id
  PROVE  /\ WellListed(D!Without(kind, id))
         /\ Members(D!Without(kind, id)) =
              {x \in Members(list) : ~(x.kind = kind /\ x.id = id)}
<1>1. /\ DOMAIN list = 1 .. Len(list)
      /\ \A i, j \in 1 .. Len(list) :
           list[i].kind = list[j].kind /\ list[i].id = list[j].id => i = j
  BY ListMembers DEF WellListed
<1>2. CASE D!Listed(kind, id)
  <2> DEFINE at == CHOOSE i \in DOMAIN list : list[i].kind = kind /\ list[i].id = id
  <2>1. at \in 1 .. Len(list) /\ list[at].kind = kind /\ list[at].id = id
    BY <1>1, <1>2 DEF D!Listed
  <2>2. D!Without(kind, id) = D!RemoveAt(list, at)
    BY <1>2 DEF D!Without
  <2> HIDE DEF at
  <2>3. /\ WellListed(D!Without(kind, id))
        /\ Members(D!Without(kind, id)) = Members(list) \ {list[at]}
    BY <2>1, <2>2, TakenOut DEF ItemKinds
  <2>4. \A x \in Members(list) : x = list[at] <=> (x.kind = kind /\ x.id = id)
    BY <1>1, <2>1 DEF Members
  <2>5. QED
    BY <2>3, <2>4
<1>3. CASE ~D!Listed(kind, id)
  <2>1. D!Without(kind, id) = list
    BY <1>3 DEF D!Without
  <2>2. \A x \in Members(list) : ~(x.kind = kind /\ x.id = id)
    BY <1>1, <1>3 DEF D!Listed, Members
  <2>3. QED
    BY <2>1, <2>2
<1>4. QED
  BY <1>2, <1>3

(* What is listed, by the items.                                           *)
LEMMA IsListed ==
  ASSUME WellListed(list), NEW kind, NEW id
  PROVE  D!Listed(kind, id) <=> \E x \in Members(list) : x.kind = kind /\ x.id = id
BY ListMembers DEF D!Listed, Members

(* The functions a round closed: one more, or the first done.              *)
LEMMA ClosedOne ==
  ASSUME NEW s \in Seq(Tsfns), NoRepeats(s), NEW t \in Tsfns, t \notin Members(s)
  PROVE  /\ Append(s, t) \in Seq(Tsfns) /\ NoRepeats(Append(s, t))
         /\ Members(Append(s, t)) = Members(s) \union {t}
<1> DEFINE n == Len(s)
           r == Append(s, t)
<1>1. n \in Nat /\ \A i \in 1 .. n : s[i] # t
  BY LenProperties DEF Members
<1>2. /\ r \in Seq(Tsfns) /\ Len(r) = n + 1 /\ r[n + 1] = t
      /\ \A i \in 1 .. n : r[i] = s[i]
  BY AppendProperties
<1>3. \A i \in 1 .. n + 1 : i \in 1 .. n \/ i = n + 1
  BY <1>1
<1>4. /\ \A i \in 1 .. n : i \in 1 .. n + 1
      /\ n + 1 \in 1 .. n + 1
  BY <1>1
<1> HIDE DEF r, n
<1>5. NoRepeats(r)
  BY <1>1, <1>2, <1>3 DEF NoRepeats, n
<1>6. {r[i] : i \in 1 .. n + 1} = {s[k] : k \in 1 .. n} \union {t}
  BY <1>2, <1>3, <1>4
<1>7. QED
  BY <1>2, <1>5, <1>6 DEF Members, r, n

(* The first of them is done.                                             *)
LEMMA FirstDone ==
  ASSUME NEW s \in Seq(Tsfns), NoRepeats(s), s # <<>>
  PROVE  /\ Tail(s) \in Seq(Tsfns) /\ NoRepeats(Tail(s)) /\ Head(s) \in Members(s)
         /\ Head(s) \in Tsfns /\ Members(Tail(s)) = Members(s) \ {Head(s)}
<1> DEFINE n == Len(s)
           r == Tail(s)
<1>1. n \in Nat /\ n # 0 /\ Head(s) = s[1] /\ 1 \in 1 .. n /\ s[1] \in Tsfns
  BY EmptySeq, LenProperties, ElementOfSeq
<1>2. r \in Seq(Tsfns) /\ Len(r) = n - 1 /\ \A i \in 1 .. n - 1 : r[i] = s[i + 1]
  BY HeadTailProperties
<1>3. /\ \A i \in 1 .. n - 1 : i + 1 \in 1 .. n /\ i + 1 # 1
      /\ \A k \in 1 .. n : k = 1 \/ (k - 1 \in 1 .. n - 1 /\ (k - 1) + 1 = k)
      /\ \A i, j \in 1 .. n - 1 : i + 1 = j + 1 => i = j
  BY <1>1
<1> HIDE DEF r, n
<1>4. NoRepeats(r)
  <2>1. \A i, j \in 1 .. n : s[i] = s[j] => i = j
    BY DEF NoRepeats, n
  <2>2. QED
    BY <1>2, <1>3, <2>1 DEF NoRepeats
<1>5. {r[i] : i \in 1 .. n - 1} = {s[k] : k \in 1 .. n} \ {s[1]}
  <2>1. \A i, j \in 1 .. n : s[i] = s[j] => i = j
    BY DEF NoRepeats, n
  <2>2. ASSUME NEW i \in 1 .. n - 1
        PROVE  r[i] \in {s[k] : k \in 1 .. n} \ {s[1]}
    BY <1>1, <1>2, <1>3, <2>1
  <2>3. ASSUME NEW k \in 1 .. n, s[k] # s[1]
        PROVE  \E i \in 1 .. n - 1 : r[i] = s[k]
    BY <1>2, <1>3, <2>3
  <2>4. QED
    BY <2>2, <2>3
<1>6. QED
  BY <1>1, <1>2, <1>4, <1>5 DEF Members, r, n

-----------------------------------------------------------------------------
(* Each step keeps the invariant                                           *)

(* A fresh isolate has nothing.                                            *)
LEMMA TeardownInit ==
  ASSUME D!TeardownAssumption, D!Init
  PROVE  TeardownInv
<1>1. Members(list) = {} /\ WellListed(list)
  <2>1. Len(list) = 0 /\ list \in Seq(Items)
    BY EmptySeq DEF D!Init
  <2>2. QED
    BY <2>1 DEF Members, WellListed
<1>2. closing = <<>> /\ closing \in Seq(Tsfns) /\ Members(closing) = {} /\ NoRepeats(closing)
  <2>1. Len(closing) = 0 /\ closing \in Seq(Tsfns)
    BY EmptySeq DEF D!Init
  <2>2. QED
    BY <2>1 DEF Members, NoRepeats, D!Init
<1>3. TeardownTypes
  BY <1>2 DEF D!Init, TeardownTypes
<1>4. ListedInv /\ TsfnInv /\ ClosingInv
  BY <1>1, <1>2 DEF D!Init, ListedInv, TsfnInv, ClosingInv
<1>5. OpenInv
  BY DEF D!Init, OpenInv, D!TeardownAssumption
<1>6. CodeInv /\ PhaseInv
  BY DEF D!Init, CodeInv, PhaseInv
<1>7. QED
  BY <1>1, <1>3, <1>4, <1>5, <1>6 DEF TeardownInv

(* An addon is loaded: its env is listed and open.                         *)
LEMMA LoadAddonStep ==
  ASSUME D!TeardownAssumption, TeardownInv, NEW e \in Addons, D!LoadAddon(e)
  PROVE  TeardownInv'
<1> DEFINE E == Members(list)
<1>1. /\ pc = "live" /\ dropping = None /\ lib[e] = "none" /\ env[e] = "none" /\ waiting = {}
      /\ env' = [env EXCEPT ![e] = "open"] /\ lib' = [lib EXCEPT ![e] = "mapped"]
      /\ list' = Append(list, EnvItem(e)) /\ code' = D!Item("init", e, None)
      /\ UNCHANGED <<handles, tsfns, kept, held, again, aborted, D!round>>
  BY DEF D!LoadAddon, D!Idle, TeardownInv, OpenInv, PhaseInv, D!RunCode, EnvItem
<1>2. EnvItem(e) \in Items /\ EnvItem(e).kind = "env" /\ EnvItem(e).id = e /\ EnvItem(e).env = e
  BY DEF EnvItem, D!Item, Items, ItemKinds, Ids
<1>3. \A x \in E : x.env # e
  BY <1>1 DEF TeardownInv, ListedInv
<1>4. WellListed(list') /\ Members(list') = E \union {EnvItem(e)}
  <2>1. \A y \in E : ~(y.kind = "env" /\ y.id = e)
    <3>1. \A y \in E : y.kind = "env" => y.id = y.env
      BY ListMembers DEF TeardownInv
    <3>2. QED
      BY <1>3, <3>1
  <2>2. QED
    BY <1>1, <1>2, <2>1, ItemAdded DEF TeardownInv
<1> HIDE DEF E
<1>5. TeardownTypes'
  BY <1>1 DEF TeardownInv, TeardownTypes, D!round
<1>6. ListedInv'
  BY <1>1, <1>2, <1>3, <1>4 DEF TeardownInv, ListedInv, TeardownTypes, D!TeardownAssumption,
     E, D!round
<1>7. TsfnInv'
  <2>1. \A t \in Tsfns : tsfns[t] # None => tsfns[t] # e
    BY <1>1 DEF TeardownInv, TsfnInv
  <2>2. QED
    BY <1>1, <1>4, <2>1 DEF TeardownInv, TsfnInv, TeardownTypes, E, D!round
<1>8. ClosingInv'
  BY <1>1 DEF TeardownInv, ClosingInv, D!round
<1>9. OpenInv'
  BY <1>1, <1>4 DEF TeardownInv, OpenInv, TeardownTypes, D!HoldsEnv, E, D!round
<1>10. CodeInv'
  BY <1>1 DEF TeardownInv, CodeInv, TeardownTypes, D!Item, D!round
<1>11. PhaseInv'
  BY <1>1 DEF TeardownInv, PhaseInv, D!round
<1>12. QED
  BY <1>4, <1>5, <1>6, <1>7, <1>8, <1>9, <1>10, <1>11 DEF TeardownInv

(* Only which code runs changes.                                           *)
LEMMA OnlyCode ==
  ASSUME TeardownInv, UNCHANGED <<env, D!registry, D!round>>,
         lib' \in [Addons -> {"none", "mapped", "closed"}],
         \A e \in Addons : lib'[e] = "none" <=> lib[e] = "none",
         CodeInv'
  PROVE  TeardownInv'
<1>1. /\ UNCHANGED <<env, list, handles, tsfns, kept, held, aborted>>
      /\ UNCHANGED <<pc, closing, waiting, dropping>>
  BY DEF D!registry, D!round
<1>2. TeardownTypes'
  BY <1>1 DEF TeardownInv, TeardownTypes
<1>3. ListedInv' /\ TsfnInv' /\ ClosingInv'
  BY <1>1 DEF TeardownInv, ListedInv, TsfnInv, ClosingInv
<1>4. OpenInv'
  BY <1>1 DEF TeardownInv, OpenInv, D!HoldsEnv
<1>5. PhaseInv' /\ WellListed(list')
  BY <1>1 DEF TeardownInv, PhaseInv
<1>6. QED
  BY <1>2, <1>3, <1>4, <1>5 DEF TeardownInv

(* Addon code is entered while the isolate lives.                          *)
LEMMA EnterSteps ==
  ASSUME D!TeardownAssumption, TeardownInv,
         \/ \E e \in Addons : D!EnterAddon(e)
         \/ \E t \in Tsfns : D!FinalizeTask(t)
  PROVE  TeardownInv'
<1>1. UNCHANGED <<lib, env, D!registry, D!round>> /\ pc = "live" /\ dropping = None
  BY DEF D!EnterAddon, D!FinalizeTask, D!loading, D!Idle
<1>2. UNCHANGED <<lib, env, list, tsfns, pc, closing, dropping>>
  BY <1>1 DEF D!registry, D!round
<1>3. ASSUME NEW e \in Addons, D!EnterAddon(e)
      PROVE  CodeInv'
  <2>1. code' = D!Item("call", e, None) /\ lib[e] = "mapped"
    BY <1>3 DEF D!EnterAddon, D!RunCode
  <2>2. env[e] = "open"
    <3>1. env[e] \in {"none", "open", "freed"} /\ env[e] # "none" /\ env[e] # "freed"
      BY <1>1, <2>1 DEF TeardownInv, TeardownTypes, OpenInv, PhaseInv
    <3>2. QED
      BY <3>1
  <2>3. QED
    BY <1>1, <1>2, <2>1, <2>2 DEF CodeInv, D!Item
<1>4. ASSUME NEW t \in Tsfns, D!FinalizeTask(t)
      PROVE  CodeInv'
  <2>1. code' = D!Item("tsfn", tsfns[t], t) /\ tsfns[t] # None
    BY <1>4 DEF D!FinalizeTask, D!RunCode
  <2>2. tsfns[t] \in Addons /\ env[tsfns[t]] = "open"
    BY <2>1 DEF TeardownInv, TeardownTypes, TsfnInv
  <2>3. QED
    BY <1>1, <1>2, <2>1, <2>2 DEF CodeInv, D!Item
<1>5. CodeInv'
  BY <1>3, <1>4
<1>6. QED
  BY <1>1, <1>2, <1>5, OnlyCode DEF TeardownInv, TeardownTypes

(* Addon code returns, and the disposal begins.                            *)
LEMMA ReturnSteps ==
  ASSUME TeardownInv, D!Return \/ D!InitFails
  PROVE  TeardownInv'
<1>1. UNCHANGED <<env, D!registry, D!round>> /\ code' = None
  BY DEF D!Return, D!InitFails, D!loading
<1>2. CodeInv'
  BY <1>1 DEF CodeInv
<1>3. CASE D!Return
  BY <1>1, <1>2, <1>3, OnlyCode DEF D!Return, D!loading, TeardownInv, TeardownTypes
<1>4. CASE D!InitFails
  <2>1. code.env \in Addons /\ env[code.env] = "open" /\ code # None
    BY <1>4 DEF D!InitFails, TeardownInv, CodeInv
  <2>2. lib' = [lib EXCEPT ![code.env] = "closed"] /\ lib[code.env] # "none"
    BY <1>4, <2>1 DEF D!InitFails, TeardownInv, OpenInv
  <2>3. QED
    BY <1>1, <1>2, <2>1, <2>2, OnlyCode DEF TeardownInv, TeardownTypes
<1>5. QED
  BY <1>3, <1>4

(* The isolate is dropped: nothing is closed or waits yet.                 *)
LEMMA DisposeStep ==
  ASSUME TeardownInv, D!Dispose
  PROVE  TeardownInv'
<1>1. /\ UNCHANGED <<lib, env, list, handles, tsfns, kept, held, again, aborted>>
      /\ UNCHANGED <<code, closing, waiting, dropping>>
      /\ pc' = "pop" /\ code = None
  BY DEF D!Dispose, D!loading, D!registry, D!Idle
<1>2. TeardownTypes' /\ WellListed(list')
  BY <1>1 DEF TeardownInv, TeardownTypes
<1>3. ListedInv' /\ TsfnInv' /\ ClosingInv'
  BY <1>1 DEF TeardownInv, ListedInv, TsfnInv, ClosingInv
<1>4. OpenInv'
  BY <1>1 DEF TeardownInv, OpenInv, D!HoldsEnv
<1>5. CodeInv' /\ PhaseInv'
  BY <1>1 DEF CodeInv, PhaseInv
<1>6. QED
  BY <1>2, <1>3, <1>4, <1>5 DEF TeardownInv

(* Code that registers what is worked off later runs while its env is on   *)
(* the list; data, for an env whose data did not run.                      *)
LEMMA Registrar ==
  ASSUME D!HandledOnly, D!TeardownAssumption, TeardownInv, NEW what, D!Registering(what)
  PROVE  /\ code # None /\ code.env \in Addons /\ env[code.env] = "open"
         /\ what \in {"hook", "async", "tsfn"} =>
              /\ EnvItem(code.env) \in Members(list) /\ dropping = None
              /\ pc \in {"live", "pop"} /\ code.env \notin waiting
         /\ what = "data" => held[code.env] # "run"
<1>1. code # None /\ code.env \in Addons /\ env[code.env] = "open"
  BY DEF D!Registering, TeardownInv, CodeInv
<1>2. pc # "live" => <<code.kind, what>> \in D!Handled
  BY DEF D!Registering, D!HandledOnly
<1>3. /\ what \in {"hook", "async", "tsfn"} /\ pc # "live" => code.kind \in {"hook", "async"}
      /\ what = "data" /\ pc # "live" => code.kind # "finalizer"
  BY <1>2 DEF D!Handled
<1>4. ASSUME pc = "live"
      PROVE  EnvItem(code.env) \in Members(list) /\ dropping = None /\ waiting = {}
  BY <1>1, <1>4 DEF TeardownInv, PhaseInv, OpenInv, D!TeardownAssumption
<1>5. ASSUME code.kind \in {"hook", "async"}
      PROVE  EnvItem(code.env) \in Members(list) /\ dropping = None /\ pc = "pop"
  BY <1>1, <1>5 DEF TeardownInv, CodeInv
<1>6. EnvItem(code.env) \in Members(list) => code.env \notin waiting
  BY DEF TeardownInv, ListedInv, EnvItem, D!Item
<1>7. ASSUME what = "data"
      PROVE  held[code.env] # "run"
  <2>1. dropping = None
    BY <1>1, <1>3, <1>4, <1>7 DEF TeardownInv, CodeInv
  <2>2. QED
    BY <1>1, <2>1 DEF TeardownInv, OpenInv, D!TeardownAssumption
<1>8. QED
  BY <1>1, <1>3, <1>4, <1>5, <1>6, <1>7

(* An item of the code that runs is listed, a function perhaps opened.     *)
LEMMA RegisterStep ==
  ASSUME D!TeardownAssumption, TeardownInv, code # None, code.env \in Addons,
         env[code.env] = "open",
         EnvItem(code.env) \in Members(list), dropping = None, pc \in {"live", "pop"},
         code.env \notin waiting,
         NEW kind \in {"hook", "async", "tsfn"}, NEW id \in Ids,
         \A x \in Members(list) : ~(x.kind = kind /\ x.id = id),
         list' = Append(list, D!Item(kind, code.env, id)),
         handles \subseteq handles', kind = "async" => id \in handles',
         IF kind = "tsfn" THEN /\ id \in Tsfns /\ tsfns[id] = None /\ id \notin Members(closing)
                               /\ tsfns' = [tsfns EXCEPT ![id] = code.env]
         ELSE UNCHANGED tsfns,
         UNCHANGED <<D!loading, kept, held, aborted, code, D!round>>
  PROVE  TeardownInv'
<1> DEFINE E == Members(list)
           x == D!Item(kind, code.env, id)
<1>1. UNCHANGED <<lib, env, kept, held, aborted, code, pc, closing, waiting, dropping>>
  BY DEF D!loading, D!round
<1>2. x \in Items /\ x.kind = kind /\ x.env = code.env /\ x.id = id /\ kind # "env"
  BY DEF D!Item, Items, ItemKinds
<1>3. WellListed(list') /\ Members(list') = E \union {x}
  BY <1>2, ItemAdded DEF TeardownInv
<1>4. /\ tsfns' \in [Tsfns -> Addons \union {None}]
      /\ \A t \in Tsfns : IF kind = "tsfn" /\ t = id
                          THEN tsfns[t] = None /\ tsfns'[t] = code.env
                          ELSE tsfns'[t] = tsfns[t]
  BY DEF TeardownInv, TeardownTypes
<1> HIDE DEF E, x
<1>5. TeardownTypes'
  BY <1>1, <1>4 DEF TeardownInv, TeardownTypes
<1>6. ListedInv'
  <2>1. ASSUME NEW y \in E
        PROVE  /\ y.kind = "tsfn" => /\ y.id \in Tsfns /\ tsfns'[y.id] = y.env
                                     /\ y.id \notin Members(closing')
               /\ y.kind = "async" => y.id \in handles'
               /\ env'[y.env] = "open" /\ y.env \notin waiting' /\ y.env # dropping'
    BY <1>1, <1>4 DEF TeardownInv, ListedInv, E
  <2>2. /\ x.kind = "tsfn" => /\ x.id \in Tsfns /\ tsfns'[x.id] = x.env
                              /\ x.id \notin Members(closing')
        /\ x.kind = "async" => x.id \in handles'
        /\ env'[x.env] = "open" /\ x.env \notin waiting' /\ x.env # dropping'
    BY <1>1, <1>2, <1>4 DEF D!TeardownAssumption
  <2>3. QED
    BY <1>3, <2>1, <2>2 DEF ListedInv
<1>7. TsfnInv'
  <2> SUFFICES ASSUME NEW t \in Tsfns, tsfns'[t] # None
               PROVE  /\ env'[tsfns'[t]] = "open" /\ tsfns'[t] # dropping'
                      /\ \/ D!Item("tsfn", tsfns'[t], t) \in Members(list')
                         \/ t \in Members(closing')
    BY DEF TsfnInv
  <2>1. CASE kind = "tsfn" /\ t = id
    BY <1>1, <1>3, <1>4, <2>1 DEF x, D!TeardownAssumption
  <2>2. CASE ~(kind = "tsfn" /\ t = id)
    BY <1>1, <1>3, <1>4, <2>2 DEF TeardownInv, TsfnInv, E
  <2>3. QED
    BY <2>1, <2>2
<1>8. ClosingInv'
  <2>1. Members(closing) \subseteq Tsfns
    BY ElementOfSeq DEF TeardownInv, TeardownTypes, Members
  <2>2. \A t \in Members(closing) : ~(kind = "tsfn" /\ t = id)
    OBVIOUS
  <2>3. QED
    BY <1>1, <1>4, <2>1, <2>2 DEF TeardownInv, ClosingInv
<1>9. OpenInv'
  <2>1. \A e \in Addons : D!HoldsEnv(e) /\ e # None => D!HoldsEnv(e)'
    BY <1>4 DEF D!HoldsEnv
  <2>2. QED
    BY <1>1, <1>3, <2>1 DEF TeardownInv, OpenInv, E, D!TeardownAssumption
<1>10. CodeInv'
  <2>1. code.kind = "tsfn" /\ code.id \in Tsfns /\ tsfns[code.id] = code.env =>
          tsfns'[code.id] = code.env
    BY <1>4 DEF D!TeardownAssumption
  <2>2. QED
    BY <1>1, <1>3, <2>1 DEF TeardownInv, CodeInv, E
<1>11. PhaseInv'
  BY <1>1 DEF TeardownInv, PhaseInv
<1>12. QED
  BY <1>3, <1>5, <1>6, <1>7, <1>8, <1>9, <1>10, <1>11 DEF TeardownInv

(* Hooks are added, a function is created.                                 *)
LEMMA RegisterSteps ==
  ASSUME D!HandledOnly, D!TeardownAssumption, TeardownInv,
         \/ \E h \in Hooks : D!AddHook(h)
         \/ \E h \in AsyncHooks : D!AddAsyncHook(h)
         \/ \E t \in Tsfns : D!CreateTsfn(t)
  PROVE  TeardownInv'
<1>1. Hooks \subseteq Ids /\ AsyncHooks \subseteq Ids /\ Tsfns \subseteq Ids
  BY DEF Ids
<1>2. ASSUME NEW h \in Hooks, D!AddHook(h)
      PROVE  TeardownInv'
  <2>1. \A x \in Members(list) : ~(x.kind = "hook" /\ x.id = h)
    BY <1>2, IsListed DEF D!AddHook, TeardownInv
  <2>2. QED
    BY <1>1, <1>2, <2>1, Registrar, RegisterStep DEF D!AddHook
<1>3. ASSUME NEW h \in AsyncHooks, D!AddAsyncHook(h)
      PROVE  TeardownInv'
  <2>1. \A x \in Members(list) : ~(x.kind = "async" /\ x.id = h)
    BY <1>3 DEF D!AddAsyncHook, TeardownInv, ListedInv
  <2>2. QED
    BY <1>1, <1>3, <2>1, Registrar, RegisterStep DEF D!AddAsyncHook
<1>4. ASSUME NEW t \in Tsfns, D!CreateTsfn(t)
      PROVE  TeardownInv'
  <2>1. Members(closing) = D!ToSet(closing)
    BY LenProperties DEF Members, D!ToSet, TeardownInv, TeardownTypes
  <2>2. \A x \in Members(list) : ~(x.kind = "tsfn" /\ x.id = t)
    <3>1. ASSUME NEW x \in Members(list), x.kind = "tsfn", x.id = t
          PROVE  FALSE
      <4>1. x.env \in Addons
        BY ListMembers DEF TeardownInv, Items
      <4>2. QED
        BY <1>4, <3>1, <4>1 DEF D!CreateTsfn, TeardownInv, ListedInv, D!TeardownAssumption
    <3>2. QED
      BY <3>1
  <2>3. /\ D!Registering("tsfn") /\ tsfns[t] = None /\ t \notin Members(closing)
        /\ tsfns' = [tsfns EXCEPT ![t] = code.env]
        /\ list' = Append(list, D!Item("tsfn", code.env, t))
        /\ UNCHANGED <<D!loading, handles, kept, held, aborted, code, D!round>>
    BY <1>4, <2>1 DEF D!CreateTsfn
  <2>4. /\ code # None /\ code.env \in Addons /\ env[code.env] = "open"
        /\ EnvItem(code.env) \in Members(list) /\ dropping = None
        /\ pc \in {"live", "pop"} /\ code.env \notin waiting
    BY <2>3, Registrar
  <2>5. t \in Ids /\ handles' = handles
    BY <1>1, <2>3
  <2>6. QED
    BY <2>2, <2>3, <2>4, <2>5, RegisterStep
<1>5. QED
  BY <1>2, <1>3, <1>4

(* A hook is taken off the list, with its handle or without one.           *)
LEMMA RemoveSteps ==
  ASSUME D!TeardownAssumption, TeardownInv,
         \/ \E h \in Hooks : D!RemoveHook(h)
         \/ \E h \in AsyncHooks : D!RemoveAsyncHook(h)
  PROVE  TeardownInv'
<1>1. PICK kind \in {"hook", "async"}, h \in Hooks \union AsyncHooks :
        /\ list' = D!Without(kind, h)
        /\ handles' = IF kind = "async" THEN handles \ {h} ELSE handles
        /\ UNCHANGED <<lib, env, tsfns, kept, held, aborted, code, pc, closing, waiting>>
        /\ dropping' = dropping
  BY DEF D!RemoveHook, D!RemoveAsyncHook, D!loading, D!round
<1>2. /\ WellListed(list')
      /\ Members(list') = {x \in Members(list) : ~(x.kind = kind /\ x.id = h)}
  BY <1>1, WithoutOne DEF TeardownInv, ItemKinds
<1>3. \A x : x.kind \in {"env", "tsfn"} => (x \in Members(list') <=> x \in Members(list))
  BY <1>2
<1>4. TeardownTypes'
  BY <1>1 DEF TeardownInv, TeardownTypes
<1>5. ListedInv'
  BY <1>1, <1>2 DEF TeardownInv, ListedInv
<1>6. TsfnInv'
  BY <1>1, <1>3 DEF TeardownInv, TsfnInv, D!Item
<1>7. ClosingInv'
  BY <1>1 DEF TeardownInv, ClosingInv
<1>8. OpenInv'
  <2>1. \A f : EnvItem(f) \in Members(list') <=> EnvItem(f) \in Members(list)
    BY <1>3 DEF EnvItem, D!Item
  <2>2. \A f : D!HoldsEnv(f)' <=> D!HoldsEnv(f)
    BY <1>1 DEF D!HoldsEnv
  <2>3. QED
    BY <1>1, <2>1, <2>2 DEF TeardownInv, OpenInv
<1>9. CodeInv'
  BY <1>1, <1>3 DEF TeardownInv, CodeInv, EnvItem, D!Item
<1>10. PhaseInv'
  <2>1. list = <<>> => list' = <<>>
    BY <1>2, ListMembers DEF TeardownInv
  <2>2. QED
    BY <1>1, <2>1 DEF TeardownInv, PhaseInv
<1>11. QED
  BY <1>2, <1>4, <1>5, <1>6, <1>7, <1>8, <1>9, <1>10 DEF TeardownInv

(* A finalizer is recorded, or instance data, whose env did not run any.   *)
LEMMA RecordAdded ==
  ASSUME D!HandledOnly, D!TeardownAssumption, TeardownInv,
         D!AddFinalizer \/ D!SetInstanceData
  PROVE  TeardownInv'
<1> DEFINE e == code.env
<1>1. /\ code # None /\ e \in Addons /\ env[e] = "open"
      /\ D!SetInstanceData => held[e] # "run"
  BY Registrar DEF D!AddFinalizer, D!SetInstanceData
<1>2. /\ UNCHANGED <<lib, env, list, handles, tsfns, aborted, code, pc, closing, waiting>>
      /\ dropping' = dropping
  BY <1>1 DEF D!AddFinalizer, D!SetInstanceData, D!loading, D!round
<1>3. /\ kept' = [f \in Addons |-> kept'[f]]
      /\ \A f \in Addons \ {e} : kept'[f] = kept[f] /\ held'[f] = held[f]
      /\ held' \in [Addons -> {"none", "held", "run"}]
      /\ held'[e] = "run" => held[e] = "run"
  BY <1>1 DEF D!AddFinalizer, D!SetInstanceData, TeardownInv, TeardownTypes
<1> HIDE DEF e
<1>4. TeardownTypes'
  BY <1>2, <1>3 DEF TeardownInv, TeardownTypes
<1>5. ListedInv' /\ TsfnInv' /\ ClosingInv' /\ WellListed(list')
  BY <1>2 DEF TeardownInv, ListedInv, TsfnInv, ClosingInv
<1>6. OpenInv'
  BY <1>1, <1>2, <1>3 DEF TeardownInv, OpenInv, D!HoldsEnv
<1>7. CodeInv' /\ PhaseInv'
  BY <1>2 DEF TeardownInv, CodeInv, PhaseInv
<1>8. QED
  BY <1>4, <1>5, <1>6, <1>7 DEF TeardownInv

(* The disposal takes the newest item.                                     *)
LEMMA PopSteps ==
  ASSUME D!TeardownAssumption, TeardownInv, D!PopEnv \/ D!PopHook \/ D!PopTsfn
  PROVE  TeardownInv'
<1> DEFINE x == D!Newest
           E == Members(list)
<1>1. /\ code = None /\ dropping = None /\ pc = "pop" /\ list # <<>> /\ list' = D!Front(list)
      /\ UNCHANGED <<lib, env, handles, tsfns, kept, held, aborted, pc>>
  BY DEF D!PopEnv, D!PopHook, D!PopTsfn, D!Popping, D!Idle, D!loading, D!round, D!registry
<1>2. /\ x \in E /\ x \in Items /\ WellListed(list') /\ Members(list') = E \ {x}
      /\ x.kind = "env" => \A y \in Members(list') : y.env # x.env
      /\ IF x.kind = "env" THEN x = EnvItem(x.env) ELSE EnvItem(x.env) \in E
  BY <1>1, NewestTaken, ListMembers DEF TeardownInv, D!Newest
<1>3. /\ x.env \in Addons /\ env[x.env] = "open" /\ x.env \notin waiting /\ x.env # None
      /\ x.kind = "tsfn" => /\ x.id \in Tsfns /\ tsfns[x.id] = x.env
                            /\ x.id \notin Members(closing)
  BY <1>2 DEF Items, TeardownInv, ListedInv, D!TeardownAssumption
<1> HIDE DEF x, E
<1>4. CASE D!PopEnv
  <2>1. /\ x.kind = "env" /\ UNCHANGED <<code, closing>>
        /\ \/ D!HoldsEnv(x.env) /\ waiting' = waiting \union {x.env} /\ dropping' = dropping
           \/ ~D!HoldsEnv(x.env) /\ waiting' = waiting /\ dropping' = x.env
    BY <1>4 DEF D!PopEnv, x, D!IsHeld
  <2>2. TeardownTypes'
    BY <1>1, <1>3, <2>1 DEF TeardownInv, TeardownTypes
  <2>3. ListedInv'
    BY <1>1, <1>2, <2>1 DEF TeardownInv, ListedInv, E
  <2>4. TsfnInv'
    <3>1. \A t \in Tsfns : D!Item("tsfn", tsfns[t], t) # x
      BY <2>1 DEF D!Item
    <3>2. ASSUME NEW t \in Tsfns, tsfns[t] # None
          PROVE  /\ env[tsfns[t]] = "open" /\ tsfns[t] # dropping'
                 /\ \/ D!Item("tsfn", tsfns[t], t) \in E \ {x}
                    \/ t \in Members(closing)
      <4>1. tsfns[t] # dropping'
        BY <1>1, <2>1, <3>2 DEF D!HoldsEnv
      <4>2. QED
        BY <3>1, <3>2, <4>1 DEF TeardownInv, TsfnInv, E
    <3>3. QED
      BY <1>1, <1>2, <2>1, <3>2 DEF TsfnInv
  <2>5. ClosingInv'
    BY <1>1, <2>1 DEF TeardownInv, ClosingInv
  <2>6. OpenInv'
    <3>1. \A f \in Addons : f # x.env => EnvItem(f) # x
      BY <2>1 DEF EnvItem, D!Item
    <3>2. \A f : D!HoldsEnv(f)' <=> D!HoldsEnv(f)
      BY <1>1 DEF D!HoldsEnv
    <3>3. \A f \in Addons : f # x.env =>
            (EnvItem(f) \in Members(list') <=> EnvItem(f) \in Members(list))
      BY <1>2, <3>1 DEF E
    <3>4. ASSUME NEW f \in Addons
          PROVE  /\ env[f] = "open" =>
                      EnvItem(f) \in Members(list') \/ f \in waiting' \/ f = dropping'
                 /\ f \in waiting' => env[f] = "open" /\ D!HoldsEnv(f) /\ f # dropping'
                 /\ f = dropping' => env[f] = "open"
      <4>1. CASE f = x.env
        BY <1>1, <1>3, <2>1, <4>1
      <4>2. CASE f # x.env
        BY <1>1, <2>1, <3>3, <4>2 DEF TeardownInv, OpenInv, D!TeardownAssumption
      <4>3. QED
        BY <4>1, <4>2
    <3>5. \A f \in Addons : held[f] = "run" => f = dropping' \/ env[f] = "freed"
      BY <1>1, <2>1 DEF TeardownInv, OpenInv, D!TeardownAssumption
    <3>6. QED
      BY <1>1, <3>2, <3>4, <3>5 DEF TeardownInv, OpenInv
  <2>7. CodeInv' /\ PhaseInv'
    BY <1>1, <2>1 DEF CodeInv, PhaseInv
  <2>8. QED
    BY <1>2, <2>2, <2>3, <2>4, <2>5, <2>6, <2>7 DEF TeardownInv
<1>5. CASE D!PopHook
  <2>1. x.kind \in {"hook", "async"} /\ code' = x /\ UNCHANGED <<closing, waiting, dropping>>
    BY <1>5 DEF D!PopHook, x, D!round
  <2>2. \A y : y.kind \in {"env", "tsfn"} => (y \in Members(list') <=> y \in E)
    BY <1>2, <2>1
  <2>3. TeardownTypes'
    BY <1>1, <2>1 DEF TeardownInv, TeardownTypes
  <2>4. ListedInv' /\ ClosingInv'
    BY <1>1, <1>2, <2>1 DEF TeardownInv, ListedInv, ClosingInv, E
  <2>5. TsfnInv'
    BY <1>1, <2>1, <2>2 DEF TeardownInv, TsfnInv, D!Item, E
  <2>6. OpenInv'
    <3>1. \A f : EnvItem(f) \in Members(list') <=> EnvItem(f) \in Members(list)
      BY <2>2 DEF EnvItem, D!Item, E
    <3>2. \A f : D!HoldsEnv(f)' <=> D!HoldsEnv(f)
      BY <1>1 DEF D!HoldsEnv
    <3>3. QED
      BY <1>1, <2>1, <3>1, <3>2 DEF TeardownInv, OpenInv
  <2>7. CodeInv'
    <3>1. EnvItem(x.env) \in Members(list')
      BY <1>2, <2>1, <2>2 DEF EnvItem, D!Item
    <3>2. QED
      BY <1>1, <1>3, <2>1, <3>1 DEF CodeInv
  <2>8. PhaseInv'
    BY <1>1, <2>1 DEF PhaseInv
  <2>9. QED
    BY <1>2, <2>3, <2>4, <2>5, <2>6, <2>7, <2>8 DEF TeardownInv
<1>6. CASE D!PopTsfn
  <2>1. /\ x.kind = "tsfn" /\ closing' = Append(closing, x.id)
        /\ UNCHANGED <<code, waiting, dropping>>
    BY <1>6 DEF D!PopTsfn, x
  <2>2. /\ closing' \in Seq(Tsfns) /\ NoRepeats(closing')
        /\ Members(closing') = Members(closing) \union {x.id}
    BY <1>3, <2>1, ClosedOne DEF TeardownInv, TeardownTypes, ClosingInv
  <2>3. \A f : EnvItem(f) \in Members(list') <=> EnvItem(f) \in E
    BY <1>2, <2>1 DEF EnvItem, D!Item
  <2>4. TeardownTypes'
    BY <1>1, <2>1, <2>2 DEF TeardownInv, TeardownTypes
  <2>5. ListedInv'
    <3>1. \A y \in E \ {x} : y.kind = "tsfn" => y.id # x.id
      <4>1. ASSUME NEW y \in E \ {x}, y.kind = "tsfn", y.id = x.id
            PROVE  FALSE
        BY <1>2, <2>1, <4>1 DEF TeardownInv, WellListed, Members, E
      <4>2. QED
        BY <4>1
    <3>2. QED
      BY <1>1, <1>2, <2>1, <2>2, <3>1 DEF TeardownInv, ListedInv, E
  <2>6. TsfnInv'
    <3>1. \A t \in Tsfns : t # x.id => D!Item("tsfn", tsfns[t], t) # x
      BY DEF D!Item
    <3>2. QED
      BY <1>1, <1>2, <2>1, <2>2, <3>1 DEF TeardownInv, TsfnInv, E
  <2>7. ClosingInv'
    BY <1>1, <1>3, <2>1, <2>2 DEF TeardownInv, ClosingInv
  <2>8. OpenInv'
    BY <1>1, <2>1, <2>3 DEF TeardownInv, OpenInv, D!HoldsEnv, E
  <2>9. CodeInv' /\ PhaseInv'
    BY <1>1, <2>1 DEF CodeInv, PhaseInv
  <2>10. QED
    BY <1>2, <2>2, <2>4, <2>5, <2>6, <2>7, <2>8, <2>9 DEF TeardownInv
<1>7. QED
  BY <1>4, <1>5, <1>6

(* The list is empty: the functions that were closed are finalized, if any.*)
LEMMA ListEmptyStep ==
  ASSUME D!TeardownAssumption, TeardownInv, D!ListEmpty
  PROVE  TeardownInv'
<1>1. /\ code = None /\ dropping = None /\ pc = "pop" /\ list = <<>>
      /\ UNCHANGED <<lib, env, list, handles, tsfns, kept, held, aborted, code, closing>>
      /\ UNCHANGED <<waiting, dropping>>
      /\ pc' = IF closing = <<>> THEN "done" ELSE "finalize"
  BY DEF D!ListEmpty, D!Idle, D!loading, D!registry
<1>2. Members(list) = {} /\ (closing = <<>> => Members(closing) = {})
  <2>1. closing = <<>> => Len(closing) = 0
    BY EmptySeq
  <2>2. QED
    BY <1>1, <2>1, ListMembers DEF TeardownInv, Members
<1>3. TeardownTypes' /\ WellListed(list')
  BY <1>1 DEF TeardownInv, TeardownTypes
<1>4. ListedInv' /\ TsfnInv' /\ ClosingInv'
  BY <1>1 DEF TeardownInv, ListedInv, TsfnInv, ClosingInv
<1>5. OpenInv' /\ CodeInv'
  BY <1>1 DEF TeardownInv, OpenInv, D!HoldsEnv, CodeInv
<1>6. closing = <<>> => waiting = {}
  <2>1. ASSUME closing = <<>>, NEW e \in waiting
        PROVE  FALSE
    <3>1. e \in Addons /\ D!HoldsEnv(e)
      BY DEF TeardownInv, TeardownTypes, OpenInv
    <3>2. PICK t \in Tsfns : tsfns[t] = e
      BY <3>1 DEF D!HoldsEnv
    <3>3. QED
      BY <1>2, <2>1, <3>1, <3>2 DEF TeardownInv, TsfnInv, D!TeardownAssumption
  <2>2. QED
    BY <2>1
<1>7. PhaseInv'
  BY <1>1, <1>6 DEF PhaseInv
<1>8. QED
  BY <1>3, <1>4, <1>5, <1>7 DEF TeardownInv

(* A closed function's finalizer runs.                                     *)
LEMMA FinalizeStep ==
  ASSUME D!TeardownAssumption, TeardownInv, D!Finalize
  PROVE  TeardownInv'
<1>1. /\ UNCHANGED <<lib, env, D!registry, D!round>> /\ pc = "finalize" /\ dropping = None
      /\ closing # <<>> /\ code' = D!Item("tsfn", tsfns[Head(closing)], Head(closing))
  BY DEF D!Finalize, D!Idle, D!loading, D!RunCode
<1>2. UNCHANGED <<lib, env, tsfns, pc, closing, dropping, list>>
  BY <1>1 DEF D!registry, D!round
<1>3. Head(closing) \in Tsfns /\ Head(closing) \in Members(closing)
  BY <1>1, FirstDone DEF TeardownInv, TeardownTypes, ClosingInv
<1>4. tsfns[Head(closing)] \in Addons /\ env[tsfns[Head(closing)]] = "open"
  BY <1>3 DEF TeardownInv, TeardownTypes, TsfnInv, ClosingInv
<1>5. CodeInv'
  BY <1>1, <1>2, <1>3, <1>4 DEF CodeInv, D!Item
<1>6. QED
  BY <1>1, <1>5, OnlyCode DEF TeardownInv, TeardownTypes, OpenInv

(* A function is finalized; an env that waited for its last one goes.      *)
LEMMA FinalizedStep ==
  ASSUME D!TeardownAssumption, TeardownInv, D!Finalized
  PROVE  TeardownInv'
<1> DEFINE Still(f) == \E u \in Tsfns : tsfns'[u] = f
<1>0. PICK t, e : t = code.id /\ e = code.env
  OBVIOUS
<1>1. /\ code # None /\ code.kind = "tsfn" /\ dropping = None
      /\ t \in Tsfns /\ e \in Addons /\ tsfns[t] = e /\ e # None /\ env[e] = "open"
      /\ pc = "live" \/ (pc = "finalize" /\ closing # <<>> /\ t = Head(closing))
      /\ code' = None /\ tsfns' = [tsfns EXCEPT ![t] = None]
      /\ list' = D!Without("tsfn", t)
      /\ UNCHANGED <<lib, env, handles, kept, held, aborted, pc>>
  BY <1>0 DEF D!Finalized, TeardownInv, CodeInv, D!TeardownAssumption, D!loading
<1>2. /\ WellListed(list')
      /\ Members(list') = {x \in Members(list) : ~(x.kind = "tsfn" /\ x.id = t)}
  BY <1>1, WithoutOne DEF TeardownInv, ItemKinds
<1>3. \A f : EnvItem(f) \in Members(list') <=> EnvItem(f) \in Members(list)
  BY <1>2 DEF EnvItem, D!Item
<1>4. /\ tsfns' \in [Tsfns -> Addons \union {None}] /\ tsfns'[t] = None
      /\ \A u \in Tsfns : u # t => tsfns'[u] = tsfns[u]
  BY <1>1 DEF TeardownInv, TeardownTypes
<1> HIDE DEF Still
<1>5. /\ closing' \in Seq(Tsfns) /\ NoRepeats(closing')
      /\ Members(closing') = Members(closing) \ {t}
      /\ pc = "live" => closing' = <<>>
  <2>1. CASE pc = "live"
    <3>1. closing = <<>> /\ closing' = closing
      BY <2>1 DEF TeardownInv, PhaseInv, D!Finalized
    <3>2. Members(closing) = {}
      <4>1. Len(closing) = 0
        BY <3>1, EmptySeq
      <4>2. QED
        BY <4>1 DEF Members
    <3>3. QED
      BY <3>1, <3>2 DEF TeardownInv, TeardownTypes, ClosingInv
  <2>2. CASE pc = "finalize"
    <3>1. closing' = Tail(closing) /\ closing # <<>> /\ t = Head(closing)
      BY <1>1, <2>2 DEF D!Finalized
    <3>2. QED
      BY <2>2, <3>1, FirstDone DEF TeardownInv, TeardownTypes, ClosingInv
  <2>3. QED
    BY <1>1, <2>1, <2>2
<1>6. \/ waiting' = waiting /\ dropping' = None /\ (e \in waiting => Still(e))
      \/ /\ waiting' = waiting \ {e} /\ dropping' = e /\ ~Still(e)
         /\ e \in waiting /\ pc = "finalize"
  <2>1. CASE pc = "live"
    BY <1>1, <2>1 DEF D!Finalized, TeardownInv, PhaseInv
  <2>2. CASE pc = "finalize"
    BY <1>0, <1>1, <2>2 DEF D!Finalized, D!DropIfLast, Still
  <2>3. QED
    BY <1>1, <2>1, <2>2
<1>7. ASSUME NEW f \in Addons, f # e
      PROVE  D!HoldsEnv(f) => Still(f)
  BY <1>1, <1>4, <1>7 DEF D!HoldsEnv, Still
<1>8. TeardownTypes'
  BY <1>1, <1>4, <1>5, <1>6 DEF TeardownInv, TeardownTypes
<1>9. ListedInv'
  <2>1. pc = "finalize" => Members(list) = {}
    BY ListMembers DEF TeardownInv, PhaseInv
  <2>2. \A x \in Members(list') : x.env \in Addons
    BY <1>2, ListMembers DEF Items, TeardownInv
  <2>3. QED
    BY <1>1, <1>2, <1>4, <1>5, <1>6, <2>1, <2>2 DEF TeardownInv, ListedInv, D!TeardownAssumption
<1>10. TsfnInv'
  <2> SUFFICES ASSUME NEW u \in Tsfns, tsfns'[u] # None
               PROVE  /\ env'[tsfns'[u]] = "open" /\ tsfns'[u] # dropping'
                      /\ \/ D!Item("tsfn", tsfns'[u], u) \in Members(list')
                         \/ u \in Members(closing')
    BY DEF TsfnInv
  <2>1. u # t /\ tsfns'[u] = tsfns[u] /\ Still(tsfns[u])
    BY <1>4 DEF Still
  <2>2. \/ D!Item("tsfn", tsfns'[u], u) \in Members(list')
        \/ u \in Members(closing')
    BY <1>2, <1>5, <2>1 DEF TeardownInv, TsfnInv, D!Item
  <2>3. QED
    BY <1>1, <1>6, <2>1, <2>2 DEF TeardownInv, TsfnInv
<1>11. ClosingInv'
  <2>1. Members(closing) \subseteq Tsfns
    BY ElementOfSeq DEF TeardownInv, TeardownTypes, Members
  <2>2. QED
    BY <1>4, <1>5, <2>1 DEF TeardownInv, ClosingInv
<1>12. OpenInv'
  <2> SUFFICES ASSUME NEW f \in Addons
               PROVE  /\ env[f] = "open" =>
                           EnvItem(f) \in Members(list') \/ f \in waiting' \/ f = dropping'
                      /\ env[f] # "open" => kept[f] = <<>>
                      /\ held[f] = "run" => f = dropping' \/ env[f] = "freed"
                      /\ lib[f] = "none" <=> env[f] = "none"
                      /\ f \in waiting' => env[f] = "open" /\ D!HoldsEnv(f)' /\ f # dropping'
                      /\ f = dropping' => env[f] = "open"
    BY <1>1 DEF OpenInv
  <2>1. f # None /\ (D!HoldsEnv(f)' <=> Still(f))
    BY DEF D!TeardownAssumption, D!HoldsEnv, Still
  <2>2. QED
    BY <1>1, <1>3, <1>6, <1>7, <2>1 DEF TeardownInv, OpenInv
<1>13. CodeInv' /\ PhaseInv'
  <2>1. list = <<>> => list' = <<>>
    BY <1>2, ListMembers DEF TeardownInv
  <2>2. QED
    BY <1>1, <1>5, <1>6, <2>1 DEF TeardownInv, CodeInv, PhaseInv
<1>14. QED
  BY <1>2, <1>8, <1>9, <1>10, <1>11, <1>12, <1>13 DEF TeardownInv

(* The next round: no env waits for a function that is not closed.         *)
LEMMA NextRoundStep ==
  ASSUME D!TeardownAssumption, TeardownInv, D!NextRound
  PROVE  TeardownInv'
<1>1. /\ code = None /\ dropping = None /\ pc = "finalize" /\ closing = <<>> /\ list = <<>>
      /\ UNCHANGED <<lib, env, list, handles, tsfns, kept, held, aborted, code, closing>>
      /\ pc' = "pop" /\ waiting' = {} /\ dropping' = dropping
  BY DEF D!NextRound, D!Idle, D!loading, D!registry, TeardownInv, PhaseInv
<1>2. Members(list) = {} /\ Members(closing) = {}
  <2>1. Len(closing) = 0
    BY <1>1, EmptySeq
  <2>2. QED
    BY <1>1, <2>1, ListMembers DEF TeardownInv, Members
<1>3. waiting = {}
  <2>1. ASSUME NEW e \in waiting
        PROVE  FALSE
    <3>1. e \in Addons /\ D!HoldsEnv(e)
      BY DEF TeardownInv, TeardownTypes, OpenInv
    <3>2. PICK t \in Tsfns : tsfns[t] = e
      BY <3>1 DEF D!HoldsEnv
    <3>3. QED
      BY <1>2, <3>1, <3>2 DEF TeardownInv, TsfnInv, D!TeardownAssumption
  <2>2. QED
    BY <2>1
<1>4. TeardownTypes' /\ WellListed(list')
  BY <1>1 DEF TeardownInv, TeardownTypes
<1>5. ListedInv' /\ TsfnInv' /\ ClosingInv'
  BY <1>1, <1>3 DEF TeardownInv, ListedInv, TsfnInv, ClosingInv
<1>6. OpenInv'
  BY <1>1, <1>3 DEF TeardownInv, OpenInv, D!HoldsEnv
<1>7. CodeInv' /\ PhaseInv'
  BY <1>1 DEF CodeInv, PhaseInv
<1>8. QED
  BY <1>4, <1>5, <1>6, <1>7 DEF TeardownInv

(* The env that is dropped runs its finalizers.                            *)
LEMMA RunFinalizerStep ==
  ASSUME D!TeardownAssumption, TeardownInv, D!RunFinalizer
  PROVE  TeardownInv'
<1>1. /\ dropping \in Addons /\ dropping # None /\ env[dropping] = "open" /\ code = None
      /\ kept' = [kept EXCEPT ![dropping] = D!Front(@)]
      /\ held' = [held EXCEPT ![dropping] =
                        IF D!Last(kept[dropping]) = "data" THEN "run" ELSE @]
      /\ code' = D!Item("finalizer", dropping, None)
      /\ UNCHANGED <<lib, env, list, handles, tsfns, aborted, pc, closing, waiting, dropping>>
  BY DEF D!RunFinalizer, D!RunCode, TeardownInv, TeardownTypes, OpenInv, D!loading, D!round
<1>2. /\ kept' = [f \in Addons |-> kept'[f]]
      /\ \A f \in Addons \ {dropping} : kept'[f] = kept[f] /\ held'[f] = held[f]
      /\ held' \in [Addons -> {"none", "held", "run"}]
  BY <1>1 DEF TeardownInv, TeardownTypes
<1>3. TeardownTypes'
  BY <1>1, <1>2 DEF TeardownInv, TeardownTypes
<1>4. ListedInv' /\ TsfnInv' /\ ClosingInv' /\ WellListed(list')
  BY <1>1 DEF TeardownInv, ListedInv, TsfnInv, ClosingInv
<1>5. OpenInv'
  BY <1>1, <1>2 DEF TeardownInv, OpenInv, D!HoldsEnv
<1>6. CodeInv' /\ PhaseInv'
  BY <1>1 DEF TeardownInv, CodeInv, PhaseInv, D!Item
<1>7. QED
  BY <1>3, <1>4, <1>5, <1>6 DEF TeardownInv

(* The env is freed once they all ran.                                     *)
LEMMA FreeEnvStep ==
  ASSUME D!TeardownAssumption, TeardownInv, D!FreeEnv
  PROVE  TeardownInv'
<1>1. /\ dropping \in Addons /\ dropping # None /\ env[dropping] = "open" /\ code = None
      /\ kept[dropping] = <<>>
      /\ env' = [env EXCEPT ![dropping] = "freed"] /\ dropping' = None
      /\ UNCHANGED <<lib, list, handles, tsfns, kept, held, aborted>>
      /\ UNCHANGED <<code, pc, closing, waiting>>
  BY DEF D!FreeEnv, TeardownInv, TeardownTypes, OpenInv, D!registry
<1>2. TeardownTypes'
  BY <1>1 DEF TeardownInv, TeardownTypes
<1>3. ListedInv'
  <2>1. \A x \in Members(list) : x.env \in Addons
    BY ListMembers DEF TeardownInv, Items
  <2>2. QED
    BY <1>1, <2>1 DEF TeardownInv, TeardownTypes, ListedInv, D!TeardownAssumption
<1>4. TsfnInv' /\ ClosingInv' /\ WellListed(list')
  BY <1>1 DEF TeardownInv, TeardownTypes, TsfnInv, ClosingInv
<1>5. OpenInv'
  BY <1>1 DEF TeardownInv, TeardownTypes, OpenInv, D!HoldsEnv, D!TeardownAssumption
<1>6. CodeInv' /\ PhaseInv'
  BY <1>1 DEF TeardownInv, CodeInv, PhaseInv
<1>7. QED
  BY <1>2, <1>3, <1>4, <1>5, <1>6 DEF TeardownInv

(* Nothing happens.                                                        *)
LEMMA TeardownStutter ==
  ASSUME TeardownInv, UNCHANGED D!vars
  PROVE  TeardownInv'
<1>1. UNCHANGED <<lib, env, D!registry, D!round>> /\ code' = code
  BY DEF D!vars, D!loading
<1>2. CodeInv'
  BY <1>1 DEF D!registry, D!round, TeardownInv, CodeInv
<1>3. QED
  BY <1>1, <1>2, OnlyCode DEF TeardownInv, TeardownTypes, OpenInv

-----------------------------------------------------------------------------
(* The theorems                                                            *)

(* What is listed can be worked off, what is open is listed, closed by     *)
(* this round or on its way out, and code runs for an env that is there:   *)
(* whatever addons register and remove before the disposal, and during it  *)
(* as long as each kind is registered by code that runs before the         *)
(* disposal is past that kind (HandledOnly).                               *)
THEOREM TeardownInvariance ==
  ASSUME D!TeardownAssumption, D!HandledOnly
  PROVE  D!Spec => []TeardownInv
<1>1. D!Init => TeardownInv
  BY TeardownInit
<1>2. TeardownInv /\ [D!Next]_(D!vars) => TeardownInv'
  <2> SUFFICES ASSUME TeardownInv, [D!Next]_(D!vars)
               PROVE  TeardownInv'
    OBVIOUS
  <2>1. CASE \E e \in Addons : D!LoadAddon(e)
    BY <2>1, LoadAddonStep
  <2>2. CASE \/ \E e \in Addons : D!EnterAddon(e)
             \/ \E t \in Tsfns : D!FinalizeTask(t)
    BY <2>2, EnterSteps
  <2>3. CASE \/ \E h \in Hooks : D!AddHook(h)
             \/ \E h \in AsyncHooks : D!AddAsyncHook(h)
             \/ \E t \in Tsfns : D!CreateTsfn(t)
    BY <2>3, RegisterSteps
  <2>4. CASE \/ \E h \in Hooks : D!RemoveHook(h)
             \/ \E h \in AsyncHooks : D!RemoveAsyncHook(h)
    BY <2>4, RemoveSteps
  <2>5. CASE D!InitFails \/ D!Return
    BY <2>5, ReturnSteps
  <2>6. CASE D!Dispose
    BY <2>6, DisposeStep
  <2>7. CASE D!AddFinalizer \/ D!SetInstanceData
    BY <2>7, RecordAdded
  <2>8. CASE D!PopEnv \/ D!PopHook \/ D!PopTsfn
    BY <2>8, PopSteps
  <2>9. CASE \/ D!ListEmpty \/ D!Finalize \/ D!Finalized \/ D!NextRound
             \/ D!RunFinalizer \/ D!FreeEnv
    BY <2>9, ListEmptyStep, FinalizeStep, FinalizedStep, NextRoundStep, RunFinalizerStep,
       FreeEnvStep
  <2>10. CASE UNCHANGED D!vars
    BY <2>10, TeardownStutter
  <2>11. QED
    BY <2>1, <2>2, <2>3, <2>4, <2>5, <2>6, <2>7, <2>8, <2>9, <2>10 DEF D!Next, D!Disposal
<1>3. QED
  BY <1>1, <1>2, PTL DEF D!Spec

(* As long as finalizers register no hooks or functions, nor instance data *)
(* of an env that goes (HandledOnly), AddonEnvs::drop runs no hook,        *)
(* finalizer or function of an env that was freed, runs no asynchronous    *)
(* hook whose handle was, and drops an env after all that could still call *)
(* into it.  This is about envs and handles: a library that was closed     *)
(* because its init failed is not looked at (MappedCode).                  *)
THEOREM DisposalSafeHolds ==
  ASSUME D!TeardownAssumption, D!HandledOnly
  PROVE  D!Spec => []DisposalSafe
<1>1. TeardownInv => DisposalSafe
  <2> SUFFICES ASSUME TeardownInv
               PROVE  D!LiveEnv /\ D!EnvLast
    BY DEF DisposalSafe, D!DisposalSafe
  <2>1. /\ DOMAIN list = 1 .. Len(list)
        /\ \A i \in DOMAIN list : list[i] \in Members(list)
    BY ListMembers DEF TeardownInv, Members
  <2>2. D!LiveEnv
    BY <2>1 DEF D!LiveEnv, TeardownInv, TeardownTypes, ListedInv, CodeInv
  <2>3. D!EnvLast
    BY <2>1 DEF D!EnvLast, D!HoldsEnv, TeardownInv, ListedInv, TsfnInv
  <2>4. QED
    BY <2>2, <2>3
<1>2. QED
  BY <1>1, TeardownInvariance, PTL

(* When the disposal is over no env is open, no finalizer record is kept,  *)
(* no hook is listed and no function is open, as long as finalizers        *)
(* register no hooks or functions, nor instance data of an env that goes   *)
(* (HandledOnly): what they register then would be left, or abort.         *)
THEOREM NothingLeftHolds ==
  ASSUME D!TeardownAssumption, D!HandledOnly
  PROVE  D!Spec => []NothingLeft
<1>1. TeardownInv => NothingLeft
  <2> SUFFICES ASSUME TeardownInv, pc = "done"
               PROVE  /\ \A e \in Addons : env[e] # "open" /\ kept[e] = <<>>
                      /\ list = <<>> /\ \A t \in Tsfns : tsfns[t] = None
    BY DEF NothingLeft, D!NothingLeft
  <2>1. list = <<>> /\ closing = <<>> /\ waiting = {} /\ dropping = None
    BY DEF TeardownInv, PhaseInv
  <2>2. Members(list) = {} /\ Members(closing) = {}
    <3>1. Len(closing) = 0
      BY <2>1, EmptySeq
    <3>2. QED
      BY <2>1, <3>1, ListMembers DEF TeardownInv, Members
  <2>3. \A e \in Addons : env[e] # "open" /\ kept[e] = <<>>
    BY <2>1, <2>2 DEF TeardownInv, OpenInv, D!TeardownAssumption
  <2>4. \A t \in Tsfns : tsfns[t] = None
    BY <2>2 DEF TeardownInv, TsfnInv
  <2>5. QED
    BY <2>1, <2>3, <2>4
<1>2. QED
  BY <1>1, TeardownInvariance, PTL

(* A behaviour of MCNapi is one of NodeApi's and one of Teardown's: the    *)
(* calls and the disposal it composes share no state.                      *)
THEOREM CallsAndDisposal == MCSpec => Spec /\ D!Spec
<1>1. MCInit => Init /\ D!Init
  BY DEF MCInit
<1>2. [MCNext]_<<machine, vars, disposal>> => [Next]_vars
  BY DEF MCNext
<1>3. [MCNext]_<<machine, vars, disposal>> => [D!Next]_(D!vars)
  BY DEF MCNext, disposal, D!vars, D!loading, D!registry, D!round
<1>4. QED
  BY <1>1, <1>2, <1>3, PTL DEF MCSpec, Spec, D!Spec
=============================================================================
