---------------------------------- MODULE NodeApi ----------------------------------
(***************************************************************************)
(* The Node-API host of one isolate, src/src/napi_host.rs: the addons'     *)
(* environments, the calls between JS and addon code, the exceptions that  *)
(* cross them, references, finalizer records, and the end of the isolate.  *)
(*                                                                         *)
(* The isolate has one thread.  `stack' is its stack of entries into addon *)
(* code; the JS between two of them is implicit.  A garbage collection may *)
(* happen whenever the thread is inside V8, so its finalizers may be       *)
(* entered on top of anything.  Values other than objects that carry a     *)
(* record or a reference are abstracted, and so are the arguments of the   *)
(* calls: a call is what its entry lets it do (the classes below).         *)
(***************************************************************************)
EXTENDS Integers, Sequences, FiniteSets

CONSTANTS
  Envs,             \* the addons' environments (one per addon loaded)
  Objects,          \* the JS objects addons wrap, finalize and reference
  None,             \* no object, no record, no exception, no scope
  MaxRecords,       \* bound: finalizer records ever created
  MaxRefs,          \* bound: references ever created
  MaxCount,         \* bound: the count of a reference
  MaxExceptions,    \* bound: exceptions ever raised
  MaxDepth,         \* bound: nested entries into addon code
  CollectsRunning   \* BOOLEAN: a collection may find the record whose
                    \* finalizer is running at teardown

ASSUME BoundsAreNat ==
  /\ {MaxRecords, MaxRefs, MaxCount, MaxExceptions, MaxDepth} \subseteq Nat
  /\ CollectsRunning \in BOOLEAN

-----------------------------------------------------------------------------
(* The calls.  What a call may do is decided by how it is entered: through *)
(* `checked' / `basic' (plain), or through `js_call', which refuses while  *)
(* an exception is pending and while the env is torn down, and which parks *)
(* on the env what V8 throws.  Calls that change the state below have      *)
(* actions of their own.  No test defines a `code' setter on Error's       *)
(* prototype: the constructors of errors run no JS.                        *)

Plain   == [guarded |-> FALSE, throws |-> FALSE, runsJs |-> FALSE]
Guarded == [guarded |-> TRUE,  throws |-> FALSE, runsJs |-> FALSE]
Throws  == [guarded |-> TRUE,  throws |-> TRUE,  runsJs |-> FALSE]
RunsJs  == [guarded |-> TRUE,  throws |-> TRUE,  runsJs |-> TRUE]

All(names, class) == [call : names, class : {class}]

ValueCalls ==
  All({"napi_get_undefined", "napi_get_null", "napi_get_global", "napi_get_boolean",
       "napi_typeof", "napi_create_uint32", "napi_create_double", "napi_get_value_uint32"}, Plain)

StringCreateCalls ==
  All({"napi_create_string_utf8", "napi_create_string_latin1", "napi_create_string_utf16",
       "node_api_create_property_key_latin1", "node_api_create_property_key_utf8",
       "node_api_create_property_key_utf16"}, Plain)

StringReadCalls ==
  All({"napi_create_symbol", "node_api_symbol_for", "napi_get_value_string_utf8",
       "napi_get_value_string_latin1", "napi_get_value_string_utf16"}, Plain)

CoercionCalls ==
  All({"napi_coerce_to_bool"}, Guarded) \union
  All({"napi_coerce_to_number", "napi_coerce_to_string"}, RunsJs) \union
  All({"napi_coerce_to_object"}, Throws)

ObjectCalls ==
  All({"napi_create_array", "napi_create_object", "napi_create_array_with_length"}, Plain) \union
  All({"napi_set_named_property", "napi_get_named_property", "napi_set_element",
       "napi_instanceof"}, RunsJs) \union
  All({"napi_strict_equals"}, Guarded)

KindCalls ==
  All({"napi_is_arraybuffer", "napi_is_typedarray", "napi_is_dataview", "napi_is_buffer",
       "napi_is_detached_arraybuffer"}, Plain)

PropertyCalls ==
  All({"napi_set_property", "napi_get_property", "napi_has_property", "napi_delete_property",
       "napi_has_own_property", "napi_has_named_property", "napi_has_element",
       "napi_delete_element"}, RunsJs)

ShapeCalls ==
  All({"napi_get_all_property_names", "napi_object_freeze", "napi_object_seal"}, RunsJs) \union
  All({"napi_get_prototype"}, Throws)

FunctionCalls ==
  All({"napi_create_function"}, Guarded) \union
  All({"napi_get_new_target", "napi_get_cb_info"}, Plain) \union
  All({"napi_call_function"}, RunsJs)

ArrayBufferCalls ==
  All({"napi_create_arraybuffer"}, Guarded) \union All({"napi_create_typedarray"}, Throws)

ViewCalls ==
  All({"napi_get_arraybuffer_info", "napi_get_typedarray_info", "napi_get_dataview_info"}, Plain)
  \union
  All({"napi_create_dataview"}, Throws)

\* A Buffer takes its prototype from the global's Buffer, which a getter may compute.
BufferCalls ==
  All({"napi_detach_arraybuffer", "napi_get_buffer_info"}, Plain) \union
  All({"node_api_create_buffer_from_arraybuffer", "napi_create_buffer",
       "napi_create_buffer_copy"}, RunsJs)

NumberCalls ==
  All({"napi_get_value_bool", "napi_get_value_double", "napi_get_value_int64",
       "napi_create_int32", "napi_create_int64", "napi_get_value_int32"}, Plain)

BigIntCalls ==
  All({"napi_create_bigint_int64", "napi_create_bigint_uint64", "napi_get_value_bigint_int64",
       "napi_get_value_bigint_uint64", "napi_get_value_bigint_words"}, Plain) \union
  All({"napi_create_bigint_words"}, Throws)

DateArrayCalls ==
  All({"napi_is_date", "napi_is_array"}, Plain) \union
  All({"napi_create_date", "napi_get_date_value", "napi_get_array_length"}, Guarded) \union
  All({"napi_get_element", "napi_get_property_names"}, RunsJs)

TagCalls == All({"napi_type_tag_object", "napi_check_object_type_tag"}, Throws)

\* Resolving reads the value's `then', which may be a getter.
PromiseCalls ==
  All({"napi_create_promise", "napi_reject_deferred"}, Guarded) \union
  All({"napi_resolve_deferred", "napi_new_instance"}, RunsJs) \union
  All({"napi_is_promise", "napi_get_value_external"}, Plain)

ErrorCalls ==
  All({"napi_throw", "napi_throw_error", "napi_throw_type_error", "napi_throw_range_error",
       "node_api_throw_syntax_error"}, Throws) \union
  All({"napi_create_error", "napi_create_type_error", "napi_create_range_error",
       "node_api_create_syntax_error"}, Plain)

ErrorInfoCalls ==
  All({"napi_get_last_error_info", "napi_is_error", "napi_is_exception_pending"}, Plain) \union
  All({"napi_fatal_exception"}, RunsJs)

ScopeCalls ==
  All({"napi_adjust_external_memory", "napi_open_handle_scope", "napi_close_handle_scope",
       "napi_open_escapable_handle_scope", "napi_close_escapable_handle_scope",
       "napi_escape_handle"}, Plain)

DefineCalls ==
  All({"napi_run_script", "napi_define_properties"}, RunsJs) \union
  All({"napi_define_class"}, Throws) \union All({"node_api_get_module_file_name"}, Plain)

AsyncCalls ==
  All({"napi_get_uv_event_loop", "napi_async_init", "napi_async_destroy",
       "napi_open_callback_scope", "napi_close_callback_scope"}, Plain) \union
  All({"napi_make_callback"}, RunsJs)

Table ==
  UNION {ValueCalls, StringCreateCalls, StringReadCalls, CoercionCalls, ObjectCalls, KindCalls,
         PropertyCalls, ShapeCalls, FunctionCalls, ArrayBufferCalls, ViewCalls, BufferCalls,
         NumberCalls, BigIntCalls, DateArrayCalls, TagCalls, PromiseCalls, ErrorCalls,
         ErrorInfoCalls, ScopeCalls, DefineCalls, AsyncCalls}

Classes == {entry.class : entry \in Table}
-----------------------------------------------------------------------------
VARIABLES
  phase,       \* "live", "teardown" (the isolate is being disposed of) or "gone"
  loaded,      \* the envs, in the order their addons were loaded
  broken,      \* envs whose module init panicked with an exception pending
  stack,       \* the entries into addon code, innermost last
  scope,       \* env -> the depth of the entry whose scope it points at, or None
  pending,     \* env -> its pending exception (last_exception), or None
  raised,      \* how many exceptions were raised so far: they are 1 .. raised
  uncaught,    \* NativeTask::Uncaught: exceptions that finalizers left, to report
  settled,     \* exceptions caught, reported, replaced or dropped
  alive,       \* the objects not collected
  rooted,      \* the objects JS can reach
  wrapped,     \* object -> the record its wrap key points at, or None
  records,     \* the finalizer records, by id
  instance,    \* env -> the record of its instance data, or None
  dead,        \* records whose object was collected and whose callback V8 owes
  refs         \* the references, by id

exceptions == <<raised, uncaught, settled>>
data == <<alive, rooted, wrapped, records, instance, dead, refs>>
vars == <<phase, loaded, broken, stack, scope, pending, exceptions, data>>

Records == DOMAIN records
Refs == DOMAIN refs
Loaded == {loaded[i] : i \in DOMAIN loaded}

Init ==
  /\ phase = "live" /\ loaded = <<>> /\ broken = {} /\ stack = <<>>
  /\ scope = [e \in Envs |-> None] /\ pending = [e \in Envs |-> None]
  /\ raised = 0 /\ uncaught = <<>> /\ settled = {}
  /\ alive = Objects /\ rooted = Objects
  /\ wrapped = [o \in Objects |-> None]
  /\ records = <<>> /\ instance = [e \in Envs |-> None] /\ dead = {} /\ refs = <<>>

Depth == Len(stack)
Top == stack[Depth]
Running(e) == stack # <<>> /\ Top.env = e
TearingDown == phase # "live"
NoException == pending[Top.env] = None

\* Mutant: js_call without its check of last_exception.
EntersPending(k) == k.guarded => ~TearingDown

(* js_call lets the call of class k in: nothing pending, JS can run.       *)
Enters(k) == k.guarded => NoException /\ ~TearingDown

(* JS runs on the thread: no addon code is entered, or the innermost is in *)
(* a call that runs JS.                                                    *)
JsRuns ==
  \/ stack = <<>> /\ phase = "live"
  \/ stack # <<>> /\ \E k \in Classes : k.runsJs /\ Enters(k)

(* Enter addon code of e: its scope is this entry's until it returns.      *)
Enter(e, kind, record, aside) ==
  /\ Depth < MaxDepth
  /\ stack' = Append(stack, [env |-> e, kind |-> kind, record |-> record,
                             outer |-> scope[e], aside |-> aside])
  /\ scope' = [scope EXCEPT ![e] = Depth + 1]

(* call_addon from the trampoline: JS calls a function an addon made.      *)
Invoke(e) ==
  /\ JsRuns /\ e \in Loaded
  /\ Enter(e, "call", None, None)
  /\ UNCHANGED <<phase, loaded, broken, pending, exceptions, data>>

(* A native task (a work's complete, a threadsafe function's call or its   *)
(* finalizer) runs between macrotasks.                                     *)
RunNativeTask(e) ==
  /\ stack = <<>> /\ phase = "live" /\ e \in Loaded
  /\ Enter(e, "task", None, None)
  /\ UNCHANGED <<phase, loaded, broken, pending, exceptions, data>>

(* require() of a .node file: the env points at the loader's scope.        *)
LoadAddon(e) ==
  /\ JsRuns /\ e \notin Loaded
  /\ Enter(e, "init", None, None)
  /\ loaded' = Append(loaded, e)
  /\ UNCHANGED <<phase, broken, pending, exceptions, data>>
-----------------------------------------------------------------------------
(* What addon code does once it runs.                                      *)

(* A call throws; js_call parks the exception on the env.                  *)
Throw ==
  /\ stack # <<>> /\ raised < MaxExceptions
  /\ \E k \in Classes : k.throws /\ Enters(k)
  /\ raised' = raised + 1
  /\ pending' = [pending EXCEPT ![Top.env] = raised + 1]
  /\ UNCHANGED <<phase, loaded, broken, stack, scope, uncaught, settled, data>>

(* napi_get_and_clear_last_exception: the addon has it.                    *)
GetAndClear ==
  /\ stack # <<>> /\ ~NoException
  /\ settled' = settled \union {pending[Top.env]}
  /\ pending' = [pending EXCEPT ![Top.env] = None]
  /\ UNCHANGED <<phase, loaded, broken, stack, scope, raised, uncaught, data>>

(* A new record of env e, held by it.                                      *)
NewRecord(e, o) ==
  [env |-> e, object |-> o, state |-> "held", ownRef |-> None, runs |-> 0]

(* weak_ref: the reference a record hands back starts at count 0.          *)
NewRef(e, o, count) ==
  [env |-> e, object |-> o, count |-> count, value |-> IF count > 0 THEN "strong" ELSE "weak"]

Track(e, o, withRef) ==
  /\ Len(records) < MaxRecords
  /\ records' = Append(records, [NewRecord(e, o) EXCEPT
                   !.ownRef = IF withRef THEN Len(refs) + 1 ELSE None])
  /\ IF withRef THEN /\ Len(refs) < MaxRefs
                     /\ refs' = Append(refs, NewRef(e, o, 0))
                ELSE UNCHANGED refs

(* napi_wrap: an object carries one wrap.                                  *)
Wrap(o, withRef) ==
  /\ stack # <<>> /\ Enters(Guarded) /\ o \in rooted /\ wrapped[o] = None
  /\ Track(Top.env, o, withRef)
  /\ wrapped' = [wrapped EXCEPT ![o] = Len(records) + 1]
  /\ UNCHANGED <<phase, loaded, broken, stack, scope, pending, exceptions, alive, rooted,
                 instance, dead>>

\* Mutant: the object keeps its wrap key.
UnwrappedKept(o) == UNCHANGED wrapped

Unwrapped(o) == wrapped' = [wrapped EXCEPT ![o] = None]

(* napi_remove_wrap: the record goes without its finalizer, whichever env  *)
(* wrapped the object.                                                     *)
RemoveWrap(o) ==
  /\ stack # <<>> /\ Enters(Guarded) /\ o \in rooted /\ wrapped[o] # None
  /\ records' = [records EXCEPT ![wrapped[o]].state = "dropped"]
  /\ dead' = dead \ {wrapped[o]}
  /\ Unwrapped(o)
  /\ UNCHANGED <<phase, loaded, broken, stack, scope, pending, exceptions, alive, rooted,
                 instance, refs>>

(* napi_add_finalizer runs no JS: it is let in with an exception pending,  *)
(* and at teardown.  (napi_create_external, and the buffers over memory of *)
(* the addon, track one on a new object.)                                  *)
AddFinalizer(o, withRef) ==
  /\ stack # <<>> /\ Enters(Plain) /\ o \in rooted
  /\ Track(Top.env, o, withRef)
  /\ UNCHANGED <<phase, loaded, broken, stack, scope, pending, exceptions, alive, rooted,
                 wrapped, instance, dead>>

(* napi_set_instance_data: the previous data goes without its finalizer.   *)
(* (Once its record has run at teardown, the call does not return: see     *)
(* Teardown.)                                                              *)
SetInstanceData ==
  /\ stack # <<>> /\ Enters(Plain) /\ ~TearingDown /\ Len(records) < MaxRecords
  /\ LET old == instance[Top.env]
         new == Append(records, NewRecord(Top.env, None))
     IN  /\ records' = IF old = None THEN new ELSE [new EXCEPT ![old].state = "dropped"]
         /\ instance' = [instance EXCEPT ![Top.env] = Len(records) + 1]
  /\ UNCHANGED <<phase, loaded, broken, stack, scope, pending, exceptions, alive, rooted,
                 wrapped, dead, refs>>

CreateReference(o, count) ==
  /\ stack # <<>> /\ Enters(Plain) /\ o \in rooted /\ Len(refs) < MaxRefs
  /\ refs' = Append(refs, NewRef(Top.env, o, count))
  /\ UNCHANGED <<phase, loaded, broken, stack, scope, pending, exceptions, alive, rooted,
                 wrapped, records, instance, dead>>

(* Ref::get: there is a value to give.                                     *)
HasValue(r) ==
  \/ refs[r].value = "strong"
  \/ refs[r].value = "weak" /\ refs[r].object \in alive

ChangeRef(r, ref) ==
  /\ refs' = [refs EXCEPT ![r] = ref]
  /\ UNCHANGED <<phase, loaded, broken, stack, scope, pending, exceptions, alive, rooted,
                 wrapped, records, instance, dead>>

OwnsRef(r) == stack # <<>> /\ refs[r].env = Top.env /\ refs[r].value # "deleted"

(* napi_reference_ref: the count of a reference that lost its value stays. *)
ReferenceRef(r) ==
  /\ OwnsRef(r) /\ refs[r].count < MaxCount
  /\ ChangeRef(r, IF HasValue(r)
                    THEN [refs[r] EXCEPT !.count = @ + 1, !.value = "strong"]
                    ELSE [refs[r] EXCEPT !.value = "empty"])

(* napi_reference_unref: at 0 the value is held weakly.                    *)
ReferenceUnref(r) ==
  /\ OwnsRef(r) /\ refs[r].count > 0
  /\ ChangeRef(r, IF ~HasValue(r) THEN [refs[r] EXCEPT !.value = "empty"]
                    ELSE [refs[r] EXCEPT !.count = @ - 1,
                                         !.value = IF refs[r].count = 1 THEN "weak" ELSE @])

DeleteReference(r) == OwnsRef(r) /\ ChangeRef(r, [refs[r] EXCEPT !.value = "deleted"])

(* napi_get_reference_value: a weak value found is JS's to keep again.     *)
GetReferenceValue(r) ==
  /\ OwnsRef(r) /\ HasValue(r)
  /\ rooted' = rooted \union {refs[r].object}
  /\ UNCHANGED <<phase, loaded, broken, stack, scope, pending, exceptions, alive, wrapped,
                 records, instance, dead, refs>>
-----------------------------------------------------------------------------
(* Addon code returns.                                                     *)

Pop == SubSeq(stack, 1, Depth - 1)

\* Mutant: the nested entry's scope stays on the env.
KeepScope == UNCHANGED scope

RestoreScope == scope' = [scope EXCEPT ![Top.env] = Top.outer]

(* An exception reaches JS, whose stack is empty of addon code but for     *)
(* rest: JS catches it, or the call below is given it by `catching', or    *)
(* nothing is below and the test has it.                                   *)
ThrownToJs(x, rest, pend, done) ==
  \/ settled' = done \union {x} /\ pending' = pend
  \/ /\ rest # <<>>
     /\ settled' = done
     /\ pending' = [pend EXCEPT ![rest[Len(rest)].env] = x]

Taken(e) == IF pending[e] = None THEN {} ELSE {pending[e]}

(* The trampoline restores the scope and throws what the callback left     *)
(* pending; the error made of a panic replaces it.                         *)
ReturnToJs ==
  /\ stack # <<>> /\ Top.kind = "call"
  /\ LET e == Top.env
         clear == [pending EXCEPT ![e] = None]
     IN  /\ RestoreScope
         /\ \/ /\ pending[e] = None
               /\ UNCHANGED <<raised, settled, pending>>
            \/ /\ pending[e] # None /\ ThrownToJs(pending[e], Pop, clear, settled)
               /\ UNCHANGED raised
            \/ /\ raised < MaxExceptions /\ raised' = raised + 1
               /\ ThrownToJs(raised + 1, Pop, clear, settled \union Taken(e))
  /\ stack' = Pop
  /\ UNCHANGED <<phase, loaded, broken, uncaught, data>>

(* A module init returns: what it left pending is its load error; the one  *)
(* of a panic leaves before that is taken.  The env's scope stays.         *)
ReturnFromInit ==
  /\ stack # <<>> /\ Top.kind = "init"
  /\ LET e == Top.env
     IN  \/ /\ pending[e] = None
            /\ UNCHANGED <<raised, settled, pending, broken>>
         \/ /\ pending[e] # None
            /\ ThrownToJs(pending[e], Pop, [pending EXCEPT ![e] = None], settled)
            /\ UNCHANGED <<raised, broken>>
         \/ /\ raised < MaxExceptions /\ raised' = raised + 1
            /\ ThrownToJs(raised + 1, Pop, pending, settled)
            /\ broken' = IF pending[e] = None THEN broken ELSE broken \union {e}
  /\ stack' = Pop
  /\ UNCHANGED <<phase, loaded, scope, uncaught, data>>

(* callback_exception: reported as uncaught, or a deprecation warning.     *)
ReturnFromTask ==
  /\ stack # <<>> /\ Top.kind = "task"
  /\ settled' = settled \union Taken(Top.env)
  /\ pending' = [pending EXCEPT ![Top.env] = None]
  /\ RestoreScope
  /\ stack' = Pop
  /\ UNCHANGED <<phase, loaded, broken, raised, uncaught, data>>

OwnRefEmptied(ref) ==
  refs' = IF ref # None /\ refs[ref].value # "deleted"
          THEN [refs EXCEPT ![ref].value = "empty"] ELSE refs

(* run_finalizer, up to the callback: the record's own reference loses its *)
(* value and the env's pending exception is set aside.                     *)
RunFinalizer(r) ==
  LET rec == records[r]
  IN  /\ records' = [records EXCEPT ![r].state = "finalizing", ![r].runs = @ + 1]
      /\ OwnRefEmptied(rec.ownRef)
      /\ pending' = [pending EXCEPT ![rec.env] = None]
      /\ Enter(rec.env, "finalize", r, pending[rec.env])

(* What the finalizer left pending is to be reported, or at teardown       *)
(* dropped; what was pending before it is again.                           *)
Leftover(e) ==
  IF TearingDown THEN settled' = settled \union Taken(e) /\ UNCHANGED uncaught
  ELSE /\ uncaught' = IF pending[e] = None THEN uncaught ELSE Append(uncaught, pending[e])
       /\ UNCHANGED settled

\* Mutant: what was pending before the finalizer is dropped.
PutBackNothing(e) == pending' = [pending EXCEPT ![e] = None]

PutBack(e) == pending' = [pending EXCEPT ![e] = Top.aside]

ReturnFromFinalizer ==
  /\ stack # <<>> /\ Top.kind = "finalize"
  /\ Leftover(Top.env) /\ PutBack(Top.env)
  /\ records' = [records EXCEPT ![Top.record].state = "finalized"]
  /\ dead' = dead \ {Top.record}
  /\ RestoreScope
  /\ stack' = Pop
  /\ UNCHANGED <<phase, loaded, broken, raised, alive, rooted, wrapped, instance, refs>>

(* The event loop reports what a finalizer left.                           *)
RunUncaught ==
  /\ stack = <<>> /\ phase = "live" /\ uncaught # <<>>
  /\ uncaught' = Tail(uncaught)
  /\ settled' = settled \union {Head(uncaught)}
  /\ UNCHANGED <<phase, loaded, broken, stack, scope, pending, raised, data>>
-----------------------------------------------------------------------------
(* JS and its collector.                                                   *)

InV8 == stack # <<>> \/ phase = "live"

Forget(o) ==
  /\ JsRuns /\ o \in rooted /\ rooted' = rooted \ {o}
  /\ UNCHANGED <<phase, loaded, broken, stack, scope, pending, exceptions, alive, wrapped,
                 records, instance, dead, refs>>

Strong(o) == \E r \in Refs : refs[r].object = o /\ refs[r].value = "strong"

(* The records whose weak handle the collection of o finds set.            *)
Armed(o) ==
  {r \in Records : /\ records[r].object = o
                   /\ \/ records[r].state = "held"
                      \/ CollectsRunning /\ records[r].state = "finalizing"}

Collect(o) ==
  /\ InV8 /\ o \in alive \ rooted /\ ~Strong(o)
  /\ CollectsRunning \/ \A r \in Records :
                            records[r].object = o => records[r].state # "finalizing"
  /\ alive' = alive \ {o}
  /\ dead' = dead \union Armed(o)
  /\ UNCHANGED <<phase, loaded, broken, stack, scope, pending, exceptions, rooted, wrapped,
                 records, instance, refs>>

(* finalizer_collected, in a scope of its own.                             *)
FinalizerCollected(r) ==
  /\ InV8 /\ r \in dead
  /\ CollectsRunning \/ records[r].state = "held"
  /\ RunFinalizer(r)
  /\ dead' = dead \ {r}
  /\ UNCHANGED <<phase, loaded, broken, exceptions, alive, rooted, wrapped, instance>>
-----------------------------------------------------------------------------
(* The isolate's end: the envs go newest first, each after its finalizers, *)
(* newest first, with JS disabled.  (Hooks and threadsafe functions:       *)
(* Teardown.)                                                              *)
Dispose ==
  /\ phase = "live" /\ stack = <<>> /\ phase' = "teardown"
  /\ UNCHANGED <<loaded, broken, stack, scope, pending, exceptions, data>>

\* Mutant: only the records of objects are the env's.
HeldByObjects(e) ==
  {r \in Records : records[r].env = e /\ records[r].state = "held" /\ records[r].object # None}

Held(e) == {r \in Records : records[r].env = e /\ records[r].state = "held"}

TeardownFinalizers ==
  /\ phase = "teardown" /\ stack = <<>> /\ loaded # <<>>
  /\ LET held == Held(loaded[Len(loaded)])
     IN  \E r \in held : /\ \A q \in held : q <= r
                         /\ RunFinalizer(r)
  /\ UNCHANGED <<phase, loaded, broken, exceptions, alive, rooted, wrapped, instance, dead>>

FreeEnv ==
  /\ phase = "teardown" /\ stack = <<>> /\ loaded # <<>>
  /\ LET e == loaded[Len(loaded)]
     IN  /\ Held(e) = {}
         /\ refs' = [r \in Refs |-> IF refs[r].env = e THEN [refs[r] EXCEPT !.value = "deleted"]
                                    ELSE refs[r]]
         /\ settled' = settled \union Taken(e)
         /\ pending' = [pending EXCEPT ![e] = None]
         /\ scope' = [scope EXCEPT ![e] = None]
  /\ loaded' = SubSeq(loaded, 1, Len(loaded) - 1)
  /\ UNCHANGED <<phase, broken, stack, raised, uncaught, alive, rooted, wrapped, records,
                 instance, dead>>

(* The posted callbacks that nobody ran go with the isolate.               *)
Gone ==
  /\ phase = "teardown" /\ stack = <<>> /\ loaded = <<>>
  /\ phase' = "gone" /\ uncaught' = <<>>
  /\ settled' = settled \union {uncaught[i] : i \in DOMAIN uncaught}
  /\ UNCHANGED <<loaded, broken, stack, scope, pending, raised, data>>

AddonCalls ==
  \/ Throw \/ GetAndClear \/ SetInstanceData
  \/ \E o \in Objects : \/ \E withRef \in BOOLEAN : Wrap(o, withRef) \/ AddFinalizer(o, withRef)
                        \/ RemoveWrap(o)
                        \/ \E count \in 0 .. 1 : CreateReference(o, count)
  \/ \E r \in Refs : ReferenceRef(r) \/ ReferenceUnref(r) \/ DeleteReference(r)
                     \/ GetReferenceValue(r)

Next ==
  \/ \E e \in Envs : Invoke(e) \/ RunNativeTask(e) \/ LoadAddon(e)
  \/ AddonCalls
  \/ ReturnToJs \/ ReturnFromInit \/ ReturnFromTask \/ ReturnFromFinalizer \/ RunUncaught
  \/ \E o \in Objects : Forget(o) \/ Collect(o)
  \/ \E r \in Records : FinalizerCollected(r)
  \/ Dispose \/ TeardownFinalizers \/ FreeEnv \/ Gone

Spec == Init /\ [][Next]_vars
-----------------------------------------------------------------------------
(* Where each raised exception is: an exception that an addon, a finalizer *)
(* or a panic met is in exactly one place, so that none is lost and none   *)
(* is thrown twice (last_exception, run_finalizer's pending, defer_uncaught*)
(* and the takers of last_exception).                                      *)
ExceptionKept ==
  \A x \in 1 .. raised :
    Cardinality({e \in Envs : pending[e] = x})
    + Cardinality({i \in DOMAIN stack : stack[i].aside = x})
    + Cardinality({i \in DOMAIN uncaught : uncaught[i] = x})
    + (IF x \in settled THEN 1 ELSE 0) = 1

(* An exception stays pending only under the addon code that met it: that  *)
(* code runs no JS meanwhile, only finalizers are entered on top of it,    *)
(* and none is left over once the thread is back in JS or in the event     *)
(* loop.                                                                   *)
PendingConfined ==
  \A e \in Envs \ broken :
    pending[e] # None =>
      \E i \in DOMAIN stack :
        /\ stack[i].env = e
        /\ \A j \in DOMAIN stack : j > i => stack[j].env # e
        /\ i < Depth => stack[i + 1].kind = "finalize"

(* No exception is lost, thrown twice or met by code it is not for.        *)
Exceptions == ExceptionKept /\ PendingConfined

(* The addon code that runs makes its calls in the scope of its own entry, *)
(* never in one of a nested entry or of an entry that returned             *)
(* (Env::scope, set and restored around every entry).                      *)
ScopeLive == stack # <<>> => scope[Top.env] = Depth

(* A finalizer runs once (the doc of Finalizer): not again after it ran,   *)
(* not after its wrap was removed, and by the end of the isolate not       *)
(* never.  With CollectsRunning it may run twice: teardown_finalizers      *)
(* keeps the record, its weak handle set, while its finalizer runs.        *)
FinalizedOnce ==
  \A r \in Records :
    /\ records[r].runs <= 1
    /\ records[r].state \in {"held", "dropped"} => records[r].runs = 0
    /\ phase = "gone" => records[r].state \in {"dropped", "finalized"}

(* What napi_unwrap reads: an object JS can hand it is wrapped by a record *)
(* that was not freed, as long as the call is let in.                      *)
WrapLive ==
  \A o \in rooted : wrapped[o] # None /\ ~TearingDown => records[wrapped[o]].state = "held"
====
