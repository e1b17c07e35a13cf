---------------------------------- MODULE Teardown ----------------------------------
(***************************************************************************)
(* The end of an isolate that loaded addons: AddonEnvs::drop of            *)
(* src/src/napi_host.rs, and the registrations it works off.  Each isolate *)
(* keeps one list: the env of an addon (from its load on), cleanup hooks,  *)
(* asynchronous cleanup hooks and open threadsafe functions.  The disposal *)
(* takes it newest first; functions are closed when they are met and       *)
(* finalized once the list is empty, an env they hold goes with the last   *)
(* of them, and all of this is repeated while hooks register more.         *)
(*                                                                         *)
(* The code of an addon runs in `code'; what it may register once the      *)
(* isolate is being disposed of is Registers.  (References, exceptions and *)
(* the finalizers of objects: NodeApi.)                                    *)
(***************************************************************************)
EXTENDS Integers, Sequences, SequencesExt, FiniteSets

CONSTANTS
  Envs,             \* the addons, each with its env and its library
  Hooks,            \* cleanup hooks: pairs of a function and an argument
  AsyncHooks,       \* asynchronous cleanup hooks, by handle
  Tsfns,            \* threadsafe functions
  MaxRecords,       \* bound: finalizer records of an env at a time
  MaxAgain,         \* bound: registrations during the disposal
  Registers,        \* pairs <<kind of addon code, what it registers>> that
                    \* happen during the disposal
  FailsRegistered,  \* BOOLEAN: a module init may fail after it registered
  None              \* nothing

(* What the code handles in any order: hooks register anything; finalizers *)
(* only records, those of threadsafe functions also data.                  *)
Handled ==
  {"hook", "async"} \X {"hook", "async", "tsfn", "record", "data"}
  \union {<<"finalizer", "record">>, <<"tsfn", "record">>, <<"tsfn", "data">>}

TeardownAssumption ==
  /\ {MaxRecords, MaxAgain} \subseteq Nat /\ FailsRegistered \in BOOLEAN
  /\ None \notin Envs

(* Nothing is registered when the disposal is past it: hooks and functions *)
(* only by hooks, instance data not by the finalizers of the env.          *)
HandledOnly == Registers \subseteq Handled

VARIABLES
  lib,        \* addon -> "none", "mapped" or "closed" (dlclose)
  env,        \* addon -> "none", "open" or "freed"
  list,       \* Shared::teardown, oldest first
  handles,    \* the asynchronous hooks' handles that are not freed
  tsfns,      \* function -> the env it was made in while it is open, or None
  records,    \* env -> its finalizer records, oldest first: "object" or "data"
  instance,   \* env -> "none", "held", or "run" (its record is gone, its id is kept)
  code,       \* the addon code that runs, or None
  pc,         \* "live", "pop", "finalize" or "done"
  closing,    \* the functions this round closed
  waiting,    \* the envs this round found held by a function
  dropping,   \* the env whose drop runs its finalizers, or None
  again,      \* registrations during the disposal so far
  aborted     \* the process was aborted (a panic in an extern "C" function)

loading == <<lib, env>>
registry == <<list, handles, tsfns, records, instance, again, aborted>>
round == <<pc, closing, waiting, dropping>>
vars == <<loading, registry, code, round>>

Init ==
  /\ lib = [e \in Envs |-> "none"] /\ env = [e \in Envs |-> "none"]
  /\ list = <<>> /\ handles = {} /\ tsfns = [t \in Tsfns |-> None]
  /\ records = [e \in Envs |-> <<>>] /\ instance = [e \in Envs |-> "none"]
  /\ code = None /\ pc = "live" /\ closing = <<>> /\ waiting = {} /\ dropping = None
  /\ again = 0 /\ aborted = FALSE

Item(kind, e, id) == [kind |-> kind, env |-> e, id |-> id]
Listed(kind, id) == \E i \in DOMAIN list : list[i].kind = kind /\ list[i].id = id

(* retain: there is one such item at most.                                 *)
Without(kind, id) ==
  IF Listed(kind, id)
  THEN RemoveAt(list, CHOOSE i \in DOMAIN list : list[i].kind = kind /\ list[i].id = id)
  ELSE list

HoldsEnv(e) == \E t \in Tsfns : tsfns[t] = e
RunCode(kind, e, id) == code' = Item(kind, e, id)
Idle == code = None /\ dropping = None /\ ~aborted
-----------------------------------------------------------------------------
(* While the isolate lives.                                                *)

(* load_addon: the env is the isolate's before the module's init runs.     *)
LoadAddon(e) ==
  /\ Idle /\ pc = "live" /\ lib[e] = "none"
  /\ lib' = [lib EXCEPT ![e] = "mapped"] /\ env' = [env EXCEPT ![e] = "open"]
  /\ list' = Append(list, Item("env", e, e))
  /\ RunCode("init", e, None)
  /\ UNCHANGED <<handles, tsfns, records, instance, again, aborted, round>>

Registered(e) ==
  \/ records[e] # <<>> \/ HoldsEnv(e)
  \/ \E i \in DOMAIN list : list[i].env = e /\ list[i].kind # "env"

(* The library of an init that threw or panicked is dropped, which closes  *)
(* it; the env stays.                                                      *)
InitFails ==
  /\ code # None /\ code.kind = "init"
  /\ FailsRegistered \/ ~Registered(code.env)
  /\ lib' = [lib EXCEPT ![code.env] = "closed"]
  /\ code' = None
  /\ UNCHANGED <<env, registry, round>>

(* JS calls the addon, or one of its native tasks runs.                    *)
EnterAddon(e) ==
  /\ Idle /\ pc = "live" /\ lib[e] = "mapped"
  /\ RunCode("call", e, None)
  /\ UNCHANGED <<loading, registry, round>>

(* NativeTask::Finalize: a function whose handles closed.                  *)
FinalizeTask(t) ==
  /\ Idle /\ pc = "live" /\ tsfns[t] # None
  /\ RunCode("tsfn", tsfns[t], t)
  /\ UNCHANGED <<loading, registry, round>>

Return ==
  /\ code # None /\ code.kind # "tsfn" /\ ~aborted
  /\ code' = None
  /\ UNCHANGED <<loading, registry, round>>

Dispose ==
  /\ Idle /\ pc = "live" /\ pc' = "pop"
  /\ UNCHANGED <<loading, registry, code, closing, waiting, dropping>>
-----------------------------------------------------------------------------
(* What addon code registers.                                              *)

Registering(what) ==
  /\ code # None /\ ~aborted
  /\ IF pc = "live" THEN UNCHANGED again
     ELSE /\ <<code.kind, what>> \in Registers /\ again < MaxAgain
          /\ again' = again + 1

(* napi_add_env_cleanup_hook: the same function and argument once.         *)
AddHook(h) ==
  /\ Registering("hook") /\ ~Listed("hook", h)
  /\ list' = Append(list, Item("hook", code.env, h))
  /\ UNCHANGED <<loading, handles, tsfns, records, instance, aborted, code, round>>

RemoveHook(h) ==
  /\ code # None /\ ~aborted /\ Listed("hook", h)
  /\ list' = Without("hook", h)
  /\ UNCHANGED <<loading, handles, tsfns, records, instance, again, aborted, code, round>>

AddAsyncHook(h) ==
  /\ Registering("async") /\ h \notin handles
  /\ list' = Append(list, Item("async", code.env, h))
  /\ handles' = handles \union {h}
  /\ UNCHANGED <<loading, tsfns, records, instance, aborted, code, round>>

\* Mutant: the handle is freed and the hook stays listed.
RemoveHandle(h) ==
  /\ code # None /\ ~aborted /\ h \in handles
  /\ handles' = handles \ {h}
  /\ UNCHANGED <<loading, list, tsfns, records, instance, again, aborted, code, round>>

(* napi_remove_async_cleanup_hook: before its hook ran or from it.         *)
RemoveAsyncHook(h) ==
  /\ code # None /\ ~aborted /\ h \in handles
  /\ list' = Without("async", h)
  /\ handles' = handles \ {h}
  /\ UNCHANGED <<loading, tsfns, records, instance, again, aborted, code, round>>

CreateTsfn(t) ==
  /\ Registering("tsfn") /\ tsfns[t] = None /\ t \notin ToSet(closing)
  /\ tsfns' = [tsfns EXCEPT ![t] = code.env]
  /\ list' = Append(list, Item("tsfn", code.env, t))
  /\ UNCHANGED <<loading, handles, records, instance, aborted, code, round>>

(* napi_wrap, napi_add_finalizer, napi_create_external, ...                *)
AddFinalizer ==
  /\ Registering("record") /\ Len(records[code.env]) < MaxRecords
  /\ records' = [records EXCEPT ![code.env] = Append(@, "object")]
  /\ UNCHANGED <<loading, list, handles, tsfns, instance, aborted, code, round>>

(* napi_set_instance_data drops the previous data's record; when that has  *)
(* run already it panics in an extern "C" function.                        *)
SetInstanceData ==
  /\ Registering("data") /\ Len(records[code.env]) < MaxRecords
  /\ LET e == code.env
     IN  IF instance[e] = "run"
         THEN aborted' = TRUE /\ UNCHANGED <<records, instance>>
         ELSE /\ records' = [records EXCEPT ![e] = Append(Remove(@, "data"), "data")]
              /\ instance' = [instance EXCEPT ![e] = "held"]
              /\ UNCHANGED aborted
  /\ UNCHANGED <<loading, list, handles, tsfns, code, round>>
-----------------------------------------------------------------------------
(* AddonEnvs::drop.                                                        *)

Popping == Idle /\ pc = "pop" /\ list # <<>>
Newest == Last(list)

\* Mutant: an env is dropped although functions hold it.
HoldsNothing(e) == FALSE

(* holds_env, as the disposal asks it.                                     *)
IsHeld(e) == HoldsEnv(e)

PopEnv ==
  /\ Popping /\ Newest.kind = "env"
  /\ list' = Front(list)
  /\ IF IsHeld(Newest.env)
     THEN waiting' = waiting \union {Newest.env} /\ UNCHANGED dropping
     ELSE dropping' = Newest.env /\ UNCHANGED waiting
  /\ UNCHANGED <<loading, handles, tsfns, records, instance, again, aborted, code, pc, closing>>

PopHook ==
  /\ Popping /\ Newest.kind \in {"hook", "async"}
  /\ list' = Front(list)
  /\ code' = Newest
  /\ UNCHANGED <<loading, handles, tsfns, records, instance, again, aborted, round>>

(* close_for_teardown                                                      *)
PopTsfn ==
  /\ Popping /\ Newest.kind = "tsfn"
  /\ list' = Front(list)
  /\ closing' = Append(closing, Newest.id)
  /\ UNCHANGED <<loading, handles, tsfns, records, instance, again, aborted, code, pc, waiting,
                 dropping>>

\* Mutant: another round whether or not a function was closed.
ListEmptyAgain ==
  /\ Idle /\ pc = "pop" /\ list = <<>>
  /\ pc' = "finalize"
  /\ UNCHANGED <<loading, registry, code, closing, waiting, dropping>>

(* Nothing was closed: the disposal is over, whoever waits.                *)
ListEmpty ==
  /\ Idle /\ pc = "pop" /\ list = <<>>
  /\ pc' = IF closing = <<>> THEN "done" ELSE "finalize"
  /\ UNCHANGED <<loading, registry, code, closing, waiting, dropping>>

(* finalize_for_teardown, up to the addon's finalizer.                     *)
Finalize ==
  /\ Idle /\ pc = "finalize" /\ closing # <<>>
  /\ RunCode("tsfn", tsfns[Head(closing)], Head(closing))
  /\ UNCHANGED <<loading, registry, round>>

\* Mutant: the function leaves its env waiting.
ForgetWaiting(e, open) == UNCHANGED <<waiting, dropping>>

(* The env that waited for its last function is dropped.                   *)
DropIfLast(e, open) ==
  IF e \in waiting /\ ~\E t \in Tsfns : open[t] = e
  THEN waiting' = waiting \ {e} /\ dropping' = e
  ELSE UNCHANGED <<waiting, dropping>>

(* The rest of finalize_tsfn: the function is no longer open or listed.    *)
Finalized ==
  /\ code # None /\ code.kind = "tsfn" /\ ~aborted
  /\ tsfns' = [tsfns EXCEPT ![code.id] = None]
  /\ list' = Without("tsfn", code.id)
  /\ code' = None
  /\ IF pc = "live" THEN UNCHANGED <<closing, waiting, dropping>>
     ELSE closing' = Tail(closing) /\ DropIfLast(code.env, tsfns')
  /\ UNCHANGED <<loading, handles, records, instance, again, aborted, pc>>

NextRound ==
  /\ Idle /\ pc = "finalize" /\ closing = <<>>
  /\ pc' = "pop" /\ waiting' = {}
  /\ UNCHANGED <<loading, registry, code, closing, dropping>>

(* Env's drop: teardown_finalizers, newest first.                          *)
RunFinalizer ==
  /\ dropping # None /\ code = None /\ ~aborted /\ records[dropping] # <<>>
  /\ records' = [records EXCEPT ![dropping] = Front(@)]
  /\ instance' = [instance EXCEPT ![dropping] = IF Last(records[dropping]) = "data" THEN "run"
                                                ELSE @]
  /\ RunCode("finalizer", dropping, None)
  /\ UNCHANGED <<loading, list, handles, tsfns, again, aborted, round>>

FreeEnv ==
  /\ dropping # None /\ code = None /\ ~aborted /\ records[dropping] = <<>>
  /\ env' = [env EXCEPT ![dropping] = "freed"]
  /\ dropping' = None
  /\ UNCHANGED <<lib, registry, code, pc, closing, waiting>>

Disposal ==
  \/ PopEnv \/ PopHook \/ PopTsfn \/ ListEmpty \/ Finalize \/ Finalized \/ NextRound
  \/ RunFinalizer \/ FreeEnv \/ Return

Next ==
  \/ \E e \in Envs : LoadAddon(e) \/ EnterAddon(e)
  \/ InitFails \/ Dispose
  \/ \E t \in Tsfns : FinalizeTask(t) \/ CreateTsfn(t)
  \/ \E h \in Hooks : AddHook(h) \/ RemoveHook(h)
  \/ \E h \in AsyncHooks : AddAsyncHook(h) \/ RemoveAsyncHook(h)
  \/ AddFinalizer \/ SetInstanceData
  \/ Disposal

Spec == Init /\ [][Next]_vars

(* The thread that drops the isolate keeps running, and addon code returns.*)
FairSpec == Spec /\ WF_vars(Disposal)
-----------------------------------------------------------------------------
(* Addon code is run for an env that is not freed, with an asynchronous    *)
(* hook's handle that is not, and the disposal aborts nothing.             *)
LiveEnv ==
  /\ ~aborted
  /\ code # None => env[code.env] = "open"
  /\ \A i \in DOMAIN list : /\ env[list[i].env] = "open"
                            /\ list[i].kind = "async" => list[i].id \in handles

(* The code that is run is mapped: the library of an addon is not closed   *)
(* under what its init registered.                                         *)
MappedCode == code # None => lib[code.env] = "mapped"

(* An env is dropped after everything that could still call into it: none  *)
(* of its hooks is listed and none of its threadsafe functions is open.    *)
EnvLast ==
  dropping # None =>
    /\ ~HoldsEnv(dropping)
    /\ \A i \in DOMAIN list : list[i].env # dropping

(* While an isolate is disposed of, addon code meets envs that are there,  *)
(* under HandledOnly.                                                      *)
DisposalSafe == LiveEnv /\ EnvLast

(* The disposal leaves nothing: every env was freed after its finalizers   *)
(* ran, every function finalized, every hook run or removed, under         *)
(* HandledOnly.                                                            *)
NothingLeft ==
  pc = "done" =>
    /\ \A e \in Envs : env[e] # "open" /\ records[e] = <<>>
    /\ list = <<>> /\ \A t \in Tsfns : tsfns[t] = None

(* The disposal ends, whatever the hooks and finalizers register (within   *)
(* the bound).                                                             *)
DisposalEnds == pc = "pop" ~> pc = "done"
====
