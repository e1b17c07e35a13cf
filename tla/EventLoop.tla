---------------------------------- MODULE EventLoop ----------------------------------
(***************************************************************************)
(* The event loop of a test file: drive_tests_bounded of src/src/runner.rs *)
(* over the timers, clocks and nextTicks of src/src/runtime.js and the     *)
(* native callbacks of src/src/napi_host_async.rs, for the files that one  *)
(* reused isolate runs one after another.                                  *)
(*                                                                         *)
(* The loop's clock is virtual: it jumps to the next timer instead of      *)
(* sleeping, except that it waits for native work, for the delay of that   *)
(* timer.  What the callbacks do is nondeterministic: while `js' is set, a *)
(* callback runs and may queue, set, clear and advance.                    *)
(***************************************************************************)
EXTENDS Integers, FiniteSets

CONSTANTS
  Delays,          \* the delays of timers, in ms
  TestTimeout,     \* a test's timeout, in ms
  MaxFiles,        \* bound: files run in the isolate
  MaxCalls,        \* bound: calls of the host's functions by JS
  MaxPosts,        \* bound: calls ever queued to the threadsafe function
  MaxTurns,        \* max_turns of drive_tests_bounded
  LoopLimit,       \* loopLimit: the timers vi.runAllTimers fires
  WorkAmongStale,  \* BOOLEAN: native work is awaited while the timers that
                   \* the previous file left are not dropped yet
  None             \* no callback, no timeout

ASSUME LoopBounds ==
  /\ Delays \subseteq Nat /\ {TestTimeout, MaxFiles, MaxCalls, MaxPosts} \subseteq Nat
  /\ {MaxTurns, LoopLimit} \subseteq Nat /\ WorkAmongStale \in BOOLEAN

VARIABLES
  gen,        \* the file's generation: 1 for the first
  promise,    \* the file's run(): "pending" or "settled"
  pc, ran,    \* where drive_tests_bounded is; whether drainNextTicks ran one
  turns,      \* its guard
  js,         \* the callback that runs, or None
  outer,      \* the callback that called vi.advanceTimersByTime, or None
  ticks,      \* nextTicks queued
  micro,      \* microtasks queued
  macro,      \* the real clock's timers of the tests
  internal,   \* the runtime's own timers: test timeouts
  fmacro,     \* the fake clock's timers
  now, fnow,  \* the real clock, which jumps, and the fake one
  fake,       \* the fake timers are installed
  call,       \* that call: where the fake clock goes, how many timers it
              \* may fire, whether it drains the nextTicks; or None
  ready,      \* native callbacks posted for this thread, as a bag of two kinds
  running,    \* async works queued or running in the pool
  tsfn,       \* the threadsafe function: "none", "refed" or "unrefed"
  timeout,    \* how long wait_native_task waits, or None: for ever
  slept,      \* how long the last wait took that ended without a callback
  calls,      \* calls so far; a timer's id
  posts       \* calls queued to the threadsafe function so far

timers == <<macro, internal, fmacro, now, fnow, fake, call>>
native == <<ready, running, tsfn, posts>>
queues == <<ticks, micro>>
loop == <<pc, ran, turns, timeout, slept>>
vars == <<gen, promise, js, outer, calls, queues, timers, native, loop>>

Init ==
  /\ gen = 1 /\ promise = "pending" /\ js = None /\ outer = None
  /\ pc = "turn" /\ ran = FALSE /\ turns = 0 /\ timeout = None /\ slept = 0
  /\ ticks = 0 /\ micro = 1 /\ calls = 0
  /\ macro = {} /\ internal = {} /\ fmacro = {}
  /\ now = 0 /\ fnow = 0 /\ fake = FALSE /\ call = None
  /\ ready = [complete |-> 0, dispatch |-> 0] /\ running = 0 /\ tsfn = "none" /\ posts = 0

Own(set) == {t \in set : t.gen >= gen}
Stale == {t \in macro \union internal : t.gen < gen}
InFlight == running + ready.complete
Posted == ready.complete + ready.dispatch
SmallestOf(S) == CHOOSE x \in S : \A y \in S : x <= y

\* Mutant: works in flight do not keep the loop alive.
AliveIfReferenced == tsfn = "refed"

(* keeps_loop_alive *)
KeepsAlive == InFlight > 0 \/ tsfn = "refed"

(* __ttNextMacroDelay *)
NextMacroDelay ==
  IF macro \union internal = {} THEN None
  ELSE LET due == SmallestOf({t.due : t \in macro \union internal})
       IN  IF due > now THEN due - now ELSE 0

Runs(kind, t) == js' = [kind |-> kind, gen |-> t]
Idle == js = None /\ outer = None
-----------------------------------------------------------------------------
(* The loop.                                                               *)

Turn ==
  /\ Idle /\ pc = "turn"
  /\ turns' = turns + 1 /\ slept' = 0 /\ ran' = FALSE
  /\ pc' = IF turns' > MaxTurns THEN "over" ELSE "ticks"
  /\ UNCHANGED <<gen, promise, js, outer, calls, queues, timers, native, timeout>>

RunTick ==
  /\ Idle /\ pc = "ticks" /\ ticks > 0
  /\ ticks' = ticks - 1 /\ ran' = TRUE /\ Runs("tick", gen)
  /\ UNCHANGED <<gen, promise, outer, calls, micro, timers, native, pc, turns, timeout, slept>>

TicksDrained ==
  /\ Idle /\ pc = "ticks" /\ ticks = 0 /\ pc' = "micro"
  /\ UNCHANGED <<gen, promise, js, outer, calls, queues, timers, native, ran, turns, timeout, slept>>

RunMicrotask ==
  /\ Idle /\ pc = "micro" /\ micro > 0
  /\ micro' = micro - 1 /\ Runs("micro", gen)
  /\ UNCHANGED <<gen, promise, outer, calls, ticks, timers, native, loop>>

\* Mutant: done when no nextTick ran, whatever the microtasks queued.
FixpointUnlessRan == ~ran

(* No nextTick ran and none is pending. *)
Fixpoint == ~ran /\ ticks = 0

Drained ==
  /\ Idle /\ pc = "micro" /\ micro = 0
  /\ pc' = IF Fixpoint THEN "settled" ELSE "ticks"
  /\ ran' = FALSE
  /\ UNCHANGED <<gen, promise, js, outer, calls, queues, timers, native, turns, timeout, slept>>

Settled ==
  /\ Idle /\ pc = "settled"
  /\ pc' = IF promise = "pending" THEN "native" ELSE "over"
  /\ UNCHANGED <<gen, promise, js, outer, calls, queues, timers, native, ran, turns, timeout, slept>>

(* run_native_task: one per turn. *)
RunNativeTask(kind) ==
  /\ Idle /\ pc = "native" /\ ready[kind] > 0
  /\ ready' = [ready EXCEPT ![kind] = @ - 1]
  /\ Runs("native", gen)
  /\ pc' = "turn"
  /\ UNCHANGED <<gen, promise, outer, calls, queues, timers, running, tsfn, posts, ran, turns, timeout,
                 slept>>

\* Mutant: only what is posted is looked at.
WaitsForNothing == IF macro \union internal = {} THEN None ELSE 0

\* Mutant: the loop waits for native work whatever timers are set.
WaitsForEver == None

WaitsFor == NextMacroDelay

NoNativeTask ==
  /\ Idle /\ pc = "native" /\ Posted = 0
  /\ IF KeepsAlive THEN pc' = "wait" /\ timeout' = WaitsFor
                   ELSE pc' = "step" /\ UNCHANGED timeout
  /\ UNCHANGED <<gen, promise, js, outer, calls, queues, timers, native, ran, turns, slept>>

(* wait_native_task, which finds a callback or none once its time is over. *)
Woken ==
  /\ pc = "wait" /\ Posted > 0 /\ pc' = "turn"
  /\ UNCHANGED <<gen, promise, js, outer, calls, queues, timers, native, ran, turns, timeout, slept>>

TimedOut ==
  /\ pc = "wait" /\ timeout # None /\ Posted = 0
  /\ pc' = "step" /\ slept' = timeout
  /\ UNCHANGED <<gen, promise, js, outer, calls, queues, timers, native, ran, turns, timeout>>

Before(t, u) == t.ord < u.ord \/ (t.ord = u.ord /\ t.id <= u.id)
Sooner(t, u) == t.due < u.due \/ (t.due = u.due /\ t.id <= u.id)

Later(due) == IF due > now THEN due ELSE now

\* Mutant: the timers of the previous file stay.
KeepStaleTimers == macro \union internal

(* __dropStaleTimers *)
WithoutStale == Own(macro \union internal)

(* stepMacro: the runtime's own timer when it is due before the tests'     *)
(* first.                                                                  *)
Fire(t) ==
  /\ now' = Later(t.due)
  /\ Runs("timer", t.gen)
  /\ IF t.interval = None
     THEN macro' = (macro \intersect WithoutStale) \ {t}
     ELSE macro' = ((macro \intersect WithoutStale) \ {t})
                     \union {[t EXCEPT !.due = now' + t.interval, !.ord = now' + t.interval]}
  /\ internal' = (internal \intersect WithoutStale) \ {t}
  /\ fmacro' = Own(fmacro)

StepMacro ==
  /\ Idle /\ pc = "step" /\ WithoutStale # {}
  /\ LET users == macro \intersect WithoutStale
         own == internal \intersect WithoutStale
     IN  \E t \in users \union own :
           /\ IF t \in own
              THEN /\ \A u \in own : Sooner(t, u)
                   /\ \A m \in users : (\A u \in users : Before(m, u)) => t.due < m.due
              ELSE /\ \A u \in users : Before(t, u)
                   /\ \A u \in own : t.due <= u.due
           /\ Fire(t)
  /\ pc' = "turn"
  /\ UNCHANGED <<gen, promise, outer, calls, queues, fnow, fake, call, native, ran, turns, timeout, slept>>

(* No macrotask: the loop ends with run() pending. *)
NoMacro ==
  /\ Idle /\ pc = "step" /\ WithoutStale = {}
  /\ macro' = {} /\ internal' = {} /\ fmacro' = Own(fmacro)
  /\ pc' = "over"
  /\ UNCHANGED <<gen, promise, js, outer, calls, queues, now, fnow, fake, call, native, ran, turns,
                 timeout, slept>>

(* The next file of the isolate: what the last one left is dropped when it *)
(* is met, and the real timers are back.                                   *)
NextFile ==
  /\ Idle /\ pc = "over" /\ gen < MaxFiles
  /\ WorkAmongStale \/ ~KeepsAlive \/ macro \union internal = {}
  /\ gen' = gen + 1 /\ promise' = "pending" /\ pc' = "turn" /\ turns' = 0 /\ micro' = micro + 1
  /\ IF fake THEN fake' = FALSE /\ fmacro' = {} ELSE UNCHANGED <<fake, fmacro>>
  /\ UNCHANGED <<js, outer, calls, ticks, macro, internal, now, fnow, call, native, ran, timeout,
                 slept>>
-----------------------------------------------------------------------------
(* What a callback does.                                                   *)

Calling == js # None
Calls == Calling /\ calls < MaxCalls /\ calls' = calls + 1

NextTick ==
  /\ Calls /\ ticks' = ticks + 1
  /\ UNCHANGED <<gen, promise, js, outer, micro, timers, native, loop>>

QueueMicrotask ==
  /\ Calls /\ micro' = micro + 1
  /\ UNCHANGED <<gen, promise, js, outer, ticks, timers, native, loop>>

(* __schedule: a delay below 1 ms stays 0 and runs where a timer of 1 ms   *)
(* does, unless it is an immediate (zeroDelayTimers).                      *)
Timer(clock, delay, interval, clamped) ==
  [id |-> calls + 1, due |-> clock + delay, interval |-> interval, gen |-> gen,
   ord |-> clock + delay + (IF clamped THEN 1 ELSE 0)]

ScheduleReal(delay, interval, immediate) ==
  /\ Calls /\ macro' = macro \union {Timer(now, delay, interval, delay = 0 /\ ~immediate)}
  /\ UNCHANGED <<gen, promise, js, outer, queues, internal, fmacro, now, fnow, fake, call,
                 native, loop>>

ScheduleFake(delay, interval) ==
  /\ Calls /\ fake
  /\ fmacro' = fmacro \union {Timer(fnow, delay, interval, FALSE)}
  /\ UNCHANGED <<gen, promise, js, outer, queues, macro, internal, now, fnow, fake, call,
                 native, loop>>

ScheduleInternal ==
  /\ Calls /\ internal' = internal \union {Timer(now, TestTimeout, None, FALSE)}
  /\ UNCHANGED <<gen, promise, js, outer, queues, macro, fmacro, now, fnow, fake, call,
                 native, loop>>

(* __clearTimer, __clearInternal *)
ClearTimer(t) ==
  /\ Calls
  /\ macro' = macro \ {t} /\ fmacro' = fmacro \ {t} /\ internal' = internal \ {t}
  /\ UNCHANGED <<gen, promise, js, outer, queues, now, fnow, fake, call, native, loop>>

(* vi.useFakeTimers: a clock already installed is uninstalled first.       *)
UseFakeTimers ==
  /\ Calls /\ outer = None
  /\ fake' = TRUE
  /\ fmacro' = IF fake THEN {} ELSE fmacro
  /\ UNCHANGED <<gen, promise, js, outer, queues, macro, internal, now, fnow, call, native,
                 loop>>

UseRealTimers ==
  /\ Calls /\ outer = None
  /\ fake' = FALSE /\ fmacro' = {}
  /\ UNCHANGED <<gen, promise, js, outer, queues, macro, internal, now, fnow, call, native,
                 loop>>

Suspend(to, left) ==
  /\ Calls /\ outer = None /\ fake
  /\ outer' = js /\ js' = None
  /\ call' = [to |-> to, left |-> left, drain |-> FALSE]

(* vi.advanceTimersByTime *)
Advance(ms) ==
  /\ Suspend(fnow + ms, None)
  /\ macro' = Own(macro) /\ internal' = Own(internal) /\ fmacro' = Own(fmacro)
  /\ UNCHANGED <<gen, promise, queues, now, fnow, fake, native, loop>>

(* vi.runAllTimers *)
RunAll ==
  /\ Suspend(None, LoopLimit)
  /\ UNCHANGED <<gen, promise, queues, macro, internal, fmacro, now, fnow, fake, native, loop>>

InCall == outer # None /\ js = None

DueFake ==
  {t \in fmacro : /\ call.to # None => t.due <= call.to
                  /\ call.left # 0
                  /\ \A u \in fmacro : Sooner(t, u)}

FireFake(t) ==
  /\ InCall /\ ~call.drain /\ t \in DueFake
  /\ fnow' = IF t.due > fnow THEN t.due ELSE fnow
  /\ fmacro' = (fmacro \ {t}) \union
               (IF t.interval = None THEN {} ELSE {[t EXCEPT !.due = fnow' + t.interval]})
  /\ call' = [call EXCEPT !.drain = TRUE, !.left = IF @ = None THEN None ELSE @ - 1]
  /\ Runs("timer", t.gen)
  /\ UNCHANGED <<gen, promise, outer, calls, queues, macro, internal, now, fake, native, loop>>

DrainInCall ==
  /\ InCall /\ call.drain
  /\ IF ticks > 0 THEN ticks' = ticks - 1 /\ Runs("tick", gen) /\ UNCHANGED call
     ELSE call' = [call EXCEPT !.drain = FALSE] /\ UNCHANGED <<ticks, js>>
  /\ UNCHANGED <<gen, promise, outer, calls, micro, macro, internal, fmacro, now, fnow, fake,
                 native, loop>>

CallEnds ==
  /\ InCall /\ ~call.drain /\ DueFake = {}
  /\ fnow' = IF call.to = None THEN fnow ELSE call.to
  /\ js' = outer /\ outer' = None /\ call' = None
  /\ UNCHANGED <<gen, promise, calls, queues, macro, internal, fmacro, now, fake, native, loop>>

AwaitsNative == Calls /\ (WorkAmongStale \/ Stale = {})

QueueWork ==
  /\ AwaitsNative /\ running' = running + 1
  /\ UNCHANGED <<gen, promise, js, outer, queues, timers, ready, tsfn, posts, loop>>

(* A threadsafe function is made, referenced, unreferenced or closed.      *)
SetTsfn(state) ==
  /\ AwaitsNative /\ MaxPosts > 0 /\ tsfn # state
  /\ tsfn' = state
  /\ UNCHANGED <<gen, promise, js, outer, queues, timers, ready, running, posts, loop>>

Settle ==
  /\ Calls /\ outer = None /\ promise' = "settled"
  /\ UNCHANGED <<gen, js, outer, queues, timers, native, loop>>

Return ==
  /\ Calling /\ js' = None
  /\ UNCHANGED <<gen, promise, outer, calls, queues, timers, native, loop>>
-----------------------------------------------------------------------------
(* Other threads.                                                          *)

WorkDone ==
  /\ running > 0 /\ running' = running - 1
  /\ ready' = [ready EXCEPT !.complete = @ + 1]
  /\ UNCHANGED <<gen, promise, js, outer, calls, queues, timers, tsfn, posts, loop>>

CallTsfn ==
  /\ tsfn # "none" /\ posts < MaxPosts /\ posts' = posts + 1
  /\ ready' = [ready EXCEPT !.dispatch = @ + 1]
  /\ UNCHANGED <<gen, promise, js, outer, calls, queues, timers, running, tsfn, loop>>

Drive ==
  \/ Turn \/ RunTick \/ TicksDrained \/ RunMicrotask \/ Drained \/ Settled
  \/ \E kind \in DOMAIN ready : RunNativeTask(kind)
  \/ NoNativeTask \/ Woken \/ TimedOut \/ StepMacro \/ NoMacro
  \/ \E t \in fmacro : FireFake(t)
  \/ DrainInCall \/ CallEnds

Callback ==
  \/ NextTick \/ QueueMicrotask
  \/ \E delay \in Delays :
       \/ \E immediate \in BOOLEAN : /\ immediate => delay = 0
                                    /\ ScheduleReal(delay, None, immediate)
       \/ ScheduleReal(delay, IF delay = 0 THEN 1 ELSE delay, FALSE)
       \/ \E interval \in {None} \union (Delays \ {0}) : ScheduleFake(delay, interval)
       \/ Advance(delay)
  \/ ScheduleInternal
  \/ \E t \in macro \union internal \union fmacro : ClearTimer(t)
  \/ UseFakeTimers \/ UseRealTimers \/ RunAll
  \/ QueueWork \/ \E state \in {"none", "refed", "unrefed"} : SetTsfn(state)
  \/ Settle

Next == Drive \/ Return \/ Callback \/ NextFile \/ WorkDone \/ CallTsfn

Spec == Init /\ [][Next]_vars

(* The JS thread keeps turning, a callback returns, and the pool runs its  *)
(* works.  Nobody has to call the threadsafe function.                     *)
FairSpec == Spec /\ WF_vars(Drive) /\ WF_vars(Return) /\ WF_vars(WorkDone)
-----------------------------------------------------------------------------
Starts(kinds) == Idle /\ js' # None /\ js'.kind \in kinds

(* Between two macrotasks, and before a native callback, every nextTick and *)
(* microtask ran (the loop's fixpoint in drive_tests_bounded).             *)
QueuesFirst == [][Starts({"timer", "native"}) => ticks = 0 /\ micro = 0]_vars

(* The loop gives a file up as pending only when nothing can settle it: no *)
(* work in the pool, no completion posted, no timer of the file, no        *)
(* referenced threadsafe function.  Native work that is awaited among      *)
(* stale timers (WorkAmongStale) is given up earlier.                      *)
EndsWhenDone ==
  pc = "over" /\ promise = "pending" /\ turns <= MaxTurns =>
    InFlight = 0 /\ tsfn # "refed" /\ Own(macro \union internal) = {}

(* While native work can come, a timer fires only after the loop waited    *)
(* for the work as long as the timer had to go (but for the millisecond    *)
(* that a clamped timer due before it is short of).                        *)
FiresAfterWait ==
  [][Starts({"timer"}) /\ pc = "step" /\ KeepsAlive => slept + 1 >= now' - now]_vars

(* A macrotask runs in its turn: after the queues, and after the wait.     *)
InTurn == QueuesFirst /\ FiresAfterWait

(* No callback of a timer that a previous file set runs (generations and   *)
(* __dropStaleTimers).                                                     *)
OwnFile == js # None => js.gen = gen

(* The loop of a file ends, unless it waits for a referenced threadsafe    *)
(* function and no timer is set.                                           *)
LoopEnds ==
  []<>(pc = "over" \/ (pc = "wait" /\ tsfn = "refed" /\ macro \union internal = {}))
====
