--------------------------- MODULE EventLoopProofs ---------------------------
(***************************************************************************)
(* The event loop of a test file, for any delays, files, calls, works and  *)
(* limits: which timer runs and when, whose callbacks run, and when the    *)
(* loop gives a file up.                                                   *)
(***************************************************************************)
EXTENDS EventLoop, TLAPS, WellFoundedInduction

OrNone(S) == S \union {None}

Timers == [id : Nat, due : Nat, interval : OrNone(Nat), gen : Nat, ord : Nat]

TypeInv ==
  /\ gen \in Nat /\ calls \in Nat /\ now \in Nat /\ turns \in Nat
  /\ macro \subseteq Timers /\ internal \subseteq Timers
  /\ ready \in [{"complete", "dispatch"} -> Nat] /\ running \in Nat

(* A timer's place is its time, but for the millisecond of a clamped one,  *)
(* and it is of this file or of an earlier one.                            *)
TimerInv ==
  /\ \A t \in macro : t.ord \in {t.due, t.due + 1}
  /\ \A t \in macro \union internal : t.gen <= gen

(* The fake clock and the callbacks are this file's.                       *)
FileInv ==
  /\ ~fake => fmacro = {}
  /\ \A t \in fmacro : t.gen = gen
  /\ js # None => js.gen = gen
  /\ outer # None => outer.gen = gen

(* Past the queues nothing runs, nothing is queued, and run() is pending.  *)
LoopInv ==
  /\ pc \in {"settled", "native", "wait", "step", "over"} => js = None /\ outer = None
  /\ pc \in {"settled", "native", "wait", "step"} => ticks = 0 /\ micro = 0
  /\ pc \in {"native", "wait", "step"} => promise = "pending"

(* The loop waits as long as the first timer has to go, and steps past     *)
(* native work only after that wait.                                       *)
WaitInv ==
  /\ pc = "wait" => KeepsAlive /\ timeout = NextMacroDelay
  /\ pc = "step" /\ KeepsAlive => macro \union internal # {} /\ slept = NextMacroDelay

(* Native work is not awaited among timers of an earlier file.             *)
StaleInv == KeepsAlive => Stale = {}

Inductive == TypeInv /\ TimerInv /\ FileInv /\ LoopInv /\ WaitInv

InductiveOwn == Inductive /\ StaleInv /\ EndsWhenDone

-----------------------------------------------------------------------------
(* Firsts                                                                  *)

(* A set of numbers that is not empty has a smallest one. *)
LEMMA Smallest ==
  ASSUME NEW S, S \subseteq Nat, S # {}
  PROVE  /\ \E x \in S : \A y \in S : x <= y
         /\ SmallestOf(S) \in S /\ \A y \in S : SmallestOf(S) <= y
<1>1. PICK x \in S : \A y \in S : ~ (<<y, x>> \in OpToRel(<, Nat))
  BY NatLessThanWellFounded, WFMin
<1>2. \A y \in S : x <= y
  <2>1. ASSUME NEW y \in S
        PROVE  x <= y
    <3>1. x \in Nat /\ y \in Nat
      OBVIOUS
    <3>2. <<y, x>> \in OpToRel(<, Nat) <=> y < x
      BY <3>1 DEF OpToRel
    <3>3. ~ (y < x)
      BY <1>1, <3>2
    <3>4. QED
      BY <3>1, <3>3
  <2>2. QED
    BY <2>1
<1>3. QED
  BY <1>2 DEF SmallestOf

(* Among timers there is one that comes before the others. *)
LEMMA First ==
  ASSUME NEW S, S \subseteq Timers, S # {}
  PROVE  \E t \in S : \A u \in S : Before(t, u)
<1> DEFINE ords == {t.ord : t \in S}
<1>1. ords \subseteq Nat /\ ords # {}
  BY DEF Timers
<1>2. PICK ord \in ords : \A y \in ords : ord <= y
  BY <1>1, Smallest
<1> DEFINE firsts == {t \in S : t.ord = ord}
<1> DEFINE ids == {t.id : t \in firsts}
<1>3. ids \subseteq Nat /\ ids # {}
  BY <1>2 DEF Timers
<1>4. PICK id \in ids : \A y \in ids : id <= y
  BY <1>3, Smallest
<1>5. PICK t \in firsts : t.id = id
  BY <1>4
<1>6. ASSUME NEW u \in S
      PROVE  Before(t, u)
  <2>1. t.ord = ord /\ ord <= u.ord /\ ord \in Nat /\ u.ord \in Nat
    BY <1>1, <1>2, <1>5
  <2>2. CASE ord < u.ord
    BY <2>1, <2>2 DEF Before
  <2>3. CASE ord = u.ord
    BY <1>4, <1>5, <2>1, <2>3 DEF Before
  <2>4. QED
    BY <2>1, <2>2, <2>3
<1>7. QED
  BY <1>5, <1>6

(* What the loop waits for is how long the first timer has to go. *)
LEMMA Delay ==
  ASSUME TypeInv, macro \union internal # {}
  PROVE  \E due \in Nat :
           /\ \A u \in macro \union internal : due <= u.due
           /\ \E u \in macro \union internal : due = u.due
           /\ NextMacroDelay = IF due > now THEN due - now ELSE 0
<1> DEFINE dues == {t.due : t \in macro \union internal}
<1>1. dues \subseteq Nat /\ dues # {}
  BY DEF TypeInv, Timers
<1>2. PICK due : due = SmallestOf(dues)
  OBVIOUS
<1>3. due \in Nat /\ due \in dues /\ \A y \in dues : due <= y
  BY <1>1, <1>2, Smallest
<1>4. NextMacroDelay = IF due > now THEN due - now ELSE 0
  BY <1>2 DEF NextMacroDelay
<1> HIDE DEF dues
<1>5. /\ \A u \in macro \union internal : due <= u.due
      /\ \E u \in macro \union internal : due = u.due
  BY <1>3 DEF dues
<1>6. QED
  BY <1>3, <1>4, <1>5

-----------------------------------------------------------------------------
(* The invariant, one group of variables at a time                         *)

(* A timer that a callback sets, or timers that it drops. *)
TimersMove ==
  \/ macro' \subseteq macro /\ internal' \subseteq internal
  \/ \E delay \in Nat, interval \in OrNone(Nat), clamped \in BOOLEAN :
       /\ macro' = macro \union {Timer(now, delay, interval, clamped)}
       /\ internal' = internal
  \/ \E delay \in Nat :
       /\ macro' = macro
       /\ internal' = internal \union {Timer(now, delay, None, FALSE)}

(* What a callback's call may do: all of it but the queues, the promise    *)
(* and the fake clock.                                                     *)
LEMMA CallbackMoves ==
  ASSUME Callback
  PROVE  /\ js # None /\ calls' = calls + 1
         /\ UNCHANGED <<gen, now, ready, pc, turns, timeout, slept>>
         /\ running' \in {running, running + 1}
         /\ UNCHANGED <<js, outer>> \/ (outer' = js /\ js' = None)
         /\ UNCHANGED <<running, tsfn>> \/ (AwaitsNative /\ UNCHANGED <<macro, internal>>)
         /\ TimersMove
<1>1. CASE \E delay \in Delays, immediate \in BOOLEAN :
             \/ ScheduleReal(delay, None, immediate)
             \/ ScheduleReal(delay, IF delay = 0 THEN 1 ELSE delay, FALSE)
  <2>1. PICK delay \in Nat, interval \in OrNone(Nat), immediate \in BOOLEAN :
          ScheduleReal(delay, interval, immediate)
    <3>1. \A delay \in Delays :
            /\ delay \in Nat
            /\ None \in OrNone(Nat) /\ (IF delay = 0 THEN 1 ELSE delay) \in OrNone(Nat)
      BY LoopBounds DEF OrNone
    <3>2. QED
      BY <1>1, <3>1
  <2>2. /\ macro' = macro \union {Timer(now, delay, interval, delay = 0 /\ ~immediate)}
        /\ internal' = internal
    BY <2>1 DEF ScheduleReal
  <2>3. (delay = 0 /\ ~immediate) \in BOOLEAN
    OBVIOUS
  <2>4. TimersMove
    BY <2>2, <2>3 DEF TimersMove
  <2>5. QED
    BY <2>1, <2>4 DEF ScheduleReal, Calls, Calling, native, loop
<1>2. CASE ScheduleInternal
  <2>1. TimersMove
    BY <1>2, LoopBounds DEF ScheduleInternal, TimersMove
  <2>2. QED
    BY <1>2, <2>1 DEF ScheduleInternal, Calls, Calling, native, loop
<1>3. CASE NextTick \/ QueueMicrotask \/ Settle \/ UseFakeTimers \/ UseRealTimers
  BY <1>3 DEF NextTick, QueueMicrotask, Settle, UseFakeTimers, UseRealTimers, TimersMove,
     Calls, Calling, timers, native, loop
<1>4. CASE \E delay \in Delays, interval \in {None} \union (Delays \ {0}) :
             ScheduleFake(delay, interval)
  BY <1>4 DEF ScheduleFake, TimersMove, Calls, Calling, native, loop
<1>5. CASE \E t \in macro \union internal \union fmacro : ClearTimer(t)
  BY <1>5 DEF ClearTimer, TimersMove, Calls, Calling, native, loop
<1>6. CASE RunAll \/ \E delay \in Delays : Advance(delay)
  <2>1. Own(macro) \subseteq macro /\ Own(internal) \subseteq internal
    BY DEF Own
  <2>2. QED
    BY <1>6, <2>1 DEF RunAll, Advance, Suspend, TimersMove, Calls, Calling, native, loop
<1>7. CASE QueueWork \/ \E state \in {"none", "refed", "unrefed"} : SetTsfn(state)
  BY <1>7 DEF QueueWork, SetTsfn, TimersMove, AwaitsNative, Calls, Calling, timers, loop
<1>8. QED
  BY <1>1, <1>2, <1>3, <1>4, <1>5, <1>6, <1>7 DEF Callback

(* A timer that fires goes, or is set again as far on as its interval.     *)
LEMMA FireMoves ==
  ASSUME TypeInv, NEW t \in macro \union internal, Fire(t)
  PROVE  /\ t \in Timers /\ now' \in Nat
         /\ internal' \subseteq internal
         /\ \/ macro' \subseteq macro
            \/ \E again \in Timers :
                 /\ macro' \subseteq macro \union {again}
                 /\ again.ord = again.due /\ again.gen = t.gen
<1>1. t \in Timers
  BY DEF TypeInv
<1>2. t.due \in Nat /\ t.interval \in OrNone(Nat)
  BY <1>1 DEF Timers
<1>3. now' \in Nat
  BY <1>2 DEF Fire, Later, TypeInv
<1>4. internal' \subseteq internal
  BY DEF Fire
<1>5. CASE t.interval = None
  BY <1>1, <1>3, <1>4, <1>5 DEF Fire
<1>6. CASE t.interval # None
  <2>1. t.interval \in Nat
    BY <1>2, <1>6 DEF OrNone
  <2>2. PICK due \in Nat : due = now' + t.interval
    BY <1>3, <2>1
  <2>3. PICK again : again = [t EXCEPT !.due = due, !.ord = due]
    OBVIOUS
  <2>4. again \in Timers /\ again.ord = again.due /\ again.gen = t.gen
    BY <1>1, <2>3 DEF Timers
  <2>5. macro' \subseteq macro \union {again}
    BY <1>6, <2>2, <2>3 DEF Fire
  <2>6. QED
    BY <1>1, <1>3, <1>4, <2>4, <2>5
<1>7. QED
  BY <1>5, <1>6

(* What the loop and other threads leave alone. *)
LEMMA DriveMoves ==
  ASSUME [Next]_vars, ~Callback, ~StepMacro
  PROVE  /\ UNCHANGED <<calls, now>> /\ macro' \subseteq macro /\ internal' \subseteq internal
         /\ gen' = gen \/ NextFile
         /\ turns' \in {turns, turns + 1, 0}
<1>1. CASE Drive
  BY <1>1 DEF Drive, Turn, RunTick, TicksDrained, RunMicrotask, Drained, Settled, RunNativeTask,
     NoNativeTask, Woken, TimedOut, NoMacro, FireFake, DrainInCall, CallEnds, timers, loop
<1>2. CASE Return \/ NextFile \/ WorkDone \/ CallTsfn
  BY <1>2 DEF Return, NextFile, WorkDone, CallTsfn, timers, loop
<1>3. CASE UNCHANGED vars
  BY <1>3 DEF vars, timers, loop
<1>4. QED
  BY <1>1, <1>2, <1>3 DEF Next

(* Who has native work in hand, but for what callbacks queue. *)
LEMMA NativeMoves ==
  ASSUME TypeInv, [Next]_vars, ~Callback
  PROVE  /\ ready' \in [{"complete", "dispatch"} -> Nat] /\ running' \in Nat /\ tsfn' = tsfn
         /\ InFlight' <= InFlight
         /\ InFlight' = InFlight \/ \E kind \in DOMAIN ready : RunNativeTask(kind)
<1> USE DEF TypeInv, InFlight
<1>1. CASE \E kind \in DOMAIN ready : RunNativeTask(kind)
  <2>1. PICK kind \in {"complete", "dispatch"} : RunNativeTask(kind)
    BY <1>1
  <2>2. PICK n \in Nat : n = ready[kind] - 1
    BY <2>1 DEF RunNativeTask
  <2>3. ready' = [ready EXCEPT ![kind] = n]
    BY <2>1, <2>2 DEF RunNativeTask
  <2>4. /\ ready' \in [{"complete", "dispatch"} -> Nat]
        /\ ready'.complete <= ready.complete
    BY <2>1, <2>2, <2>3
  <2>5. running' = running /\ tsfn' = tsfn
    BY <2>1 DEF RunNativeTask
  <2>6. InFlight' <= InFlight
    BY <2>4, <2>5
  <2>7. QED
    BY <1>1, <2>4, <2>5, <2>6
<1>2. CASE WorkDone
  <2>1. PICK n \in Nat : n = ready.complete + 1
    OBVIOUS
  <2>2. ready' = [ready EXCEPT !.complete = n]
    BY <1>2, <2>1 DEF WorkDone
  <2>3. ready' \in [{"complete", "dispatch"} -> Nat] /\ ready'.complete = n
    BY <2>2
  <2>4. running' = running - 1 /\ running' \in Nat /\ tsfn' = tsfn
    BY <1>2 DEF WorkDone
  <2>5. InFlight' = InFlight
    BY <2>1, <2>3, <2>4
  <2>6. QED
    BY <2>3, <2>4, <2>5
<1>3. CASE CallTsfn
  <2>1. PICK n \in Nat : n = ready.dispatch + 1
    OBVIOUS
  <2>2. ready' = [ready EXCEPT !.dispatch = n] /\ running' = running
    BY <1>3, <2>1 DEF CallTsfn
  <2>3. QED
    BY <1>3, <2>1, <2>2 DEF CallTsfn
<1>4. CASE UNCHANGED native
  BY <1>4 DEF native
<1>5. CASE Drive /\ ~ \E kind \in DOMAIN ready : RunNativeTask(kind)
  <2>1. UNCHANGED native
    BY <1>5 DEF Drive, Turn, RunTick, TicksDrained, RunMicrotask, Drained, Settled,
       NoNativeTask, Woken, TimedOut, StepMacro, NoMacro, FireFake, DrainInCall, CallEnds
  <2>2. QED
    BY <1>4, <2>1
<1>6. CASE Return \/ NextFile \/ UNCHANGED vars
  <2>1. UNCHANGED native
    BY <1>6 DEF Return, NextFile, vars, native
  <2>2. QED
    BY <1>4, <2>1
<1>7. QED
  BY <1>1, <1>2, <1>3, <1>5, <1>6 DEF Next

(* Every variable keeps its type. *)
LEMMA TypeNext ==
  ASSUME TypeInv, [Next]_vars
  PROVE  TypeInv'
<1>1. CASE Callback
  <2>1. /\ calls' = calls + 1 /\ UNCHANGED <<gen, now, ready, turns>>
        /\ running' \in {running, running + 1} /\ TimersMove
    BY <1>1, CallbackMoves
  <2>2. \A delay \in Nat, interval \in OrNone(Nat), clamped \in BOOLEAN :
          Timer(now, delay, interval, clamped) \in Timers
    BY DEF TypeInv, Timer, Timers
  <2>3. None \in OrNone(Nat)
    BY DEF OrNone
  <2>4. macro' \subseteq Timers /\ internal' \subseteq Timers
    BY <2>1, <2>2, <2>3 DEF TypeInv, TimersMove
  <2>5. QED
    BY <2>1, <2>4 DEF TypeInv
<1>2. CASE StepMacro
  <2>1. PICK t \in macro \union internal : Fire(t)
    BY <1>2 DEF StepMacro, WithoutStale
  <2>2. now' \in Nat /\ macro' \subseteq Timers /\ internal' \subseteq Timers
    BY <2>1, FireMoves DEF TypeInv
  <2>3. UNCHANGED <<gen, calls, ready, running, turns>>
    BY <1>2 DEF StepMacro, native
  <2>4. QED
    BY <2>2, <2>3 DEF TypeInv
<1>3. CASE ~Callback /\ ~StepMacro
  <2>1. UNCHANGED <<calls, now>> /\ macro' \subseteq macro /\ internal' \subseteq internal
    BY <1>3, DriveMoves
  <2>2. gen' = gen \/ gen' = gen + 1
    BY <1>3, DriveMoves DEF NextFile
  <2>3. ready' \in [{"complete", "dispatch"} -> Nat] /\ running' \in Nat
    BY <1>3, NativeMoves
  <2>4. gen' \in Nat
    BY <2>2 DEF TypeInv
  <2>5. turns' \in {turns, turns + 1, 0}
    BY <1>3, DriveMoves
  <2>6. QED
    BY <2>1, <2>3, <2>4, <2>5 DEF TypeInv
<1>4. QED
  BY <1>1, <1>2, <1>3

(* Every timer keeps its place, and is of this file or of an earlier one. *)
LEMMA TimerNext ==
  ASSUME TypeInv, TimerInv, [Next]_vars
  PROVE  TimerInv'
<1> USE DEF TimerInv
<1>1. CASE Callback
  <2>1. gen' = gen /\ TimersMove
    BY <1>1, CallbackMoves
  <2>2. ASSUME NEW delay \in Nat, NEW interval, NEW clamped \in BOOLEAN
        PROVE  /\ Timer(now, delay, interval, clamped).ord \in
                    {Timer(now, delay, interval, clamped).due,
                     Timer(now, delay, interval, clamped).due + 1}
               /\ Timer(now, delay, interval, clamped).gen <= gen
    BY DEF Timer, TypeInv
  <2>3. QED
    BY <2>1, <2>2 DEF TimersMove
<1>2. CASE StepMacro
  <2>1. PICK t \in macro \union internal : Fire(t)
    BY <1>2 DEF StepMacro, WithoutStale
  <2>2. gen' = gen
    BY <1>2 DEF StepMacro
  <2>3. QED
    BY <2>1, <2>2, FireMoves
<1>3. CASE ~Callback /\ ~StepMacro
  <2>1. macro' \subseteq macro /\ internal' \subseteq internal /\ gen' \in {gen, gen + 1}
    BY <1>3, DriveMoves DEF NextFile
  <2>2. \A t \in macro \union internal : t.gen \in Nat
    BY DEF TypeInv, Timers
  <2>3. QED
    BY <2>1, <2>2 DEF TypeInv
<1>4. QED
  BY <1>1, <1>2, <1>3

(* The fake clock's timers and the callbacks stay this file's: a real      *)
(* timer of an earlier one goes before one fires, and a file ends with no  *)
(* callback, on the real clock.                                            *)
LEMMA FileNext ==
  ASSUME TypeInv, TimerInv, FileInv, [Next]_vars
  PROVE  FileInv'
<1> USE DEF FileInv
<1>1. CASE Callback
  <2>1. /\ js # None /\ gen' = gen
        /\ UNCHANGED <<js, outer>> \/ (outer' = js /\ js' = None)
    BY <1>1, CallbackMoves
  <2>2. /\ ~fake' => fmacro' = {}
        /\ \A t \in fmacro' : t.gen = gen
    <3>1. CASE NextTick \/ QueueMicrotask \/ Settle \/ QueueWork \/ ScheduleInternal
      BY <3>1 DEF NextTick, QueueMicrotask, Settle, QueueWork, ScheduleInternal, timers
    <3>2. CASE UseFakeTimers \/ UseRealTimers \/ RunAll
      BY <3>2 DEF UseFakeTimers, UseRealTimers, RunAll
    <3>3. CASE \E delay, interval : ScheduleFake(delay, interval)
      <4>1. PICK t : fmacro' = fmacro \union {t} /\ t.gen = gen /\ fake' = fake /\ fake
        BY <3>3 DEF ScheduleFake, Timer
      <4>2. QED
        BY <4>1
    <3>4. CASE \E delay, interval, immediate : ScheduleReal(delay, interval, immediate)
      BY <3>4 DEF ScheduleReal
    <3>5. CASE \E delay : Advance(delay)
      BY <3>5 DEF Advance, Own
    <3>6. CASE \E t : ClearTimer(t)
      BY <3>6 DEF ClearTimer
    <3>7. CASE \E state : SetTsfn(state)
      BY <3>7 DEF SetTsfn, timers
    <3>8. QED
      BY <1>1, <3>1, <3>2, <3>3, <3>4, <3>5, <3>6, <3>7 DEF Callback
  <2>3. QED
    BY <2>1, <2>2
<1>2. CASE StepMacro
  <2>1. PICK t \in WithoutStale : Fire(t)
    BY <1>2 DEF StepMacro
  <2>2. t.gen = gen
    <3>1. t \in macro \union internal /\ t.gen >= gen
      BY <2>1 DEF WithoutStale, Own
    <3>2. t.gen <= gen /\ t.gen \in Nat
      BY <3>1 DEF TimerInv, TypeInv, Timers
    <3>3. QED
      BY <3>1, <3>2 DEF TypeInv
  <2>3. js'.gen = gen
    BY <2>1, <2>2 DEF Fire, Runs
  <2>4. fmacro' \subseteq fmacro /\ UNCHANGED <<gen, outer, fake>>
    BY <1>2, <2>1 DEF StepMacro, Fire, Own
  <2>5. QED
    BY <2>3, <2>4
<1>3. CASE \E t \in fmacro : FireFake(t)
  <2>1. PICK t \in fmacro : FireFake(t)
    BY <1>3
  <2>2. js'.gen = t.gen /\ UNCHANGED <<gen, outer, fake>> /\ fake' = fake
    BY <2>1 DEF FireFake, Runs
  <2>3. \A u \in fmacro' : u.gen = gen
    <3>1. CASE t.interval = None
      BY <2>1, <3>1 DEF FireFake
    <3>2. PICK again : again = [t EXCEPT !.due = fnow' + t.interval]
      OBVIOUS
    <3>3. again.gen = t.gen
      BY <3>2
    <3>4. fmacro' \subseteq fmacro \union {again}
      BY <2>1, <3>2 DEF FireFake
    <3>5. QED
      BY <3>3, <3>4
  <2>4. QED
    BY <2>1, <2>2, <2>3
<1>4. CASE Drive /\ ~StepMacro /\ ~ \E t \in fmacro : FireFake(t)
  <2>1. gen' = gen /\ fake' = fake /\ fmacro' \subseteq fmacro
    BY <1>4 DEF Drive, Turn, RunTick, TicksDrained, RunMicrotask, Drained, Settled, RunNativeTask,
       NoNativeTask, Woken, TimedOut, NoMacro, DrainInCall, CallEnds, timers, Own
  <2>2. \/ UNCHANGED <<js, outer>>
        \/ js'.gen = gen /\ outer' = outer
        \/ js' = outer /\ outer' = None
    BY <1>4 DEF Drive, Turn, RunTick, TicksDrained, RunMicrotask, Drained, Settled, RunNativeTask,
       NoNativeTask, Woken, TimedOut, NoMacro, DrainInCall, CallEnds, Runs
  <2>3. QED
    BY <2>1, <2>2
<1>5. CASE NextFile
  <2>1. /\ js' = None /\ outer' = None
        /\ fmacro' = {}
    BY <1>5 DEF NextFile, Idle
  <2>2. QED
    BY <2>1
<1>6. CASE Return \/ WorkDone \/ CallTsfn
  BY <1>6 DEF Return, WorkDone, CallTsfn, timers
<1>7. CASE UNCHANGED vars
  BY <1>7 DEF vars, timers
<1>8. QED
  BY <1>1, <1>2, <1>3, <1>4, <1>5, <1>6, <1>7 DEF Next

(* Past the queues nothing but the loop and other threads runs. *)
LEMMA LoopNext ==
  ASSUME LoopInv, [Next]_vars
  PROVE  LoopInv'
<1> USE DEF LoopInv
<1>1. CASE Callback
  BY <1>1, CallbackMoves
<1>2. CASE Turn \/ RunTick \/ TicksDrained \/ RunMicrotask \/ DrainInCall \/ CallEnds
  <2>1. CASE Turn
    BY <2>1 DEF Turn, Idle
  <2>2. CASE RunTick \/ TicksDrained \/ RunMicrotask
    BY <2>2 DEF RunTick, TicksDrained, RunMicrotask, loop
  <2>3. CASE DrainInCall \/ CallEnds
    <3>1. outer # None /\ pc' = pc
      BY <2>3 DEF DrainInCall, CallEnds, InCall, loop
    <3>2. QED
      BY <3>1
  <2>4. QED
    BY <1>2, <2>1, <2>2, <2>3
<1>3. CASE Drained
  BY <1>3 DEF Drained, Fixpoint, Idle, queues
<1>4. CASE Settled \/ NoNativeTask \/ Woken \/ TimedOut \/ NoMacro
  <2>1. CASE Settled
    BY <2>1 DEF Settled, Idle, queues
  <2>2. CASE NoNativeTask
    BY <2>2 DEF NoNativeTask, Idle, queues
  <2>3. CASE Woken \/ TimedOut
    BY <2>3 DEF Woken, TimedOut, queues
  <2>4. CASE NoMacro
    BY <2>4 DEF NoMacro, Idle
  <2>5. QED
    BY <1>4, <2>1, <2>2, <2>3, <2>4
<1>5. CASE StepMacro \/ \E kind \in DOMAIN ready : RunNativeTask(kind)
  BY <1>5 DEF StepMacro, RunNativeTask
<1>6. CASE \E t \in fmacro : FireFake(t)
  BY <1>6 DEF FireFake, InCall, loop
<1>7. CASE NextFile
  BY <1>7 DEF NextFile
<1>8. CASE Return
  BY <1>8 DEF Return, Calling, loop
<1>9. CASE WorkDone \/ CallTsfn \/ UNCHANGED vars
  BY <1>9 DEF WorkDone, CallTsfn, vars, queues, loop
<1>10. QED
  BY <1>1, <1>2, <1>3, <1>4, <1>5, <1>6, <1>7, <1>8, <1>9 DEF Next, Drive

(* What the loop knew when it began to wait stays so until it steps.       *)
LEMMA WaitNext ==
  ASSUME TypeInv, LoopInv, WaitInv, [Next]_vars
  PROVE  WaitInv'
<1> USE DEF WaitInv
<1>1. CASE pc' = pc /\ UNCHANGED <<timeout, slept>> /\ pc \in {"wait", "step"}
  <2>1. js = None /\ outer = None
    BY <1>1 DEF LoopInv
  <2>2. ~Callback
    BY <2>1, CallbackMoves
  <2>3. ~StepMacro /\ ~NoMacro /\ ~NextFile /\ ~ \E kind \in DOMAIN ready : RunNativeTask(kind)
    BY <1>1 DEF StepMacro, NoMacro, NextFile, RunNativeTask
  <2>4. WorkDone \/ CallTsfn \/ UNCHANGED vars
    BY <1>1, <2>1, <2>2, <2>3 DEF Next, Drive, Turn, RunTick, TicksDrained, RunMicrotask, Drained,
       Settled, NoNativeTask, Woken, TimedOut, FireFake, DrainInCall, CallEnds, InCall, Return,
       Calling
  <2>5. UNCHANGED <<macro, internal, now>>
    BY <2>4 DEF WorkDone, CallTsfn, vars, timers
  <2>6. NextMacroDelay' = NextMacroDelay
    BY <2>5 DEF NextMacroDelay
  <2>7. InFlight' = InFlight /\ tsfn' = tsfn
    BY <2>2, <2>3, NativeMoves
  <2>8. KeepsAlive' = KeepsAlive
    BY <2>7 DEF KeepsAlive
  <2>9. QED
    BY <1>1, <2>5, <2>6, <2>8
<1>2. CASE NoNativeTask
  <2>1. UNCHANGED <<macro, internal, now, ready, running, tsfn>>
    BY <1>2 DEF NoNativeTask, timers, native
  <2>2. NextMacroDelay' = NextMacroDelay /\ KeepsAlive' = KeepsAlive
    BY <2>1 DEF NextMacroDelay, KeepsAlive, InFlight
  <2>3. QED
    BY <1>2, <2>2 DEF NoNativeTask, WaitsFor
<1>3. CASE TimedOut
  <2>1. /\ timeout = NextMacroDelay /\ timeout # None
        /\ UNCHANGED <<macro, internal, now>> /\ pc' = "step" /\ slept' = timeout
    BY <1>3 DEF TimedOut, timers
  <2>2. NextMacroDelay' = NextMacroDelay
    BY <2>1 DEF NextMacroDelay
  <2>3. macro \union internal # {}
    BY <2>1 DEF NextMacroDelay
  <2>4. QED
    BY <2>1, <2>2, <2>3
<1>4. CASE pc' \notin {"wait", "step"}
  BY <1>4
<1>5. \/ pc' = pc /\ UNCHANGED <<timeout, slept>>
      \/ NoNativeTask \/ TimedOut
      \/ pc' \notin {"wait", "step"}
  <2>1. CASE Callback
    BY <2>1, CallbackMoves
  <2>2. CASE Turn \/ RunTick \/ TicksDrained \/ RunMicrotask \/ DrainInCall \/ CallEnds \/ Drained
    BY <2>2 DEF Turn, RunTick, TicksDrained, RunMicrotask, DrainInCall, CallEnds, Drained, loop
  <2>3. CASE Settled \/ Woken \/ NoMacro \/ StepMacro \/ NextFile
    BY <2>3 DEF Settled, Woken, NoMacro, StepMacro, NextFile
  <2>4. CASE (\E kind \in DOMAIN ready : RunNativeTask(kind)) \/ \E t \in fmacro : FireFake(t)
    BY <2>4 DEF RunNativeTask, FireFake, loop
  <2>5. CASE Return \/ WorkDone \/ CallTsfn \/ UNCHANGED vars
    BY <2>5 DEF Return, WorkDone, CallTsfn, vars, loop
  <2>6. QED
    BY <2>1, <2>2, <2>3, <2>4, <2>5 DEF Next, Drive
<1>6. QED
  BY <1>1, <1>2, <1>3, <1>4, <1>5

(* Native work is awaited only when no timer is an earlier file's. *)
LEMMA StaleNext ==
  ASSUME WorkAmongStale = FALSE, TypeInv, StaleInv, [Next]_vars
  PROVE  StaleInv'
<1> USE DEF StaleInv
<1>1. CASE Callback
  <2>1. UNCHANGED <<gen, ready>> /\ TimersMove
    BY <1>1, CallbackMoves
  <2>2. \A delay, interval, clamped : ~ (Timer(now, delay, interval, clamped).gen < gen)
    BY DEF Timer, TypeInv
  <2>3. Stale' \subseteq Stale
    BY <2>1, <2>2 DEF TimersMove, Stale
  <2>4. CASE UNCHANGED <<running, tsfn>>
    BY <2>1, <2>3, <2>4 DEF KeepsAlive, InFlight
  <2>5. CASE AwaitsNative
    BY <2>3, <2>5 DEF AwaitsNative
  <2>6. QED
    BY <1>1, <2>4, <2>5, CallbackMoves
<1>2. ASSUME ~Callback
      PROVE  KeepsAlive' => KeepsAlive
  <2>1. InFlight \in Nat /\ InFlight' \in Nat /\ InFlight' <= InFlight /\ tsfn' = tsfn
    BY <1>2, NativeMoves DEF TypeInv, InFlight
  <2>2. QED
    BY <2>1 DEF KeepsAlive
<1>3. CASE StepMacro
  <2>1. PICK t \in WithoutStale : Fire(t)
    BY <1>3 DEF StepMacro
  <2>2. t \in macro \union internal /\ t.gen >= gen /\ gen' = gen
    BY <1>3, <2>1 DEF WithoutStale, Own, StepMacro
  <2>3. t \in Timers /\ gen \in Nat
    BY <2>2 DEF TypeInv
  <2>4. \A again \in Timers : again.gen = t.gen => ~ (again.gen < gen)
    BY <2>2, <2>3 DEF Timers
  <2>5. Stale' \subseteq Stale
    BY <2>1, <2>2, <2>4, FireMoves DEF Stale
  <2>6. ~Callback
    BY <1>3, CallbackMoves DEF StepMacro, Idle
  <2>7. QED
    BY <1>2, <2>5, <2>6
<1>4. CASE ~Callback /\ ~StepMacro /\ gen' = gen
  <2>1. macro' \subseteq macro /\ internal' \subseteq internal
    BY <1>4, DriveMoves
  <2>2. Stale' \subseteq Stale
    BY <1>4, <2>1 DEF Stale
  <2>3. QED
    BY <1>2, <1>4, <2>2
<1>5. CASE NextFile
  <2>1. ~Callback
    BY <1>5, CallbackMoves DEF NextFile, Idle
  <2>2. ~KeepsAlive \/ macro \union internal = {}
    BY <1>5 DEF NextFile
  <2>3. macro' = macro /\ internal' = internal
    BY <1>5 DEF NextFile
  <2>4. QED
    BY <1>2, <2>1, <2>2, <2>3 DEF Stale
<1>6. QED
  BY <1>1, <1>3, <1>4, <1>5, DriveMoves

(* When no timer is an earlier file's, all that there are are this file's. *)
LEMMA AllOwn ==
  ASSUME TypeInv, Stale = {}
  PROVE  Own(macro \union internal) = macro \union internal
<1>1. \A t \in macro \union internal : t.gen \in Nat /\ ~ (t.gen < gen) /\ gen \in Nat
  BY DEF TypeInv, Timers, Stale
<1>2. \A t \in macro \union internal : t.gen >= gen
  BY <1>1
<1>3. QED
  BY <1>2 DEF Own

(* The loop gives a file up in its last step only, with nothing to come.   *)
LEMMA EndNext ==
  ASSUME TypeInv, LoopInv, WaitInv, StaleInv, EndsWhenDone, [Next]_vars
  PROVE  EndsWhenDone'
<1>1. CASE pc' = "over" /\ pc = "over" /\ ~NextFile
  <2>1. js = None /\ outer = None
    BY <1>1 DEF LoopInv
  <2>2. ~Callback
    BY <2>1, CallbackMoves
  <2>3. WorkDone \/ CallTsfn \/ UNCHANGED vars
    BY <1>1, <2>1, <2>2 DEF Next, Drive, Turn, RunTick, TicksDrained, RunMicrotask, Drained,
       Settled, RunNativeTask, NoNativeTask, Woken, TimedOut, StepMacro, NoMacro, FireFake,
       DrainInCall, CallEnds, InCall, Return, Calling
  <2>4. UNCHANGED <<gen, macro, internal, promise, turns>>
    BY <2>3 DEF WorkDone, CallTsfn, vars, timers, loop
  <2>5. ~ \E kind \in DOMAIN ready : RunNativeTask(kind)
    BY <1>1 DEF RunNativeTask
  <2>6. InFlight' = InFlight /\ tsfn' = tsfn
    BY <2>2, <2>5, NativeMoves
  <2>7. QED
    BY <1>1, <2>4, <2>6 DEF EndsWhenDone, Own
<1>2. CASE NoMacro
  <2>1. macro' = {} /\ internal' = {} /\ UNCHANGED <<ready, running, tsfn>>
    BY <1>2 DEF NoMacro, native
  <2>2. Own(macro \union internal) = {} /\ pc = "step"
    BY <1>2 DEF NoMacro, WithoutStale
  <2>3. ~KeepsAlive
    BY <2>2, AllOwn DEF WaitInv, StaleInv
  <2>4. InFlight \in Nat
    BY DEF TypeInv, InFlight
  <2>5. InFlight = 0 /\ tsfn # "refed"
    BY <2>3, <2>4 DEF KeepsAlive
  <2>6. InFlight' = InFlight /\ Own(macro \union internal)' = {}
    BY <2>1 DEF InFlight, Own
  <2>7. QED
    BY <2>1, <2>5, <2>6 DEF EndsWhenDone
<1>3. CASE Turn \/ Settled
  <2>1. turns' \in Nat /\ MaxTurns \in Nat
    BY TypeNext, LoopBounds DEF TypeInv
  <2>2. QED
    BY <1>3, <2>1 DEF Turn, Settled, EndsWhenDone
<1>4. CASE pc' # "over"
  BY <1>4 DEF EndsWhenDone
<1>5. \/ pc' = pc /\ ~NextFile
      \/ NoMacro \/ Turn \/ Settled
      \/ pc' # "over"
  <2>1. CASE Callback
    BY <2>1, CallbackMoves DEF NextFile, Idle
  <2>2. CASE RunTick \/ TicksDrained \/ RunMicrotask \/ DrainInCall \/ CallEnds \/ Drained
    BY <2>2 DEF RunTick, TicksDrained, RunMicrotask, DrainInCall, CallEnds, Drained, loop, NextFile
  <2>3. CASE NoNativeTask \/ Woken \/ TimedOut \/ StepMacro \/ NextFile
    BY <2>3 DEF NoNativeTask, Woken, TimedOut, StepMacro, NextFile
  <2>4. CASE (\E kind \in DOMAIN ready : RunNativeTask(kind)) \/ \E t \in fmacro : FireFake(t)
    BY <2>4 DEF RunNativeTask, FireFake, InCall, NextFile, Idle, loop
  <2>5. CASE Return \/ WorkDone \/ CallTsfn \/ UNCHANGED vars
    BY <2>5 DEF Return, WorkDone, CallTsfn, NextFile, vars, loop
  <2>6. QED
    BY <2>1, <2>2, <2>3, <2>4, <2>5 DEF Next, Drive
<1>6. QED
  BY <1>1, <1>2, <1>3, <1>4, <1>5

-----------------------------------------------------------------------------
(* Theorems                                                                *)

(* The first turn. *)
LEMMA InitInductive == Init => InductiveOwn
<1> SUFFICES ASSUME Init
             PROVE  InductiveOwn
  OBVIOUS
<1> USE DEF Init
<1>1. TypeInv /\ TimerInv
  BY DEF TypeInv, TimerInv
<1>2. FileInv /\ LoopInv /\ WaitInv
  BY DEF FileInv, LoopInv, WaitInv
<1>3. StaleInv /\ EndsWhenDone
  BY DEF StaleInv, Stale, EndsWhenDone
<1>4. QED
  BY <1>1, <1>2, <1>3 DEF InductiveOwn, Inductive

(* The inductive invariant of the event loop, whatever earlier files left  *)
(* (drive_tests_bounded, runtime.js).                                      *)
THEOREM InductiveInvariance == Spec => []Inductive
<1>1. Init => Inductive
  BY InitInductive DEF InductiveOwn
<1>2. Inductive /\ [Next]_vars => Inductive'
  BY TypeNext, TimerNext, FileNext, LoopNext, WaitNext DEF Inductive
<1>3. QED
  BY <1>1, <1>2, PTL DEF Spec

(* The inductive invariant when no native work is awaited among timers     *)
(* that an earlier file left (WorkAmongStale = FALSE).                     *)
THEOREM OwnInvariance ==
  ASSUME WorkAmongStale = FALSE
  PROVE  Spec => []InductiveOwn
<1>1. InductiveOwn /\ [Next]_vars => InductiveOwn'
  BY TypeNext, TimerNext, FileNext, LoopNext, WaitNext, StaleNext, EndNext
     DEF InductiveOwn, Inductive
<1>2. QED
  BY <1>1, InitInductive, PTL DEF Spec

(* No callback of a timer that a previous file set runs (generations and   *)
(* __dropStaleTimers), for any files and timers.                           *)
THEOREM OwnFileHolds == Spec => []OwnFile
<1>1. Inductive => OwnFile
  BY DEF Inductive, FileInv, OwnFile
<1>2. QED
  BY <1>1, InductiveInvariance, PTL

(* While no native work is awaited among timers that an earlier file left  *)
(* (WorkAmongStale = FALSE), the loop gives a file up as pending only when *)
(* nothing can settle it (keeps_loop_alive, wait_native_task).  Otherwise  *)
(* a stale timer bounds the wait and the file is given up with its work in *)
(* flight, as event_loop_stale shows.                                      *)
THEOREM EndsWhenDoneHolds ==
  ASSUME WorkAmongStale = FALSE
  PROVE  Spec => []EndsWhenDone
<1>1. InductiveOwn => EndsWhenDone
  BY DEF InductiveOwn
<1>2. QED
  BY <1>1, OwnInvariance, PTL

(* Before a macrotask and before a native callback every nextTick and      *)
(* microtask ran (the fixpoint of drive_tests_bounded).                    *)
THEOREM QueuesFirstHolds == Spec => QueuesFirst
<1>1. ASSUME Inductive, [Next]_vars, Starts({"timer", "native"})
      PROVE  ticks = 0 /\ micro = 0
  <2>1. js = None /\ outer = None /\ js' # None /\ js'.kind \in {"timer", "native"}
    BY <1>1 DEF Starts, Idle
  <2>2. CASE Callback \/ Return
    BY <2>1, <2>2, CallbackMoves DEF Return, Calling
  <2>3. CASE RunTick \/ RunMicrotask \/ DrainInCall \/ CallEnds
    BY <2>1, <2>3 DEF RunTick, RunMicrotask, DrainInCall, CallEnds, InCall, Runs
  <2>4. CASE StepMacro \/ \E kind \in DOMAIN ready : RunNativeTask(kind)
    BY <1>1, <2>4 DEF StepMacro, RunNativeTask, Inductive, LoopInv
  <2>5. CASE \E t \in fmacro : FireFake(t)
    BY <2>1, <2>5 DEF FireFake, InCall
  <2>6. CASE Turn \/ TicksDrained \/ Drained \/ Settled \/ NoNativeTask \/ Woken \/ TimedOut \/ NoMacro
    BY <2>1, <2>6 DEF Turn, TicksDrained, Drained, Settled, NoNativeTask, Woken, TimedOut, NoMacro
  <2>7. CASE NextFile \/ WorkDone \/ CallTsfn \/ UNCHANGED vars
    BY <2>1, <2>7 DEF NextFile, WorkDone, CallTsfn, vars
  <2>8. QED
    BY <1>1, <2>2, <2>3, <2>4, <2>5, <2>6, <2>7 DEF Next, Drive
<1>2. QED
  BY <1>1, InductiveInvariance, PTL DEF QueuesFirst, Spec

(* While native work can come, and is not awaited among timers of an       *)
(* earlier file (WorkAmongStale = FALSE), a timer fires only after the     *)
(* loop waited for the work as long as the timer had to go                 *)
(* (wait_native_task, __ttNextMacroDelay, stepMacro; the millisecond is    *)
(* zeroDelayTimers').                                                      *)
THEOREM FiresAfterWaitHolds ==
  ASSUME WorkAmongStale = FALSE
  PROVE  Spec => FiresAfterWait
<1>1. ASSUME InductiveOwn, [Next]_vars, Starts({"timer"}), pc = "step", KeepsAlive
      PROVE  slept + 1 >= now' - now
  <2> USE DEF InductiveOwn, Inductive
  <2>1. js = None /\ outer = None /\ js' # None /\ Stale = {}
    BY <1>1 DEF Starts, Idle, StaleInv
  <2>2. StepMacro
    <3>1. ~Callback
      BY <2>1, CallbackMoves
    <3>2. QED
      BY <1>1, <2>1, <3>1 DEF Next, Drive, Turn, RunTick, TicksDrained, RunMicrotask, Drained,
         Settled, RunNativeTask, NoNativeTask, Woken, TimedOut, NoMacro, FireFake, DrainInCall,
         CallEnds, InCall, Return, Calling, NextFile, WorkDone, CallTsfn, vars
  <2>3. WithoutStale = macro \union internal
    BY <1>1, <2>1, AllOwn DEF WithoutStale
  <2>4. PICK t \in macro \union internal :
          /\ Fire(t)
          /\ t \in internal \/ \A u \in macro : Before(t, u)
          /\ t \in internal =>
               /\ \A u \in internal : Sooner(t, u)
               /\ \A m \in macro : (\A u \in macro : Before(m, u)) => t.due < m.due
          /\ t \notin internal => \A u \in internal : t.due <= u.due
    BY <2>2, <2>3 DEF StepMacro
  <2>5. /\ macro \subseteq Timers /\ internal \subseteq Timers /\ now \in Nat
        /\ \A u \in macro : u.ord \in {u.due, u.due + 1}
    BY <1>1 DEF TypeInv, TimerInv
  <2>6. \A u \in Timers : u.due \in Nat /\ u.ord \in Nat /\ u.id \in Nat
    BY DEF Timers
  <2>7. \A m, u \in macro : Before(m, u) => m.due <= u.due + 1
    BY <2>5, <2>6 DEF Before
  <2>8. \A u \in macro \union internal : t.due <= u.due + 1
    <3>1. CASE t \notin internal
      BY <2>4, <2>5, <2>6, <2>7, <3>1
    <3>2. CASE t \in internal
      <4>1. \A u \in internal : t.due <= u.due
        BY <2>4, <2>5, <2>6, <3>2 DEF Sooner
      <4>2. ASSUME NEW u \in macro
            PROVE  t.due <= u.due + 1
        <5>1. PICK m \in macro : \A v \in macro : Before(m, v)
          BY <2>5, First
        <5>2. t.due < m.due /\ m.due <= u.due + 1
          BY <2>4, <2>7, <3>2, <5>1
        <5>3. QED
          BY <2>5, <2>6, <5>2
      <4>3. QED
        BY <2>5, <2>6, <4>1, <4>2
    <3>3. QED
      BY <3>1, <3>2
  <2>9. macro \union internal # {} /\ slept = NextMacroDelay
    BY <1>1 DEF WaitInv
  <2>10. PICK due \in Nat :
           /\ \A u \in macro \union internal : due <= u.due
           /\ \E u \in macro \union internal : due = u.due
           /\ slept = IF due > now THEN due - now ELSE 0
    BY <1>1, <2>9, Delay
  <2>11. t.due <= due + 1 /\ t.due \in Nat
    BY <2>5, <2>6, <2>8, <2>10
  <2>12. now' = IF t.due > now THEN t.due ELSE now
    BY <2>4 DEF Fire, Later
  <2>13. QED
    BY <2>5, <2>10, <2>11, <2>12
<1>2. QED
  BY <1>1, OwnInvariance, PTL DEF FiresAfterWait, Spec

(* A macrotask runs in its turn, after the queues and after the wait for   *)
(* native work, while none is awaited among timers of an earlier file      *)
(* (WorkAmongStale = FALSE).                                               *)
THEOREM InTurnHolds ==
  ASSUME WorkAmongStale = FALSE
  PROVE  Spec => InTurn
BY QueuesFirstHolds, FiresAfterWaitHolds DEF InTurn
=============================================================================
