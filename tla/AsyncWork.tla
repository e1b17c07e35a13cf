----------------------------- MODULE AsyncWork -----------------------------
(***************************************************************************)
(* napi_async_work (napi_host_async.rs): an isolate's JS thread queues a   *)
(* work on the process's pool, a pool thread runs its execute and posts    *)
(* its complete to the isolate's NativeLoop, the JS thread runs that.  The *)
(* pool is shared by every isolate of the process.                         *)
(*                                                                         *)
(* A step is a critical section (of the pool's jobs or of a NativeLoop) or *)
(* the execute between two of them.  The addon keeps Node's contract: it   *)
(* queues or deletes a work only when no round of it is under way.  An     *)
(* isolate may be disposed of with works in flight: nothing waits for them *)
(* once the test file's promise has settled.                               *)
(***************************************************************************)
EXTENDS Naturals, Sequences, FiniteSets, SequencesExt

CONSTANTS
  Works,
  Isolates,
  Owner,                  \* the isolate a work was created in
  PoolThreads,            \* POOL_THREADS of them
  None,                   \* no work
  MaxRounds               \* bound: times one work is queued

ASSUME AsyncAssumption ==
  /\ IsFiniteSet(Works)
  /\ IsFiniteSet(PoolThreads)
  /\ PoolThreads # {}
  /\ Owner \in [Works -> Isolates]
  /\ None \notin Works
  /\ MaxRounds \in Nat

VARIABLES
  jobs,                   \* Pool.jobs: the works waiting for a thread
  asleep,                 \* pool threads waiting on Pool.ready
  work,                   \* the work each pool thread executes, or None
  ready,                  \* NativeLoop.ready of each isolate
  inFlight,               \* NativeLoop.in_flight
  owesNotify,             \* isolates between push_back and notify_one
  life,                   \* new, live or deleted, for each work
  disposed,               \* isolates that are gone
  queued, started, cancelled, completed   \* history: rounds of each work

poolVars == <<jobs, asleep, work>>
loopVars == <<ready, inFlight>>
history == <<queued, started, cancelled, completed>>
vars == <<jobs, asleep, work, ready, inFlight, owesNotify, life, disposed,
          queued, started, cancelled, completed>>

Statuses == {"napi_ok", "napi_cancelled"}
Task == [work : Works, status : Statuses]

Zero == [w \in Works |-> 0]

Init ==
  /\ jobs = <<>>
  /\ asleep = {}
  /\ work = [p \in PoolThreads |-> None]
  /\ ready = [i \in Isolates |-> <<>>]
  /\ inFlight = [i \in Isolates |-> 0]
  /\ owesNotify = {}
  /\ life = [w \in Works |-> "new"]
  /\ disposed = {}
  /\ queued = Zero /\ started = Zero /\ cancelled = Zero
  /\ completed = [w \in Works |-> [s \in Statuses |-> 0]]

(* Rounds of w that are over, as the addon knows them. *)
Over(w) == completed[w]["napi_ok"] + completed[w]["napi_cancelled"]

(* Post, mutated: the task is queued twice. *)
PostTwice(w, status) ==
  LET task == [work |-> w, status |-> status]
  IN ready' = [ready EXCEPT ![Owner[w]] = @ \o <<task, task>>]

(* Post, mutated: a task for an isolate that is busy is lost. *)
PostIfIdle(w, status) ==
  ready' = [ready EXCEPT ![Owner[w]] =
              IF Owner[w] \in owesNotify THEN @
              ELSE Append(@, [work |-> w, status |-> status])]

(* NativeLoop::post *)
Post(w, status) ==
  ready' = [ready EXCEPT ![Owner[w]] = Append(@, [work |-> w, status |-> status])]

(* The JS thread of isolate i can run addon code. *)
Runs(i) == i \notin disposed /\ i \notin owesNotify

-----------------------------------------------------------------------------
(* The JS threads                                                          *)

(* napi_create_async_work *)
Create(w) ==
  /\ Runs(Owner[w])
  /\ life[w] = "new"
  /\ life' = [life EXCEPT ![w] = "live"]
  /\ UNCHANGED <<poolVars, loopVars, owesNotify, disposed, history>>

(* napi_queue_async_work up to its push_back (in_flight, counted just      *)
(* before it, is the JS thread's alone).                                   *)
Queue(w) ==
  /\ Runs(Owner[w])
  /\ life[w] = "live"
  /\ queued[w] = Over(w)
  /\ queued[w] < MaxRounds
  /\ inFlight' = [inFlight EXCEPT ![Owner[w]] = @ + 1]
  /\ jobs' = Append(jobs, w)
  /\ owesNotify' = owesNotify \union {Owner[w]}
  /\ queued' = [queued EXCEPT ![w] = @ + 1]
  /\ UNCHANGED <<asleep, work, ready, life, disposed, started, cancelled, completed>>

(* NotifyOne, mutated: only a push on an empty queue notifies. *)
NotifyIfFirst(i) ==
  /\ i \in owesNotify
  /\ owesNotify' = owesNotify \ {i}
  /\ \/ (asleep = {} \/ Len(jobs) # 1) /\ UNCHANGED asleep
     \/ Len(jobs) = 1 /\ \E p \in asleep : asleep' = asleep \ {p}
  /\ UNCHANGED <<jobs, work, loopVars, life, disposed, history>>

(* ... and its notify_one, outside the lock. *)
NotifyOne(i) ==
  /\ i \in owesNotify
  /\ owesNotify' = owesNotify \ {i}
  /\ \/ asleep = {} /\ UNCHANGED asleep
     \/ \E p \in asleep : asleep' = asleep \ {p}
  /\ UNCHANGED <<jobs, work, loopVars, life, disposed, history>>

(* Cancel, mutated: the work stays in the queue. *)
CancelLeaves(w) ==
  /\ Runs(Owner[w])
  /\ life[w] = "live"
  /\ \E at \in 1 .. Len(jobs) : jobs[at] = w
  /\ Post(w, "napi_cancelled")
  /\ cancelled' = [cancelled EXCEPT ![w] = @ + 1]
  /\ UNCHANGED <<jobs, asleep, work, inFlight, owesNotify, life, disposed, queued, started,
                 completed>>

(* napi_cancel_async_work of a work no thread has taken; of any other it   *)
(* changes nothing and reports EBUSY.                                      *)
Cancel(w) ==
  /\ Runs(Owner[w])
  /\ life[w] = "live"
  /\ \E at \in 1 .. Len(jobs) :
       /\ jobs[at] = w
       /\ \A k \in 1 .. at - 1 : jobs[k] # w
       /\ jobs' = RemoveAt(jobs, at)
  /\ Post(w, "napi_cancelled")
  /\ cancelled' = [cancelled EXCEPT ![w] = @ + 1]
  /\ UNCHANGED <<asleep, work, inFlight, owesNotify, life, disposed, queued, started,
                 completed>>

(* run_native_task and complete_work. *)
Complete(i) ==
  /\ Runs(i)
  /\ ready[i] # <<>>
  /\ LET task == Head(ready[i])
     IN completed' = [completed EXCEPT ![task.work][task.status] = @ + 1]
  /\ ready' = [ready EXCEPT ![i] = Tail(@)]
  /\ inFlight' = [inFlight EXCEPT ![i] = @ - 1]
  /\ UNCHANGED <<poolVars, owesNotify, life, disposed, queued, started, cancelled>>

(* napi_delete_async_work *)
Delete(w) ==
  /\ Runs(Owner[w])
  /\ life[w] = "live"
  /\ queued[w] = Over(w)
  /\ life' = [life EXCEPT ![w] = "deleted"]
  /\ UNCHANGED <<poolVars, loopVars, owesNotify, disposed, history>>

(* The isolate's disposal: its JS thread stops, the pool goes on. *)
Dispose(i) ==
  /\ Runs(i)
  /\ disposed' = disposed \union {i}
  /\ UNCHANGED <<poolVars, loopVars, owesNotify, life, history>>

-----------------------------------------------------------------------------
(* The pool's threads                                                      *)

(* pool_thread under the jobs lock: take the oldest work, or wait. *)
Take(p) ==
  /\ work[p] = None
  /\ p \notin asleep
  /\ jobs # <<>>
  /\ jobs' = Tail(jobs)
  /\ work' = [work EXCEPT ![p] = Head(jobs)]
  /\ started' = [started EXCEPT ![Head(jobs)] = @ + 1]
  /\ UNCHANGED <<asleep, loopVars, owesNotify, life, disposed, queued, cancelled, completed>>

Sleep(p) ==
  /\ work[p] = None
  /\ p \notin asleep
  /\ jobs = <<>>
  /\ asleep' = asleep \union {p}
  /\ UNCHANGED <<jobs, work, loopVars, owesNotify, life, disposed, history>>

(* Condvar::wait_while may wake with nothing to do. *)
SpuriousWake(p) ==
  /\ p \in asleep
  /\ asleep' = asleep \ {p}
  /\ UNCHANGED <<jobs, work, loopVars, owesNotify, life, disposed, history>>

(* execute has returned (or panicked): post its complete. *)
Executed(p) ==
  /\ work[p] # None
  /\ Post(work[p], "napi_ok")
  /\ work' = [work EXCEPT ![p] = None]
  /\ UNCHANGED <<jobs, asleep, inFlight, owesNotify, life, disposed, history>>

-----------------------------------------------------------------------------

JsThread(i) ==
  \/ NotifyOne(i)
  \/ Complete(i)
  \/ Dispose(i)
  \/ \E w \in Works : Owner[w] = i /\ (Create(w) \/ Queue(w) \/ Cancel(w) \/ Delete(w))

PoolThread(p) == Take(p) \/ Sleep(p) \/ SpuriousWake(p) \/ Executed(p)

Next ==
  \/ \E i \in Isolates : JsThread(i)
  \/ \E p \in PoolThreads : PoolThread(p)

Spec == Init /\ [][Next]_vars

(* A pool thread goes on, and execute returns; the event loop of an        *)
(* isolate with work in flight runs what is posted to it.                  *)
Fairness ==
  /\ \A p \in PoolThreads : WF_vars(Take(p) \/ Executed(p))
  /\ \A i \in Isolates : WF_vars(NotifyOne(i)) /\ WF_vars(Complete(i))

FairSpec == Spec /\ Fairness

-----------------------------------------------------------------------------
(* What must hold                                                          *)

InJobs(w) == \E k \in 1 .. Len(jobs) : jobs[k] = w
Executing(w) == \E p \in PoolThreads : work[p] = w
Posted(w, s) == \E k \in 1 .. Len(ready[Owner[w]]) :
                  ready[Owner[w]][k] = [work |-> w, status |-> s]
InReady(w) == \E s \in Statuses : Posted(w, s)
Pending(w) == InJobs(w) \/ Executing(w) \/ InReady(w)

(* The works of an isolate that have a round under way, and the pool       *)
(* threads that are awake with nothing to execute.                         *)
InRound(i) == {w \in Works : Owner[w] = i /\ queued[w] # Over(w)}
Looking == {p \in PoolThreads : p \notin asleep /\ work[p] = None}

(* The types of the variables. *)
TypeOK ==
  /\ jobs \in Seq(Works)
  /\ asleep \subseteq PoolThreads
  /\ work \in [PoolThreads -> Works \union {None}]
  /\ ready \in [Isolates -> Seq(Task)]
  /\ inFlight \in [Isolates -> Nat]
  /\ owesNotify \subseteq Isolates
  /\ life \in [Works -> {"new", "live", "deleted"}]
  /\ disposed \subseteq Isolates
  /\ queued \in [Works -> Nat]
  /\ started \in [Works -> Nat]
  /\ cancelled \in [Works -> Nat]
  /\ completed \in [Works -> [Statuses -> Nat]]

(* No queue, pool thread or native task has a pointer to a deleted work:   *)
(* the addon may delete it as soon as it was told of every round.          *)
NoUseAfterFree ==
  \A w \in Works : Pending(w) => life[w] = "live"

(* in_flight, which keeps the event loop alive, counts exactly the works   *)
(* of the isolate that have a round under way.                             *)
InFlightExact == \A i \in Isolates : inFlight[i] = Cardinality(InRound(i))

(* No job waits while a thread sleeps, unless a thread that is awake will  *)
(* look for it: pushes and notifications are two steps, and a job may be   *)
(* taken or cancelled in between.                                          *)
WorkConserving ==
  asleep # {} => Len(jobs) <= Cardinality(Looking) + Cardinality(owesNotify)

(* The pool neither loses a work nor runs a deleted one, and a loop lives  *)
(* exactly as long as it has work in flight.                               *)
Safety == NoUseAfterFree /\ InFlightExact /\ WorkConserving

-----------------------------------------------------------------------------
(* The inductive invariant: a work is in at most one place, once, and what *)
(* is in a place has a round under way.                                    *)

JobsOnce == \A k, l \in 1 .. Len(jobs) : jobs[k] = jobs[l] => k = l

WorkOnce == \A p, q \in PoolThreads : work[p] # None /\ work[p] = work[q] => p = q

ReadyOnce ==
  \A i \in Isolates : \A k, l \in 1 .. Len(ready[i]) :
    ready[i][k].work = ready[i][l].work => k = l

OwnInv == \A i \in Isolates : \A k \in 1 .. Len(ready[i]) : Owner[ready[i][k].work] = i

OnePlace ==
  \A w \in Works :
    /\ InJobs(w) => ~Executing(w) /\ ~InReady(w)
    /\ Executing(w) => ~InReady(w)

RoundInv == \A w \in Works : Pending(w) => life[w] = "live" /\ queued[w] = Over(w) + 1

IdleInv == \A p \in asleep : work[p] = None

Inductive ==
  /\ TypeOK
  /\ JobsOnce /\ WorkOnce /\ ReadyOnce /\ OwnInv /\ OnePlace
  /\ RoundInv
  /\ IdleInv
  /\ IsFiniteSet(owesNotify)
  /\ InFlightExact
  /\ WorkConserving

-----------------------------------------------------------------------------
(* What must happen                                                        *)

(* A queued work's complete runs, whatever is queued, cancelled or         *)
(* disposed of elsewhere, unless its isolate is disposed of.               *)
EveryRoundCompletes ==
  \A w \in Works : (queued[w] # Over(w)) ~> (queued[w] = Over(w) \/ Owner[w] \in disposed)

(* The pool gets to every job, those of disposed isolates too. *)
JobsDrain == \A w \in Works : InJobs(w) ~> ~InJobs(w)

(* Work goes on: rounds complete and the queue empties.                    *)
Progress == EveryRoundCompletes /\ JobsDrain

-----------------------------------------------------------------------------
(* The life of a work's rounds, whatever runs them                         *)

Phase == [w \in Works |->
  CASE InJobs(w) -> "waiting"
    [] Executing(w) -> "executing"
    [] Posted(w, "napi_ok") -> "executed"
    [] Posted(w, "napi_cancelled") -> "cancelled"
    [] OTHER -> "idle"]

Rounds == INSTANCE WorkRounds WITH phase <- Phase, completed <- completed

(* The pool and the loops, between them, take each work through the rounds *)
(* WorkRounds allows, alone: no step moves two works.                      *)
ImplementsRounds == Rounds!Spec
============================================================================
