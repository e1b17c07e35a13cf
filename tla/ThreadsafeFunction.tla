------------------------- MODULE ThreadsafeFunction -------------------------
(***************************************************************************)
(* A napi_threadsafe_function (napi_host_async.rs, Tsfn): native threads   *)
(* queue calls, the isolate's JS thread runs them one per event-loop turn. *)
(* One function is modelled, with the tasks it has in its NativeLoop.      *)
(*                                                                         *)
(* A step is a critical section under the function's lock (send and        *)
(* close_handles post to the loop inside it), or a stretch of the JS       *)
(* thread outside it.  A thread is one unit of thread_count: an initial    *)
(* one, or one napi_acquire_threadsafe_function took on its behalf; as     *)
(* Node's contract has it, only a thread that holds the function uses it,  *)
(* and it lets go when a call returns napi_closing.                        *)
(***************************************************************************)
EXTENDS Naturals, Sequences, FiniteSets

CONSTANTS
  Threads,                \* the threads that may come to use the function
  Initial,                \* those initial_thread_count counts
  MaxQueue,               \* max_queue_size (0: no limit)
  MaxCalls                \* bound: calls one thread makes

ASSUME TsfnAssumption ==
  /\ IsFiniteSet(Threads)
  /\ Initial \subseteq Threads
  /\ Initial # {}                          \* initial_thread_count 0 is refused
  /\ MaxQueue \in Nat
  /\ MaxCalls \in Nat

VARIABLES
  \* TsfnShared, under the lock
  queue, threadCount, state, dispatchPosted,
  \* the JS thread's
  handlesClosing,         \* close_handles has run
  registered,             \* in the isolate's tsfns and teardown lists
  ready,                  \* this function's tasks in NativeLoop.ready
  js,                     \* what the JS thread is doing with the function
  inCall,                 \* the datum popped and not yet handed to call_js
  \* the threads'
  holders,                \* threads that hold a count
  pc,                     \* blocked in a call, woken from it, or outside
  calls,                  \* calls each thread has begun
  \* history
  freed,                  \* times the function's box was dropped
  finalized,              \* times its finalizer ran
  accepted,               \* data pushed on the queue
  handled,                \* data call_js got with its env
  dropped                 \* data call_js got with a NULL env

shared == <<queue, threadCount, state, dispatchPosted>>
jsVars == <<handlesClosing, registered, js, inCall>>
history == <<accepted, handled, dropped, finalized>>
vars == <<queue, threadCount, state, dispatchPosted, handlesClosing, registered,
          ready, js, inCall, holders, pc, calls, freed, finalized, accepted,
          handled, dropped>>

Data == Threads \X (1 .. MaxCalls)

Init ==
  /\ queue = <<>>
  /\ threadCount = Cardinality(Initial)
  /\ state = "Open"
  /\ dispatchPosted = FALSE
  /\ handlesClosing = FALSE
  /\ registered = TRUE
  /\ ready = <<>>
  /\ js = "loop"
  /\ inCall = <<>>
  /\ holders = Initial
  /\ pc = [t \in Threads |-> "outside"]
  /\ calls = [t \in Threads |-> 0]
  /\ freed = 0
  /\ finalized = 0
  /\ accepted = <<>>
  /\ handled = <<>>
  /\ dropped = <<>>

-----------------------------------------------------------------------------
(* Shared pieces                                                           *)

(* The queue is at its limit (the wait condition of a call). *)
Full ==
  /\ MaxQueue > 0
  /\ Len(queue) >= MaxQueue
  /\ state = "Open"

(* Send, mutated: nothing is posted while the JS thread is in call_js. *)
SendUnlessCalling ==
  /\ dispatchPosted' = TRUE
  /\ ready' = IF dispatchPosted \/ js = "calling" THEN ready ELSE Append(ready, "Dispatch")

(* Tsfn::send: ask the JS thread to dispatch, once until it does. *)
Send ==
  /\ dispatchPosted' = TRUE
  /\ ready' = IF dispatchPosted THEN ready ELSE Append(ready, "Dispatch")

(* Notified, mutated: notify_one. *)
NotifiedOne ==
  LET waiting == {t \in Threads : pc[t] = "waiting"}
  IN IF waiting = {} THEN pc ELSE [pc EXCEPT ![CHOOSE t \in waiting : TRUE] = "woken"]

(* space.notify_all() *)
Notified == [t \in Threads |-> IF pc[t] = "waiting" THEN "woken" ELSE pc[t]]

(* LetGo, mutated: the last thread frees an open function too. *)
LetGoFrees(t) ==
  /\ holders' = holders \ {t}
  /\ threadCount' = threadCount - 1
  /\ freed' = IF threadCount' = 0 THEN freed + 1 ELSE freed

(* LetGo, mutated: it is left to the JS thread to free the function. *)
LetGoKeeps(t) ==
  /\ holders' = holders \ {t}
  /\ threadCount' = threadCount - 1
  /\ UNCHANGED freed

(* The end of a release or of a refused call: the last thread to let go of *)
(* a closed function frees it.                                             *)
LetGo(t) ==
  /\ holders' = holders \ {t}
  /\ threadCount' = threadCount - 1
  /\ freed' = IF state = "Closed" /\ threadCount' = 0 THEN freed + 1 ELSE freed

-----------------------------------------------------------------------------
(* The threads                                                             *)

(* napi_call_threadsafe_function on a queue with room. *)
Push(t, d) ==
  /\ state = "Open"
  /\ ~Full
  /\ queue' = Append(queue, d)
  /\ accepted' = Append(accepted, d)
  /\ Send
  /\ pc' = [pc EXCEPT ![t] = "outside"]
  /\ UNCHANGED <<threadCount, state, holders, freed, jsVars, handled, dropped, finalized>>

(* ... on a function that is closing: the calling thread lets go of it. *)
Refused(t) ==
  /\ state # "Open"
  /\ threadCount # 0
  /\ LetGo(t)
  /\ pc' = [pc EXCEPT ![t] = "outside"]
  /\ UNCHANGED <<queue, state, dispatchPosted, ready, jsVars, history>>

(* ... on a full queue: a napi_tsfn_blocking call waits for space, another *)
(* returns napi_queue_full.                                                *)
NoRoom(t, blocking) ==
  /\ Full
  /\ pc' = [pc EXCEPT ![t] = IF blocking THEN "waiting" ELSE "outside"]
  /\ UNCHANGED <<shared, ready, holders, freed, jsVars, history>>

(* A thread calls the function. *)
Call(t) ==
  /\ t \in holders
  /\ pc[t] = "outside"
  /\ calls[t] < MaxCalls
  /\ calls' = [calls EXCEPT ![t] = @ + 1]
  /\ \/ Push(t, <<t, calls[t] + 1>>)
     \/ Refused(t)
     \/ \E blocking \in BOOLEAN : NoRoom(t, blocking)

(* A blocked call was notified: it looks at the queue again. *)
Resume(t) ==
  /\ pc[t] = "woken"
  /\ UNCHANGED calls
  /\ \/ Push(t, <<t, calls[t]>>)
     \/ Refused(t)
     \/ NoRoom(t, TRUE)

(* napi_acquire_threadsafe_function by t, for a thread u it starts. *)
Acquire(t, u) ==
  /\ t \in holders
  /\ pc[t] = "outside"
  /\ u \notin holders
  /\ state = "Open"
  /\ threadCount' = threadCount + 1
  /\ holders' = holders \union {u}
  /\ UNCHANGED <<queue, state, dispatchPosted, ready, jsVars, pc, calls, freed, history>>

(* napi_release_threadsafe_function: the last thread, or an abort, makes   *)
(* the JS thread close the function.                                       *)
Release(t, abort) ==
  /\ t \in holders
  /\ pc[t] = "outside"
  /\ LetGo(t)
  /\ IF state = "Open" /\ (abort \/ threadCount' = 0)
       THEN /\ state' = IF abort THEN "Closing" ELSE state
            /\ pc' = IF abort THEN Notified ELSE pc
            /\ Send
       ELSE UNCHANGED <<state, pc, dispatchPosted, ready>>
  /\ UNCHANGED <<queue, jsVars, calls, history>>

-----------------------------------------------------------------------------
(* The JS thread                                                           *)

(* dispatch_one on an open function: pop one call; close the handles once  *)
(* the queue is empty and no thread holds it; ask again while calls remain.*)
DispatchOpen ==
  /\ js = "loop" /\ ready # <<>> /\ Head(ready) = "Dispatch"
  /\ state = "Open"
  /\ LET rest == IF queue = <<>> THEN <<>> ELSE Tail(queue)
         closes == rest = <<>> /\ threadCount = 0
     IN /\ queue' = rest
        /\ inCall' = IF queue = <<>> THEN <<>> ELSE <<Head(queue)>>
        /\ js' = IF queue = <<>> THEN "loop" ELSE "calling"
        /\ pc' = IF closes \/ (queue # <<>> /\ MaxQueue > 0) THEN Notified ELSE pc
        /\ state' = IF closes THEN "Closing" ELSE "Open"
        /\ handlesClosing' = (handlesClosing \/ closes)
        /\ dispatchPosted' = (rest # <<>>)
        /\ ready' = Tail(ready) \o
             (IF closes /\ ~handlesClosing THEN <<"Finalize">> ELSE <<>>) \o
             (IF rest # <<>> THEN <<"Dispatch">> ELSE <<>>)
  /\ UNCHANGED <<threadCount, registered, holders, calls, freed, history>>

(* dispatch_one on an aborted function: its handles close. *)
DispatchClosing ==
  /\ js = "loop" /\ ready # <<>> /\ Head(ready) = "Dispatch"
  /\ state # "Open"
  /\ dispatchPosted' = FALSE
  /\ handlesClosing' = TRUE
  /\ ready' = Tail(ready) \o (IF handlesClosing THEN <<>> ELSE <<"Finalize">>)
  /\ UNCHANGED <<queue, threadCount, state, registered, js, inCall, holders, pc, calls,
                 freed, history>>

(* CallJs, mutated: the datum is handed over twice. *)
CallJsTwice ==
  /\ js = "calling"
  /\ handled' = handled \o inCall \o inCall
  /\ inCall' = <<>>
  /\ js' = "loop"
  /\ UNCHANGED <<shared, handlesClosing, registered, ready, holders, pc, calls, freed,
                 accepted, dropped, finalized>>

(* The rest of dispatch_one, outside the lock: call_js with the datum. *)
CallJs ==
  /\ js = "calling"
  /\ handled' = handled \o inCall
  /\ inCall' = <<>>
  /\ js' = "loop"
  /\ UNCHANGED <<shared, handlesClosing, registered, ready, holders, pc, calls, freed,
                 accepted, dropped, finalized>>

(* finalize_tsfn, first part: the queue is taken under the lock, and what  *)
(* was queued goes to call_js with a NULL env.  Run from the loop's        *)
(* Finalize task, or by finalize_for_teardown.                             *)
Drain ==
  /\ \/ /\ js = "loop" /\ ready # <<>> /\ Head(ready) = "Finalize"
        /\ ready' = Tail(ready)
        /\ js' = "finalizing"
     \/ /\ js = "closed"
        /\ js' = "tearing"
        /\ UNCHANGED ready
  /\ queue' = <<>>
  /\ dropped' = dropped \o queue
  /\ UNCHANGED <<threadCount, state, dispatchPosted, handlesClosing, registered, inCall,
                 holders, pc, calls, freed, accepted, handled, finalized>>

(* finalize_tsfn, second part: the finalizer runs, the function leaves the *)
(* isolate's lists, and it is freed unless threads still hold it.          *)
Finish ==
  /\ js \in {"finalizing", "tearing"}
  /\ js' = IF js = "finalizing" THEN "loop" ELSE "down"
  /\ finalized' = finalized + 1
  /\ registered' = FALSE
  /\ state' = "Closed"
  /\ pc' = Notified
  /\ freed' = IF threadCount = 0 THEN freed + 1 ELSE freed
  /\ UNCHANGED <<queue, threadCount, dispatchPosted, handlesClosing, inCall, ready,
                 holders, calls, accepted, handled, dropped>>

(* close_for_teardown: the isolate is disposed of while the function is    *)
(* open.  The event loop does not run again, so the tasks still posted     *)
(* never do.                                                               *)
CloseForTeardown ==
  /\ js = "loop"
  /\ registered
  /\ js' = "closed"
  /\ state' = "Closing"
  /\ pc' = Notified
  /\ handlesClosing' = TRUE
  /\ UNCHANGED <<queue, threadCount, dispatchPosted, registered, inCall, ready, holders,
                 calls, freed, history>>

JsThread == DispatchOpen \/ DispatchClosing \/ CallJs \/ Drain \/ Finish

Next ==
  \/ JsThread
  \/ CloseForTeardown
  \/ \E t \in Threads :
       \/ Call(t)
       \/ Resume(t)
       \/ \E u \in Threads : Acquire(t, u)
       \/ \E abort \in BOOLEAN : Release(t, abort)

Spec == Init /\ [][Next]_vars

(* The JS thread keeps taking turns (or tears the isolate down, and then   *)
(* finishes), and a notified thread is scheduled; nothing makes a thread   *)
(* call or release.                                                        *)
Fairness ==
  /\ WF_vars(JsThread)
  /\ \A t \in Threads : WF_vars(Resume(t))

FairSpec == Spec /\ Fairness

-----------------------------------------------------------------------------
(* What must hold                                                          *)

(* The types of the variables. *)
TypeOK ==
  /\ queue \in Seq(Data)
  /\ threadCount \in Nat
  /\ state \in {"Open", "Closing", "Closed"}
  /\ dispatchPosted \in BOOLEAN
  /\ handlesClosing \in BOOLEAN
  /\ registered \in BOOLEAN
  /\ ready \in Seq({"Dispatch", "Finalize"})
  /\ js \in {"loop", "calling", "finalizing", "closed", "tearing", "down"}
  /\ inCall \in Seq(Data)
  /\ holders \subseteq Threads
  /\ pc \in [Threads -> {"outside", "waiting", "woken"}]
  /\ calls \in [Threads -> 0 .. MaxCalls]
  /\ freed \in Nat
  /\ finalized \in Nat
  /\ accepted \in Seq(Data)
  /\ handled \in Seq(Data)
  /\ dropped \in Seq(Data)

(* The event loop may still run a task of this function. *)
LoopRuns == js \notin {"closed", "tearing", "down"}

(* Nothing touches the function after it is freed, and it is freed once:   *)
(* no thread holds it, the isolate's lists do not have it (keeps_loop_alive *)
(* reads every function listed), the JS thread is done with it and the     *)
(* loop has no task that points to it.                                     *)
NoUseAfterFree ==
  freed > 0 =>
    /\ freed = 1
    /\ holders = {}
    /\ ~registered
    /\ js \in {"loop", "down"}
    /\ LoopRuns => ready = <<>>

(* A closed function is never leaked: once it is Closed and its last       *)
(* thread let go, its memory is gone (the JS thread's finalization and the *)
(* threads' releases agree on who frees it).                               *)
NoLeak == state = "Closed" /\ holders = {} => freed = 1

(* No dispatch is lost: while the event loop runs, a function with queued  *)
(* calls, one nobody holds any more, and one that was aborted each have a  *)
(* task posted for them.                                                   *)
NoLostDispatch ==
  LoopRuns =>
    /\ state = "Open" /\ (queue # <<>> \/ threadCount = 0) => "Dispatch" \in {ready[i] : i \in DOMAIN ready}
    /\ state = "Closing" /\ js # "finalizing" => ready # <<>>

(* No wakeup is lost: a thread sleeps in a blocking call only while the    *)
(* queue is full and the function is open.                                 *)
NoLostWakeup == \A t \in Threads : pc[t] = "waiting" => Full

(* What the function's memory and its sleepers rely on, together: whoever  *)
(* is last frees it, nobody else touches it after, nobody sleeps for good. *)
Safety == NoUseAfterFree /\ NoLeak /\ NoLostWakeup

(* Every accepted call is in exactly one place, in the order of            *)
(* acceptance: handed over, being handed over, dropped, or queued.         *)
Accounted == accepted = handled \o inCall \o dropped \o queue

(* The parts of the inductive invariant. *)

(* thread_count is the number of threads that hold the function. *)
CountInv == threadCount = Cardinality(holders)

(* At most one task of the function is posted, and dispatch_posted says    *)
(* whether it is a Dispatch.                                               *)
TaskInv ==
  /\ ready \in {<<>>, <<"Dispatch">>, <<"Finalize">>}
  /\ dispatchPosted <=> ready = <<"Dispatch">>

(* The phases of closing: the handles close once, with one Finalize posted *)
(* for them; the JS thread finalizes a closing function, once.             *)
PhaseInv ==
  /\ registered <=> state # "Closed"
  /\ finalized = IF registered THEN 0 ELSE 1
  /\ handlesClosing => state # "Open"
  /\ js \in {"finalizing", "closed", "tearing"} => state = "Closing"
  /\ js = "finalizing" => ready = <<>> /\ handlesClosing
  /\ js = "down" => state = "Closed"
  /\ js = "calling" => state # "Closed"
  /\ state = "Closed" => queue = <<>> /\ (js = "loop" => ready = <<>>)
  /\ js \in {"finalizing", "tearing"} => queue = <<>>
  /\ js \in {"loop", "calling"} /\ state = "Open" => ready # <<"Finalize">>
  /\ js \in {"loop", "calling"} /\ state = "Closing" =>
       ready = IF handlesClosing THEN <<"Finalize">> ELSE <<"Dispatch">>

(* An open function with queued calls, or held by nobody, has its Dispatch *)
(* posted.                                                                 *)
DispatchInv == state = "Open" /\ (queue # <<>> \/ threadCount = 0) => dispatchPosted

(* A thread inside a call holds the function. *)
CallInv == \A t \in Threads : pc[t] # "outside" => t \in holders /\ calls[t] > 0

(* A datum is being handed over only inside call_js, and data are dropped  *)
(* only by the finalization.                                               *)
DataInv ==
  /\ js # "calling" => inCall = <<>>
  /\ js = "calling" => \E d \in Data : inCall = <<d>>
  /\ dropped # <<>> => js \in {"finalizing", "tearing"} \/ state = "Closed"

(* The function is freed exactly when it is closed and held by nobody. *)
FreeInv == freed = IF state = "Closed" /\ threadCount = 0 THEN 1 ELSE 0

(* The inductive invariant: what the four parties (queue state, posted     *)
(* task, JS thread, threads) must agree on for the properties above to be  *)
(* preserved by every step.                                                *)
Inductive ==
  /\ TypeOK
  /\ CountInv
  /\ TaskInv
  /\ PhaseInv
  /\ DispatchInv
  /\ CallInv
  /\ NoLostWakeup
  /\ DataInv
  /\ FreeInv
  /\ Accounted

(* Implements the abstract queue of calls. *)
Promise == INSTANCE CallQueue WITH open <- (state = "Open")
ImplementsCallQueue == Promise!Spec

(* Every accepted call is eventually handed over or dropped: no datum is   *)
(* forgotten in the queue, whatever the threads do after queueing it.      *)
EverySettled ==
  \A n \in 1 .. (MaxCalls * Cardinality(Threads)) :
    (Len(accepted) >= n) ~> (Len(handled) + Len(dropped) >= n)

(* A blocked caller gets its answer once the function is aborted, its last *)
(* thread released it, or its isolate is torn down.                        *)
BlockedReturn ==
  \A t \in Threads : (state # "Open" /\ pc[t] # "outside") ~> (pc[t] = "outside")

(* When every thread let go, the function is finalized and freed. *)
EventuallyFreed == (holders = {}) ~> (finalized = 1 /\ freed = 1)

(* Whatever is asked of the function ends: data settle, callers return,    *)
(* and the function goes.                                                  *)
Progress == EverySettled /\ BlockedReturn /\ EventuallyFreed
=============================================================================
