----------------------------- MODULE WorkRounds -----------------------------
(***************************************************************************)
(* What napi_async_work promises: a queued work is executed once and then  *)
(* completed with napi_ok, or cancelled before it starts and completed     *)
(* with napi_cancelled, and may then be queued again.                      *)
(***************************************************************************)
EXTENDS Naturals

CONSTANT Works

VARIABLES
  phase,                  \* where each work is in its round
  completed               \* completions of each work, by status

Init ==
  /\ phase = [w \in Works |-> "idle"]
  /\ completed = [w \in Works |-> [s \in {"napi_ok", "napi_cancelled"} |-> 0]]

Move(w, from, to) ==
  /\ phase[w] = from
  /\ phase' = [phase EXCEPT ![w] = to]

Queue(w) == Move(w, "idle", "waiting") /\ UNCHANGED completed

Start(w) == Move(w, "waiting", "executing") /\ UNCHANGED completed

Cancel(w) == Move(w, "waiting", "cancelled") /\ UNCHANGED completed

Finish(w) == Move(w, "executing", "executed") /\ UNCHANGED completed

Complete(w) ==
  \/ /\ Move(w, "executed", "idle")
     /\ completed' = [completed EXCEPT ![w]["napi_ok"] = @ + 1]
  \/ /\ Move(w, "cancelled", "idle")
     /\ completed' = [completed EXCEPT ![w]["napi_cancelled"] = @ + 1]

Next == \E w \in Works : Queue(w) \/ Start(w) \/ Cancel(w) \/ Finish(w) \/ Complete(w)

Spec == Init /\ [][Next]_<<phase, completed>>
=============================================================================
