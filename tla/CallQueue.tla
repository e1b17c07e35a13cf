----------------------------- MODULE CallQueue -----------------------------
(***************************************************************************)
(* What a threadsafe function promises its callers, without its lock, its  *)
(* condition variable, its thread count or the event loop: a queue of      *)
(* calls that is open and then closed for good.  A call accepted while it  *)
(* is open is handed to JavaScript in the order of acceptance; once it is  *)
(* closed, the calls not yet handed over are dropped, all at once and in   *)
(* that same order (call_js gets them with a NULL env, to free them).      *)
(* ThreadsafeFunction implements this module.                              *)
(***************************************************************************)
EXTENDS Naturals, Sequences

CONSTANT Data             \* what a call carries

VARIABLES
  accepted,               \* every datum accepted, in order
  handled,                \* the data handed to JavaScript
  dropped,                \* the data dropped at the end
  open                    \* calls are still accepted

vars == <<accepted, handled, dropped, open>>

Init ==
  /\ accepted = <<>>
  /\ handled = <<>>
  /\ dropped = <<>>
  /\ open = TRUE

(* A call is accepted. *)
Accept(d) ==
  /\ open
  /\ accepted' = Append(accepted, d)
  /\ UNCHANGED <<handled, dropped, open>>

(* The oldest accepted call that JavaScript has not seen is handed over.   *)
(* A call may still be handed over when the queue has just closed.         *)
Handle ==
  /\ Len(handled) < Len(accepted)
  /\ dropped = <<>>
  /\ handled' = Append(handled, accepted[Len(handled) + 1])
  /\ UNCHANGED <<accepted, dropped, open>>

Close ==
  /\ open
  /\ open' = FALSE
  /\ UNCHANGED <<accepted, handled, dropped>>

(* The end: what is left is dropped, in order. *)
Drop ==
  /\ ~open
  /\ dropped = <<>>
  /\ dropped' = SubSeq(accepted, Len(handled) + 1, Len(accepted))
  /\ UNCHANGED <<accepted, handled, open>>

Next == Handle \/ Close \/ Drop \/ \E d \in Data : Accept(d)

Spec == Init /\ [][Next]_vars
=============================================================================
