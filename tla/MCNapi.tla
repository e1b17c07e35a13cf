-------------------------------- MODULE MCNapi --------------------------------
(***************************************************************************)
(* Small instances of the calls of two addons, and of the disposal of an   *)
(* isolate with their hooks and functions.  A behaviour is of one of them, *)
(* named by machine.  The addons of the first are interchangeable; no      *)
(* state of the second names them.                                         *)
(***************************************************************************)
EXTENDS NodeApi, TLC

CONSTANTS addon1, addon2, object1
CONSTANTS                                           \* Teardown
  Addons, Hooks, AsyncHooks, Tsfns, MaxFinalizers, MaxAgain, Registers, FailsRegistered

(* Bound: records and references together. *)
MaxKept == 2

VARIABLES
  machine,                \* "calls" or "disposal"
  lib, env, list, handles, tsfns, kept, held, code, pc, closing, waiting, dropping, again,
  aborted

disposal == <<lib, env, list, handles, tsfns, kept, held, code, pc, closing, waiting,
              dropping, again, aborted>>

D == INSTANCE Teardown WITH
  Envs <- Addons, MaxRecords <- MaxFinalizers, records <- kept, instance <- held

ASSUME D!TeardownAssumption

(* All that the disposal handles, D!Handled.                               *)
AllHandled ==
  {"hook", "async"} \X {"hook", "async", "tsfn", "record", "data"}
  \union {<<"finalizer", "record">>, <<"tsfn", "record">>, <<"tsfn", "data">>}

Symmetry == Permutations({addon1, addon2})

MCInit == machine \in {"calls", "disposal"} /\ Init /\ D!Init

MCNext ==
  /\ UNCHANGED machine
  /\ \/ /\ machine = "calls" /\ Next /\ UNCHANGED disposal
        /\ Len(records') + Len(refs') <= MaxKept
     \/ machine = "disposal" /\ D!Next /\ UNCHANGED vars

\* nothing of a disposal is ready in an isolate that is not disposed of
MCSpec == MCInit /\ [][MCNext]_<<machine, vars, disposal>> /\ WF_disposal(D!Disposal)

(* Teardown's properties. *)
DisposalSafe == D!DisposalSafe
NothingLeft == D!NothingLeft
DisposalEnds == D!DisposalEnds
===============================================================================
