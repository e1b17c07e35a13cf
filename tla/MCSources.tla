------------------------------ MODULE MCSources ------------------------------
(***************************************************************************)
(* Small instances of what a run does with source files: selecting the     *)
(* tests that a change affects, loading modules (the caches that workers   *)
(* share, and the ES modules of an isolate), lowering ES modules.  A       *)
(* behaviour is of one stage, named by stage; the variables of the others  *)
(* stay as they are.                                                       *)
(***************************************************************************)
EXTENDS MCModules, MCAffectedTests

CONSTANTS NModules, MaxItems, MaxTotal            \* EsmToCjs

VARIABLES
  stage,                  \* "affected", "modules" or "lowering"
  sources, mode, loading, started, inited, copied, assigned, ran, reads

modules == <<machine, vars, graph>>
lowering == <<sources, mode, loading, started, inited, copied, assigned, ran, reads>>

Lowering == INSTANCE EsmToCjs WITH stack <- loading, order <- ran

ASSUME Lowering!EsmAssumption

(* Inputs for the stages that a behaviour is not of. *)
Chain ==
  [m \in 1 .. NModules |->
     [own |-> "none",
      items |-> IF m = NModules THEN <<>> ELSE <<[kind |-> "star", from |-> m + 1]>>]]

StagesInit ==
  /\ stage \in {"affected", "modules", "lowering"}
  /\ stage # "affected" => imports = [f \in MCFiles |-> <<>>] /\ changed = {f1}
  /\ stage # "modules" => machine = "cache"
  /\ stage # "lowering" => sources = Chain
  /\ AffectedInit /\ MCInit /\ Lowering!Init

StagesNext ==
  /\ UNCHANGED stage
  /\ \/ stage = "affected" /\ AffectedNext /\ UNCHANGED <<modules, lowering>>
     \/ stage = "modules" /\ MCNext /\ UNCHANGED <<affectedVars, lowering>>
     \/ stage = "lowering" /\ Lowering!Next /\ UNCHANGED <<affectedVars, modules>>

StagesSpec == StagesInit /\ [][StagesNext]_<<stage, affectedVars, modules, lowering>>

(* EsmToCjs's RunsLikeTheSource: lowered modules run like their sources. *)
RunsLikeTheSource == stage = "lowering" => Lowering!RunsLikeTheSource
==============================================================================
