----------------------------- MODULE MCModules -----------------------------
(***************************************************************************)
(* Small instances of the caches that workers share and of the graph of ES *)
(* modules of one isolate.  A behaviour is of one of them, named by        *)
(* machine: the graph takes the source of a module as it is.               *)
(***************************************************************************)
EXTENDS MCSourceCache

CONSTANTS Machines, Remocks, MaxOps

VARIABLES
  machine,                \* "cache" or "graph"
  reg, calling, reuse, setupMocks, current, phase, ops, result, asked, runs

graph == <<reg, calling, reuse, setupMocks, current, phase, ops, result, asked, runs>>

(* Two test files.  The module "c" is CommonJS and may throw, so that the  *)
(* load of "a" may fail with "a" registered and of "c" nothing; the        *)
(* packages "p" and "r" both import the package "q", which "a" imports too.*)
Graph == INSTANCE EsmGraph WITH
  App <- {"t1", "t2", "a", "b", "c"}, Pkgs <- {"p", "q", "r"}, Cjs <- {"c"}, Missing <- {"none"},
  Entries <- <<"t1", "t2">>,
  Imports <- "t1" :> <<"a", "p">> @@ "t2" :> <<"r", "a">> @@ "a" :> <<"q", "c">>
             @@ "b" :> <<"a", "q">> @@ "p" :> <<"q">> @@ "q" :> <<>> @@ "r" :> <<"q", "p">>,
  Mockable <- {"c", "q"}, MayThrow <- {"c", "a"}, Setups <- {{}, {"q"}},
  file <- current

ASSUME Graph!EsmGraphAssumption

MCInit ==
  /\ machine \in Machines
  /\ Init /\ Graph!Init
  /\ machine # "graph" => reuse /\ setupMocks = {}

MCNext ==
  /\ UNCHANGED machine
  /\ \/ machine = "cache" /\ Next /\ UNCHANGED graph
     \/ machine = "graph" /\ Graph!Next /\ UNCHANGED vars

MCSpec == MCInit /\ [][MCNext]_<<machine, vars, graph>>

(* EsmGraph's properties. *)
ReadsWhatWasAsked == Graph!ReadsWhatWasAsked
ServesWhatWasAsked == Graph!ServesWhatWasAsked
OneInstance == Graph!OneInstance
LinksTheMock == Graph!LinksTheMock
=============================================================================
