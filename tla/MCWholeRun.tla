---------------------------- MODULE MCWholeRun ------------------------------
(***************************************************************************)
(* Small instances of the stages of a run: reading the command line, the   *)
(* run of MCRun with its workers, files and tests, and measuring coverage. *)
(* A behaviour is of one stage, named by stage; the variables of the       *)
(* others stay as they are.                                                *)
(***************************************************************************)
EXTENDS MCRun

CONSTANTS NoValue, Unavailable

CONSTANT MaxArgs                                  \* CommandLine
CONSTANTS MaxCalls, MaxRuns, MinLines             \* Coverage

VARIABLES
  stage,                  \* "command", "run" or "coverage"
  argv, step, opts, forward, filters, config, reported, options, order, exit, given,
  meta, lines, fns, branches, statements, doing, json, todo, ended, report, executed

command == <<argv, step, opts, forward, filters, config, reported, options, order, exit, given>>
coverage == <<meta, lines, fns, branches, statements, doing, json, todo, ended, report, executed>>

(* Three test files, two of them below a directory, and what words match. *)
Words == {"2", "2/2", "src", "", "run"}
In == [w \in Words |-> IF w = "src" THEN {"a", "b"} ELSE {}]
Matches == [w \in Words |-> CASE w = "src" -> {"a", "b"} [] w = "2" -> {"c"} [] OTHER -> {}]

(* Tokens of each class that the launcher and the runner tell apart. *)
Inline == {<<"--pool", "2">>, <<"--jobs", "0">>, <<"--shard", "3/2">>}

(* Reports of git, and histories: one that turns the order, one with ties. *)
GitReports == {{}, {"b"}, {"a", "c"}}
Durations == {"a" :> 1 @@ "b" :> 0 @@ "c" :> 2, "a" :> 0 @@ "b" :> 1 @@ "c" :> 1}

Command == INSTANCE CommandLine WITH
  InlineValues <- Inline, Reports <- GitReports, Histories <- Durations,
  AllFiles <- <<"a", "b", "c">>, Below <- In, Matching <- Matches, changed <- reported,
  phase <- step, exitCode <- exit, None <- NoValue

(* Two sources: an ES module, whose compiled script has helpers before the *)
(* code, in the report, and a CommonJS one that is left out of it.         *)
Cover == INSTANCE Coverage WITH
  Sources <- {"esm", "cjs"}, Included <- {"esm"}, Unmapped <- {}, Workers <- Workers,
  Prologue <- [s \in {"esm", "cjs"} |-> IF s = "esm" THEN 3 ELSE 1], PerFile <- TRUE,
  pc <- doing, runs <- ended, None <- NoValue

(* Bound: the counts of the source that is left out of the report are in   *)
(* none of its figures; it runs to its end or throws.                      *)
LeftOutRuns == \A x \in executed["cjs"] : x["f"] = 0 /\ x["then"] = 0

ASSUME Cover!CoverageAssumption

StagesInit ==
  /\ stage \in {"command", "run", "coverage"}
  /\ stage # "command" => given = <<>>
  /\ stage # "run" => machine = "worker" /\ mode = "isolated"
  /\ MCInit /\ Command!Init /\ Cover!Init

StagesNext ==
  /\ UNCHANGED stage
  /\ \/ stage = "command" /\ Command!Next /\ UNCHANGED <<all, coverage>>
     \/ stage = "run" /\ MCNext /\ UNCHANGED <<command, coverage>>
     \/ stage = "coverage" /\ Cover!Next /\ LeftOutRuns' /\ UNCHANGED <<all, command>>

StagesSpec ==
  /\ StagesInit /\ [][StagesNext]_<<stage, command, all, coverage>>
  /\ machine = "pool" => Fairness

(* CommandLine's AsAsked: the files that are run are those asked for, with the options given. *)
AsAsked == stage = "command" => Command!AsAsked

(* CommandLine's ShardsCover: the shards of a command run every file once. *)
ShardsCover == stage = "command" => Command!ShardsCover

(* Coverage's TellsWhatRan: the merged tables say what ran, and how often. *)
TellsWhatRan == stage = "coverage" => Cover!TellsWhatRan

(* Coverage's GateIsHonest: the gate passes only on what ran. *)
GateIsHonest == stage = "coverage" => Cover!GateIsHonest
=============================================================================
