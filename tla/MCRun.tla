------------------------------- MODULE MCRun -------------------------------
(***************************************************************************)
(* Small instances of the worker pool of a run, of one worker with its     *)
(* files and of the tests of one file.  A behaviour is of one of them,     *)
(* named by machine: the pool takes what a file comes to as it is, a       *)
(* worker shares nothing with another but the pool's state, and takes what *)
(* a file's tests come to as it is.                                        *)
(*                                                                         *)
(* The pool has more files than workers, so that workers come back for     *)
(* files and find the cursor at its end; of the worker's two files, one    *)
(* needs a document; the file has two tests, a describe block, or nothing. *)
(***************************************************************************)
EXTENDS RunFiles, TLC

CONSTANTS w1, w2, f1, f2

CONSTANTS TestFiles, DomFiles, MaxIsolate           \* ExecuteFile
CONSTANTS Tests, Suites, Root, Trees, NHooks, MaxOdd \* TestRun

(* Two tests, in the file or in a describe block, or in none. *)
SmallTrees ==
  {"file" :> <<"block", "t2">> @@ "block" :> <<"t1">>,
   "file" :> <<"block">> @@ "block" :> <<"t1", "t2">>,
   "file" :> <<"block", "t1">> @@ "block" :> <<>>,
   "file" :> <<>> @@ "block" :> <<>>}

VARIABLES
  machine,                \* "pool", "worker" or "tests"
  mode, iso, registry, saved, forceFresh, snapshot, setupError, domInstalled, document,
  at, file, how, best, tries, cur, result, noted, info, badSetup, runs, done,
  decl, stack, att, sum, records, told, progress, odd, did, hooked, attempts, zombies

worker == <<mode, iso, registry, saved, forceFresh, snapshot, setupError, domInstalled,
            document, at, file, how, best, tries, cur, result, noted, info, badSetup, runs, done>>

tests == <<decl, stack, att, sum, records, told, progress, odd, did, hooked, attempts, zombies>>

W == INSTANCE ExecuteFile WITH Files <- TestFiles, pc <- at

T == INSTANCE TestRun WITH phase <- progress

ASSUME W!ExecuteAssumption
ASSUME TestsAssumption == T!TestRunAssumption

all == <<machine, vars, worker, tests>>

(* One and the same plain file for the machines that are not of it. *)
Plain == T!Oddity(decl) = 0 /\ decl.tasks = CHOOSE tree \in Trees : TRUE

MCInit ==
  /\ machine \in {"pool", "worker", "tests"}
  /\ T!Init /\ (machine # "tests" => Plain)
  /\ Init /\ W!Init

MCNext ==
  /\ UNCHANGED machine
  /\ \/ machine = "pool" /\ Next /\ UNCHANGED <<worker, tests>>
     \/ machine = "worker" /\ W!Next /\ UNCHANGED <<vars, tests>>
     \/ machine = "tests" /\ T!Next /\ UNCHANGED <<vars, worker>>

MCSpec == MCInit /\ [][MCNext]_all /\ (machine = "pool" => Fairness)

(* The run ends, with and without --bail reached. *)
RunEnds == machine = "pool" => Finishes

(* ExecuteFile's RunsAlone: a run meets nothing of another isolate or file. *)
RunsAlone == W!RunsAlone

(* ExecuteFile's Verdict: the result that is kept is the right attempt's. *)
Verdict == W!Verdict

(* TestRun's HooksAround: the hooks run around what they are declared for. *)
HooksAround == T!HooksAround

(* TestRun's EachTestTold: every test is told once, as what it came to. *)
EachTestTold == T!EachTestTold
=============================================================================
