------------------------------ MODULE RunFiles ------------------------------
(***************************************************************************)
(* The worker pool of a run (cli.rs, run_files): jobs threads pull files   *)
(* from a shared cursor in schedule order, add what failed to a shared     *)
(* count that --bail compares with, and push their results; the main       *)
(* thread joins them, tallies the results and picks the exit code.         *)
(*                                                                         *)
(* A file is its place in the schedule order.  A step is one access to the *)
(* shared state (an atomic, or the results' lock).  execute_file is a step *)
(* with an arbitrary outcome; module ExecuteFile opens it.                 *)
(***************************************************************************)
EXTENDS Naturals, FiniteSets

CONSTANTS
  NFiles,                 \* files the run has
  Workers,                \* the jobs threads
  Bail,                   \* --bail (0: off)
  MaxFailed               \* bound: failed tests of one file

ASSUME RunAssumption ==
  /\ NFiles \in Nat
  /\ IsFiniteSet(Workers)
  /\ Workers # {}
  /\ Bail \in Nat
  /\ MaxFailed \in Nat

VARIABLES
  cursor,                 \* the next place to pull
  failedTotal,            \* failed tests of the files that were run
  results,                \* the results pushed
  pc,                     \* where each worker is in its loop
  place,                  \* the file a worker pulled last
  outcome,                \* what execute_file made of it
  exitCode,               \* of the run; "none" while it goes on
  starts,                 \* history: times each file was pulled
  late                    \* history: files pulled once bail was reached

vars == <<cursor, failedTotal, results, pc, place, outcome, exitCode, starts, late>>

Files == 1 .. NFiles

(* file_result: what a file can come to.  A load error has no tests; a     *)
(* file fails with a failed test, a load error or a suite error.           *)
Outcomes ==
  {o \in [failed : 0 .. MaxFailed, loadError : BOOLEAN, failedFile : BOOLEAN] :
     /\ o.loadError => o.failed = 0 /\ o.failedFile
     /\ o.failed > 0 => o.failedFile}

Passed == [failed |-> 0, loadError |-> FALSE, failedFile |-> FALSE]

Result == [file : Files, outcome : Outcomes]

BailReached == Bail > 0 /\ failedTotal >= Bail

Init ==
  /\ cursor = 1
  /\ failedTotal = 0
  /\ results = {}
  /\ pc = [w \in Workers |-> "look"]
  /\ place = [w \in Workers |-> 0]
  /\ outcome = [w \in Workers |-> Passed]
  /\ exitCode = "none"
  /\ starts = [f \in Files |-> 0]
  /\ late = 0

-----------------------------------------------------------------------------
(* A worker                                                                *)

Goto(w, label) == pc' = [pc EXCEPT ![w] = label]

(* Look, mutated: --bail is looked at before the first file only. *)
LookAtFirst(w) ==
  /\ pc[w] = "look"
  /\ Goto(w, IF place[w] = 0 /\ BailReached THEN "ending" ELSE "pull")
  /\ UNCHANGED <<cursor, failedTotal, results, place, outcome, exitCode, starts, late>>

(* Look, mutated: the worker waits once bail is reached. *)
LookWaits(w) ==
  /\ pc[w] = "look"
  /\ Goto(w, IF BailReached THEN "look" ELSE "pull")
  /\ UNCHANGED <<cursor, failedTotal, results, place, outcome, exitCode, starts, late>>

(* The bail check at the top of the loop. *)
Look(w) ==
  /\ pc[w] = "look"
  /\ Goto(w, IF BailReached THEN "ending" ELSE "pull")
  /\ UNCHANGED <<cursor, failedTotal, results, place, outcome, exitCode, starts, late>>

(* Pull, mutated: the cursor is read and written, not advanced in one step *)
(* (another worker writes it in between).                                  *)
PullUnlocked(w) ==
  /\ pc[w] = "pull"
  /\ cursor' \in {cursor, cursor + 1}
  /\ IF cursor > NFiles
       THEN /\ Goto(w, "ending")
            /\ UNCHANGED <<place, starts, late>>
       ELSE /\ Goto(w, "execute")
            /\ place' = [place EXCEPT ![w] = cursor]
            /\ starts' = [starts EXCEPT ![cursor] = @ + 1]
            /\ late' = IF BailReached THEN late + 1 ELSE late
  /\ UNCHANGED <<failedTotal, results, outcome, exitCode>>

(* cursor.fetch_add: a file, or none is left. *)
Pull(w) ==
  /\ pc[w] = "pull"
  /\ cursor' = cursor + 1
  /\ IF cursor > NFiles
       THEN /\ Goto(w, "ending")
            /\ UNCHANGED <<place, starts, late>>
       ELSE /\ Goto(w, "execute")
            /\ place' = [place EXCEPT ![w] = cursor]
            /\ starts' = [starts EXCEPT ![cursor] = @ + 1]
            /\ late' = IF BailReached THEN late + 1 ELSE late
  /\ UNCHANGED <<failedTotal, results, outcome, exitCode>>

(* execute_file and file_result *)
Execute(w) ==
  /\ pc[w] = "execute"
  /\ \E o \in Outcomes : outcome' = [outcome EXCEPT ![w] = o]
  /\ Goto(w, "count")
  /\ UNCHANGED <<cursor, failedTotal, results, place, exitCode, starts, late>>

(* failed_total.fetch_add, under --bail *)
Count(w) ==
  /\ pc[w] = "count"
  /\ failedTotal' = IF Bail > 0 THEN failedTotal + outcome[w].failed ELSE failedTotal
  /\ Goto(w, "push")
  /\ UNCHANGED <<cursor, results, place, outcome, exitCode, starts, late>>

Push(w) ==
  /\ pc[w] = "push"
  /\ results' = results \union {[file |-> place[w], outcome |-> outcome[w]]}
  /\ Goto(w, "look")
  /\ UNCHANGED <<cursor, failedTotal, place, outcome, exitCode, starts, late>>

(* end_worker, once per thread *)
End(w) ==
  /\ pc[w] = "ending"
  /\ Goto(w, "joined")
  /\ UNCHANGED <<cursor, failedTotal, results, place, outcome, exitCode, starts, late>>

-----------------------------------------------------------------------------
(* The main thread                                                         *)

(* ExitCode, mutated: only failed tests and load errors count. *)
ExitCodeOfTests(gatesOk) ==
  IF /\ \A r \in results : r.outcome.failed = 0
     /\ \A r \in results : ~r.outcome.loadError
     /\ gatesOk
    THEN "0" ELSE "1"

(* exit_code of the tally: gatesOk is the coverage gate's and the output's *)
(* verdict.                                                                *)
ExitCode(gatesOk) ==
  IF /\ \A r \in results : r.outcome.failed = 0
     /\ \A r \in results : ~r.outcome.loadError
     /\ \A r \in results : ~r.outcome.failedFile
     /\ gatesOk
    THEN "0" ELSE "1"

Report ==
  /\ exitCode = "none"
  /\ \A w \in Workers : pc[w] = "joined"
  /\ \E gatesOk \in BOOLEAN : exitCode' = ExitCode(gatesOk)
  /\ UNCHANGED <<cursor, failedTotal, results, pc, place, outcome, starts, late>>

Worker(w) == Look(w) \/ Pull(w) \/ Execute(w) \/ Count(w) \/ Push(w) \/ End(w)

Next == Report \/ \E w \in Workers : Worker(w)

Spec == Init /\ [][Next]_vars

(* Threads are scheduled, and a file's run ends (the turn limit and the    *)
(* heap guard see to it).                                                  *)
Fairness == WF_vars(Report) /\ \A w \in Workers : WF_vars(Worker(w))

FairSpec == Spec /\ Fairness

-----------------------------------------------------------------------------
(* What must hold                                                          *)

(* The types of the variables. *)
TypeOK ==
  /\ cursor \in Nat \ {0}
  /\ failedTotal \in Nat
  /\ results \subseteq Result
  /\ pc \in [Workers -> {"look", "pull", "execute", "count", "push", "ending", "joined"}]
  /\ place \in [Workers -> Files \union {0}]
  /\ outcome \in [Workers -> Outcomes]
  /\ exitCode \in {"none", "0", "1"}
  /\ starts \in [Files -> Nat]
  /\ late \in Nat

(* Worker w has pulled f and not yet pushed its result. *)
Holds(w, f) == pc[w] \in {"execute", "count", "push"} /\ place[w] = f

Reported(f) == \E r \in results : r.file = f

(* The pulled files are those below the cursor; each was pulled once and   *)
(* is with one worker or in the results, once.                             *)
RunOnce ==
  \A f \in Files :
    /\ starts[f] = (IF f < cursor THEN 1 ELSE 0)
    /\ f < cursor <=> Reported(f) \/ \E w \in Workers : Holds(w, f)
    /\ \A w \in Workers : Holds(w, f) =>
         ~Reported(f) /\ \A v \in Workers : Holds(v, f) => v = w
    /\ \A r, s \in results : r.file = f /\ s.file = f => r = s

(* The check and the pull are two steps: once --bail is reached, each      *)
(* other worker may still start one file, and no more.                     *)
BailOvershoot == late < Cardinality(Workers)

(* A run that exits with 0 ran every file, and every one passed: a file    *)
(* left out by --bail is never taken for one that passed.                  *)
NoSilentSkip ==
  exitCode = "0" => \A f \in Files : [file |-> f, outcome |-> Passed] \in results

(* Only --bail leaves files out, and then the fastest ones: those that run *)
(* are a prefix of the schedule order, all of it unless bail was reached.  *)
OnlyBailSkips ==
  exitCode # "none" =>
    /\ \A f, g \in Files : Reported(g) /\ f < g => Reported(f)
    /\ (\E f \in Files : ~Reported(f)) => BailReached

(* The parts of the inductive invariant. *)

(* A worker that is busy has a file. *)
HeldInv ==
  \A w \in Workers : pc[w] \in {"execute", "count", "push"} => place[w] \in Files

(* A worker stops pulling only at the end of the files, or for --bail. *)
EndInv ==
  \A w \in Workers : pc[w] \in {"ending", "joined"} => cursor > NFiles \/ BailReached

(* The failures counted so far are in the results, or about to be. *)
FailInv ==
  failedTotal > 0 =>
    \/ \E r \in results : r.outcome.failed > 0
    \/ \E w \in Workers : pc[w] = "push" /\ outcome[w].failed > 0

(* The workers that looked before bail was reached and did not pull yet. *)
Pullers == {w \in Workers : pc[w] = "pull"}

(* Once bail is reached, by a worker that is not among them, their number  *)
(* bounds the files still to be started.                                   *)
BailInv ==
  /\ ~BailReached => late = 0
  /\ BailReached => late + Cardinality(Pullers) < Cardinality(Workers)

(* The main thread reports when all workers are joined. *)
ExitInv == exitCode # "none" => \A w \in Workers : pc[w] = "joined"

(* The inductive invariant: what the steps of the workers, in any order,   *)
(* preserve, and the properties above follow from.                         *)
Inductive ==
  /\ TypeOK
  /\ RunOnce
  /\ HeldInv
  /\ EndInv
  /\ FailInv
  /\ BailInv
  /\ ExitInv
  /\ NoSilentSkip

(* The run comes to its end. *)
Finishes == <>(exitCode # "none")
=============================================================================
