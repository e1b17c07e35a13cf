---------------------------- MODULE ExecuteFile ----------------------------
(***************************************************************************)
(* One worker thread running its files: cli.rs's execute_file (the panic   *)
(* guard, the retries, the fresh-isolate verdict) over the runner's two    *)
(* ways to run a file, on the worker's persistent isolate (isolate reuse)  *)
(* or on an isolate of its own, with the thread-locals they share: the     *)
(* module registry, the setup files' mocks and error, the document.        *)
(*                                                                         *)
(* An isolate is a number nothing in the thread refers to when it is       *)
(* created.  A run is three steps: the isolate is readied (reset, document,*)
(* setup files), the file runs, the run ends; it may panic after each of   *)
(* the first two.  The registry is a set of handles, each of the isolate   *)
(* that made it.                                                           *)
(***************************************************************************)
EXTENDS Naturals, Sequences, FiniteSets

CONSTANTS
  Files,                  \* the files this worker comes to pull
  DomFiles,               \* those that need a document
  MaxIsolate              \* bound: isolates the thread refers to at once

(* Of the constants. *)
ExecuteAssumption ==
  /\ DomFiles \subseteq Files
  /\ MaxIsolate \in Nat

VARIABLES
  mode,                   \* isolated, reuse, or reuse under --coverage
  \* the runner's thread-locals
  iso,                    \* REUSE_ISO and REUSE_CTX: the persistent isolate, or 0
  registry,               \* REGISTRY
  saved,                  \* the registry run_fresh_with swapped out
  forceFresh,             \* FORCE_FRESH
  snapshot,               \* the isolate of SETUP_MOCKS and SETUP_MOCK_SNAPSHOT, or 0
  setupError,             \* REUSE_SETUP_ERROR
  domInstalled,           \* DOM_INSTALLED
  document,               \* the isolate whose document is in the thread's slot, or 0
  \* execute_file
  pc, file, how, best, tries,
  cur,                    \* the isolate of the run under way, or 0
  result,                 \* what that run came to
  noted,                  \* LOAD_ERROR: the run whose error it is
  info,                   \* the error file_result took for the last file
  \* history
  badSetup,               \* isolates on which a setup file threw
  runs,                   \* the runs of the current file
  done                    \* files that have their result

locals == <<iso, registry, saved, forceFresh, snapshot, setupError, domInstalled, document>>
vars == <<mode, iso, registry, saved, forceFresh, snapshot, setupError, domInstalled,
          document, pc, file, how, best, tries, cur, result, noted, info, badSetup,
          runs, done>>

None == "none"

(* An error that a file failed to load with: of which run of which file. *)
NoError == [file |-> None, run |-> 0]

(* A file's outcome: a report that is final under reuse (passed, or failed *)
(* by assertions alone), another report, a load error or panic, the heap   *)
(* guard's error.                                                          *)
Outcomes == {"final", "report", "error", "oom"}
IsReport(o) == o \in {"final", "report"}
Better(new, old) == IsReport(new) /\ ~IsReport(old)       \* score

(* LooksTransient, mutated: a report with failures is run again. *)
TransientReport(o) == o \in {"error", "report"}

(* looks_transient: the file did not run its tests, and might now. *)
LooksTransient(o) == o = "error"

(* The condition of both retry loops, after n retries. *)
MayRetry(o, n) == LooksTransient(o) /\ n < 2

ReuseEnabled == mode # "isolated"
OnReusePath == mode = "reuse" /\ ~forceFresh

Init ==
  /\ mode \in {"isolated", "reuse", "coverage"}
  /\ iso = 0
  /\ registry = {}
  /\ saved = {}
  /\ forceFresh = FALSE
  /\ snapshot = 0
  /\ setupError = FALSE
  /\ domInstalled = FALSE
  /\ document = 0
  /\ pc = "next"
  /\ file = None
  /\ how = "same"
  /\ best = None
  /\ tries = 0
  /\ cur = 0
  /\ result = None
  /\ noted = NoError
  /\ info = NoError
  /\ badSetup = {}
  /\ runs = <<>>
  /\ done = {}

-----------------------------------------------------------------------------
(* execute_file's control                                                  *)

Start(f) ==
  /\ pc = "next"
  /\ f \notin done
  /\ file' = f
  /\ pc' = "begin"
  /\ how' = "same"
  /\ best' = None
  /\ tries' = 0
  /\ runs' = <<>>
  /\ UNCHANGED <<mode, locals, cur, result, noted, info, badSetup, done>>

(* file_result: an error goes with the error that was noted, if any. *)
FileResult(kept) ==
  /\ info' = IF IsReport(kept) THEN NoError ELSE noted
  /\ noted' = IF IsReport(kept) THEN noted ELSE NoError

(* The result of an attempt: keep the best, and try again, on a fresh      *)
(* isolate, or no more, and make the file's result of what was kept.       *)
Decide ==
  /\ pc = "decide"
  /\ LET kept == IF best = None \/ Better(result, best) THEN result ELSE best
     IN \/ /\ MayRetry(kept, tries)
           /\ best' = kept
           /\ tries' = tries + 1
           /\ pc' = "begin"
           /\ UNCHANGED <<how, done, noted, info>>
        \/ /\ ~MayRetry(kept, tries)
           /\ how = "same" /\ ReuseEnabled /\ kept # "final"
           /\ how' = "fresh"
           /\ best' = None
           /\ tries' = 0
           /\ pc' = "begin"
           /\ UNCHANGED <<done, noted, info>>
        \/ /\ ~MayRetry(kept, tries)
           /\ ~(how = "same" /\ ReuseEnabled /\ kept # "final")
           /\ best' = kept
           /\ done' = done \union {file}
           /\ pc' = "next"
           /\ FileResult(kept)
           /\ UNCHANGED <<how, tries>>
  /\ UNCHANGED <<mode, locals, file, cur, result, badSetup, runs>>

-----------------------------------------------------------------------------
(* A run, readied                                                          *)

Persistent == how = "same" /\ mode = "reuse"

Isolates == 1 .. MaxIsolate

InUse == {iso, cur, snapshot, document} \union {h.iso : h \in registry \union saved}

(* A new isolate, on which a setup file may throw. *)
NewIsolate(throws) ==
  /\ Isolates \ InUse # {}
  /\ cur' = CHOOSE i \in Isolates : i \notin InUse
  /\ badSetup' = IF throws THEN badSetup \union {cur'} ELSE badSetup \ {cur'}

SetupMocks(i) == [iso |-> i, kind |-> "setupMock", file |-> None]

(* Cleared, mutated: the error of an earlier run stays. *)
NotCleared == UNCHANGED <<noted, info>>

(* run_test_file forgets the error of an earlier run. *)
Cleared == noted' = NoError /\ UNCHANGED info

(* run_test_file_reused, the worker's first file on the isolate: it is     *)
(* created and the setup files run; one may throw, after its mocks (which  *)
(* are hoisted) were registered.                                           *)
BeginFirst(throws) ==
  /\ pc = "begin" /\ Persistent /\ iso = 0
  /\ NewIsolate(throws)
  /\ iso' = cur'
  /\ registry' = registry \union {SetupMocks(cur')}
  /\ snapshot' = cur'
  /\ setupError' = throws
  /\ IF file \in DomFiles /\ ~domInstalled
       THEN domInstalled' = TRUE /\ document' = cur'
       ELSE UNCHANGED <<domInstalled, document>>
  /\ pc' = "ready"
  /\ Cleared
  /\ UNCHANGED <<mode, saved, forceFresh, file, how, best, tries, result, runs, done>>

(* BeginNext, mutated: nothing is evicted from the registry. *)
BeginNextUnclean ==
  /\ pc = "begin" /\ Persistent /\ iso # 0
  /\ cur' = iso
  /\ IF file \in DomFiles /\ ~domInstalled
       THEN domInstalled' = TRUE /\ document' = iso
       ELSE UNCHANGED <<domInstalled, document>>
  /\ pc' = "ready"
  /\ Cleared
  /\ UNCHANGED <<mode, iso, registry, saved, forceFresh, snapshot, setupError, file, how,
                 best, tries, result, badSetup, runs, done>>

(* BeginNext, mutated: the setup files' mocks are evicted too. *)
BeginNextBare ==
  /\ pc = "begin" /\ Persistent /\ iso # 0
  /\ cur' = iso
  /\ registry' = {h \in registry : h.kind = "module"}
  /\ IF file \in DomFiles /\ ~domInstalled
       THEN domInstalled' = TRUE /\ document' = iso
       ELSE UNCHANGED <<domInstalled, document>>
  /\ pc' = "ready"
  /\ Cleared
  /\ UNCHANGED <<mode, iso, saved, forceFresh, snapshot, setupError, file, how, best,
                 tries, result, badSetup, runs, done>>

(* ... a later file: the registry keeps its evaluated modules and the      *)
(* setup files' mocks.                                                     *)
BeginNext ==
  /\ pc = "begin" /\ Persistent /\ iso # 0
  /\ cur' = iso
  /\ registry' = {h \in registry : h.kind \in {"module", "setupMock"}}
  /\ IF file \in DomFiles /\ ~domInstalled
       THEN domInstalled' = TRUE /\ document' = iso
       ELSE UNCHANGED <<domInstalled, document>>
  /\ pc' = "ready"
  /\ Cleared
  /\ UNCHANGED <<mode, iso, saved, forceFresh, snapshot, setupError, file, how, best,
                 tries, result, badSetup, runs, done>>

(* run_test_file on an isolate of its own: the only way without reuse, and *)
(* run_fresh_with's, which keeps the worker's registry aside.              *)
BeginFresh(throws) ==
  /\ pc = "begin" /\ ~Persistent
  /\ NewIsolate(throws)
  /\ IF how = "fresh"
       THEN /\ saved' = registry
            /\ forceFresh' = TRUE
            /\ registry' = {SetupMocks(cur')}
       ELSE /\ registry' = registry \union {SetupMocks(cur')}
            /\ UNCHANGED <<saved, forceFresh>>
  /\ document' = IF file \in DomFiles THEN cur' ELSE document
  /\ pc' = "ready"
  /\ Cleared
  /\ UNCHANGED <<mode, iso, snapshot, setupError, domInstalled, file, how, best, tries,
                 result, runs, done>>

(* The file runs: it mocks modules and loads others, of which an error     *)
(* leaves some linked but not evaluated.  It does not after a setup error. *)
(* The exception of an error is noted if there is one (there is none when  *)
(* the tests never end, or for a setup error that is reported again).      *)
Run(o, mocks, notes) ==
  /\ pc = "ready"
  /\ IF cur \in badSetup
       THEN /\ ~IsReport(o) /\ ~mocks
            /\ UNCHANGED registry
       ELSE LET Handle(kind) == [iso |-> cur, kind |-> kind, file |-> file]
            IN registry' = registry \union {Handle("module")}
                 \union (IF mocks THEN {Handle("testMock")} ELSE {})
                 \union (IF IsReport(o) THEN {} ELSE {Handle("linked")})
  /\ result' = o
  /\ notes => o = "error"
  /\ noted' = IF notes THEN [file |-> file, run |-> Len(runs) + 1] ELSE noted
  /\ pc' = "ran"
  /\ UNCHANGED <<info, mode, iso, saved, forceFresh, snapshot, setupError, domInstalled,
                 document, file, how, best, tries, cur, badSetup, runs, done>>

-----------------------------------------------------------------------------
(* ... and ended                                                           *)

(* DomGuard's drop, dom being DOM_INSTALLED then: the worker's document    *)
(* stays, another goes.                                                    *)
DocumentAfter(dom) == IF OnReusePath /\ dom THEN document ELSE 0

(* DropWorker, mutated: it keeps the setup mocks' snapshot. *)
DropWorkerButSnapshot ==
  /\ registry' = {}
  /\ iso' = 0
  /\ domInstalled' = FALSE
  /\ setupError' = FALSE
  /\ UNCHANGED snapshot

(* end_worker_reuse on a worker that has an isolate. *)
DropWorker ==
  /\ registry' = {}
  /\ snapshot' = 0
  /\ iso' = 0
  /\ domInstalled' = FALSE
  /\ setupError' = FALSE

(* The run is over, with outcome o. *)
Over(o) ==
  /\ result' = o
  /\ runs' = Append(runs, [how |-> how, outcome |-> o])
  /\ pc' = "decide"
  /\ cur' = 0
  /\ UNCHANGED <<mode, file, how, best, tries, noted, info, badSetup, done>>

(* A reused run ends: the isolate is replaced when the file ran out of     *)
(* heap, or left too much of it in use.                                    *)
EndReused(recycle) ==
  /\ pc = "ran" /\ Persistent
  /\ result = "oom" => recycle
  /\ IF recycle
       THEN DropWorker /\ document' = 0
       ELSE /\ document' = DocumentAfter(domInstalled)
            /\ UNCHANGED <<iso, registry, snapshot, setupError, domInstalled>>
  /\ UNCHANGED <<saved, forceFresh>>
  /\ Over(result)

(* RestoreWorker, mutated: the document is taken to be still there. *)
RestoreWorkerButDocument ==
  /\ registry' = saved
  /\ saved' = {}
  /\ forceFresh' = FALSE
  /\ UNCHANGED <<iso, domInstalled, snapshot, setupError>>

(* run_fresh_with puts the worker's registry back and has the document     *)
(* installed again.                                                        *)
RestoreWorker ==
  /\ registry' = saved
  /\ saved' = {}
  /\ forceFresh' = FALSE
  /\ domInstalled' = FALSE
  /\ UNCHANGED <<iso, snapshot, setupError>>

(* A run on an isolate of its own ends: clear_registry, DomGuard. *)
EndFresh ==
  /\ pc = "ran" /\ ~Persistent
  /\ document' = DocumentAfter(domInstalled)
  /\ IF how = "fresh"
       THEN RestoreWorker
       ELSE registry' = {} /\ UNCHANGED <<iso, saved, forceFresh, snapshot, setupError,
                                          domInstalled>>
  /\ Over(result)

(* A panic unwinds the run; forget_registry leaks what the thread has of   *)
(* the dead isolate, run_fresh_with only its own.                          *)
Panic ==
  /\ pc \in {"ready", "ran"}
  /\ document' = DocumentAfter(domInstalled)
  /\ IF how = "fresh"
       THEN RestoreWorker
       ELSE DropWorker /\ UNCHANGED <<saved, forceFresh>>
  /\ Over("error")

(* end_worker: the worker has no more files. *)
EndWorker ==
  /\ pc = "next"
  /\ pc' = "ended"
  /\ IF iso = 0
       THEN UNCHANGED locals
       ELSE /\ DropWorker
            /\ document' = IF domInstalled THEN 0 ELSE document
            /\ UNCHANGED <<saved, forceFresh>>
  /\ UNCHANGED <<mode, file, how, best, tries, cur, result, noted, info, badSetup, runs,
                 done>>

Begin == (\E throws \in BOOLEAN : BeginFirst(throws) \/ BeginFresh(throws)) \/ BeginNext

End == (\E recycle \in BOOLEAN : EndReused(recycle)) \/ EndFresh \/ Panic

Next ==
  \/ \E f \in Files : Start(f)
  \/ Begin
  \/ \E o \in Outcomes, mocks, notes \in BOOLEAN : Run(o, mocks, notes)
  \/ End
  \/ Decide
  \/ EndWorker

Spec == Init /\ [][Next]_vars

-----------------------------------------------------------------------------
(* What must hold                                                          *)

Handles == [iso : Isolates, kind : {"module", "linked", "setupMock", "testMock"},
            file : Files \union {None}]

(* The types of the variables. *)
TypeOK ==
  /\ mode \in {"isolated", "reuse", "coverage"}
  /\ {iso, snapshot, document, cur} \subseteq Isolates \union {0}
  /\ registry \subseteq Handles
  /\ saved \subseteq Handles
  /\ {forceFresh, setupError, domInstalled} \subseteq BOOLEAN
  /\ pc \in {"next", "begin", "ready", "ran", "decide", "ended"}
  /\ file \in Files \union {None}
  /\ how \in {"same", "fresh"}
  /\ best \in Outcomes \union {None}
  /\ result \in Outcomes \union {None}
  /\ {noted, info} \subseteq [file : Files \union {None}, run : 0 .. 6]
  /\ tries \in 0 .. 2
  /\ badSetup \subseteq Isolates
  /\ runs \in Seq([how : {"same", "fresh"}, outcome : Outcomes])
  /\ done \subseteq Files

Running == pc \in {"ready", "ran"}

(* A run meets handles of its own isolate only (another's would abort the  *)
(* process), and between files the worker keeps those of its living        *)
(* isolate only, through fresh retries, recycling and panics.              *)
OwnHandles ==
  /\ Running => \A h \in registry : h.iso = cur
  /\ Running /\ forceFresh => \A h \in saved : h.iso = iso
  /\ ~Running => \A h \in registry : h.iso = iso
  /\ snapshot = iso

(* A file starts with no other file's mock registered, and with no module  *)
(* an earlier run left linked to such mocks but not evaluated.             *)
NoMocksBefore == pc = "ready" => \A h \in registry : h.kind \notin {"testMock", "linked"}

(* No test file runs without the setup files' mocks of its own isolate, or *)
(* on an isolate where one threw: the first run on a reused isolate is not *)
(* repeated, its error stays in force until the isolate goes.              *)
SetupInForce ==
  Running =>
    /\ SetupMocks(cur) \in registry
    /\ Persistent => (setupError <=> cur \in badSetup)
    /\ pc = "ran" /\ cur \in badSetup => ~IsReport(result)

(* What is registered when a file starts is what setup left, that and no   *)
(* more, whatever ran on the isolate before.                               *)
CleanStart == NoMocksBefore /\ SetupInForce

(* A file that needs a document runs with its own isolate's, whatever run  *)
(* had the thread's slot in between.                                       *)
OwnDocument ==
  /\ Running /\ file \in DomFiles => document = cur
  /\ domInstalled /\ ~forceFresh => document = iso /\ iso # 0

(* No run meets what another isolate or another file left. *)
RunsAlone == OwnHandles /\ CleanStart /\ OwnDocument

(* Under reuse, what is reported is final, or the verdict of a fresh       *)
(* isolate; a report is never run again in the same way, nor is a first    *)
(* run that was out of memory; there are three tries of each way; a report *)
(* is kept over the errors before it; and the load error that goes with an *)
(* error is that of the file's last run, or none.                          *)
Verdict ==
  LET N == Len(runs)
  IN /\ \A k \in 1 .. N - 1 :
          /\ runs[k].how = runs[k + 1].how => ~IsReport(runs[k].outcome)
          /\ runs[k + 1].how = "same" => runs[1].outcome # "oom"
     /\ \A h \in {"same", "fresh"} : Cardinality({k \in 1 .. N : runs[k].how = h}) <= 3
     /\ pc = "next" /\ file # None =>
          /\ IsReport(best) <=> IsReport(runs[N].outcome)
          /\ IsReport(best) => best = runs[N].outcome
          /\ ReuseEnabled => best = "final" \/ runs[N].how = "fresh"
          /\ info # NoError => /\ ~IsReport(best) /\ ~IsReport(runs[N].outcome)
                               /\ info = [file |-> file, run |-> N]
=============================================================================
