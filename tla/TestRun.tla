------------------------------ MODULE TestRun ------------------------------
(***************************************************************************)
(* The tests of one file, from what was collected to what is reported:     *)
(* __tt.run and runSuite of the runtime, driven by drive_tests and turned  *)
(* into the file's result by file_result.                                  *)
(*                                                                         *)
(* runSuite calls itself for a nested describe: the stack holds a frame    *)
(* for every suite entered, and an attempt at a test goes through its      *)
(* beforeEach hooks, its body, its afterEach hooks and its handlers, each  *)
(* a step that may do as it should, throw, or skip the test.  Every suite  *)
(* has NHooks hooks of every kind, every before hook returns a function to *)
(* call afterwards, every body registers an onTestFinished and an          *)
(* onTestFailed handler.  The k-th hook of a chain of suites is undone by  *)
(* the k-th of the afterEach hooks, counted from their end.                *)
(***************************************************************************)
EXTENDS Naturals, FiniteSets, Sequences, SequencesExt

CONSTANTS
  Tests, Suites, Root,    \* Root is the file's own suite
  Trees,                  \* what a file declares: the tasks of each suite, in order
  NHooks,
  MaxOdd                  \* bound: what is out of the ordinary in a file and its run

(* What describe and it collect: every task in one place, and none within  *)
(* itself.                                                                 *)
Nested(tree) ==
  /\ tree \in [Suites -> Seq(Tests \union (Suites \ {Root}))]
  /\ \A s, r \in Suites : \A i \in DOMAIN tree[s], j \in DOMAIN tree[r] :
       tree[s][i] = tree[r][j] => s = r /\ i = j
  /\ \A s \in Suites : tree[s] # <<>> => s = Root \/ \E r \in Suites : s \in Range(tree[r])
  /\ \A S \in (SUBSET Suites) \ {{}} : \E s \in S : \A r \in S : s \notin Range(tree[r])

TestRunAssumption ==
  /\ NHooks \in Nat \ {0}
  /\ Root \in Suites /\ Tests \intersect Suites = {}
  /\ \A tree \in Trees : Nested(tree)

VARIABLES
  decl,                   \* the declarations of the file, and the run's options
  stack,                  \* runSuite's frames, the file's first
  att,                    \* the attempt under way; NoAttempt between tests
  sum,                    \* the summary's counts
  records,                \* summary.tests
  told,                   \* summary.suites, by suite
  phase,                  \* "start", "run", "ran", "stuck", then the file's mark
  \* history
  odd,                    \* what has been out of the ordinary
  did,                    \* the steps of the attempt under way
  hooked,                 \* the beforeAll and afterAll calls of each suite
  attempts,               \* what each attempt at a test came to
  zombies                 \* tests of which a body was left behind by its timeout

vars == <<decl, stack, att, sum, records, told, phase, odd, did, hooked, attempts, zombies>>

Tasks == Tests \union (Suites \ {Root})
Modes == {"run", "skip", "todo", "only"}
NoAttempt == [test |-> "none"]

(* What was done in an attempt, and which hooks of a suite were called: of *)
(* each kind, in order.                                                    *)
Nothing == [w \in {"before", "body", "after", "undo", "finished", "failed", "zombie"} |-> <<>>]
NoCalls == [w \in {"before", "after", "undo"} |-> <<>>]

(* Out of the ordinary among the declarations. *)
Oddity(d) ==
  Cardinality({x \in Tasks : d.mode[x] # "run"}) + Cardinality(d.fails)
    + Cardinality(d.filtered) + d.retry
    + Cardinality({o \in {"forbid", "passWithNoTests"} : d[o]})

Init ==
  /\ decl \in {d \in [tasks : Trees, mode : [Tasks -> Modes], fails : SUBSET Tests,
                      filtered : SUBSET Tests, retry : 0 .. 1,
                      forbid : BOOLEAN, passWithNoTests : BOOLEAN] : Oddity(d) <= MaxOdd}
  /\ odd = Oddity(decl)
  /\ stack = <<>>
  /\ att = NoAttempt
  /\ sum = [passed |-> 0, failed |-> 0, skipped |-> 0, failures |-> 0, noSuite |-> FALSE]
  /\ records = <<>>
  /\ told = [s \in Suites \ {Root} |-> "none"]
  /\ phase = "start"
  /\ did = Nothing
  /\ hooked = [s \in Suites |-> NoCalls]
  /\ attempts = [t \in Tests |-> <<>>]
  /\ zombies = {}

-----------------------------------------------------------------------------
(* What was collected                                                      *)

tasks == decl.tasks
Mode(x) == IF x = Root THEN "run" ELSE decl.mode[x]

(* The mode of its own that a describe block has, if any. *)
OwnMode(s) == IF Mode(s) \in {"skip", "todo"} THEN Mode(s) ELSE "none"

Children(s) == Range(tasks[s])
ParentOf(x) == CHOOSE s \in Suites : x \in Children(s)
Collected(x) == \E s \in Suites : x \in Children(s)

(* The suites around a task, the file's first. *)
Chain(x) ==
  LET chain[y \in {t \in Tasks : Collected(t)} \union {Root}] ==
        IF y = Root THEN <<>> ELSE Append(chain[ParentOf(y)], ParentOf(y))
  IN chain[x]

(* The tests below a suite. *)
Below(s) == {t \in Tests : Collected(t) /\ s \in Range(Chain(t))}

HasOnly == \E x \in Tasks : Collected(x) /\ Mode(x) = "only"

(* __someOnly. *)
SomeOnly(s) ==
  LET some[y \in Suites] ==
        \E x \in Children(y) : Mode(x) = "only" \/ (x \in Suites /\ some[x])
  IN some[s]

(* __interpretOnly, the include of a task: a suite with .only tasks in it  *)
(* runs these alone.                                                       *)
Included(x) ==
  LET included[y \in Tasks] ==
        LET s == ParentOf(y)
        IN IF SomeOnly(s) THEN Mode(y) = "only" \/ (y \in Suites /\ SomeOnly(y))
           ELSE Mode(y) = "only" \/ Mode(s) = "only" \/ (s # Root /\ included[s])
  IN included[x]

NotOnly(t) == HasOnly /\ ~Included(t)

(* ... forbiddenOnly: not reached below a describe.skip or .todo. *)
ForbiddenOnly(x) ==
  /\ decl.forbid /\ x # Root /\ Mode(x) = "only"
  /\ \A s \in Range(Chain(x)) : OwnMode(s) = "none"

(* __runnable. *)
Runnable(s) ==
  LET runnable[y \in Suites] ==
        /\ OwnMode(y) = "none"
        /\ \E x \in Children(y) :
             IF x \in Suites THEN runnable[x]
             ELSE Mode(x) \in {"run", "only"} /\ ~NotOnly(x) /\ x \notin decl.filtered
  IN runnable[s]

-----------------------------------------------------------------------------
(* runSuite: a suite                                                       *)

Top == Last(stack)
WithTop(frame) == Append(Front(stack), frame)

SkipAll(f) == IF f.mode # "none" THEN f.mode ELSE OwnMode(f.suite)

(* None of the suite's hooks run. *)
Quiet(f) == SkipAll(f) # "none" \/ ~Runnable(f.suite) \/ ForbiddenOnly(f.suite)

(* A suite entered under a mode: "none", "skip", "todo" or "hook" (an          *)
(* enclosing beforeAll failed).                                            *)
Frame(s, m) ==
  LET f == [suite |-> s, mode |-> m, next |-> 1, step |-> "tasks", calls |-> 0,
            hook |-> m = "hook", failed |-> FALSE]
      forbidden == SkipAll(f) = "none" /\ ForbiddenOnly(s)
  IN [f EXCEPT !.hook = @ \/ forbidden, !.failed = forbidden,
               !.step = IF Quiet(f) THEN "tasks" ELSE "beforeAll"]

Failure(n) == [sum EXCEPT !.failures = @ + n]

(* __tt.run: a file in which nothing was collected fails. *)
Begin ==
  /\ phase = "start"
  /\ IF tasks[Root] = <<>> /\ ~decl.passWithNoTests
       THEN /\ sum' = [Failure(1) EXCEPT !.noSuite = TRUE]
            /\ phase' = "ran"
            /\ UNCHANGED stack
       ELSE /\ stack' = <<Frame(Root, "none")>>
            /\ phase' = "run"
            /\ UNCHANGED sum
  /\ UNCHANGED <<decl, att, records, told, odd, did, hooked, attempts, zombies>>

(* A step's outcome, within the bound. *)
Takes(o) == odd' = odd + (IF o = "ok" THEN 0 ELSE 1) /\ odd' <= MaxOdd

Hooked(s, what, o) == hooked' = [hooked EXCEPT ![s][what] = Append(@, o)]

(* A beforeAll hook.  A throw fails the suite, skips what is in it and     *)
(* stops the hooks after it.                                               *)
BeforeAll(o) ==
  /\ phase = "run" /\ Top.step = "beforeAll"
  /\ o \in {"ok", "throw"} /\ Takes(o)
  /\ LET last == o = "throw" \/ Top.calls + 1 = NHooks
     IN stack' = WithTop([Top EXCEPT
          !.calls = IF last THEN 0 ELSE @ + 1,
          !.step = IF last THEN "tasks" ELSE @,
          !.hook = @ \/ o = "throw",
          !.failed = @ \/ o = "throw"])
  /\ sum' = Failure(IF o = "throw" THEN 1 ELSE 0)
  /\ Hooked(Top.suite, "before", o)
  /\ UNCHANGED <<decl, att, records, told, phase, did, attempts, zombies>>

AtTasks == phase = "run" /\ Top.step = "tasks" /\ att = NoAttempt
Task == tasks[Top.suite][Top.next]
TaskIs(x) == AtTasks /\ Top.next <= Len(tasks[Top.suite]) /\ x = Task
Advanced == [Top EXCEPT !.next = @ + 1]

(* EnterSuite, mutated: the nested suite is not told that a beforeAll      *)
(* failed.                                                                 *)
EnterSuiteUntold(s) ==
  /\ TaskIs(s)
  /\ LET f == Frame(s, SkipAll(Top))
     IN stack' = Append(WithTop(Advanced), f) /\ sum' = Failure(IF f.failed THEN 1 ELSE 0)
  /\ UNCHANGED <<decl, att, records, told, phase, odd, did, hooked, attempts, zombies>>

(* A nested suite; one without tasks, or with a forbidden .only, fails.    *)
EnterSuite(s) ==
  /\ TaskIs(s)
  /\ LET f == Frame(s, IF Top.hook THEN "hook" ELSE SkipAll(Top))
     IN IF tasks[s] = <<>> /\ SkipAll(f) = "none"
          THEN /\ stack' = WithTop([Advanced EXCEPT !.failed = TRUE])
               /\ sum' = Failure(1)
               /\ told' = [told EXCEPT ![s] = "fail"]
          ELSE /\ stack' = Append(WithTop(Advanced), f)
               /\ sum' = Failure(IF f.failed THEN 1 ELSE 0)
               /\ UNCHANGED told
  /\ UNCHANGED <<decl, att, records, phase, odd, did, hooked, attempts, zombies>>

(* An afterAll hook, then, unless a beforeAll threw, what the beforeAll    *)
(* hooks returned.  A throw fails the suite and stops those after it.      *)
CallsAfter(f) == IF f.hook THEN NHooks ELSE 2 * NHooks

TasksDone == AtTasks /\ Top.next > Len(tasks[Top.suite])

AfterAll(o) ==
  /\ TasksDone
  /\ ~Quiet(Top) /\ Top.calls < CallsAfter(Top)
  /\ o \in {"ok", "throw"} /\ Takes(o)
  /\ stack' = WithTop([Top EXCEPT !.calls = IF o = "ok" THEN @ + 1 ELSE CallsAfter(Top),
                                  !.failed = @ \/ o = "throw"])
  /\ sum' = Failure(IF o = "throw" THEN 1 ELSE 0)
  /\ Hooked(Top.suite, IF Top.calls < NHooks THEN "after" ELSE "undo", o)
  /\ UNCHANGED <<decl, att, records, told, phase, did, attempts, zombies>>

(* The suite returns whether it failed. *)
Leave ==
  /\ TasksDone
  /\ Quiet(Top) \/ Top.calls = CallsAfter(Top)
  /\ IF Len(stack) = 1
       THEN /\ stack' = <<>>
            /\ phase' = "ran"
            /\ UNCHANGED told
       ELSE /\ LET outer == stack[Len(stack) - 1]
               IN stack' = Append(SubSeq(stack, 1, Len(stack) - 2),
                                  [outer EXCEPT !.failed = @ \/ Top.failed])
            /\ told' = [told EXCEPT ![Top.suite] =
                          IF SkipAll(Top) = "todo" THEN "todo"
                          ELSE IF Top.failed THEN "fail"
                          ELSE IF SkipAll(Top) # "none" \/ ~Runnable(Top.suite) THEN "skip"
                          ELSE "pass"]
            /\ UNCHANGED phase
  /\ UNCHANGED <<decl, att, sum, records, odd, did, hooked, attempts, zombies>>

-----------------------------------------------------------------------------
(* runSuite: a test                                                        *)

Told(t, status) == records' = Append(records, [test |-> t, status |-> status])
NextTask == stack' = WithTop(Advanced)

Filtered(t) == SkipAll(Top) = "none" /\ t \in decl.filtered

(* A .only test below a describe.skip or .todo is pending. *)
Pending(t) == Mode(t) = "only" /\ SkipAll(Top) \in {"skip", "todo"}

Todo(t) ==
  ~Top.hook /\ (SkipAll(Top) = "todo" \/ (Mode(t) = "todo" /\ ~Filtered(t)))

LeftOut(t) ==
  \/ Todo(t) \/ Top.hook \/ SkipAll(Top) # "none" \/ Filtered(t)
  \/ Mode(t) \in {"skip", "todo"} \/ NotOnly(t)

(* A test that does not run. *)
NotRun(t) ==
  /\ TaskIs(t)
  /\ \/ /\ Pending(t)
        /\ Told(t, "pending")
        /\ UNCHANGED sum
     \/ /\ ~Pending(t) /\ LeftOut(t)
        /\ Told(t, IF Todo(t) THEN "todo" ELSE "skipped")
        /\ sum' = [sum EXCEPT !.skipped = @ + 1]
  /\ NextTask
  /\ UNCHANGED <<decl, att, told, phase, odd, did, hooked, attempts, zombies>>

(* A test that fails instead of running. *)
Forbidden(t) ==
  /\ TaskIs(t)
  /\ ~Pending(t) /\ ~LeftOut(t) /\ ForbiddenOnly(t)
  /\ Told(t, "failed")
  /\ sum' = [Failure(1) EXCEPT !.failed = @ + 1]
  /\ stack' = WithTop([Advanced EXCEPT !.failed = TRUE])
  /\ UNCHANGED <<decl, att, told, phase, odd, did, hooked, attempts, zombies>>

(* An attempt at a test; errors are those of the attempts before too, of   *)
(* which mark were there when it started, kept the functions to call after *)
(* its afterEach hooks.                                                    *)
Attempt(t, no, errors) ==
  [test |-> t, no |-> no, step |-> "beforeEach", calls |-> 0, ok |-> FALSE,
   state |-> "run", pending |-> FALSE, errors |-> errors, mark |-> errors, kept |-> 0]

StartTest(t) ==
  /\ TaskIs(t)
  /\ ~Pending(t) /\ ~LeftOut(t) /\ ~ForbiddenOnly(t)
  /\ att' = Attempt(t, 1, 0)
  /\ did' = Nothing
  /\ UNCHANGED <<decl, stack, sum, records, told, phase, odd, hooked, attempts, zombies>>

At(step) == phase = "run" /\ att # NoAttempt /\ att.step = step

(* The hooks of a kind that the test has. *)
Each == NHooks * Len(Chain(att.test))

Did(what, k, o) == did' = [did EXCEPT ![what] = Append(@, [k |-> k, o |-> o])]

(* Settled, mutated: the afterEach hooks are for tests that passed. *)
SettledAbrupt(a, o) ==
  LET ok == o \in {"ok", "caught"}
      pending == a.pending \/ o \in {"skip", "caught"}
  IN [a EXCEPT
       !.ok = ok, !.pending = pending, !.calls = 0, !.step = IF ok THEN "afterEach" ELSE "end",
       !.state = IF o = "skip" THEN "skip" ELSE IF ok THEN "pass" ELSE "fail",
       !.errors = IF ok \/ pending THEN @ ELSE @ + 1]

(* The attempt once its body or a beforeEach came to o; "caught" is a      *)
(* ctx.skip() whose exception the body swallows.                           *)
Settled(a, o) ==
  LET ok == o \in {"ok", "caught"}
      pending == a.pending \/ o \in {"skip", "caught"}
  IN [a EXCEPT
       !.ok = ok, !.pending = pending, !.calls = 0, !.step = "afterEach",
       !.state = IF o = "skip" THEN "skip" ELSE IF ok THEN "pass" ELSE "fail",
       !.errors = IF ok \/ pending THEN @ ELSE @ + 1]

(* A throw after that; a skipped test takes no notice. *)
Thrown(a, o) ==
  IF o = "ok" THEN a
  ELSE IF o = "skip" THEN [a EXCEPT !.pending = TRUE]
  ELSE IF a.pending THEN a
  ELSE [a EXCEPT !.ok = FALSE, !.state = "fail", !.errors = @ + 1]

AttemptGoesOn ==
  UNCHANGED <<decl, stack, sum, records, told, phase, hooked, attempts>>

BeforeEach(o) ==
  /\ At("beforeEach")
  /\ o \in {"ok", "throw", "skip"} /\ Takes(o)
  /\ att' = IF o # "ok" THEN Settled(att, o)
            ELSE [att EXCEPT !.calls = @ + 1, !.kept = IF att.calls + 1 = Each THEN Each ELSE 0,
                             !.step = IF att.calls + 1 = Each THEN "body" ELSE @]
  /\ Did("before", att.calls + 1, o)
  /\ AttemptGoesOn
  /\ UNCHANGED zombies

(* The body, in a race with its timeout, which leaves it behind. *)
Body(o) ==
  /\ At("body")
  /\ o \in {"ok", "throw", "timeout", "skip", "caught"} /\ Takes(o)
  /\ att' = Settled(att, o)
  /\ Did("body", 0, o)
  /\ zombies' = IF o = "timeout" THEN zombies \union {att.test} ELSE zombies
  /\ AttemptGoesOn

(* A body left behind may still skip its test, which may be tried again    *)
(* by now; what it does to its test later is not seen.                     *)
ZombieSkips ==
  /\ phase = "run" /\ att # NoAttempt /\ att.test \in zombies
  /\ Takes("skip")
  /\ att' = [att EXCEPT !.pending = TRUE]
  /\ Did("zombie", 0, "skip")
  /\ AttemptGoesOn
  /\ UNCHANGED zombies

(* Which step follows the last of the afterEach calls, or a handler. *)
AfterHooks == IF did["body"] # <<>> THEN "finished" ELSE "end"
AfterFinished(a) == IF a.state = "fail" THEN "failed" ELSE "end"

(* An afterEach hook, then a function that a beforeEach hook returned. A   *)
(* throw fails the test and stops those after it.                          *)
AfterEach(o) ==
  /\ At("afterEach")
  /\ o \in {"ok", "throw", "skip"} /\ Takes(o)
  /\ LET last == o # "ok" \/ att.calls + 1 = Each + att.kept
         a == Thrown(att, o)
     IN att' = [a EXCEPT !.calls = IF last THEN 0 ELSE @ + 1,
                         !.step = IF last THEN AfterHooks ELSE @]
  /\ IF att.calls < Each THEN Did("after", Each - att.calls, o)
     ELSE Did("undo", 2 * Each - att.calls, o)
  /\ AttemptGoesOn
  /\ UNCHANGED zombies

(* The onTestFinished handler, then, when the test failed, the             *)
(* onTestFailed one.                                                       *)
Handler(o) ==
  /\ \E step \in {"finished", "failed"} :
       /\ At(step)
       /\ LET a == Thrown(att, o)
          IN att' = [a EXCEPT !.step = IF step = "finished" THEN AfterFinished(a) ELSE "end"]
       /\ Did(step, 0, o)
  /\ o \in {"ok", "throw", "skip"} /\ Takes(o)
  /\ AttemptGoesOn
  /\ UNCHANGED zombies

(* it.fails: an error of this attempt is what the test needs. *)
Flipped(a) ==
  IF a.test \notin decl.fails \/ a.pending THEN a
  ELSE IF a.errors > a.mark THEN [a EXCEPT !.ok = TRUE, !.errors = a.mark]
  ELSE [a EXCEPT !.ok = FALSE, !.errors = @ + 1]

(* What the steps of an attempt came to: the history's own account. *)
CameTo(steps) ==
  LET outcomes == UNION {{e.o : e \in Range(steps[w])} : w \in DOMAIN steps}
  IN IF outcomes \intersect {"skip", "caught"} # {} THEN "skip"
     ELSE IF outcomes \subseteq {"ok"} THEN "clean" ELSE "error"

(* EndAttempt, mutated: it goes on until the attempts are used up. *)
EndAttemptAll ==
  /\ At("end")
  /\ LET a == Flipped(att)
     IN /\ attempts' = [attempts EXCEPT ![a.test] = Append(@, CameTo(did))]
        /\ IF ~a.pending /\ a.no <= decl.retry
             THEN /\ att' = Attempt(a.test, a.no + 1, a.errors)
                  /\ did' = Nothing
                  /\ UNCHANGED <<stack, sum, records>>
             ELSE /\ att' = NoAttempt
                  /\ did' = Nothing
                  /\ LET status == IF a.pending THEN "skipped"
                                   ELSE IF a.ok THEN "passed" ELSE "failed"
                         bad == status = "failed"
                     IN /\ Told(a.test, status)
                        /\ sum' = [Failure(IF bad THEN 1 ELSE 0) EXCEPT
                             !.passed = @ + (IF status = "passed" THEN 1 ELSE 0),
                             !.failed = @ + (IF bad THEN 1 ELSE 0),
                             !.skipped = @ + (IF status = "skipped" THEN 1 ELSE 0)]
                        /\ stack' = WithTop([Advanced EXCEPT !.failed = @ \/ bad])
  /\ UNCHANGED <<decl, told, phase, odd, hooked, zombies>>

(* Another attempt, or the test's record. *)
EndAttempt ==
  /\ At("end")
  /\ LET a == Flipped(att)
     IN /\ attempts' = [attempts EXCEPT ![a.test] = Append(@, CameTo(did))]
        /\ did' = Nothing
        /\ IF ~a.pending /\ ~a.ok /\ a.no <= decl.retry
             THEN /\ att' = Attempt(a.test, a.no + 1, a.errors)
                  /\ UNCHANGED <<stack, sum, records>>
             ELSE /\ att' = NoAttempt
                  /\ LET status == IF a.pending THEN "skipped"
                                   ELSE IF a.ok THEN "passed" ELSE "failed"
                         bad == status = "failed"
                     IN /\ Told(a.test, status)
                        /\ sum' = [Failure(IF bad THEN 1 ELSE 0) EXCEPT
                             !.passed = @ + (IF status = "passed" THEN 1 ELSE 0),
                             !.failed = @ + (IF bad THEN 1 ELSE 0),
                             !.skipped = @ + (IF status = "skipped" THEN 1 ELSE 0)]
                        /\ stack' = WithTop([Advanced EXCEPT !.failed = @ \/ bad])
  /\ UNCHANGED <<decl, told, phase, odd, hooked, zombies>>

-----------------------------------------------------------------------------
(* The file's result                                                       *)

(* A hook or a handler never settles; there is no timeout on it, and the   *)
(* loop ends when nothing is left that could wake it.                      *)
Hang ==
  /\ phase = "run"
  /\ \/ att # NoAttempt /\ att.step \notin {"body", "end"}
     \/ att = NoAttempt /\ Top.step = "beforeAll"
     \/ TasksDone /\ ~Quiet(Top) /\ Top.calls < CallsAfter(Top)
  /\ Takes("hang")
  /\ phase' = "stuck"
  /\ UNCHANGED <<decl, stack, att, sum, records, told, did, hooked, attempts, zombies>>

(* Ok, mutated: only tests can fail. *)
OkButHooks == sum.failed = 0

(* ok: nothing failed. *)
Ok == sum.failed = 0 /\ sum.failures = 0

(* drive_tests, when the promise of the run settled or never will, and     *)
(* file_result.                                                            *)
Report ==
  /\ phase \in {"ran", "stuck"}
  /\ phase' = IF phase = "stuck" \/ sum.noSuite THEN "ERROR" ELSE IF Ok THEN "PASS" ELSE "FAIL"
  /\ UNCHANGED <<decl, stack, att, sum, records, told, odd, did, hooked, attempts, zombies>>

Outcomes == {"ok", "throw", "timeout", "skip", "caught"}

Next ==
  \/ Begin \/ Leave \/ ZombieSkips \/ EndAttempt \/ Hang \/ Report
  \/ \E s \in Suites \ {Root} : EnterSuite(s)
  \/ \E t \in Tests : NotRun(t) \/ Forbidden(t) \/ StartTest(t)
  \/ \E o \in Outcomes : BeforeAll(o) \/ AfterAll(o) \/ BeforeEach(o) \/ Body(o)
                           \/ AfterEach(o) \/ Handler(o)

Spec == Init /\ [][Next]_vars

-----------------------------------------------------------------------------
(* What must hold                                                          *)

Clean(calls) == Range(calls) \subseteq {"ok"}
Called(s) == hooked[s] # NoCalls
Aftermath(s) == hooked[s]["after"] \o hooked[s]["undo"]

(* All beforeAll hooks of the suite ran, no afterAll hook did. *)
Live(s) == Len(hooked[s]["before"]) = NHooks /\ Clean(hooked[s]["before"]) /\ Aftermath(s) = <<>>

(* The steps are those numbered from, down to to, and only the last of     *)
(* them may have gone wrong.                                               *)
Unwound(steps, from, to) ==
  /\ \A i \in DOMAIN steps : steps[i].k = from + 1 - i
  /\ \A i \in 1 .. Len(steps) - 1 : steps[i].o = "ok"
  /\ Len(steps) < from + 1 - to => steps # <<>> /\ Last(steps).o # "ok"

(* Around a test.  A body starts after all beforeEach hooks, the outermost *)
(* suite's first, within suites whose beforeAll hooks succeeded; however   *)
(* an attempt went, its afterEach hooks are called from the innermost,     *)
(* then what the beforeEach hooks returned if all of them succeeded, up to *)
(* one that throws; handlers are called once, onTestFailed's only when     *)
(* something failed.                                                       *)
HooksOfTest ==
  /\ At("body") =>
       /\ \A s \in Range(Chain(att.test)) : Live(s)
       /\ did["before"] = [i \in 1 .. Each |-> [k |-> i, o |-> "ok"]]
  /\ At("end") =>
       LET broken == \E e \in Range(did["before"]) : e.o # "ok"
       IN /\ Unwound(did["after"], Each, 1)
          /\ IF broken \/ Last(did["after"]).o # "ok" THEN did["undo"] = <<>>
             ELSE Unwound(did["undo"], Each, 1)
          /\ Len(did["body"]) = (IF broken THEN 0 ELSE 1)
          /\ Len(did["finished"]) = Len(did["body"])
          /\ Len(did["failed"]) <= Len(did["body"])
          /\ did["failed"] # <<>> => CameTo(did) # "clean"

(* Around a suite.  Its hooks run only if a test in it is selected, the    *)
(* afterAll hooks after every record of its tests, and then whether its    *)
(* beforeAll hooks succeeded or not; what those returned is called if all  *)
(* of them did.                                                            *)
HooksOfSuite ==
  \A s \in Suites :
    /\ Called(s) => Runnable(s) /\ \A a \in Range(Chain(s)) : Live(a) \/ Aftermath(a) # <<>>
    /\ Aftermath(s) # <<>> => \A t \in Below(s) : \E r \in Range(records) : r.test = t
    /\ Called(s) /\ phase = "ran" =>
         LET after == Aftermath(s)
             due == IF Clean(hooked[s]["before"]) THEN 2 * NHooks ELSE NHooks
         IN Len(after) = due \/ (after # <<>> /\ Last(after) = "throw")

(* The hooks of a file run around what they are declared for. *)
HooksAround == HooksOfTest /\ HooksOfSuite

(* What a test must be told as, from its declarations and from what its    *)
(* attempts came to.                                                       *)
MustBeTold(t) ==
  LET around == Range(Chain(t))
      shut == {s \in around : OwnMode(s) # "none"}
      \* the outermost of the suites that do not run
      outer == CHOOSE s \in shut : shut \intersect Range(Chain(s)) = {}
      broken(s) == ~Clean(hooked[s]["before"]) \/ ForbiddenOnly(s)
      tries == attempts[t]
  IN CASE \E s \in around : broken(s) -> "skipped"
       [] ~(\E s \in around : broken(s)) /\ shut # {} ->
            IF Mode(t) = "only" THEN "pending"
            ELSE IF OwnMode(outer) = "todo" \/ Mode(t) = "todo" THEN "todo" ELSE "skipped"
       [] OTHER ->
            IF t \in decl.filtered THEN "skipped"
            ELSE IF Mode(t) = "todo" THEN "todo"
            ELSE IF Mode(t) = "skip" \/ NotOnly(t) THEN "skipped"
            ELSE IF ForbiddenOnly(t) THEN "failed"
            ELSE IF Last(tries) = "skip" THEN "skipped"
            ELSE IF Last(tries) = (IF t \in decl.fails THEN "error" ELSE "clean")
                   THEN "passed" ELSE "failed"

CountOf(status) == Cardinality({i \in DOMAIN records : records[i].status \in status})

(* Every test that was collected is told once, in the order it was         *)
(* declared, as what its declarations and its attempts make it; one is     *)
(* tried again only after an attempt that did not do; the counts are the   *)
(* records', and the file passes when no test and no suite failed.         *)
EachTestTold ==
  phase \in {"ERROR", "PASS", "FAIL"} =>
    /\ \A t \in Tests :
         /\ Len(attempts[t]) <= decl.retry + 1
         /\ \A i \in 1 .. Len(attempts[t]) - 1 :
              attempts[t][i] = IF t \in decl.fails THEN "clean" ELSE "error"
    /\ phase # "ERROR" =>
         /\ \A t \in Tests : Cardinality({i \in DOMAIN records : records[i].test = t}) =
                               (IF Collected(t) THEN 1 ELSE 0)
         /\ \A i \in DOMAIN records : records[i].status = MustBeTold(records[i].test)
         /\ sum.passed = CountOf({"passed"})
         /\ sum.failed = CountOf({"failed"})
         /\ sum.skipped = CountOf({"skipped", "todo"})
         /\ phase = "PASS" <=>
              /\ sum.failed = 0
              /\ \A s \in Suites, w \in DOMAIN NoCalls : Clean(hooked[s][w])
              /\ \A s \in Suites \ {Root} : Collected(s) => told[s] # "fail"
=============================================================================
