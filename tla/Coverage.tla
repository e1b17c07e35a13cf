------------------------------ MODULE Coverage ------------------------------
(***************************************************************************)
(* Coverage of the sources (coverage.rs, runner.rs coverage_accumulate):   *)
(* at the end of each test file a worker takes V8's ranges for every       *)
(* source it loaded, maps them from the compiled script to the source,     *)
(* and merges the counts of lines, functions, branches and statements into *)
(* tables that all workers share; at the end of the run the tables are     *)
(* reported and held against the thresholds.                               *)
(*                                                                         *)
(* All sources have one shape, with a position for each line:              *)
(*    1 statement (may throw)      5 function f {                          *)
(*    2 if (c)                     6   return d                            *)
(*    3   statement                7     ? x                               *)
(*    4 }                          8     : y  }                            *)
(*                                 9 statement                             *)
(***************************************************************************)
EXTENDS Integers, FiniteSets, FiniteSetsExt

CONSTANTS
  Sources,                \* the source files of the project
  Included,               \* those the include and exclude globs leave
  Prologue,               \* Prologue[s]: offsets the compiled script has before
                          \* the source's code: the wrapper's line, the helpers
  Unmapped,               \* sources whose compiled script has no source map
  Workers,
  MaxCalls,               \* bound: calls of f in one test file
  MaxRuns,                \* bound: test files
  MinLines,               \* threshold: percentage of lines (None: no gate)
  PerFile,                \* --coverage-per-file
  None

(* Of the constants. *)
CoverageAssumption ==
  /\ Included \subseteq Sources
  /\ Prologue \in [Sources -> {1, 3}]
  /\ None \notin Nat

VARIABLES
  meta,                   \* sources with static map data
  lines, fns, branches, statements,     \* the merged tables, per source
  pc,                     \* what each worker does next
  json,                   \* the counts of the file it ended, per source
  todo,                   \* the sources it has still to map
  runs,                   \* test files that ended
  report,                 \* the gate's verdict
  executed                \* history: what ran, per source

tables == <<lines, fns, branches, statements>>
vars == <<meta, tables, pc, json, todo, runs, report, executed>>

End == 10                 \* one past the last position
Code == 1 .. 9

Block == [module |-> <<0, End>>, rest |-> <<2, End>>, then |-> <<3, 4>>,
          f |-> <<5, 9>>, left |-> <<7, 8>>, right |-> <<8, 9>>]
Parent == [rest |-> "module", then |-> "rest", f |-> "rest", left |-> "f", right |-> "f"]
IsFunction == {"module", "f"}

(* How often each block of a source can have run in one test file: the     *)
(* module once, what follows a throw not at all.                           *)
Executions ==
  {x \in [DOMAIN Block -> 0 .. MaxCalls] :
     /\ x["module"] = 1
     /\ x["rest"] <= 1 /\ x["then"] <= x["rest"]
     /\ x["rest"] = 0 => x["f"] = 0
     /\ x["left"] + x["right"] = x["f"]}

(* V8's ranges, in offsets of the compiled script: all functions, and the  *)
(* blocks whose count is not that of the code around them.  The wrapper    *)
(* and the helpers before the code have ranges of their own; so does the   *)
(* getter of each export, which nobody may have called.                    *)
Ranges(s, x) ==
  {<<Block[b][1] + Prologue[s], Block[b][2] + Prologue[s], x[b]>> :
     b \in {c \in DOMAIN Block \ {"module"} : c \in IsFunction \/ x[c] # x[Parent[c]]}}
  \union {<<0, End + Prologue[s] + 1, x["module"]>>}
  \union IF Prologue[s] > 1 THEN {<<1, 2, 2>>, <<2, 3, 0>>} ELSE {}

(* The named functions: where they start and how often they were called.   *)
Functions(s, x) ==
  {<<"f", Block["f"][1] + Prologue[s], x["f"]>>}
  \union IF Prologue[s] > 1 THEN {<<"f", 2, 0>>} ELSE {}

Init ==
  /\ meta = {}
  /\ lines = [s \in Sources |-> {}]
  /\ fns = [s \in Sources |-> {}]
  /\ branches = [s \in Sources |-> {}]
  /\ statements = [s \in Sources |-> {}]
  /\ pc = [w \in Workers |-> "run"]
  /\ json = [w \in Workers |-> <<>>]
  /\ todo = [w \in Workers |-> {}]
  /\ runs = 0
  /\ report = "none"
  /\ executed = [s \in Sources |-> {}]

-----------------------------------------------------------------------------
(* Mapping one script                                                      *)

(* code_line: an offset of the source's own code. *)
IsCode(s, off) == off > Prologue[s]

(* gen_to_orig: the source position of an offset; None before the code and *)
(* after it.                                                               *)
Orig(s, off) == IF IsCode(s, off) /\ off - Prologue[s] \in Code THEN off - Prologue[s] ELSE None

(* orig_ranges: the module-wide ranges open before the code and close      *)
(* after it; what lies in the prologue has no position and is dropped.     *)
OrigRanges(s, ranges) ==
  LET Start(r) == IF Orig(s, r[1]) = None /\ ~IsCode(s, r[1]) THEN 0 ELSE Orig(s, r[1])
      Close(r) == IF Orig(s, r[2]) = None /\ IsCode(s, r[2]) THEN End ELSE Orig(s, r[2])
      placed == {r \in ranges : Start(r) # None /\ Close(r) # None}
  IN {o \in {<<Start(r), Close(r), r[3]>> : r \in placed} : o[1] < o[2]}

(* Innermost, mutated: the range that opens first. *)
Outermost(ranges, p) ==
  {r \in ranges : /\ r[1] <= p /\ p < r[2]
                  /\ \A q \in ranges : q[1] <= p /\ p < q[2] => r[1] <= q[1]}

(* The ranges around p that open last and, of those, close first. *)
Innermost(ranges, p) ==
  LET around == {r \in ranges : r[1] <= p /\ p < r[2]}
  IN {r \in around :
        \A q \in around : r[1] > q[1] \/ (r[1] = q[1] /\ r[2] <= q[2])}

CountAt(ranges, p) ==
  LET found == Innermost(ranges, p) IN IF found = {} THEN 0 ELSE (CHOOSE r \in found : TRUE)[3]

(* Record, mutated: the last run replaces what the others found. *)
RecordLast(table, key, count) ==
  {e \in table : e.key # key} \union {[key |-> key, count |-> count]}

(* record, record_fn, record_stmt: the largest count of the runs. *)
Record(table, key, count) ==
  {e \in table : e.key # key}
    \union {[key |-> key, count |-> Max({count} \union {e.count : e \in {d \in table : d.key = key}})]}

(* record_branch: reached by some run, taken as often as in the best one. *)
RecordBranch(table, key, reached, taken) ==
  LET old == {e \in table : e.key = key}
  IN (table \ old) \union
       {[key |-> key, reached |-> reached \/ \E e \in old : e.reached,
         taken |-> Max({taken} \union {e.taken : e \in old})]}

(* Several records, one after the other: pairs of a key and a count. *)
RecordAll(table, pairs) ==
  FoldSet(LAMBDA p, t : Record(t, p[1], p[2]), table, pairs)

(* blank_first: the compiled lines whose first token is their indentation, *)
(* here that of the closing brace.                                         *)
BlankFirst == {4}

(* LinePairs, mutated: every line is sampled at its start. *)
LineStarts(s, ranges) ==
  {<<IF p \in BlankFirst THEN p - 1 ELSE p, CountAt(ranges, p + Prologue[s])>> : p \in Code}

(* The lines of the source: its own offsets at line starts.  One that      *)
(* begins with blanks is credited to the end of the line before, with the  *)
(* count of the token there.                                               *)
LinePairs(s, ranges) ==
  {<<p, CountAt(ranges, p + Prologue[s])>> : p \in Code \ BlankFirst}
  \union {<<p - 1, CountAt(OrigRanges(s, ranges), p - 1)>> : p \in BlankFirst}

(* Functions of the prologue are not the source's. *)
FnPairs(s, functions) ==
  {<<<<g[1], Orig(s, g[2])>>, g[3]>> : g \in {h \in functions : IsCode(s, h[2])}}

(* The decisions of the source: where, their arms, and whether the last    *)
(* arm is an else that is not written.                                     *)
Decisions == {[at |-> 2, arms |-> <<3, 4>>, implicitElse |-> TRUE],
              [at |-> 6, arms |-> <<7, 8>>, implicitElse |-> FALSE]}

Minus(a, b) == IF a > b THEN a - b ELSE 0

(* map_branches: an else that is not written is the decision's count less  *)
(* the consequent's; the other arms are looked up.                         *)
Taken(ranges, d, arm) ==
  IF d.implicitElse /\ arm = 2
    THEN Minus(CountAt(ranges, d.at), CountAt(ranges, d.arms[1]))
    ELSE CountAt(ranges, d.arms[arm])

RecordBranches(table, ranges) ==
  FoldSet(LAMBDA k, t : RecordBranch(t, <<k[1].at, k[2]>>, CountAt(ranges, k[1].at) > 0,
                                     Taken(ranges, k[1], k[2])),
          table, Decisions \X {1, 2})

StatementStarts == {1, 2, 3, 6, 9}

StatementPairs(ranges) == {<<p, CountAt(ranges, p)>> : p \in StatementStarts}

-----------------------------------------------------------------------------
(* A worker at the end of a test file                                      *)

(* A test file ends; the sources it loaded are in V8's answer. *)
RunFile(w) ==
  /\ pc[w] = "run"
  /\ runs < MaxRuns
  /\ runs' = runs + 1
  /\ \E loaded \in SUBSET Sources : \E x \in [loaded -> Executions] :
       /\ json' = [json EXCEPT ![w] = x]
       /\ todo' = [todo EXCEPT ![w] = loaded]
       /\ executed' = [s \in Sources |->
                         IF s \in loaded THEN executed[s] \union {x[s]} ELSE executed[s]]
  /\ pc' = [pc EXCEPT ![w] = "script"]
  /\ UNCHANGED <<meta, tables, report>>

(* has_meta, and register_meta the first time: the static data of the      *)
(* source, kept without a map too.  Two workers may both build it.         *)
NextScript(w) ==
  /\ pc[w] = "script"
  /\ IF todo[w] = {}
       THEN pc' = [pc EXCEPT ![w] = "run"] /\ UNCHANGED meta
       ELSE \E s \in {CHOOSE t \in todo[w] : TRUE} :
              /\ meta' = meta \union {s}
              /\ pc' = [pc EXCEPT ![w] = IF s \in Unmapped THEN "skip" ELSE "lines"]
  /\ UNCHANGED <<tables, json, todo, runs, report, executed>>

(* The script a worker maps, and its ranges. *)
Script(w) == CHOOSE s \in todo[w] : TRUE
GenRanges(w) == Ranges(Script(w), json[w][Script(w)])
SourceRanges(w) == OrigRanges(Script(w), GenRanges(w))

(* map_script, first the lines and then the functions: other workers'      *)
(* records come in between.                                                *)
MapLines(w) ==
  /\ pc[w] = "lines"
  /\ lines' = [lines EXCEPT ![Script(w)] = RecordAll(@, LinePairs(Script(w), GenRanges(w)))]
  /\ pc' = [pc EXCEPT ![w] = "fns"]
  /\ UNCHANGED <<meta, fns, branches, statements, json, todo, runs, report, executed>>

MapFns(w) ==
  /\ pc[w] = "fns"
  /\ fns' = [fns EXCEPT ![Script(w)] =
               RecordAll(@, FnPairs(Script(w), Functions(Script(w), json[w][Script(w)])))]
  /\ pc' = [pc EXCEPT ![w] = "branches"]
  /\ UNCHANGED <<meta, lines, branches, statements, json, todo, runs, report, executed>>

MapBranches(w) ==
  /\ pc[w] = "branches"
  /\ branches' = [branches EXCEPT ![Script(w)] = RecordBranches(@, SourceRanges(w))]
  /\ pc' = [pc EXCEPT ![w] = "statements"]
  /\ UNCHANGED <<meta, lines, fns, statements, json, todo, runs, report, executed>>

MapStatements(w) ==
  /\ pc[w] = "statements"
  /\ statements' = [statements EXCEPT ![Script(w)] = RecordAll(@, StatementPairs(SourceRanges(w)))]
  /\ pc' = [pc EXCEPT ![w] = "skip"]
  /\ UNCHANGED <<meta, lines, fns, branches, json, todo, runs, report, executed>>

Mapped(w) ==
  /\ pc[w] = "skip"
  /\ todo' = [todo EXCEPT ![w] = @ \ {Script(w)}]
  /\ pc' = [pc EXCEPT ![w] = "script"]
  /\ UNCHANGED <<meta, tables, json, runs, report, executed>>

-----------------------------------------------------------------------------
(* The report, once the workers are joined                                 *)

Rows == {s \in Included : lines[s] # {}}

Hits(table) == {e \in table : e.count > 0}
LinesFound(S) == MapThenSumSet(LAMBDA s : Cardinality(lines[s]), S)
LinesHit(S) == MapThenSumSet(LAMBDA s : Cardinality(Hits(lines[s])), S)

(* A row without a line to cover has 100%. *)
Meets(S) == 100 * LinesHit(S) >= MinLines * LinesFound(S)

(* gate: the total, and under --coverage-per-file each row. *)
Gate == MinLines # None => Meets(Rows) /\ (PerFile => \A s \in Rows : Meets({s}))

(* GateVerdict, mutated: nothing found is nothing missed. *)
GateVerdictVacuous == IF Gate THEN "passed" ELSE "failed"

(* No source at all is a failure, gate or not. *)
GateVerdict == IF Rows # {} /\ Gate THEN "passed" ELSE "failed"

Report ==
  /\ report = "none"
  /\ \A w \in Workers : pc[w] = "run"
  /\ report' = GateVerdict
  /\ runs' = MaxRuns
  /\ UNCHANGED <<meta, tables, pc, json, todo, executed>>

Worker(w) ==
  RunFile(w) \/ NextScript(w) \/ MapLines(w) \/ MapFns(w) \/ MapBranches(w)
    \/ MapStatements(w) \/ Mapped(w)

Next == Report \/ \E w \in Workers : Worker(w)

Spec == Init /\ [][Next]_vars

-----------------------------------------------------------------------------
(* What must hold                                                          *)

(* How often position p really ran in x: as often as the smallest block    *)
(* around it.                                                              *)
Ran(x, p) ==
  LET around == {b \in DOMAIN Block : Block[b][1] <= p /\ p < Block[b][2]}
  IN x[CHOOSE b \in around : \A c \in around :
         Block[b][2] - Block[b][1] <= Block[c][2] - Block[c][1]]

Best(s, Count(_)) == Max({Count(x) : x \in executed[s]})

(* What the merged tables say of a source, in whatever order the workers   *)
(* mapped their files: of each line, function, branch and statement, how   *)
(* often the file that ran it most did; nothing of the compiled prologue.  *)
TellsWhatRan ==
  report # "none" =>
    \A s \in Sources \ Unmapped :
      IF executed[s] = {} THEN <<lines[s], fns[s], branches[s], statements[s]>> = <<{}, {}, {}, {}>>
      ELSE
        /\ lines[s] = {[key |-> p, count |-> Best(s, LAMBDA x : Ran(x, p))] : p \in Code \ BlankFirst}
        /\ fns[s] = {[key |-> <<"f", 5>>, count |-> Best(s, LAMBDA x : x["f"])]}
        /\ statements[s] = {[key |-> p, count |-> Best(s, LAMBDA x : Ran(x, p))] : p \in StatementStarts}
        /\ branches[s] =
             {[key |-> <<2, 1>>, reached |-> \E x \in executed[s] : x["rest"] > 0,
               taken |-> Best(s, LAMBDA x : x["then"])],
              [key |-> <<2, 2>>, reached |-> \E x \in executed[s] : x["rest"] > 0,
               taken |-> Best(s, LAMBDA x : x["rest"] - x["then"])],
              [key |-> <<6, 1>>, reached |-> \E x \in executed[s] : x["f"] > 0,
               taken |-> Best(s, LAMBDA x : x["left"])],
              [key |-> <<6, 2>>, reached |-> \E x \in executed[s] : x["f"] > 0,
               taken |-> Best(s, LAMBDA x : x["right"])]}

(* The gate passes only on what ran: some included source was loaded, and  *)
(* the share of lines that some test file ran meets the threshold.         *)
GateIsHonest ==
  report = "passed" =>
    LET seen == {s \in Included \ Unmapped : executed[s] # {}}
        Run(s) == Cardinality({p \in Code \ BlankFirst : \E x \in executed[s] : Ran(x, p) > 0})
    IN /\ seen # {}
       /\ MinLines # None =>
            100 * MapThenSumSet(Run, seen) >= MinLines * 8 * Cardinality(seen)
       /\ MinLines # None /\ PerFile => \A s \in seen : 100 * Run(s) >= MinLines * 8
=============================================================================
