---------------------------- MODULE CommandLine ----------------------------
(***************************************************************************)
(* From a command line to the files a run's workers pull, in two stages    *)
(* that read the same tokens by different rules: the launcher (plan)       *)
(* consumes its own flags, keeps filters apart from values, discovers and  *)
(* selects the test files and hands the runner an argv; the runner         *)
(* (parse_args) reads that argv, cuts the shard and orders the schedule.   *)
(*                                                                         *)
(* A token is a word, or a flag with or without an inline value ("--bail"  *)
(* and "--bail=2").  Each set of flags below has members of every class    *)
(* of the code; the test files, what is below a directory and what a       *)
(* filter matches are parameters.  Module RunFiles goes on from the order. *)
(***************************************************************************)
EXTENDS Naturals, FiniteSets, Sequences, SequencesExt

CONSTANTS
  Words,                  \* words of a command line
  InlineValues,           \* its flags with an inline value: <<flag, value>>
  MaxArgs,                \* bound: tokens
  AllFiles,               \* discovery from the working directory, sorted
  Below,                  \* Below[w]: the files under directory w
  Matching,               \* Matching[w]: the files that filter w matches
  Reports,                \* what git may report: sets of files
  Histories               \* durations that earlier runs may have left, per file

CONSTANTS
  None,                   \* no inline value, no value
  Unavailable             \* git is not there, or this is no repository

VARIABLES
  argv,                   \* the tokens still to be read
  phase,                  \* the stage: see the actions
  opts,                   \* the launcher's options
  forward,                \* tokens for the runner
  filters,                \* positional words
  config,                 \* what the configuration sets
  changed,                \* what git reports; None without --changed
  options,                \* the runner's options
  order,                  \* the files to run, in schedule order
  exitCode,               \* of a run that ends before its workers start
  given                   \* history: the command line

vars == <<argv, phase, opts, forward, filters, config, changed, options, order, exitCode, given>>

Word(w) == [key |-> w, inline |-> None]

Subcommands == {"run", "watch", "dev"}
LauncherValue == {"--root"}           \* also --dir, --environment, -c, --config
Switches == {"--passWithNoTests", "--no-isolate"}
Dropped == {"--watch"}                \* and the other booleans without effect
DroppedValue == {"--pool"}            \* also --sequence.*, --browser*, --inspect*
ValueFlags == {"--jobs", "--bail", "--shard", "--testTimeout", "--coverage-thresholds"}
RunnerSwitches == {"--coverage", "--no-file-parallelism"}

Flags == LauncherValue \union Switches \union Dropped \union DroppedValue
           \union ValueFlags \union RunnerSwitches \union {"--changed", "--silly"}

(* A token: what it is, and the value after its "=", if there is one. *)
Tokens ==
  {[key |-> k, inline |-> None] : k \in Words \union Flags}
    \union {[key |-> i[1], inline |-> i[2]] : i \in InlineValues}

IsFlag(t) == t.key \in Flags
Coverage(t) == t.key \in {"--coverage", "--coverage-thresholds"}

(* Parsing of values: a word that is no number, or no shard, parses to     *)
(* the default.                                                            *)
Number(v, default) == CASE v = "0" -> 0 [] v = "2" -> 2 [] OTHER -> default
IsNumber(v) == v \in {"0", "2"}
Shard(v, default) == CASE v = "2/2" -> <<2, 2>> [] v = "3/2" -> <<3, 2>> [] OTHER -> default

DefaultJobs == 3

Init ==
  /\ given \in SeqOf(Tokens, MaxArgs)
  /\ argv = given
  /\ phase = "subcommand"
  /\ opts = [root |-> None, changed |-> FALSE, isolate |-> None,
             passWithNoTests |-> FALSE]
  /\ forward = <<>>
  /\ filters = {}
  /\ config = [thresholds |-> FALSE, testTimeout |-> FALSE]
  /\ changed = None
  /\ options = [jobs |-> DefaultJobs, bail |-> 0, shard |-> None, testTimeout |-> None,
                coverage |-> FALSE, thresholds |-> None, warnings |-> 0, files |-> <<>>]
  /\ order = <<>>
  /\ exitCode = "none"

-----------------------------------------------------------------------------
(* The launcher: one token, or a flag and the value that follows it        *)

(* A leading subcommand is stripped. *)
Subcommand ==
  /\ phase = "subcommand"
  /\ argv' = IF argv # <<>> /\ Head(argv).key \in Subcommands THEN Tail(argv) ELSE argv
  /\ phase' = "launcher"
  /\ UNCHANGED <<opts, forward, filters, config, changed, options, order, exitCode, given>>

(* A word follows the flag at the head. *)
WordFollows == Len(argv) > 1 /\ ~IsFlag(argv[2])

(* take_val: the inline value, else the next token unless it is a flag. *)
TakeVal ==
  IF Head(argv).inline # None THEN Head(argv).inline
  ELSE IF WordFollows THEN argv[2].key ELSE None

AfterVal ==
  IF Head(argv).inline = None /\ WordFollows THEN Tail(Tail(argv)) ELSE Tail(argv)

Reading(keys) == phase = "launcher" /\ argv # <<>> /\ Head(argv).key \in keys

LauncherFlag ==
  /\ Reading(LauncherValue)
  /\ opts' = [opts EXCEPT !.root = TakeVal]
  /\ argv' = AfterVal
  /\ UNCHANGED <<phase, forward, filters, config, changed, options, order, exitCode, given>>

(* --changed has an optional value, the commit to compare with. *)
ChangedFlag ==
  /\ Reading({"--changed"})
  /\ opts' = [opts EXCEPT !.changed = TRUE]
  /\ argv' = AfterVal
  /\ UNCHANGED <<phase, forward, filters, config, changed, options, order, exitCode, given>>

Switch ==
  /\ Reading(Switches)
  /\ opts' = IF Head(argv).key = "--no-isolate" THEN [opts EXCEPT !.isolate = FALSE]
             ELSE [opts EXCEPT !.passWithNoTests = TRUE]
  /\ argv' = Tail(argv)
  /\ UNCHANGED <<phase, forward, filters, config, changed, options, order, exitCode, given>>

Drop ==
  /\ Reading(Dropped \union DroppedValue)
  /\ argv' = IF Head(argv).key \in Dropped THEN Tail(argv) ELSE AfterVal
  /\ UNCHANGED <<phase, opts, forward, filters, config, changed, options, order, exitCode, given>>

(* RunnerFlag, mutated: a flag without a value is forwarded all the same. *)
RunnerFlagAlone ==
  /\ Reading(ValueFlags)
  /\ Head(argv).inline = None
  /\ forward' = forward \o SubSeq(argv, 1, IF WordFollows THEN 2 ELSE 1)
  /\ argv' = AfterVal
  /\ UNCHANGED <<phase, opts, filters, config, changed, options, order, exitCode, given>>

(* A value flag of the runner goes with its value; without one it would    *)
(* take the first test file for it, and is dropped.                        *)
RunnerFlag ==
  /\ Reading(ValueFlags)
  /\ Head(argv).inline = None
  /\ IF WordFollows
       THEN /\ forward' = forward \o SubSeq(argv, 1, 2)
            /\ argv' = Tail(Tail(argv))
       ELSE /\ forward' = IF Coverage(Head(argv)) THEN Append(forward, Word("--coverage")) ELSE forward
            /\ argv' = Tail(argv)
  /\ UNCHANGED <<phase, opts, filters, config, changed, options, order, exitCode, given>>

(* Other flags, and value flags with an inline value, go as they are. *)
OtherFlag ==
  /\ phase = "launcher"
  /\ argv # <<>>
  /\ \/ Head(argv).key \in RunnerSwitches \union {"--silly"}
     \/ Head(argv).key \in ValueFlags /\ Head(argv).inline # None
  /\ forward' = Append(forward, Head(argv))
  /\ argv' = Tail(argv)
  /\ UNCHANGED <<phase, opts, filters, config, changed, options, order, exitCode, given>>

(* A word is a filter; an empty one would match every file and is skipped. *)
Filter ==
  /\ phase = "launcher"
  /\ argv # <<>>
  /\ ~IsFlag(Head(argv))
  /\ filters' = IF Head(argv).key = "" THEN filters ELSE filters \union {Head(argv).key}
  /\ argv' = Tail(argv)
  /\ UNCHANGED <<phase, opts, forward, config, changed, options, order, exitCode, given>>

(* has_flag: the runner will see the flag, with a value. *)
HasFlag(key) == \E i \in DOMAIN forward : forward[i].key = key

(* What the configuration sets is added where no flag was given. *)
Configured(c) ==
  (IF c.thresholds /\ (\E i \in DOMAIN forward : Coverage(forward[i]))
      /\ ~HasFlag("--coverage-thresholds")
     THEN <<Word("--coverage-thresholds"), Word("config")>> ELSE <<>>)
  \o (IF c.testTimeout /\ ~HasFlag("--testTimeout")
        THEN <<Word("--testTimeout"), Word("2")>> ELSE <<>>)

(* Discovered(root), filtered: a file matches a filter, or there is none. *)
Selected(root, words) ==
  SelectSeq(AllFiles, LAMBDA f :
    /\ root # None => f \in Below[root]
    /\ words # {} => \E w \in words : f \in Matching[w])

Named(files) == [i \in DOMAIN files |-> Word(files[i])]

(* Discovery, once the tokens are read: no file is an error unless         *)
(* --passWithNoTests; --changed leaves what git reports, everything when   *)
(* git cannot tell, and nothing is no error.                               *)
Discover ==
  /\ phase = "launcher"
  /\ argv = <<>>
  /\ \E c \in [thresholds : BOOLEAN, testTimeout : BOOLEAN],
        git \in IF opts.changed THEN {Unavailable} \union Reports ELSE {None} :
       LET found == Selected(opts.root, filters)
           kept == IF git \in {None, Unavailable} THEN found
                   ELSE SelectSeq(found, LAMBDA f : f \in git)
       IN /\ config' = c
          /\ changed' = git
          /\ IF kept = <<>>
               THEN /\ exitCode' = IF found = <<>> /\ ~opts.passWithNoTests THEN "1" ELSE "0"
                    /\ phase' = "done"
                    /\ UNCHANGED argv
               ELSE /\ argv' = forward \o Configured(c) \o Named(kept)
                    /\ phase' = "runner"
                    /\ UNCHANGED exitCode
  /\ UNCHANGED <<opts, forward, filters, options, order, given>>

-----------------------------------------------------------------------------
(* The runner                                                              *)

Parsing(keys) == phase = "runner" /\ argv # <<>> /\ Head(argv).key \in keys

(* The value of a runner's flag: inline, else the next token, whatever it  *)
(* is.                                                                     *)
Value ==
  IF Head(argv).inline # None THEN Head(argv).inline
  ELSE IF Len(argv) > 1 THEN argv[2].key ELSE None

AfterValue ==
  IF Head(argv).inline = None /\ Len(argv) > 1 THEN Tail(Tail(argv)) ELSE Tail(argv)

(* Apply, mutated: a value that does not parse resets the workers. *)
ApplyResets(o, key, v) ==
  CASE key = "--jobs" -> [o EXCEPT !.jobs = Number(v, DefaultJobs)]
    [] key = "--bail" -> [o EXCEPT !.bail = Number(v, 0)]
    [] key = "--shard" -> [o EXCEPT !.shard = Shard(v, @)]
    [] key = "--testTimeout" -> [o EXCEPT !.testTimeout = IF IsNumber(v) THEN v ELSE @]
    [] key = "--coverage-thresholds" ->
         [o EXCEPT !.coverage = TRUE, !.thresholds = IF v = None THEN @ ELSE v]

(* What a flag's value does to the options: they keep what they had when   *)
(* it does not parse, but for --bail, which is 0 then.                     *)
Apply(o, key, v) ==
  CASE key = "--jobs" -> [o EXCEPT !.jobs = Number(v, @)]
    [] key = "--bail" -> [o EXCEPT !.bail = Number(v, 0)]
    [] key = "--shard" -> [o EXCEPT !.shard = Shard(v, @)]
    [] key = "--testTimeout" -> [o EXCEPT !.testTimeout = IF IsNumber(v) THEN v ELSE @]
    [] key = "--coverage-thresholds" ->
         [o EXCEPT !.coverage = TRUE, !.thresholds = IF v = None THEN @ ELSE v]

ParseValue ==
  /\ Parsing(ValueFlags)
  /\ options' = Apply(options, Head(argv).key, Value)
  /\ argv' = AfterValue
  /\ UNCHANGED <<phase, opts, forward, filters, config, changed, order, exitCode, given>>

ParseSwitch ==
  /\ Parsing(RunnerSwitches)
  /\ options' = IF Head(argv).key = "--coverage" THEN [options EXCEPT !.coverage = TRUE]
                ELSE [options EXCEPT !.jobs = 1]
  /\ argv' = Tail(argv)
  /\ UNCHANGED <<phase, opts, forward, filters, config, changed, order, exitCode, given>>

(* A flag that nobody models is warned of, never taken for a file. *)
ParseUnknown ==
  /\ Parsing({"--silly"})
  /\ options' = [options EXCEPT !.warnings = @ + 1]
  /\ argv' = Tail(argv)
  /\ UNCHANGED <<phase, opts, forward, filters, config, changed, order, exitCode, given>>

ParseFile ==
  /\ phase = "runner"
  /\ argv # <<>>
  /\ ~IsFlag(Head(argv))
  /\ options' = [options EXCEPT !.files = Append(@, Head(argv).key)]
  /\ argv' = Tail(argv)
  /\ UNCHANGED <<phase, opts, forward, filters, config, changed, order, exitCode, given>>

(* apply_shard: every n-th file of the argv; a shard out of range is all. *)
ApplyShard(files, shard) ==
  IF shard # None /\ shard[1] \in 1 .. shard[2]
    THEN LET at == SetToSortSeq({k \in DOMAIN files : (k - 1) % shard[2] = shard[1] - 1}, <)
         IN [k \in DOMAIN at |-> files[at[k]]]
    ELSE files

(* schedule_order: slowest first, and as they come when equal. *)
ScheduleOrder(files, hist) ==
  LET Before(j, k) == \/ hist[files[j]] > hist[files[k]]
                      \/ hist[files[j]] = hist[files[k]] /\ j < k
      at == SetToSortSeq(DOMAIN files, Before)
  IN [k \in DOMAIN at |-> files[at[k]]]

(* Schedule, mutated: the shard is cut from the schedule. *)
ScheduleFirst(files, shard, hist) == ApplyShard(ScheduleOrder(files, hist), shard)

Schedule(files, shard, hist) == ScheduleOrder(ApplyShard(files, shard), hist)

(* run, up to its workers: only a command without files ends here, and an  *)
(* empty shard goes on with none.  The history is what the last run wrote, *)
(* of several that overwrite each other's: any durations (0: none, or a    *)
(* line that does not parse).                                              *)
Run ==
  /\ phase = "runner"
  /\ argv = <<>>
  /\ IF options.files = <<>>
       THEN exitCode' = "2" /\ UNCHANGED order
       ELSE /\ \E hist \in Histories : order' = Schedule(options.files, options.shard, hist)
            /\ UNCHANGED exitCode
  /\ phase' = "done"
  /\ UNCHANGED <<argv, opts, forward, filters, config, changed, options, given>>

(* The number of workers. *)
Jobs ==
  LET most == IF options.jobs < Len(order) THEN options.jobs ELSE Len(order)
  IN IF most < 1 THEN 1 ELSE most

Launcher ==
  \/ Subcommand \/ LauncherFlag \/ ChangedFlag \/ Switch \/ Drop \/ RunnerFlag
  \/ OtherFlag \/ Filter \/ Discover

Runner == ParseValue \/ ParseSwitch \/ ParseUnknown \/ ParseFile \/ Run

Next == Launcher \/ Runner

Spec == Init /\ [][Next]_vars

-----------------------------------------------------------------------------
(* What the command line says, read as a whole                             *)

(* Its tokens without a leading subcommand. *)
Said == IF given # <<>> /\ given[1].key \in Subcommands THEN Tail(given) ELSE given

ValueTaking == LauncherValue \union DroppedValue \union ValueFlags \union {"--changed"}

(* The word at i is the value of the flag before it. *)
IsValue(i) ==
  /\ i > 1
  /\ ~IsFlag(Said[i])
  /\ Said[i - 1].key \in ValueTaking
  /\ Said[i - 1].inline = None

(* The value the flag at i was given, or None. *)
ValueAt(i) ==
  IF Said[i].inline # None THEN Said[i].inline
  ELSE IF i < Len(Said) /\ IsValue(i + 1) THEN Said[i + 1].key ELSE None

(* The occurrences of some flags, and of those that have a value. *)
Places(keys) == {i \in DOMAIN Said : Said[i].key \in keys}
Valued(keys) == {i \in Places(keys) : ValueAt(i) # None}

(* The value at the last of some places, else a default. *)
LastOf(places, default) == IF places = {} THEN default ELSE ValueAt(Max(places))

FiltersSaid == {Said[i].key : i \in {j \in DOMAIN Said : ~IsFlag(Said[j]) /\ ~IsValue(j) /\ Said[j].key # ""}}

(* The files asked for: below the last root, matched by a filter if there  *)
(* is one, changed if that was asked and git could tell.                   *)
Asked ==
  LET root == LastOf(Places({"--root"}), None)
  IN {f \in Range(AllFiles) :
        /\ root # None => f \in Below[root]
        /\ FiltersSaid # {} => \E w \in FiltersSaid : f \in Matching[w]
        /\ Places({"--changed"}) # {} /\ changed # Unavailable => f \in changed}

-----------------------------------------------------------------------------
(* What must hold                                                          *)

(* The runner never takes a file for a value, a value for a file or a      *)
(* filter for either: the files that reach it are those asked for, in the  *)
(* order of the discovery; the run ends early only when there are none.    *)
RunsWhatWasAsked ==
  phase = "done" =>
    /\ exitCode = "none" <=> Asked # {}
    /\ exitCode = "none" => options.files = SelectSeq(AllFiles, LAMBDA f : f \in Asked)

(* Each option has the last value it was given that parses, the            *)
(* configuration's if it was not given one, and the runner has a worker.   *)
(* --bail has the last value it was given, and none if that does not parse.*)
OptionsAsGiven ==
  (phase = "done" /\ exitCode = "none") =>
    /\ options.jobs =
         LET last == Max(Places({"--no-file-parallelism"}) \union {0}
                           \union {i \in Valued({"--jobs"}) : IsNumber(ValueAt(i))})
         IN IF last = 0 THEN DefaultJobs
            ELSE IF Said[last].key = "--no-file-parallelism" THEN 1 ELSE Number(ValueAt(last), 0)
    /\ Jobs >= 1
    /\ options.bail = Number(LastOf(Valued({"--bail"}), None), 0)
    /\ options.shard =
         Shard(LastOf({i \in Valued({"--shard"}) : ValueAt(i) \in {"2/2", "3/2"}}, None), None)
    /\ options.testTimeout =
         IF Valued({"--testTimeout"}) = {} THEN IF config.testTimeout THEN "2" ELSE None
         ELSE LastOf({i \in Valued({"--testTimeout"}) : IsNumber(ValueAt(i))}, None)
    /\ options.coverage = (Places({"--coverage", "--coverage-thresholds"}) # {})
    /\ options.thresholds =
         IF Valued({"--coverage-thresholds"}) = {}
           THEN IF config.thresholds /\ options.coverage THEN "config" ELSE None
           ELSE LastOf(Valued({"--coverage-thresholds"}), None)
    /\ options.warnings = Cardinality(Places({"--silly"}))

(* What is run, and how, is what the command and the configuration say.    *)
AsAsked == RunsWhatWasAsked /\ OptionsAsGiven

(* The machines that run the shards of one command between them run every  *)
(* file once, whatever history each of them has.                           *)
ShardsCover ==
  phase = "runner" /\ argv = <<>> =>
    \A n \in 1 .. 3 :
      LET part == [i \in 1 .. n |->
                     {Range(Schedule(options.files, <<i, n>>, hist)) : hist \in Histories}]
      IN /\ \A i \in 1 .. n : Cardinality(part[i]) = 1
         /\ \A f \in Range(options.files) :
              Cardinality({i \in 1 .. n : f \in UNION part[i]}) = 1
=============================================================================
