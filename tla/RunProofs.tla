------------------------------ MODULE RunProofs ------------------------------
(***************************************************************************)
(* The proofs of the worker pool, and those of one of its workers:         *)
(* the pool's inductive invariant and the safety properties of a run, for  *)
(* every number of files and workers, every --bail and every interleaving  *)
(* of the workers; then, of the worker W that MCRun composes with it, that *)
(* no run meets what another isolate or file left, and that the result of  *)
(* a file is the right attempt's, for any files, documents and isolates;   *)
(* and, of the tests T of a file, that hooks run around what they are      *)
(* declared for and that every test is told once, as it went.              *)
(***************************************************************************)
EXTENDS MCRun, TLAPS, FiniteSetTheorems, SequenceTheorems

Labels == {"look", "pull", "execute", "count", "push", "ending", "joined"}

-----------------------------------------------------------------------------
(* Facts about the data                                                    *)

(* An outcome's fields. *)
LEMMA OutcomeFields ==
  ASSUME NEW o \in Outcomes
  PROVE  /\ o.failed \in Nat /\ o.loadError \in BOOLEAN /\ o.failedFile \in BOOLEAN
         /\ o.failed = 0 /\ ~o.loadError /\ ~o.failedFile => o = Passed
<1>1. MaxFailed \in Nat
  BY RunAssumption
<1>2. o \in [failed : 0 .. MaxFailed, loadError : BOOLEAN, failedFile : BOOLEAN]
  BY DEF Outcomes
<1>3. o = [failed |-> o.failed, loadError |-> o.loadError, failedFile |-> o.failedFile]
  BY <1>2
<1>4. QED
  BY <1>1, <1>2, <1>3 DEF Passed

(* A file that passed is one of the outcomes. *)
LEMMA PassedType == Passed \in Outcomes
BY RunAssumption DEF Passed, Outcomes

(* There is at least one worker, and the pullers are some of them. *)
LEMMA PullerCount ==
  /\ IsFiniteSet(Pullers) /\ Cardinality(Pullers) \in Nat
  /\ Cardinality(Workers) \in Nat \ {0}
  /\ Cardinality(Pullers) <= Cardinality(Workers)
  /\ \A w \in Workers : pc[w] # "pull" => Cardinality(Pullers) < Cardinality(Workers)
<1>1. IsFiniteSet(Workers) /\ Workers # {} /\ Pullers \subseteq Workers
  BY RunAssumption DEF Pullers
<1>2. /\ IsFiniteSet(Pullers) /\ Cardinality(Pullers) \in Nat
      /\ Cardinality(Workers) \in Nat /\ Cardinality(Workers) # 0
      /\ Cardinality(Pullers) <= Cardinality(Workers)
  BY <1>1, FS_Subset, FS_CardinalityType, FS_EmptySet
<1>3. ASSUME NEW w \in Workers, pc[w] # "pull"
      PROVE  Cardinality(Pullers) < Cardinality(Workers)
  <2>1. Pullers # Workers
    BY <1>3 DEF Pullers
  <2>2. Cardinality(Pullers) # Cardinality(Workers)
    BY <1>1, <2>1, FS_Subset
  <2>3. QED
    BY <1>2, <2>2
<1>4. QED
  BY <1>2, <1>3

-----------------------------------------------------------------------------
(* Each step keeps the invariant                                           *)

(* The start of a run satisfies it. *)
LEMMA InductiveInit == Init => Inductive
<1> SUFFICES ASSUME Init
             PROVE  Inductive
  OBVIOUS
<1>1. TypeOK
  BY PassedType DEF Init, TypeOK, Result
<1>2. RunOnce
  BY DEF Init, RunOnce, Files, Reported, Holds
<1>3. ~BailReached
  BY RunAssumption DEF Init, BailReached
<1>4. QED
  BY <1>1, <1>2, <1>3 DEF Init, Inductive, HeldInv, EndInv, FailInv, BailInv, ExitInv,
       NoSilentSkip

(* A worker looks at the failed tests. *)
LEMMA LookStep ==
  ASSUME Inductive, NEW w \in Workers, Look(w)
  PROVE  Inductive'
<1>0. /\ pc' = [pc EXCEPT ![w] = IF BailReached THEN "ending" ELSE "pull"]
      /\ pc[w] = "look" /\ pc \in [Workers -> Labels]
      /\ BailReached' <=> BailReached
  BY DEF Inductive, TypeOK, Look, Goto, BailReached, Labels
<1>1. TypeOK'
  BY <1>0 DEF Inductive, TypeOK, Look, Labels
<1>2. RunOnce'
  <2>1. \A v \in Workers, f \in Files : Holds(v, f)' <=> Holds(v, f)
    BY <1>0 DEF Holds, Look
  <2>2. QED
    BY <2>1 DEF Inductive, RunOnce, Reported, Look
<1>3. HeldInv'
  BY <1>0 DEF Inductive, HeldInv, Look
<1>4. EndInv'
  BY <1>0 DEF Inductive, EndInv, Look
<1>5. FailInv'
  BY <1>0 DEF Inductive, FailInv, Look
<1>6. BailInv'
  <2>1. CASE BailReached
    <3>1. Pullers' = Pullers
      BY <1>0, <2>1 DEF Pullers
    <3>2. QED
      BY <1>0, <2>1, <3>1 DEF Inductive, BailInv, Look
  <2>2. CASE ~BailReached
    BY <1>0, <2>2 DEF Inductive, BailInv, Look
  <2>3. QED
    BY <2>1, <2>2
<1>7. ExitInv' /\ NoSilentSkip'
  BY <1>0 DEF Inductive, ExitInv, NoSilentSkip, Look
<1>8. QED
  BY <1>1, <1>2, <1>3, <1>4, <1>5, <1>6, <1>7 DEF Inductive

(* A worker pulls the next file, or finds none. *)
LEMMA PullStep ==
  ASSUME Inductive, NEW w \in Workers, Pull(w)
  PROVE  Inductive'
<1>0. /\ pc[w] = "pull" /\ pc \in [Workers -> Labels] /\ NFiles \in Nat
      /\ cursor \in Nat \ {0} /\ cursor' = cursor + 1 /\ late \in Nat
      /\ place \in [Workers -> Files \union {0}] /\ starts \in [Files -> Nat]
      /\ BailReached' <=> BailReached
      /\ UNCHANGED <<failedTotal, results, outcome, exitCode>>
  BY RunAssumption DEF Inductive, TypeOK, Pull, BailReached, Labels
<1>a. exitCode = "none"
  BY <1>0 DEF Inductive, ExitInv
<1>1. CASE cursor > NFiles
  <2>0. /\ pc' = [pc EXCEPT ![w] = "ending"]
        /\ UNCHANGED <<place, starts, late>>
    BY <1>1 DEF Pull, Goto
  <2>1. TypeOK'
    BY <1>0, <2>0 DEF Inductive, TypeOK, Labels
  <2>2. RunOnce'
    <3>1. \A v \in Workers, f \in Files : Holds(v, f)' <=> Holds(v, f)
      BY <1>0, <2>0 DEF Holds
    <3>2. \A f \in Files : f < cursor /\ f < cursor'
      BY <1>0, <1>1 DEF Files
    <3>3. QED
      BY <1>0, <2>0, <3>1, <3>2 DEF Inductive, RunOnce, Reported
  <2>3. BailInv'
    <3>1. Pullers' = Pullers \ {w} /\ w \in Pullers
      BY <1>0, <2>0 DEF Pullers
    <3>2. Cardinality(Pullers') = Cardinality(Pullers) - 1
      BY <3>1, PullerCount, FS_RemoveElement
    <3>3. QED
      BY <1>0, <2>0, <3>2, PullerCount DEF Inductive, BailInv
  <2>4. HeldInv' /\ FailInv' /\ EndInv' /\ ExitInv' /\ NoSilentSkip'
    BY <1>0, <1>1, <1>a, <2>0 DEF Inductive, HeldInv, FailInv, EndInv, ExitInv, NoSilentSkip
  <2>5. QED
    BY <2>1, <2>2, <2>3, <2>4 DEF Inductive
<1>2. CASE ~(cursor > NFiles)
  <2>0. /\ cursor \in Files
        /\ pc' = [pc EXCEPT ![w] = "execute"]
        /\ place' = [place EXCEPT ![w] = cursor]
        /\ starts' = [starts EXCEPT ![cursor] = @ + 1]
        /\ late' = IF BailReached THEN late + 1 ELSE late
    BY <1>0, <1>2 DEF Pull, Goto, Files
  <2>1. TypeOK'
    BY <1>0, <2>0 DEF Inductive, TypeOK, Labels
  <2>2. RunOnce'
    <3>1. \A v \in Workers, f \in Files :
            Holds(v, f)' <=> IF v = w THEN f = cursor ELSE Holds(v, f)
      BY <1>0, <2>0 DEF Holds
    <3>2. \A f \in Files : Reported(f)' <=> Reported(f)
      BY <1>0 DEF Reported
    <3>3. \A f \in Files : ~Holds(w, f)
      BY <1>0 DEF Holds
    <3>4. ~Reported(cursor) /\ (\A v \in Workers : ~Holds(v, cursor)) /\ starts[cursor] = 0
      BY <1>0, <2>0 DEF Inductive, RunOnce
    <3>5. \A f \in Files : f < cursor' <=> f < cursor \/ f = cursor
      BY <1>0 DEF Files
    <3>6. ASSUME NEW f \in Files
          PROVE  /\ starts'[f] = (IF f < cursor' THEN 1 ELSE 0)
                 /\ f < cursor' <=> Reported(f)' \/ \E v \in Workers : Holds(v, f)'
                 /\ \A v \in Workers : Holds(v, f)' =>
                      ~Reported(f)' /\ \A u \in Workers : Holds(u, f)' => u = v
                 /\ \A r, s \in results' : r.file = f /\ s.file = f => r = s
      <4>1. CASE f = cursor
        BY <1>0, <2>0, <3>1, <3>2, <3>4, <3>5, <4>1 DEF Inductive, RunOnce
      <4>2. CASE f # cursor
        <5>1. starts'[f] = (IF f < cursor' THEN 1 ELSE 0)
          BY <1>0, <2>0, <3>5, <4>2 DEF Inductive, RunOnce
        <5>2. f < cursor' <=> Reported(f)' \/ \E v \in Workers : Holds(v, f)'
          BY <3>1, <3>2, <3>3, <3>5, <4>2 DEF Inductive, RunOnce
        <5>3. QED
          BY <1>0, <3>1, <3>2, <4>2, <5>1, <5>2 DEF Inductive, RunOnce
      <4>3. QED
        BY <4>1, <4>2
    <3>7. QED
      BY <3>6 DEF RunOnce
  <2>3. BailInv'
    <3>1. Pullers' = Pullers \ {w} /\ w \in Pullers
      BY <1>0, <2>0 DEF Pullers
    <3>2. Cardinality(Pullers') = Cardinality(Pullers) - 1
      BY <3>1, PullerCount, FS_RemoveElement
    <3>3. QED
      BY <1>0, <2>0, <3>2, PullerCount DEF Inductive, BailInv
  <2>4. HeldInv'
    BY <1>0, <2>0 DEF Inductive, HeldInv
  <2>5. EndInv'
    <3>1. ~BailReached => \A v \in Workers : pc[v] \notin {"ending", "joined"}
      BY <1>2 DEF Inductive, EndInv
    <3>2. QED
      BY <1>0, <2>0, <3>1 DEF Inductive, EndInv
  <2>6. FailInv' /\ ExitInv' /\ NoSilentSkip'
    BY <1>0, <1>a, <2>0 DEF Inductive, FailInv, ExitInv, NoSilentSkip
  <2>7. QED
    BY <2>1, <2>2, <2>3, <2>4, <2>5, <2>6 DEF Inductive
<1>3. QED
  BY <1>1, <1>2

(* A worker runs its file, to any outcome. *)
LEMMA ExecuteStep ==
  ASSUME Inductive, NEW w \in Workers, Execute(w)
  PROVE  Inductive'
<1>0. /\ pc[w] = "execute" /\ pc \in [Workers -> Labels]
      /\ pc' = [pc EXCEPT ![w] = "count"]
      /\ BailReached' <=> BailReached
      /\ UNCHANGED <<cursor, failedTotal, results, place, exitCode, starts, late>>
  BY DEF Inductive, TypeOK, Execute, Goto, BailReached, Labels
<1>a. PICK o \in Outcomes : outcome' = [outcome EXCEPT ![w] = o]
  BY DEF Execute
<1>b. exitCode = "none"
  BY <1>0 DEF Inductive, ExitInv
<1>1. TypeOK'
  BY <1>0, <1>a DEF Inductive, TypeOK, Labels
<1>2. RunOnce'
  <2>1. \A v \in Workers, f \in Files : Holds(v, f)' <=> Holds(v, f)
    BY <1>0 DEF Holds
  <2>2. QED
    BY <1>0, <2>1 DEF Inductive, RunOnce, Reported
<1>3. BailInv'
  <2>1. Pullers' = Pullers
    BY <1>0 DEF Pullers
  <2>2. QED
    BY <1>0, <2>1 DEF Inductive, BailInv
<1>4. FailInv'
  BY <1>0, <1>a DEF Inductive, TypeOK, FailInv
<1>5. HeldInv' /\ EndInv' /\ ExitInv' /\ NoSilentSkip'
  BY <1>0, <1>b DEF Inductive, HeldInv, EndInv, ExitInv, NoSilentSkip
<1>6. QED
  BY <1>1, <1>2, <1>3, <1>4, <1>5 DEF Inductive

(* A worker counts the failed tests of its file; bail may be reached, and  *)
(* this worker is not about to pull.                                       *)
LEMMA CountStep ==
  ASSUME Inductive, NEW w \in Workers, Count(w)
  PROVE  Inductive'
<1>0. /\ pc[w] = "count" /\ pc \in [Workers -> Labels]
      /\ pc' = [pc EXCEPT ![w] = "push"]
      /\ UNCHANGED <<cursor, results, place, outcome, exitCode, starts, late>>
      /\ failedTotal \in Nat /\ outcome \in [Workers -> Outcomes] /\ Bail \in Nat
  BY RunAssumption DEF Inductive, TypeOK, Count, Goto, Labels
<1>a. outcome[w].failed \in Nat
  BY <1>0, OutcomeFields
<1>b. /\ failedTotal' = failedTotal \/ failedTotal' = failedTotal + outcome[w].failed
      /\ failedTotal' \in Nat /\ failedTotal' >= failedTotal
  BY <1>0, <1>a DEF Count
<1>c. BailReached => BailReached'
  BY <1>0, <1>b DEF BailReached
<1>d. exitCode = "none"
  BY <1>0 DEF Inductive, ExitInv
<1>1. TypeOK'
  BY <1>0, <1>b DEF Inductive, TypeOK, Labels
<1>2. RunOnce'
  <2>1. \A v \in Workers, f \in Files : Holds(v, f)' <=> Holds(v, f)
    BY <1>0 DEF Holds
  <2>2. QED
    BY <1>0, <2>1 DEF Inductive, RunOnce, Reported
<1>3. BailInv'
  <2>1. Pullers' = Pullers
    BY <1>0 DEF Pullers
  <2>2. Cardinality(Pullers) < Cardinality(Workers)
    BY <1>0, PullerCount
  <2>3. CASE BailReached
    BY <1>0, <1>c, <2>1, <2>3 DEF Inductive, BailInv
  <2>4. CASE ~BailReached
    <3>1. late' = 0
      BY <1>0, <2>4 DEF Inductive, BailInv
    <3>2. QED
      BY <2>1, <2>2, <3>1, PullerCount DEF BailInv
  <2>5. QED
    BY <2>3, <2>4
<1>4. FailInv'
  <2>1. CASE failedTotal' = failedTotal
    BY <1>0, <2>1 DEF Inductive, FailInv
  <2>2. CASE outcome[w].failed > 0
    BY <1>0, <2>2 DEF FailInv
  <2>3. QED
    BY <1>0, <1>a, <1>b, <2>1, <2>2
<1>5. EndInv'
  BY <1>0, <1>c DEF Inductive, EndInv
<1>6. HeldInv' /\ ExitInv' /\ NoSilentSkip'
  BY <1>0, <1>d DEF Inductive, HeldInv, ExitInv, NoSilentSkip
<1>7. QED
  BY <1>1, <1>2, <1>3, <1>4, <1>5, <1>6 DEF Inductive

(* A worker pushes its file's result. *)
LEMMA PushStep ==
  ASSUME Inductive, NEW w \in Workers, Push(w)
  PROVE  Inductive'
<1> DEFINE new == [file |-> place[w], outcome |-> outcome[w]]
<1>0. /\ pc[w] = "push" /\ pc \in [Workers -> Labels]
      /\ pc' = [pc EXCEPT ![w] = "look"]
      /\ results' = results \union {new}
      /\ BailReached' <=> BailReached
      /\ UNCHANGED <<cursor, failedTotal, place, outcome, exitCode, starts, late>>
  BY DEF Inductive, TypeOK, Push, Goto, BailReached, Labels
<1>a. place[w] \in Files /\ outcome[w] \in Outcomes /\ results \subseteq Result
  BY <1>0 DEF Inductive, TypeOK, HeldInv
<1>b. exitCode = "none"
  BY <1>0 DEF Inductive, ExitInv
<1>1. TypeOK'
  <2>1. new \in Result
    BY <1>a DEF Result
  <2>2. QED
    BY <1>0, <2>1 DEF Inductive, TypeOK, Labels
<1>2. RunOnce'
  <2>1. \A v \in Workers, f \in Files : Holds(v, f)' <=> v # w /\ Holds(v, f)
    BY <1>0 DEF Holds
  <2>2. \A f \in Files : Reported(f)' <=> Reported(f) \/ f = place[w]
    <3>1. new.file = place[w]
      OBVIOUS
    <3>2. QED
      BY <1>0, <3>1, Zenon DEF Reported
  <2>3. \A f \in Files : Holds(w, f) <=> f = place[w]
    BY <1>0 DEF Holds
  <2>4. /\ ~Reported(place[w])
        /\ \A v \in Workers : Holds(v, place[w]) => v = w
    BY <1>a, <2>3 DEF Inductive, RunOnce
  <2>5. ASSUME NEW f \in Files
        PROVE  /\ starts'[f] = (IF f < cursor' THEN 1 ELSE 0)
               /\ f < cursor' <=> Reported(f)' \/ \E v \in Workers : Holds(v, f)'
               /\ \A v \in Workers : Holds(v, f)' =>
                    ~Reported(f)' /\ \A u \in Workers : Holds(u, f)' => u = v
    BY <1>0, <1>a, <2>1, <2>2, <2>3, <2>4 DEF Inductive, RunOnce
  <2>6. ASSUME NEW f \in Files, NEW r \in results', NEW s \in results', r.file = f, s.file = f
        PROVE  r = s
    <3>1. CASE f = place[w]
      <4>1. r = new /\ s = new
        BY <1>0, <2>4, <2>6, <3>1 DEF Reported
      <4>2. QED
        BY <4>1
    <3>2. CASE f # place[w]
      <4>1. r \in results /\ s \in results
        BY <1>0, <2>6, <3>2
      <4>2. QED
        BY <2>6, <4>1 DEF Inductive, RunOnce
    <3>3. QED
      BY <3>1, <3>2
  <2>7. QED
    BY <2>5, <2>6 DEF RunOnce
<1>3. BailInv'
  <2>1. Pullers' = Pullers
    BY <1>0 DEF Pullers
  <2>2. QED
    BY <1>0, <2>1 DEF Inductive, BailInv
<1>4. FailInv'
  <2>1. new \in results' /\ results \subseteq results' /\ new.outcome = outcome[w]
    BY <1>0
  <2>2. ASSUME failedTotal > 0
        PROVE  \/ \E r \in results' : r.outcome.failed > 0
               \/ \E v \in Workers : pc'[v] = "push" /\ outcome'[v].failed > 0
    <3>1. CASE \E r \in results : r.outcome.failed > 0
      BY <2>1, <3>1
    <3>2. CASE \E v \in Workers : pc[v] = "push" /\ outcome[v].failed > 0
      BY <1>0, <2>1, <3>2
    <3>3. QED
      BY <2>2, <3>1, <3>2 DEF Inductive, FailInv
  <2>3. QED
    BY <1>0, <2>2 DEF FailInv
<1>5. HeldInv' /\ EndInv' /\ ExitInv' /\ NoSilentSkip'
  BY <1>0, <1>b DEF Inductive, HeldInv, EndInv, ExitInv, NoSilentSkip
<1>6. QED
  BY <1>1, <1>2, <1>3, <1>4, <1>5 DEF Inductive

(* A worker ends. *)
LEMMA EndStep ==
  ASSUME Inductive, NEW w \in Workers, End(w)
  PROVE  Inductive'
<1>0. /\ pc[w] = "ending" /\ pc \in [Workers -> Labels]
      /\ pc' = [pc EXCEPT ![w] = "joined"]
      /\ BailReached' <=> BailReached
      /\ UNCHANGED <<cursor, failedTotal, results, place, outcome, exitCode, starts, late>>
  BY DEF Inductive, TypeOK, End, Goto, BailReached, Labels
<1>1. TypeOK'
  BY <1>0 DEF Inductive, TypeOK, Labels
<1>2. RunOnce'
  <2>1. \A v \in Workers, f \in Files : Holds(v, f)' <=> Holds(v, f)
    BY <1>0 DEF Holds
  <2>2. QED
    BY <1>0, <2>1 DEF Inductive, RunOnce, Reported
<1>3. BailInv'
  <2>1. Pullers' = Pullers
    BY <1>0 DEF Pullers
  <2>2. QED
    BY <1>0, <2>1 DEF Inductive, BailInv
<1>4. HeldInv' /\ EndInv' /\ FailInv' /\ ExitInv' /\ NoSilentSkip'
  BY <1>0 DEF Inductive, HeldInv, EndInv, FailInv, ExitInv, NoSilentSkip
<1>5. QED
  BY <1>1, <1>2, <1>3, <1>4 DEF Inductive

(* The main thread reports: with exit code 0 no result shows a failure, so *)
(* bail was not reached and every file was pulled.                         *)
LEMMA ReportStep ==
  ASSUME Inductive, Report
  PROVE  Inductive'
<1>0. /\ \A w \in Workers : pc[w] = "joined"
      /\ BailReached' <=> BailReached
      /\ UNCHANGED <<cursor, failedTotal, results, pc, place, outcome, starts, late>>
  BY DEF Report, BailReached
<1>1. exitCode' \in {"0", "1"}
  BY DEF Report, ExitCode
<1>2. ASSUME exitCode' = "0"
      PROVE  \A f \in Files : [file |-> f, outcome |-> Passed] \in results
  <2>1. \A r \in results :
          r.outcome.failed = 0 /\ ~r.outcome.loadError /\ ~r.outcome.failedFile
    BY <1>2 DEF Report, ExitCode
  <2>2. ~BailReached
    <3>1. ~(failedTotal > 0)
      BY <1>0, <2>1 DEF Inductive, FailInv
    <3>2. failedTotal \in Nat /\ Bail \in Nat
      BY RunAssumption DEF Inductive, TypeOK
    <3>3. QED
      BY <3>1, <3>2 DEF BailReached
  <2>3. cursor > NFiles /\ cursor \in Nat /\ NFiles \in Nat
    BY <1>0, <2>2, RunAssumption DEF Inductive, TypeOK, EndInv
  <2>4. ASSUME NEW f \in Files
        PROVE  [file |-> f, outcome |-> Passed] \in results
    <3>1. \A w \in Workers : ~Holds(w, f)
      BY <1>0 DEF Holds
    <3>2. f < cursor
      BY <2>3 DEF Files
    <3>3. PICK r \in results : r.file = f
      BY <3>1, <3>2 DEF Inductive, RunOnce, Reported
    <3>4. r \in Result
      BY <3>3 DEF Inductive, TypeOK
    <3>5. r = [file |-> r.file, outcome |-> r.outcome] /\ r.outcome \in Outcomes
      BY <3>4 DEF Result
    <3>6. r.outcome = Passed
      BY <2>1, <3>5, OutcomeFields
    <3>7. QED
      BY <3>3, <3>5, <3>6
  <2>5. QED
    BY <2>4
<1>3. NoSilentSkip' /\ ExitInv'
  BY <1>0, <1>2 DEF NoSilentSkip, ExitInv
<1>4. TypeOK'
  BY <1>0, <1>1 DEF Inductive, TypeOK
<1>5. RunOnce'
  BY <1>0 DEF Inductive, RunOnce, Reported, Holds
<1>6. HeldInv' /\ EndInv' /\ FailInv'
  BY <1>0 DEF Inductive, HeldInv, EndInv, FailInv
<1>7. BailInv'
  <2>1. Pullers' = Pullers
    BY <1>0 DEF Pullers
  <2>2. QED
    BY <1>0, <2>1 DEF Inductive, BailInv
<1>8. QED
  BY <1>3, <1>4, <1>5, <1>6, <1>7 DEF Inductive

(* A step that changes nothing keeps it. *)
LEMMA UnchangedStep == Inductive /\ UNCHANGED vars => Inductive'
<1> SUFFICES ASSUME Inductive, UNCHANGED vars
             PROVE  Inductive'
  OBVIOUS
<1>1. UNCHANGED <<cursor, failedTotal, results, pc, place, outcome, exitCode, starts, late>>
  BY DEF vars
<1>2. Pullers' = Pullers /\ (BailReached' <=> BailReached)
  BY <1>1 DEF Pullers, BailReached
<1>3. TypeOK' /\ HeldInv' /\ EndInv' /\ FailInv' /\ BailInv' /\ ExitInv' /\ NoSilentSkip'
  BY <1>1, <1>2 DEF Inductive, TypeOK, HeldInv, EndInv, FailInv, BailInv, ExitInv, NoSilentSkip
<1>4. RunOnce'
  BY <1>1 DEF Inductive, RunOnce, Reported, Holds
<1>5. QED
  BY <1>3, <1>4 DEF Inductive

-----------------------------------------------------------------------------
(* The invariant and what it gives                                         *)

(* Every access of every worker to the shared cursor, count and results,   *)
(* in any order, keeps the invariant.                                      *)
THEOREM InductiveInvariance == Spec => []Inductive
<1>1. Inductive /\ [Next]_vars => Inductive'
  <2> SUFFICES ASSUME Inductive, [Next]_vars
               PROVE  Inductive'
    OBVIOUS
  <2>1. ASSUME NEW w \in Workers, Worker(w)
        PROVE  Inductive'
    BY <2>1, LookStep, PullStep, ExecuteStep, CountStep, PushStep, EndStep DEF Worker
  <2>2. CASE Report
    BY <2>2, ReportStep
  <2>3. CASE UNCHANGED vars
    BY <2>3, UnchangedStep
  <2>4. QED
    BY <2>1, <2>2, <2>3 DEF Next
<1>2. QED
  BY InductiveInit, <1>1, PTL DEF Spec

(* The shared state and the workers keep their types. *)
THEOREM TypeCorrect == Spec => []TypeOK
<1>1. Inductive => TypeOK
  BY DEF Inductive
<1>2. QED
  BY InductiveInvariance, <1>1, PTL

(* A file is pulled by one worker at most, and reported once. *)
THEOREM RunOnceHolds == Spec => []RunOnce
<1>1. Inductive => RunOnce
  BY DEF Inductive
<1>2. QED
  BY InductiveInvariance, <1>1, PTL

(* --bail is overshot by fewer files than there are workers. *)
THEOREM BailOvershootHolds == Spec => []BailOvershoot
<1>1. Inductive => BailOvershoot
  <2> SUFFICES ASSUME Inductive
               PROVE  late < Cardinality(Workers)
    BY DEF BailOvershoot
  <2>1. late \in Nat
    BY DEF Inductive, TypeOK
  <2>2. CASE BailReached
    BY <2>1, <2>2, PullerCount DEF Inductive, BailInv
  <2>3. CASE ~BailReached
    BY <2>1, <2>3, PullerCount DEF Inductive, BailInv
  <2>4. QED
    BY <2>2, <2>3
<1>2. QED
  BY InductiveInvariance, <1>1, PTL

(* Exit code 0 means that every file of the run was run, and passed. *)
THEOREM NoSilentSkipHolds == Spec => []NoSilentSkip
<1>1. Inductive => NoSilentSkip
  BY DEF Inductive
<1>2. QED
  BY InductiveInvariance, <1>1, PTL

(* The files that ran are a prefix of the order; without bail, all of it. *)
THEOREM OnlyBailSkipsHolds == Spec => []OnlyBailSkips
<1>1. Inductive => OnlyBailSkips
  <2> SUFFICES ASSUME Inductive, exitCode # "none"
               PROVE  /\ \A f, g \in Files : Reported(g) /\ f < g => Reported(f)
                      /\ (\E f \in Files : ~Reported(f)) => BailReached
    BY DEF OnlyBailSkips
  <2>1. \A w \in Workers : pc[w] = "joined"
    BY DEF Inductive, ExitInv
  <2>2. \A f \in Files : Reported(f) <=> f < cursor
    BY <2>1 DEF Inductive, RunOnce, Holds
  <2>3. cursor \in Nat /\ NFiles \in Nat /\ Workers # {}
    BY RunAssumption DEF Inductive, TypeOK
  <2>4. \A f, g \in Files : Reported(g) /\ f < g => Reported(f)
    BY <2>2, <2>3 DEF Files
  <2>5. cursor > NFiles \/ BailReached
    BY <2>1, <2>3 DEF Inductive, EndInv
  <2>6. QED
    BY <2>2, <2>3, <2>4, <2>5 DEF Files
<1>2. QED
  BY InductiveInvariance, <1>1, PTL

-----------------------------------------------------------------------------
(* A worker with its files: W, ExecuteFile.                                *)

(* The cardinality that ExecuteFile counts with is FiniteSets'. *)
LEMMA SameCardinality == \A S : W!Cardinality(S) = Cardinality(S)
BY Zenon DEF Cardinality, W!Cardinality

(* Where the worker is with its isolates: a run has one, the worker's own  *)
(* if the run is a reused one; the worker's registry is aside during a     *)
(* fresh run, and only then; without reuse there is no worker's isolate.   *)
StageInv ==
  /\ W!Running <=> cur # 0
  /\ forceFresh <=> W!Running /\ how = "fresh"
  /\ ~forceFresh => saved = {}
  /\ W!Running /\ W!Persistent => cur = iso
  /\ W!Running /\ ~W!Persistent => cur # iso
  /\ mode # "reuse" => iso = 0
  /\ how = "fresh" => W!ReuseEnabled

(* What setup left on the worker's isolate stays there: its mocks, and     *)
(* whether it threw.                                                       *)
SetupKept ==
  iso # 0 =>
    /\ W!SetupMocks(iso) \in (IF forceFresh THEN saved ELSE registry)
    /\ setupError <=> iso \in badSetup

(* A file is being attempted. *)
Attempting == at \in {"begin", "ready", "ran"}

(* The runs of the way the file is run now, and those before it. *)
Taken == IF Attempting THEN tries ELSE tries + 1
Before == Len(runs) - Taken

(* No file was started yet. *)
Unstarted == at \in {"next", "ended"} /\ file = W!None /\ runs = <<>>

(* The runs of a file: at most three on the worker's isolate, then those   *)
(* on isolates of their own.                                               *)
RunsInv ==
  Unstarted \/
    /\ file \in TestFiles
    /\ Before \in 0 .. 3
    /\ how = "same" => Before = 0
    /\ \A k \in 1 .. Len(runs) : runs[k].how = IF k <= Before THEN "same" ELSE how

(* What is kept: nothing, or an error worth a retry, which is all that the *)
(* runs before came to.                                                    *)
KeptInv ==
  /\ Attempting \/ at = "decide" =>
       /\ best = IF tries = 0 THEN W!None ELSE "error"
       /\ tries > 0 /\ how = "same" => runs[1].outcome # "oom"
  /\ Attempting /\ tries > 0 => ~W!IsReport(runs[Len(runs)].outcome)
  /\ at = "ran" => result \in W!Outcomes
  /\ at = "decide" => result = runs[Len(runs)].outcome

(* The error noted is that of the run under way, or none. *)
NotedInv ==
  /\ at = "ready" => noted = W!NoError
  /\ at = "ran" => noted \in {W!NoError, [file |-> file, run |-> Len(runs) + 1]}
  /\ at = "decide" => noted \in {W!NoError, [file |-> file, run |-> Len(runs)]}

(* The two halves of the invariant: isolates, and attempts. *)
Alone == StageInv /\ SetupKept /\ W!RunsAlone
Attempts == RunsInv /\ KeptInv /\ NotedInv /\ W!Verdict

WorkerInductive == W!TypeOK /\ Alone /\ Attempts
-----------------------------------------------------------------------------
(* Isolates                                                                *)

(* Three flags. *)
LEMMA Flags ==
  ASSUME NEW a \in BOOLEAN, NEW b \in BOOLEAN, NEW c \in BOOLEAN
  PROVE  {a, b, c} \subseteq BOOLEAN
OBVIOUS

(* The start satisfies it. *)
LEMMA AloneInit == W!Init => W!TypeOK /\ Alone
<1> SUFFICES ASSUME W!Init
             PROVE  W!TypeOK /\ Alone
  OBVIOUS
<1>1. W!TypeOK
  <2>1. {iso, snapshot, document, cur} \subseteq W!Isolates \union {0}
    BY DEF W!Init
  <2>2. {forceFresh, setupError, domInstalled} \subseteq BOOLEAN
    BY Flags DEF W!Init
  <2>3. {noted, info} \subseteq [file : TestFiles \union {W!None}, run : 0 .. 6]
    BY DEF W!Init, W!NoError
  <2>4. runs \in Seq([how : {"same", "fresh"}, outcome : W!Outcomes])
    BY DEF W!Init
  <2>5. QED
    BY <2>1, <2>2, <2>3, <2>4 DEF W!Init, W!TypeOK, W!Handles
<1>2. StageInv /\ SetupKept
  BY DEF W!Init, StageInv, SetupKept, W!Running, W!Persistent
<1>3. W!RunsAlone
  BY DEF W!Init, W!RunsAlone, W!OwnHandles, W!CleanStart, W!NoMocksBefore, W!SetupInForce,
     W!OwnDocument, W!Running
<1>4. QED
  BY <1>1, <1>2, <1>3 DEF Alone

(* What changes nothing of the isolates and begins or ends no run keeps it. *)
LEMMA AloneUnchanged ==
  ASSUME Alone, ~W!Running, ~W!Running', UNCHANGED <<mode, W!locals, cur, badSetup>>,
         how' = "fresh" => W!ReuseEnabled
  PROVE  Alone'
<1>1. UNCHANGED <<mode, iso, registry, saved, forceFresh, snapshot, setupError, domInstalled,
                  document, cur, badSetup>>
  BY DEF W!locals
<1>2. StageInv'
  BY <1>1 DEF Alone, StageInv, W!ReuseEnabled
<1>3. SetupKept'
  BY <1>1 DEF Alone, SetupKept, W!SetupMocks
<1>4. W!OwnHandles' /\ W!OwnDocument'
  BY <1>1 DEF Alone, W!RunsAlone, W!OwnHandles, W!OwnDocument
<1>5. W!CleanStart'
  BY DEF W!CleanStart, W!NoMocksBefore, W!SetupInForce, W!Running
<1>6. QED
  BY <1>2, <1>3, <1>4, <1>5 DEF Alone, W!RunsAlone

(* A new isolate is one that nothing in the thread refers to. *)
LEMMA NewIsolateIsNew ==
  ASSUME W!ExecuteAssumption, NEW throws \in BOOLEAN, W!NewIsolate(throws)
  PROVE  /\ cur' \in W!Isolates /\ cur' # 0 /\ cur' \notin W!InUse
         /\ cur' \in badSetup' <=> throws
         /\ \A i : i # cur' => (i \in badSetup' <=> i \in badSetup)
<1>1. cur' \in W!Isolates /\ cur' \notin W!InUse
  BY DEF W!NewIsolate
<1>2. cur' # 0
  BY <1>1 DEF W!Isolates, W!ExecuteAssumption
<1>3. QED
  BY <1>1, <1>2 DEF W!NewIsolate

(* Between runs the worker refers to its own isolate only. *)
LEMMA BetweenRuns ==
  ASSUME W!ExecuteAssumption, W!TypeOK, Alone, ~W!Running
  PROVE  /\ forceFresh = FALSE /\ saved = {} /\ cur = 0 /\ snapshot = iso
         /\ \A h \in registry : h.iso = iso
         /\ iso = 0 => registry = {} /\ ~domInstalled
         /\ iso # 0 => W!SetupMocks(iso) \in registry /\ (setupError <=> iso \in badSetup)
         /\ domInstalled => document = iso
<1>1. /\ forceFresh = FALSE /\ saved = {} /\ cur = 0 /\ snapshot = iso
      /\ \A h \in registry : h.iso = iso
      /\ domInstalled => document = iso /\ iso # 0
  BY DEF Alone, StageInv, W!RunsAlone, W!OwnHandles, W!OwnDocument, W!TypeOK
<1>2. \A h \in registry : h.iso \in W!Isolates /\ h.iso # 0
  BY DEF W!TypeOK, W!Handles, W!Isolates, W!ExecuteAssumption
<1>3. QED
  BY <1>1, <1>2 DEF Alone, SetupKept

(* A handle's fields. *)
LEMMA SetupMocksFields ==
  ASSUME NEW i
  PROVE  W!SetupMocks(i).iso = i /\ W!SetupMocks(i).kind = "setupMock"
BY DEF W!SetupMocks

(* A reused run that readies the worker's isolate. *)
LEMMA BeginFirstAlone ==
  ASSUME W!ExecuteAssumption, W!TypeOK, Alone, NEW throws \in BOOLEAN, W!BeginFirst(throws)
  PROVE  Alone'
<1>1. /\ at = "begin" /\ at' = "ready" /\ iso = 0 /\ how = "same" /\ mode = "reuse"
      /\ iso' = cur' /\ registry' = registry \union {W!SetupMocks(cur')} /\ snapshot' = cur'
      /\ setupError' = throws
      /\ UNCHANGED <<mode, saved, forceFresh, file, how>>
      /\ IF file \in DomFiles /\ ~domInstalled
           THEN domInstalled' = TRUE /\ document' = cur'
           ELSE UNCHANGED <<domInstalled, document>>
  BY DEF W!BeginFirst, W!Persistent
<1>2. cur' \in W!Isolates /\ cur' # 0 /\ (cur' \in badSetup' <=> throws)
  BY NewIsolateIsNew DEF W!BeginFirst
<1>3. registry = {} /\ ~domInstalled /\ forceFresh = FALSE /\ saved = {}
  BY <1>1, BetweenRuns DEF W!Running
<1>4. StageInv'
  BY <1>1, <1>2, <1>3 DEF StageInv, W!Running, W!Persistent
<1>5. SetupKept'
  BY <1>1, <1>2, <1>3 DEF SetupKept, W!SetupMocks
<1>6. W!OwnHandles'
  BY <1>1, <1>2, <1>3, SetupMocksFields DEF W!OwnHandles, W!Running
<1>7. W!CleanStart'
  <2>1. W!NoMocksBefore'
    BY <1>1, <1>3, SetupMocksFields DEF W!NoMocksBefore
  <2>2. W!SetupInForce'
    BY <1>1, <1>2 DEF W!SetupInForce, W!SetupMocks
  <2>3. QED
    BY <2>1, <2>2 DEF W!CleanStart
<1>8. W!OwnDocument'
  BY <1>1, <1>2, <1>3 DEF W!OwnDocument, W!Running
<1>9. QED
  BY <1>4, <1>5, <1>6, <1>7, <1>8 DEF Alone, W!RunsAlone

(* A reused run on an isolate that is ready. *)
LEMMA BeginNextAlone ==
  ASSUME W!ExecuteAssumption, W!TypeOK, Alone, W!BeginNext
  PROVE  Alone'
<1>1. /\ at = "begin" /\ at' = "ready" /\ iso # 0 /\ how = "same" /\ mode = "reuse"
      /\ cur' = iso
      /\ registry' = {h \in registry : h.kind \in {"module", "setupMock"}}
      /\ UNCHANGED <<mode, iso, saved, forceFresh, snapshot, setupError, file, how, badSetup>>
      /\ IF file \in DomFiles /\ ~domInstalled
           THEN domInstalled' = TRUE /\ document' = iso
           ELSE UNCHANGED <<domInstalled, document>>
  BY DEF W!BeginNext, W!Persistent
<1>2. /\ forceFresh = FALSE /\ saved = {} /\ snapshot = iso
      /\ \A h \in registry : h.iso = iso
      /\ W!SetupMocks(iso) \in registry /\ (setupError <=> iso \in badSetup)
      /\ domInstalled => document = iso
  BY <1>1, BetweenRuns DEF W!Running
<1>3. StageInv'
  BY <1>1, <1>2 DEF StageInv, W!Running, W!Persistent
<1>4. W!SetupMocks(iso) \in registry'
  BY <1>1, <1>2, SetupMocksFields
<1>5. SetupKept'
  BY <1>1, <1>2, <1>4 DEF SetupKept, W!SetupMocks
<1>6. W!OwnHandles'
  BY <1>1, <1>2 DEF W!OwnHandles, W!Running
<1>7. W!CleanStart'
  <2>1. W!NoMocksBefore'
    BY <1>1 DEF W!NoMocksBefore
  <2>2. W!SetupInForce'
    BY <1>1, <1>2, <1>4 DEF W!SetupInForce, W!SetupMocks
  <2>3. QED
    BY <2>1, <2>2 DEF W!CleanStart
<1>8. W!OwnDocument'
  BY <1>1, <1>2 DEF W!OwnDocument, W!Running
<1>9. QED
  BY <1>3, <1>5, <1>6, <1>7, <1>8 DEF Alone, W!RunsAlone

(* A run on an isolate of its own. *)
LEMMA BeginFreshAlone ==
  ASSUME W!ExecuteAssumption, W!TypeOK, Alone, NEW throws \in BOOLEAN, W!BeginFresh(throws)
  PROVE  Alone'
<1>1. /\ at = "begin" /\ at' = "ready" /\ ~W!Persistent
      /\ UNCHANGED <<mode, iso, snapshot, setupError, domInstalled, file, how>>
      /\ document' = IF file \in DomFiles THEN cur' ELSE document
  BY DEF W!BeginFresh
<1>2. /\ cur' \in W!Isolates /\ cur' # 0 /\ cur' # iso
      /\ cur' \in badSetup' <=> throws
      /\ iso \in badSetup' <=> iso \in badSetup
  BY NewIsolateIsNew DEF W!BeginFresh, W!InUse
<1>3. /\ forceFresh = FALSE /\ saved = {} /\ snapshot = iso
      /\ \A h \in registry : h.iso = iso
      /\ iso = 0 => registry = {} /\ ~domInstalled
      /\ iso # 0 => W!SetupMocks(iso) \in registry /\ (setupError <=> iso \in badSetup)
      /\ domInstalled => document = iso
  BY <1>1, BetweenRuns DEF W!Running
<1>4. how \in {"same", "fresh"} /\ mode \in {"isolated", "reuse", "coverage"}
  BY DEF W!TypeOK
<1>5. /\ how = "fresh" => mode # "isolated"
      /\ mode # "reuse" => iso = 0
  BY DEF Alone, StageInv, W!ReuseEnabled
<1>6. CASE how = "fresh"
  <2>1. saved' = registry /\ forceFresh' = TRUE /\ registry' = {W!SetupMocks(cur')}
    BY <1>6 DEF W!BeginFresh
  <2>2. StageInv'
    BY <1>1, <1>2, <1>5, <1>6, <2>1 DEF StageInv, W!Running, W!Persistent, W!ReuseEnabled
  <2>3. SetupKept'
    BY <1>1, <1>2, <1>3, <2>1 DEF SetupKept, W!SetupMocks
  <2>4. W!OwnHandles'
    BY <1>1, <1>3, <2>1, SetupMocksFields DEF W!OwnHandles, W!Running
  <2>5. W!NoMocksBefore'
    BY <2>1, SetupMocksFields DEF W!NoMocksBefore
  <2>6. W!SetupInForce'
    BY <1>1, <1>6, <2>1 DEF W!SetupInForce, W!SetupMocks, W!Persistent
  <2>7. W!OwnDocument'
    BY <1>1, <2>1 DEF W!OwnDocument, W!Running
  <2>8. QED
    BY <2>2, <2>3, <2>4, <2>5, <2>6, <2>7 DEF Alone, W!RunsAlone, W!CleanStart
<1>7. CASE how # "fresh"
  <2>1. registry' = registry \union {W!SetupMocks(cur')} /\ UNCHANGED <<saved, forceFresh>>
    BY <1>7 DEF W!BeginFresh
  <2>2. how = "same" /\ mode # "reuse" /\ iso = 0 /\ registry = {} /\ ~domInstalled
    BY <1>1, <1>3, <1>4, <1>5, <1>7 DEF W!Persistent
  <2>3. registry' = {W!SetupMocks(cur')}
    BY <2>1, <2>2
  <2>4. StageInv'
    BY <1>1, <1>2, <1>3, <2>1, <2>2 DEF StageInv, W!Running, W!Persistent
  <2>5. SetupKept'
    BY <1>1, <2>2 DEF SetupKept
  <2>6. W!OwnHandles'
    BY <1>1, <1>3, <2>1, <2>3, SetupMocksFields DEF W!OwnHandles, W!Running
  <2>7. W!NoMocksBefore'
    BY <2>3, SetupMocksFields DEF W!NoMocksBefore
  <2>8. W!SetupInForce'
    BY <1>1, <2>2, <2>3 DEF W!SetupInForce, W!SetupMocks, W!Persistent
  <2>9. W!OwnDocument'
    BY <1>1, <2>2 DEF W!OwnDocument, W!Running
  <2>10. QED
    BY <2>4, <2>5, <2>6, <2>7, <2>8, <2>9 DEF Alone, W!RunsAlone, W!CleanStart
<1>8. QED
  BY <1>6, <1>7

(* The file's modules and mocks are of its isolate. *)
LEMMA RunAlone ==
  ASSUME W!ExecuteAssumption, W!TypeOK, Alone, NEW o \in W!Outcomes, NEW mocks \in BOOLEAN,
         NEW notes \in BOOLEAN, W!Run(o, mocks, notes)
  PROVE  Alone'
<1>1. /\ at = "ready" /\ at' = "ran" /\ result' = o
      /\ cur \in badSetup => ~W!IsReport(o)
      /\ UNCHANGED <<mode, iso, saved, forceFresh, snapshot, setupError, domInstalled,
                     document, file, how, cur, badSetup>>
  BY DEF W!Run
<1>2. registry \subseteq registry' /\ \A h \in registry' \ registry : h.iso = cur
  BY DEF W!Run
<1>3. StageInv'
  BY <1>1 DEF Alone, StageInv, W!Running, W!Persistent, W!ReuseEnabled
<1>4. SetupKept'
  BY <1>1, <1>2 DEF Alone, SetupKept, W!SetupMocks
<1>5. W!OwnHandles'
  BY <1>1, <1>2 DEF Alone, W!RunsAlone, W!OwnHandles, W!Running
<1>6. W!CleanStart'
  BY <1>1, <1>2 DEF Alone, W!RunsAlone, W!CleanStart, W!NoMocksBefore, W!SetupInForce,
     W!SetupMocks, W!Running, W!Persistent, W!IsReport
<1>7. W!OwnDocument'
  BY <1>1 DEF Alone, W!RunsAlone, W!OwnDocument, W!Running
<1>8. QED
  BY <1>3, <1>4, <1>5, <1>6, <1>7 DEF Alone, W!RunsAlone

(* The worker lets go of its isolate. *)
LEMMA DropAlone ==
  ASSUME W!TypeOK, Alone, W!DropWorker, ~W!Running', cur' = 0, forceFresh = FALSE,
         UNCHANGED <<mode, how, saved, forceFresh>>
  PROVE  Alone'
<1>1. /\ registry' = {} /\ snapshot' = 0 /\ iso' = 0 /\ domInstalled' = FALSE
      /\ saved' = {} /\ forceFresh' = FALSE
  BY DEF W!DropWorker, Alone, StageInv
<1>2. StageInv' /\ SetupKept'
  BY <1>1 DEF Alone, StageInv, SetupKept, W!ReuseEnabled
<1>3. W!RunsAlone'
  BY <1>1 DEF W!RunsAlone, W!OwnHandles, W!CleanStart, W!NoMocksBefore, W!SetupInForce,
     W!OwnDocument, W!Running
<1>4. QED
  BY <1>2, <1>3 DEF Alone

(* A fresh run gives the worker back what it had. *)
LEMMA RestoreAlone ==
  ASSUME W!TypeOK, Alone, W!RestoreWorker, W!Running, ~W!Running', cur' = 0, how = "fresh",
         UNCHANGED <<mode, how, badSetup>>
  PROVE  Alone'
<1>1. /\ registry' = saved /\ saved' = {} /\ forceFresh' = FALSE /\ domInstalled' = FALSE
      /\ UNCHANGED <<iso, snapshot, setupError>>
  BY DEF W!RestoreWorker
<1>2. /\ forceFresh /\ snapshot = iso /\ (\A h \in saved : h.iso = iso)
      /\ mode # "reuse" => iso = 0
      /\ W!ReuseEnabled
  BY DEF Alone, StageInv, W!RunsAlone, W!OwnHandles
<1>3. StageInv'
  BY <1>1, <1>2 DEF StageInv, W!ReuseEnabled
<1>4. SetupKept'
  BY <1>1, <1>2 DEF Alone, SetupKept, W!SetupMocks
<1>5. W!RunsAlone'
  BY <1>1, <1>2 DEF W!RunsAlone, W!OwnHandles, W!CleanStart, W!NoMocksBefore,
     W!SetupInForce, W!OwnDocument, W!Running
<1>6. QED
  BY <1>3, <1>4, <1>5 DEF Alone

(* A reused run ends, and its isolate may go. *)
LEMMA EndReusedAlone ==
  ASSUME W!ExecuteAssumption, W!TypeOK, Alone, NEW recycle \in BOOLEAN, W!EndReused(recycle)
  PROVE  Alone'
<1>1. /\ at = "ran" /\ W!Running /\ W!Persistent /\ how = "same" /\ mode = "reuse"
      /\ at' = "decide" /\ ~W!Running' /\ cur' = 0
      /\ UNCHANGED <<mode, how, saved, forceFresh, file, badSetup>>
  BY DEF W!EndReused, W!Over, W!Running, W!Persistent
<1>2. forceFresh = FALSE /\ cur = iso /\ iso # 0 /\ saved = {}
  BY <1>1 DEF Alone, StageInv, W!TypeOK
<1>3. CASE recycle
  BY <1>1, <1>2, <1>3, DropAlone DEF W!EndReused
<1>4. CASE ~recycle
  <2>1. /\ document' = W!DocumentAfter(domInstalled)
        /\ UNCHANGED <<iso, registry, snapshot, setupError, domInstalled>>
    BY <1>4 DEF W!EndReused
  <2>2. domInstalled => document' = document /\ document = iso
    BY <1>1, <1>2, <2>1 DEF W!DocumentAfter, W!OnReusePath, Alone, W!RunsAlone, W!OwnDocument
  <2>3. /\ \A h \in registry : h.iso = iso
        /\ snapshot = iso
    BY <1>1, <1>2 DEF Alone, W!RunsAlone, W!OwnHandles
  <2>4. StageInv'
    BY <1>1, <1>2, <2>1 DEF StageInv
  <2>5. SetupKept'
    BY <1>1, <2>1 DEF Alone, SetupKept, W!SetupMocks
  <2>6. W!RunsAlone'
    BY <1>1, <1>2, <2>1, <2>2, <2>3 DEF W!RunsAlone, W!OwnHandles, W!CleanStart,
       W!NoMocksBefore, W!SetupInForce, W!OwnDocument, W!Running
  <2>7. QED
    BY <2>4, <2>5, <2>6 DEF Alone
<1>5. QED
  BY <1>3, <1>4

(* A run on an isolate of its own ends. *)
LEMMA EndFreshAlone ==
  ASSUME W!ExecuteAssumption, W!TypeOK, Alone, W!EndFresh
  PROVE  Alone'
<1>1. /\ at = "ran" /\ W!Running /\ ~W!Persistent /\ ~W!Running' /\ cur' = 0
      /\ UNCHANGED <<mode, how, file, badSetup>>
  BY DEF W!EndFresh, W!Over, W!Running
<1>2. CASE how = "fresh"
  BY <1>1, <1>2, RestoreAlone DEF W!EndFresh
<1>3. CASE how # "fresh"
  <2>1. /\ registry' = {}
        /\ UNCHANGED <<iso, saved, forceFresh, snapshot, setupError, domInstalled>>
    BY <1>3 DEF W!EndFresh
  <2>2. how = "same" /\ mode # "reuse" /\ iso = 0 /\ forceFresh = FALSE /\ snapshot = 0
    BY <1>1, <1>3 DEF Alone, StageInv, W!Persistent, W!TypeOK, W!RunsAlone, W!OwnHandles
  <2>3. saved = {} /\ ~domInstalled
    BY <2>2 DEF Alone, StageInv, W!RunsAlone, W!OwnDocument
  <2>4. StageInv' /\ SetupKept'
    BY <1>1, <2>1, <2>2, <2>3 DEF StageInv, SetupKept
  <2>5. W!RunsAlone'
    BY <1>1, <2>1, <2>2, <2>3 DEF W!RunsAlone, W!OwnHandles, W!CleanStart, W!NoMocksBefore,
       W!SetupInForce, W!OwnDocument, W!Running
  <2>6. QED
    BY <2>4, <2>5 DEF Alone
<1>4. QED
  BY <1>2, <1>3

(* A run panics, in either way. *)
LEMMA PanicAlone ==
  ASSUME W!ExecuteAssumption, W!TypeOK, Alone, W!Panic
  PROVE  Alone'
<1>1. W!Running /\ ~W!Running' /\ cur' = 0 /\ UNCHANGED <<mode, how, badSetup>>
  BY DEF W!Panic, W!Over, W!Running
<1>2. CASE how = "fresh"
  BY <1>1, <1>2, RestoreAlone DEF W!Panic
<1>3. CASE how # "fresh"
  <2>1. forceFresh = FALSE
    BY <1>3 DEF Alone, StageInv, W!TypeOK
  <2>2. QED
    BY <1>1, <1>3, <2>1, DropAlone DEF W!Panic
<1>4. QED
  BY <1>2, <1>3

(* The worker ends. *)
LEMMA EndWorkerAlone ==
  ASSUME W!ExecuteAssumption, W!TypeOK, Alone, W!EndWorker
  PROVE  Alone'
<1>1. /\ ~W!Running /\ ~W!Running' /\ UNCHANGED <<mode, how, cur, badSetup>>
  BY DEF W!EndWorker, W!Running
<1>2. CASE iso = 0
  BY <1>1, <1>2, AloneUnchanged DEF W!EndWorker, Alone, StageInv, W!ReuseEnabled
<1>3. CASE iso # 0
  <2>1. forceFresh = FALSE /\ cur = 0
    BY <1>1, BetweenRuns
  <2>2. W!DropWorker /\ UNCHANGED <<saved, forceFresh>>
    BY <1>3 DEF W!EndWorker
  <2>3. QED
    BY <1>1, <2>1, <2>2, DropAlone
<1>4. QED
  BY <1>2, <1>3

(* Each step keeps the first half. *)
LEMMA AloneNext ==
  ASSUME W!ExecuteAssumption, W!TypeOK, Alone, [W!Next]_(W!vars)
  PROVE  Alone'
<1>1. CASE UNCHANGED W!vars
  BY <1>1 DEF W!vars, Alone, StageInv, SetupKept, W!SetupMocks, W!RunsAlone, W!OwnHandles,
     W!CleanStart, W!NoMocksBefore, W!SetupInForce, W!OwnDocument, W!Running, W!Persistent,
     W!ReuseEnabled, W!IsReport
<1>2. ASSUME NEW f \in TestFiles, W!Start(f)
      PROVE  Alone'
  BY <1>2, AloneUnchanged DEF W!Start, W!Running
<1>3. CASE W!Decide
  <2>1. how' = "fresh" => W!ReuseEnabled
    BY <1>3 DEF W!Decide, Alone, StageInv
  <2>2. QED
    BY <1>3, <2>1, AloneUnchanged DEF W!Decide, W!Running
<1>4. QED
  BY <1>1, <1>2, <1>3, BeginFirstAlone, BeginNextAlone, BeginFreshAlone, RunAlone,
     EndReusedAlone, EndFreshAlone, PanicAlone, EndWorkerAlone DEF W!Next, W!Begin, W!End

-----------------------------------------------------------------------------
(* Attempts                                                                *)

(* What neither starts nor ends a run nor notes an error keeps it. *)
LEMMA AttemptsBegun ==
  ASSUME W!TypeOK, Attempts, at = "begin", at' = "ready", noted' = W!NoError,
         UNCHANGED <<mode, info, file, how, best, tries, runs>>
  PROVE  Attempts'
<1>1. RunsInv'
  BY DEF Attempts, RunsInv, Unstarted, Before, Taken, Attempting
<1>2. KeptInv'
  BY DEF Attempts, KeptInv, Attempting, W!IsReport
<1>3. NotedInv'
  BY DEF NotedInv
<1>4. W!Verdict'
  BY DEF Attempts, W!Verdict, W!IsReport
<1>5. QED
  BY <1>1, <1>2, <1>3, <1>4 DEF Attempts

(* The file runs, and notes its error. *)
LEMMA AttemptsRun ==
  ASSUME W!TypeOK, Attempts, NEW o \in W!Outcomes, NEW mocks \in BOOLEAN,
         NEW notes \in BOOLEAN,
         W!Run(o, mocks, notes)
  PROVE  Attempts'
<1>1. /\ at = "ready" /\ at' = "ran"
      /\ noted' = IF notes THEN [file |-> file, run |-> Len(runs) + 1] ELSE noted
      /\ UNCHANGED <<mode, info, file, how, best, tries, runs>>
  BY DEF W!Run
<1>2. RunsInv'
  BY <1>1 DEF Attempts, RunsInv, Unstarted, Before, Taken, Attempting
<1>3. KeptInv'
  <2>1. result' \in W!Outcomes
    BY DEF W!Run
  <2>2. QED
    BY <1>1, <2>1 DEF Attempts, KeptInv, Attempting, W!IsReport
<1>4. NotedInv'
  BY <1>1 DEF Attempts, NotedInv
<1>5. W!Verdict'
  BY <1>1 DEF Attempts, W!Verdict, W!IsReport
<1>6. QED
  BY <1>2, <1>3, <1>4, <1>5 DEF Attempts

(* The elements of a sequence. *)
LEMMA Elements ==
  ASSUME NEW S, NEW s \in Seq(S)
  PROVE  Len(s) \in Nat /\ \A k \in 1 .. Len(s) : s[k] \in S
OBVIOUS

(* The runs and tries. *)
LEMMA RunsType ==
  ASSUME W!TypeOK
  PROVE  /\ Len(runs) \in Nat /\ tries \in 0 .. 2 /\ how \in {"same", "fresh"}
         /\ \A k \in 1 .. Len(runs) : /\ runs[k].how \in {"same", "fresh"}
                                      /\ runs[k].outcome \in W!Outcomes
<1>1. runs \in Seq([how : {"same", "fresh"}, outcome : W!Outcomes])
  BY DEF W!TypeOK
<1>2. tries \in 0 .. 2 /\ how \in {"same", "fresh"}
  BY DEF W!TypeOK
<1>3. \A k \in 1 .. Len(runs) : runs[k] \in [how : {"same", "fresh"}, outcome : W!Outcomes]
  BY <1>1, Elements
<1>4. Len(runs) \in Nat
  BY <1>1, Elements
<1>5. QED
  BY <1>2, <1>3, <1>4

(* How many runs there can have been. *)
LEMMA RunsBound ==
  ASSUME W!TypeOK, RunsInv, ~Unstarted
  PROVE  /\ Len(runs) = Before + Taken /\ Before \in 0 .. 3 /\ Taken \in 0 .. 3
         /\ Len(runs) <= 6
<1>1. Len(runs) \in Nat /\ tries \in 0 .. 2 /\ Taken \in 0 .. 3 /\ Before \in 0 .. 3
  BY RunsType DEF RunsInv, Taken
<1>2. QED
  BY <1>1 DEF Before

(* Of runs in two ways, one after the other, no more than three are of a   *)
(* way when there are no more than three of each.                          *)
LEMMA ThreeTries ==
  ASSUME NEW r, NEW n \in Nat, NEW b \in 0 .. 3, NEW t \in 0 .. 3, n = b + t,
         NEW w \in {"same", "fresh"}, w = "same" => b = 0,
         \A k \in 1 .. n : r[k].how = IF k <= b THEN "same" ELSE w,
         NEW h \in {"same", "fresh"}
  PROVE  Cardinality({k \in 1 .. n : r[k].how = h}) <= 3
<1> DEFINE K == {k \in 1 .. n : r[k].how = h}
<1>1. ASSUME NEW i \in Nat, NEW j \in Nat, K \subseteq (i + 1) .. j, j <= i + 3
      PROVE  Cardinality(K) <= 3
  <2>1. /\ IsFiniteSet((i + 1) .. j)
        /\ Cardinality((i + 1) .. j) = IF i + 1 > j THEN 0 ELSE j - (i + 1) + 1
    BY FS_Interval
  <2>2. Cardinality(K) <= Cardinality((i + 1) .. j) /\ IsFiniteSet(K)
    BY <1>1, <2>1, FS_Subset
  <2>3. Cardinality(K) \in Nat
    BY <2>2, FS_CardinalityType
  <2>4. QED
    BY <1>1, <2>1, <2>2, <2>3
<1>2. CASE h = w
  <2>1. K \subseteq (b + 1) .. n
    BY <1>2
  <2>2. QED
    BY <1>1, <2>1
<1>3. CASE h # w
  <2>1. K \subseteq (0 + 1) .. b
    BY <1>3
  <2>2. QED
    BY <1>1, <2>1
<1>4. QED
  BY <1>2, <1>3

(* A run is over: it is one more of its way. *)
LEMMA AttemptsOver ==
  ASSUME W!TypeOK, Attempts, at \in {"ready", "ran"}, NEW o \in W!Outcomes, W!Over(o)
  PROVE  Attempts'
<1> DEFINE N == Len(runs)
<1>1. /\ N \in Nat /\ result' = o /\ at' = "decide"
      /\ Len(runs') = N + 1 /\ runs'[N + 1] = [how |-> how, outcome |-> o]
      /\ \A k \in 1 .. N : runs'[k] = runs[k]
      /\ UNCHANGED <<mode, file, how, best, tries, noted, info>>
  BY DEF W!Over, W!TypeOK
<1>2. /\ file \in TestFiles
      /\ N = Before + tries /\ Before \in 0 .. 3 /\ tries \in 0 .. 2
      /\ how = "same" => Before = 0
      /\ \A k \in 1 .. N : runs[k].how = IF k <= Before THEN "same" ELSE how
      /\ how \in {"same", "fresh"}
  BY RunsBound, RunsType DEF Attempts, RunsInv, Unstarted, Taken, Attempting
<1>3. /\ best = IF tries = 0 THEN W!None ELSE "error"
      /\ tries > 0 /\ how = "same" => runs[1].outcome # "oom"
      /\ tries > 0 => ~W!IsReport(runs[N].outcome)
  BY DEF Attempts, KeptInv, Attempting
<1>4. /\ Before' = Before
      /\ ~Unstarted'
  BY <1>1, <1>2 DEF Before, Taken, Attempting, Unstarted
<1>5. RunsInv'
  BY <1>1, <1>2, <1>4 DEF RunsInv
<1>6. KeptInv'
  <2>1. ~Attempting'
    BY <1>1 DEF Attempting
  <2>2. tries' > 0 /\ how' = "same" => runs'[1].outcome # "oom"
    BY <1>1, <1>2, <1>3
  <2>3. QED
    BY <1>1, <1>3, <2>1, <2>2 DEF KeptInv
<1>7. NotedInv'
  BY <1>1 DEF Attempts, NotedInv
<1>8. W!Verdict'
  <2>1. ASSUME NEW k \in 1 .. N
        PROVE  /\ runs'[k].how = runs'[k + 1].how => ~W!IsReport(runs'[k].outcome)
               /\ runs'[k + 1].how = "same" => runs'[1].outcome # "oom"
    <3>1. CASE k = N
      BY <1>1, <1>2, <1>3, <3>1
    <3>2. CASE k # N
      BY <1>1, <3>2 DEF Attempts, W!Verdict, W!IsReport
    <3>3. QED
      BY <3>1, <3>2
  <2>2. \A h \in {"same", "fresh"} :
          W!Cardinality({k \in 1 .. Len(runs') : runs'[k].how = h}) <= 3
    <3>1. /\ Len(runs') = Before + (tries + 1) /\ Len(runs') \in Nat /\ tries + 1 \in 0 .. 3
          /\ \A k \in 1 .. Len(runs') : runs'[k].how = IF k <= Before THEN "same" ELSE how
      BY <1>1, <1>2
    <3>2. \A h \in {"same", "fresh"} :
            Cardinality({k \in 1 .. Len(runs') : runs'[k].how = h}) <= 3
      BY <1>2, <3>1, ThreeTries, ZenonT(60)
    <3>3. QED
      BY <3>2, SameCardinality
  <2>3. QED
    BY <1>1, <2>1, <2>2 DEF W!Verdict, W!IsReport
<1>9. QED
  BY <1>5, <1>6, <1>7, <1>8 DEF Attempts

(* A file is started. *)
LEMMA AttemptsStart ==
  ASSUME W!TypeOK, Attempts, NEW f \in TestFiles, W!Start(f)
  PROVE  Attempts'
<1>1. /\ at = "next" /\ at' = "begin" /\ how' = "same" /\ best' = W!None /\ tries' = 0
      /\ file' \in TestFiles
      /\ runs' = <<>> /\ Len(runs') = 0
  BY DEF W!Start
<1>2. RunsInv'
  BY <1>1 DEF RunsInv, Before, Taken, Attempting
<1>3. KeptInv' /\ NotedInv'
  BY <1>1 DEF KeptInv, NotedInv, Attempting
<1>4. W!Verdict'
  <2>1. \A h : {k \in 1 .. Len(runs') : runs'[k].how = h} = {}
    BY <1>1
  <2>2. \A h : W!Cardinality({k \in 1 .. Len(runs') : runs'[k].how = h}) <= 3
    BY <2>1, FS_EmptySet, SameCardinality
  <2>3. QED
    BY <1>1, <2>2 DEF W!Verdict
<1>5. QED
  BY <1>2, <1>3, <1>4 DEF Attempts

(* The result of an attempt is decided on. *)
LEMMA AttemptsDecide ==
  ASSUME W!TypeOK, Attempts, W!Decide
  PROVE  Attempts'
<1> DEFINE N == Len(runs)
           kept == IF best = W!None \/ W!Better(result, best) THEN result ELSE best
<1>1. at = "decide" /\ UNCHANGED <<mode, file, runs>>
  BY DEF W!Decide
<1>2. /\ file \in TestFiles
      /\ N = Before + (tries + 1) /\ Before \in 0 .. 3 /\ tries \in 0 .. 2 /\ N \in Nat
      /\ how \in {"same", "fresh"} /\ (how = "same" => Before = 0)
      /\ \A k \in 1 .. N : runs[k].how = IF k <= Before THEN "same" ELSE how
  BY <1>1, RunsBound, RunsType DEF Attempts, RunsInv, Unstarted, Taken, Attempting
<1>3. /\ best = IF tries = 0 THEN W!None ELSE "error"
      /\ tries > 0 /\ how = "same" => runs[1].outcome # "oom"
      /\ result = runs[N].outcome /\ result \in W!Outcomes
  BY <1>1, <1>2, RunsType DEF Attempts, KeptInv
<1>4. /\ kept = "error" => ~W!IsReport(result) /\ (tries = 0 => result = "error")
      /\ W!IsReport(kept) <=> W!IsReport(result)
      /\ W!IsReport(kept) => kept = result
      /\ kept \in W!Outcomes
  BY <1>3 DEF W!Better, W!IsReport, W!Outcomes, W!None
<1>5. W!Verdict /\ noted \in {W!NoError, [file |-> file, run |-> N]}
  BY <1>1 DEF Attempts, NotedInv
<1>6. CASE /\ W!MayRetry(kept, tries) /\ best' = kept /\ tries' = tries + 1 /\ at' = "begin"
           /\ UNCHANGED <<how, done, noted, info>>
  <2>1. kept = "error" /\ tries < 2
    BY <1>6 DEF W!MayRetry, W!LooksTransient
  <2>2. RunsInv'
    <3>1. Before' = Before
      BY <1>1, <1>2, <1>6 DEF Before, Taken, Attempting
    <3>2. QED
      BY <1>1, <1>2, <1>6, <3>1 DEF RunsInv
  <2>3. KeptInv'
    <3>1. how = "same" => runs[1].outcome # "oom"
      BY <1>2, <1>3, <1>4, <2>1
    <3>2. ~W!IsReport(runs[N].outcome)
      BY <1>3, <1>4, <2>1
    <3>3. QED
      BY <1>1, <1>2, <1>6, <2>1, <3>1, <3>2 DEF KeptInv, W!IsReport
  <2>4. NotedInv' /\ W!Verdict'
    BY <1>1, <1>5, <1>6 DEF NotedInv, W!Verdict, W!IsReport
  <2>5. QED
    BY <2>2, <2>3, <2>4 DEF Attempts
<1>7. CASE /\ how = "same" /\ how' = "fresh" /\ best' = W!None /\ tries' = 0 /\ at' = "begin"
           /\ UNCHANGED <<done, noted, info>>
  <2>1. RunsInv'
    <3>1. Before' = N /\ N \in 0 .. 3 /\ Before = 0
      BY <1>1, <1>2, <1>7 DEF Before, Taken, Attempting
    <3>2. QED
      BY <1>1, <1>2, <1>7, <3>1 DEF RunsInv
  <2>2. KeptInv'
    BY <1>7 DEF KeptInv
  <2>3. NotedInv' /\ W!Verdict'
    BY <1>1, <1>5, <1>7 DEF NotedInv, W!Verdict, W!IsReport
  <2>4. QED
    BY <2>1, <2>2, <2>3 DEF Attempts
<1>8. CASE /\ ~(how = "same" /\ W!ReuseEnabled /\ kept # "final")
           /\ best' = kept /\ at' = "next" /\ W!FileResult(kept) /\ UNCHANGED <<how, tries>>
  <2>1. RunsInv'
    <3>1. Before' = Before
      BY <1>1, <1>2, <1>8 DEF Before, Taken, Attempting
    <3>2. QED
      BY <1>1, <1>2, <1>8, <3>1 DEF RunsInv
  <2>2. KeptInv' /\ NotedInv'
    BY <1>8 DEF KeptInv, NotedInv, Attempting
  <2>3. W!Verdict'
    <3>1. /\ W!IsReport(best') <=> W!IsReport(runs[N].outcome)
          /\ W!IsReport(best') => best' = runs[N].outcome
      BY <1>3, <1>4, <1>8
    <3>2. W!ReuseEnabled => best' = "final" \/ runs[N].how = "fresh"
      BY <1>2, <1>8
    <3>3. info' # W!NoError => ~W!IsReport(best') /\ info' = [file |-> file, run |-> N]
      BY <1>5, <1>8 DEF W!FileResult
    <3>4. QED
      BY <1>1, <1>5, <1>8, <3>1, <3>2, <3>3 DEF W!Verdict, W!IsReport, W!ReuseEnabled
  <2>4. QED
    BY <2>1, <2>2, <2>3 DEF Attempts
<1>9. QED
  BY <1>6, <1>7, <1>8 DEF W!Decide

(* The worker ends. *)
LEMMA AttemptsEnd ==
  ASSUME W!TypeOK, Attempts, W!EndWorker
  PROVE  Attempts'
<1>1. at = "next" /\ at' = "ended" /\ UNCHANGED <<mode, file, how, best, tries, info, runs>>
  BY DEF W!EndWorker
<1>2. RunsInv'
  BY <1>1 DEF Attempts, RunsInv, Unstarted, Before, Taken, Attempting
<1>3. KeptInv' /\ NotedInv'
  BY <1>1 DEF KeptInv, NotedInv, Attempting
<1>4. W!Verdict'
  BY <1>1 DEF Attempts, W!Verdict, W!IsReport
<1>5. QED
  BY <1>2, <1>3, <1>4 DEF Attempts

(* Each step keeps the second half. *)
LEMMA AttemptsNext ==
  ASSUME W!TypeOK, Attempts, [W!Next]_(W!vars)
  PROVE  Attempts'
<1>1. CASE UNCHANGED W!vars
  BY <1>1 DEF W!vars, Attempts, RunsInv, KeptInv, NotedInv, W!Verdict, Unstarted, Before, Taken,
     Attempting, W!IsReport, W!ReuseEnabled
<1>2. CASE W!Begin
  BY <1>2, AttemptsBegun DEF W!Begin, W!BeginFirst, W!BeginNext, W!BeginFresh, W!Cleared
<1>3. CASE W!End
  <2>1. \E o \in W!Outcomes : W!Over(o) /\ at \in {"ready", "ran"}
    BY <1>3 DEF W!End, W!EndReused, W!EndFresh, W!Panic, Attempts, KeptInv, W!Outcomes
  <2>2. QED
    BY <2>1, AttemptsOver
<1>4. QED
  BY <1>1, <1>2, <1>3, AttemptsStart, AttemptsRun, AttemptsDecide, AttemptsEnd DEF W!Next

-----------------------------------------------------------------------------
(* Types                                                                   *)

(* The flags. *)
LEMMA FlagTypes ==
  ASSUME W!TypeOK, W!Next
  PROVE  {forceFresh, setupError, domInstalled}' \subseteq BOOLEAN
<1>1. forceFresh \in BOOLEAN /\ setupError \in BOOLEAN /\ domInstalled \in BOOLEAN
  BY DEF W!TypeOK
<1>2. forceFresh' \in BOOLEAN
  BY <1>1 DEF W!Next, W!Start, W!Begin, W!BeginFirst, W!BeginNext, W!BeginFresh, W!Run,
     W!End, W!EndReused, W!EndFresh, W!Panic, W!RestoreWorker, W!Decide, W!EndWorker,
     W!locals
<1>3. setupError' \in BOOLEAN
  BY <1>1 DEF W!Next, W!Start, W!Begin, W!BeginFirst, W!BeginNext, W!BeginFresh, W!Run,
     W!End, W!EndReused, W!EndFresh, W!Panic, W!RestoreWorker, W!DropWorker, W!Decide,
     W!EndWorker, W!locals
<1>4. domInstalled' \in BOOLEAN
  BY <1>1 DEF W!Next, W!Start, W!Begin, W!BeginFirst, W!BeginNext, W!BeginFresh, W!Run,
     W!End, W!EndReused, W!EndFresh, W!Panic, W!RestoreWorker, W!DropWorker, W!Decide,
     W!EndWorker, W!locals
<1>5. QED
  BY <1>2, <1>3, <1>4

(* The isolates. *)
LEMMA IsolateTypes ==
  ASSUME W!TypeOK, W!Next
  PROVE  /\ {iso, snapshot, document, cur}' \subseteq W!Isolates \union {0}
         /\ badSetup' \subseteq W!Isolates
<1>1. /\ iso \in W!Isolates \union {0} /\ snapshot \in W!Isolates \union {0}
      /\ document \in W!Isolates \union {0} /\ cur \in W!Isolates \union {0}
      /\ badSetup \subseteq W!Isolates
  BY DEF W!TypeOK
<1>2. ASSUME NEW throws \in BOOLEAN, W!NewIsolate(throws)
      PROVE  cur' \in W!Isolates /\ badSetup' \subseteq W!Isolates
  BY <1>1, <1>2 DEF W!NewIsolate
<1>3. CASE \E throws \in BOOLEAN : W!BeginFirst(throws) \/ W!BeginFresh(throws)
  BY <1>1, <1>2, <1>3 DEF W!BeginFirst, W!BeginFresh
<1>4. CASE W!BeginNext \/ \E o \in W!Outcomes, mocks, notes \in BOOLEAN : W!Run(o, mocks, notes)
  BY <1>1, <1>4 DEF W!BeginNext, W!Run
<1>5. CASE W!End
  BY <1>1, <1>5 DEF W!End, W!EndReused, W!EndFresh, W!Panic, W!Over, W!DropWorker,
     W!RestoreWorker, W!DocumentAfter
<1>6. CASE W!Decide \/ W!EndWorker \/ \E f \in TestFiles : W!Start(f)
  BY <1>1, <1>6 DEF W!Decide, W!EndWorker, W!Start, W!DropWorker, W!locals
<1>7. QED
  BY <1>3, <1>4, <1>5, <1>6 DEF W!Next, W!Begin

(* The handles. *)
LEMMA HandleTypes ==
  ASSUME W!TypeOK, Alone, W!Next
  PROVE  registry' \subseteq W!Handles /\ saved' \subseteq W!Handles
<1>1. registry \subseteq W!Handles /\ saved \subseteq W!Handles
  BY DEF W!TypeOK
<1>2. ASSUME NEW i \in W!Isolates
      PROVE  W!SetupMocks(i) \in W!Handles
  BY DEF W!SetupMocks, W!Handles
<1>3. CASE \E throws \in BOOLEAN : W!BeginFirst(throws) \/ W!BeginFresh(throws)
  <2>1. cur' \in W!Isolates
    BY <1>3 DEF W!BeginFirst, W!BeginFresh, W!NewIsolate
  <2>2. QED
    BY <1>1, <1>2, <1>3, <2>1 DEF W!BeginFirst, W!BeginFresh
<1>4. ASSUME NEW o \in W!Outcomes, NEW mocks \in BOOLEAN, NEW notes \in BOOLEAN,
             W!Run(o, mocks, notes)
      PROVE  registry' \subseteq W!Handles /\ saved' \subseteq W!Handles
  <2>1. cur \in W!Isolates /\ file \in TestFiles \union {W!None}
    BY <1>4 DEF W!Run, Alone, StageInv, W!Running, W!TypeOK
  <2>2. \A kind \in {"module", "testMock", "linked"} :
          [iso |-> cur, kind |-> kind, file |-> file] \in W!Handles
    BY <2>1 DEF W!Handles
  <2>3. QED
    BY <1>1, <1>4, <2>2 DEF W!Run
<1>5. CASE W!BeginNext \/ W!End \/ W!Decide \/ W!EndWorker \/ \E f \in TestFiles : W!Start(f)
  BY <1>1, <1>5 DEF W!BeginNext, W!End, W!EndReused, W!EndFresh, W!Panic, W!DropWorker,
     W!RestoreWorker, W!Decide, W!EndWorker, W!Start, W!locals
<1>6. QED
  BY <1>3, <1>4, <1>5 DEF W!Next, W!Begin

(* The file under way and its attempts. *)
LEMMA AttemptTypes ==
  ASSUME W!TypeOK, Attempts, W!Next
  PROVE  /\ mode' \in {"isolated", "reuse", "coverage"}
         /\ at' \in {"next", "begin", "ready", "ran", "decide", "ended"}
         /\ file' \in TestFiles \union {W!None} /\ how' \in {"same", "fresh"}
         /\ best' \in W!Outcomes \union {W!None} /\ result' \in W!Outcomes \union {W!None}
         /\ tries' \in 0 .. 2 /\ done' \subseteq TestFiles
<1>1. /\ mode \in {"isolated", "reuse", "coverage"}
      /\ at \in {"next", "begin", "ready", "ran", "decide", "ended"}
      /\ file \in TestFiles \union {W!None} /\ how \in {"same", "fresh"}
      /\ best \in W!Outcomes \union {W!None} /\ result \in W!Outcomes \union {W!None}
      /\ tries \in 0 .. 2 /\ done \subseteq TestFiles
  BY DEF W!TypeOK
<1>2. CASE W!Begin
  BY <1>1, <1>2 DEF W!Begin, W!BeginFirst, W!BeginNext, W!BeginFresh
<1>3. CASE W!End
  BY <1>1, <1>3 DEF W!End, W!EndReused, W!EndFresh, W!Panic, W!Over, W!Outcomes
<1>4. CASE W!Decide
  <2>1. file \in TestFiles
    BY <1>4 DEF W!Decide, Attempts, RunsInv, Unstarted
  <2>2. done' \subseteq TestFiles /\ UNCHANGED <<mode, file, result>>
    BY <1>1, <1>4, <2>1 DEF W!Decide
  <2>3. at' \in {"begin", "next"} /\ how' \in {"same", "fresh"} /\ tries' \in 0 .. 2
    BY <1>1, <1>4 DEF W!Decide, W!MayRetry
  <2>4. best' \in W!Outcomes \union {W!None}
    BY <1>1, <1>4 DEF W!Decide
  <2>5. QED
    BY <1>1, <2>2, <2>3, <2>4
<1>5. CASE W!EndWorker \/ (\E f \in TestFiles : W!Start(f))
             \/ \E o \in W!Outcomes, mocks, notes \in BOOLEAN : W!Run(o, mocks, notes)
  BY <1>1, <1>5 DEF W!EndWorker, W!Start, W!Run
<1>6. QED
  BY <1>2, <1>3, <1>4, <1>5 DEF W!Next

(* The errors noted and the runs. *)
LEMMA ErrorTypes ==
  ASSUME W!TypeOK, Attempts, W!Next
  PROVE  /\ {noted, info}' \subseteq [file : TestFiles \union {W!None}, run : 0 .. 6]
         /\ runs' \in Seq([how : {"same", "fresh"}, outcome : W!Outcomes])
<1>1. /\ noted \in [file : TestFiles \union {W!None}, run : 0 .. 6]
      /\ info \in [file : TestFiles \union {W!None}, run : 0 .. 6]
      /\ W!NoError \in [file : TestFiles \union {W!None}, run : 0 .. 6]
      /\ runs \in Seq([how : {"same", "fresh"}, outcome : W!Outcomes])
      /\ how \in {"same", "fresh"}
  BY DEF W!TypeOK, W!NoError
<1>2. CASE W!Begin
  BY <1>1, <1>2 DEF W!Begin, W!BeginFirst, W!BeginNext, W!BeginFresh, W!Cleared
<1>3. ASSUME NEW o \in W!Outcomes, NEW mocks \in BOOLEAN, NEW notes \in BOOLEAN,
             W!Run(o, mocks, notes)
      PROVE  /\ {noted, info}' \subseteq [file : TestFiles \union {W!None}, run : 0 .. 6]
             /\ runs' \in Seq([how : {"same", "fresh"}, outcome : W!Outcomes])
  <2>1. Len(runs) \in Nat /\ Len(runs) = Before + tries /\ tries \in 0 .. 2 /\ Before \in 0 .. 3
    BY <1>3, RunsBound, RunsType DEF W!Run, Attempts, Unstarted, Taken, Attempting
  <2>2. file \in TestFiles \union {W!None}
    BY DEF W!TypeOK
  <2>3. [file |-> file, run |-> Len(runs) + 1]
          \in [file : TestFiles \union {W!None}, run : 0 .. 6]
    BY <2>1, <2>2
  <2>4. QED
    BY <1>1, <1>3, <2>3 DEF W!Run
<1>4. CASE W!End
  <2>1. PICK o \in W!Outcomes : W!Over(o)
    BY <1>4 DEF W!End, W!EndReused, W!EndFresh, W!Panic, Attempts, KeptInv, W!Outcomes
  <2>2. QED
    BY <1>1, <2>1 DEF W!Over
<1>5. CASE W!Decide
  <2>1. runs' = runs /\ noted' \in {noted, W!NoError} /\ info' \in {info, noted, W!NoError}
    BY <1>5 DEF W!Decide, W!FileResult
  <2>2. QED
    BY <1>1, <2>1
<1>6. CASE W!EndWorker \/ \E f \in TestFiles : W!Start(f)
  <2>1. runs' \in {runs, <<>>} /\ noted' = noted /\ info' = info
    BY <1>6 DEF W!EndWorker, W!Start
  <2>2. <<>> \in Seq([how : {"same", "fresh"}, outcome : W!Outcomes])
    OBVIOUS
  <2>3. QED
    BY <1>1, <2>1, <2>2
<1>7. QED
  BY <1>2, <1>3, <1>4, <1>5, <1>6 DEF W!Next

(* Each step keeps the types. *)
LEMMA TypeNext ==
  ASSUME W!TypeOK, Alone, Attempts, [W!Next]_(W!vars)
  PROVE  W!TypeOK'
<1>1. CASE UNCHANGED W!vars
  BY <1>1 DEF W!vars, W!TypeOK, W!Isolates
<1>2. CASE W!Next
  BY <1>2, FlagTypes, IsolateTypes, HandleTypes, AttemptTypes, ErrorTypes DEF W!TypeOK
<1>3. QED
  BY <1>1, <1>2

-----------------------------------------------------------------------------
(* The theorems                                                            *)

(* The start satisfies the second half. *)
LEMMA AttemptsInit == W!Init => Attempts
<1> SUFFICES ASSUME W!Init
             PROVE  Attempts
  OBVIOUS
<1>1. RunsInv /\ KeptInv /\ NotedInv
  BY DEF W!Init, RunsInv, Unstarted, KeptInv, Attempting, NotedInv
<1>2. \A h : {k \in 1 .. Len(runs) : runs[k].how = h} = {}
  BY DEF W!Init
<1>3. \A h : W!Cardinality({k \in 1 .. Len(runs) : runs[k].how = h}) <= 3
  BY <1>2, FS_EmptySet, SameCardinality
<1>4. W!Verdict
  BY <1>3 DEF W!Init, W!Verdict
<1>5. QED
  BY <1>1, <1>4 DEF Attempts

(* The invariant: isolates are told apart by what refers to them, and the  *)
(* runs of a file are accounted for by its tries, in execute_file and the  *)
(* runner's two ways to run a file.                                        *)
THEOREM WorkerInductiveInvariance ==
  ASSUME W!ExecuteAssumption
  PROVE  W!Spec => []WorkerInductive
<1>1. W!Init => WorkerInductive
  BY AloneInit, AttemptsInit DEF WorkerInductive
<1>2. WorkerInductive /\ [W!Next]_(W!vars) => WorkerInductive'
  BY AloneNext, AttemptsNext, TypeNext DEF WorkerInductive
<1>3. QED
  BY <1>1, <1>2, PTL DEF W!Spec

(* Every variable keeps its type, for any files and isolates: in           *)
(* particular no file is run more than six times, and no thread-local      *)
(* refers to anything but an isolate of the thread.                        *)
THEOREM ExecuteTypeCorrect ==
  ASSUME W!ExecuteAssumption
  PROVE  W!Spec => []W!TypeOK
<1>1. WorkerInductive => W!TypeOK
  BY DEF WorkerInductive
<1>2. QED
  BY <1>1, WorkerInductiveInvariance, PTL

(* Whatever ran before it, in whichever way, and however it ended, a run   *)
(* meets handles, mocks and a document of its own isolate and file only,   *)
(* and the mocks of setup: reset between files, clear_registry,            *)
(* forget_registry and run_fresh_with leave nothing else.                  *)
THEOREM RunsAloneHolds ==
  ASSUME W!ExecuteAssumption
  PROVE  W!Spec => []RunsAlone
<1>1. WorkerInductive => RunsAlone
  BY DEF WorkerInductive, Alone, RunsAlone
<1>2. QED
  BY <1>1, WorkerInductiveInvariance, PTL

(* The result kept for a file is the right attempt's, with that attempt's  *)
(* error: execute_file's retries and fresh verdict.                        *)
THEOREM VerdictHolds ==
  ASSUME W!ExecuteAssumption
  PROVE  W!Spec => []Verdict
<1>1. WorkerInductive => Verdict
  BY DEF WorkerInductive, Attempts, Verdict
<1>2. QED
  BY <1>1, WorkerInductiveInvariance, PTL

-----------------------------------------------------------------------------
(* The tests of one file: what is invariant of them                        *)

(* What the constants are, of the tests of a file. *)
LEMMA TestRunFacts ==
  /\ NHooks \in Nat \ {0}
  /\ Root \in Suites /\ Tests \intersect Suites = {}
  /\ \A tree \in Trees : T!Nested(tree)
BY TestsAssumption DEF T!TestRunAssumption

Decls ==
  [tasks : Trees, mode : [T!Tasks -> T!Modes], fails : SUBSET Tests, filtered : SUBSET Tests,
   retry : 0 .. 1, forbid : BOOLEAN, passWithNoTests : BOOLEAN]

Frames ==
  [suite : Suites, mode : {"none", "skip", "todo", "hook"}, next : Nat, step : {"tasks", "beforeAll"},
   calls : Nat, hook : BOOLEAN, failed : BOOLEAN]

AttemptSteps == {"beforeEach", "body", "afterEach", "finished", "failed", "end"}

AttemptStates ==
  [test : Tests, no : Nat, step : AttemptSteps, calls : Nat, ok : BOOLEAN,
   state : {"run", "pass", "fail", "skip"}, pending : BOOLEAN, errors : Nat, mark : Nat, kept : Nat]

Records == [test : Tests, status : {"passed", "failed", "skipped", "todo", "pending"}]
Kinds == DOMAIN T!Nothing
Steps == [k : Int, o : T!Outcomes]
Calls == DOMAIN T!NoCalls

Types ==
  /\ decl \in Decls
  /\ stack \in Seq(Frames)
  /\ att = T!NoAttempt \/ att \in AttemptStates
  /\ records \in Seq(Records)
  /\ told \in [Suites \ {Root} -> {"none", "fail", "todo", "skip", "pass"}]
  /\ progress \in {"start", "run", "ran", "stuck", "ERROR", "PASS", "FAIL"}
  /\ did \in [Kinds -> Seq(Steps)]
  /\ hooked \in [Suites -> [Calls -> Seq({"ok", "throw"})]]

(* What the walk through the tree is done with. *)
OnStack(s) == \E i \in DOMAIN stack : stack[i].suite = s
Recorded(t) == \E r \in T!Range(records) : r.test = t
Gone(s) == IF s = Root THEN progress # "start" /\ stack = <<>> ELSE told[s] # "none"
Past(x) == IF x \in Suites THEN Gone(x) ELSE Recorded(x)

(* The stack is a chain of the tree, ... *)
Chained(i) ==
  LET f == stack[i]
  IN /\ f.next \in 1 .. Len(T!tasks[f.suite]) + 1
     /\ i = 1 => f.suite = Root
     /\ T!Chain(f.suite) = [j \in 1 .. i - 1 |-> stack[j].suite]
     /\ f.suite = Root \/ T!Collected(f.suite)
     /\ i < Len(stack) => /\ f.step = "tasks" /\ f.calls = 0 /\ f.next > 1
                          /\ T!tasks[f.suite][f.next - 1] = stack[i + 1].suite

NestInv ==
  /\ progress \in {"run", "stuck"} => stack # <<>>
  /\ progress \in {"start", "ran", "PASS", "FAIL"} => stack = <<>>
  /\ \A i \in DOMAIN stack : Chained(i)

(* ... of suites entered once; what comes before a frame's next task is    *)
(* past, the rest ahead; ...                                               *)
Distinct == \A i, j \in DOMAIN stack : stack[i].suite = stack[j].suite => i = j

InOrder(i) ==
  \A k \in DOMAIN T!tasks[stack[i].suite] :
    LET x == T!tasks[stack[i].suite][k]
    IN IF k < stack[i].next THEN Past(x) \/ (i < Len(stack) /\ k = stack[i].next - 1)
       ELSE ~Past(x) /\ ~OnStack(x)

(* ... a suite is left when all that is in it is past, and what is past or *)
(* under way is so within its suite; a suite's hooks are called while it   *)
(* is on the stack.                                                        *)
WholeSuites == \A s \in Suites : Gone(s) => ~OnStack(s) /\ \A x \in T!Children(s) : Past(x)

WithinSuites ==
  \A x \in T!Tasks : Past(x) \/ OnStack(x) =>
    T!Collected(x) /\ (Gone(T!ParentOf(x)) \/ OnStack(T!ParentOf(x)))

Unentered == \A s \in Suites : ~Gone(s) /\ ~OnStack(s) => hooked[s] = T!NoCalls

VisitInv ==
  Distinct /\ (\A i \in DOMAIN stack : InOrder(i)) /\ WholeSuites /\ WithinSuites /\ Unentered

(* The afterAll hooks of a suite and what its beforeAll hooks returned     *)
(* were called, up to one that threw.                                      *)
Unhooked(s) ==
  LET after == T!Aftermath(s)
  IN \/ Len(after) = IF T!Clean(hooked[s]["before"]) THEN 2 * NHooks ELSE NHooks
     \/ after # <<>> /\ T!Last(after) = "throw"

(* What a frame says of the hooks of its suite. *)
FrameHooks(f) ==
  LET h == hooked[f.suite]
  IN IF T!Quiet(f) THEN h = T!NoCalls /\ f.step = "tasks" /\ f.calls = 0
     ELSE IF f.step = "beforeAll"
       THEN /\ ~f.hook /\ f.calls < NHooks /\ Len(h["before"]) = f.calls /\ T!Clean(h["before"])
            /\ h["after"] = <<>> /\ h["undo"] = <<>>
       ELSE /\ IF f.hook THEN ~T!Clean(h["before"]) ELSE Len(h["before"]) = NHooks /\ T!Clean(h["before"])
            /\ f.calls <= T!CallsAfter(f)
            /\ f.calls > 0 => f.next > Len(T!tasks[f.suite])
            /\ IF f.calls = T!CallsAfter(f) THEN Unhooked(f.suite)
               ELSE IF f.calls < NHooks THEN Len(h["after"]) = f.calls /\ h["undo"] = <<>>
               ELSE Len(h["after"]) + Len(h["undo"]) = f.calls

(* A suite runs its hooks only within suites that do. *)
FrameModes(i) ==
  LET f == stack[i]
  IN /\ T!SkipAll(f) = "none" /\ T!ForbiddenOnly(f.suite) => f.hook
     /\ f.mode = "none" => \A j \in 1 .. i - 1 : T!SkipAll(stack[j]) = "none" /\ ~stack[j].hook

FrameInv == \A i \in DOMAIN stack : FrameHooks(stack[i]) /\ FrameModes(i)

CalledInv ==
  \A s \in Suites : T!Called(s) =>
    /\ T!Runnable(s) /\ \A a \in T!Range(T!Chain(s)) : T!Live(a) \/ T!Aftermath(a) # <<>>
    /\ Gone(s) => Unhooked(s)

(* The last frame is at a task of its suite. *)
Here(x) ==
  progress = "run" /\ T!Top.step = "tasks" /\ T!Top.next <= Len(T!tasks[T!Top.suite]) /\ x = T!Task

(* A test is tried in its place. *)
AttInv ==
  att # T!NoAttempt =>
    /\ progress \in {"run", "stuck", "ERROR"} /\ stack # <<>>
    /\ T!Top.step = "tasks" /\ T!Top.next <= Len(T!tasks[T!Top.suite]) /\ att.test = T!Task
    /\ ~T!Pending(att.test) /\ ~T!LeftOut(att.test) /\ ~T!ForbiddenOnly(att.test)

(* One step more of a kind. *)
More(d, what, k, o) == [d EXCEPT ![what] = Append(@, [k |-> k, o |-> o])]

(* The attempt after a step o of a test with e hooks of a kind. *)
BeforeEachCalled(a, e, o) ==
  IF o # "ok" THEN T!Settled(a, o)
  ELSE [a EXCEPT !.calls = @ + 1, !.kept = IF a.calls + 1 = e THEN e ELSE 0,
                 !.step = IF a.calls + 1 = e THEN "body" ELSE @]

AfterEachCalled(a, d, e, o) ==
  LET last == o # "ok" \/ a.calls + 1 = e + a.kept
  IN [T!Thrown(a, o) EXCEPT
        !.calls = IF last THEN 0 ELSE @ + 1,
        !.step = IF last THEN (IF d["body"] # <<>> THEN "finished" ELSE "end") ELSE @]

AfterEachDone(a, d, e, o) ==
  IF a.calls < e THEN More(d, "after", e - a.calls, o) ELSE More(d, "undo", 2 * e - a.calls, o)

HandlerCalled(a, s, o) ==
  LET c == T!Thrown(a, o)
  IN [c EXCEPT !.step = IF s = "finished" THEN T!AfterFinished(c) ELSE "end"]

(* The k-th of n hooks as called forwards, and backwards from e. *)
Fine(n) == [i \in 1 .. n |-> [k |-> i, o |-> "ok"]]
Down(e, n) == [i \in 1 .. n |-> [k |-> e + 1 - i, o |-> "ok"]]
Broken(d) == \E x \in T!Range(d["before"]) : x.o # "ok"
Amiss(d) == \E w \in Kinds : \E i \in DOMAIN d[w] : d[w][i].o # "ok"

Unwinding(d, e) ==
  /\ T!Unwound(d["after"], e, 1)
  /\ IF Broken(d) \/ T!Last(d["after"]).o # "ok" THEN d["undo"] = <<>>
     ELSE T!Unwound(d["undo"], e, 1)

(* What an attempt has done by each of its steps, of a test with e hooks   *)
(* of a kind.                                                              *)
Deeds(a, d, e) ==
  /\ a.step = "beforeEach" => a.calls < e /\ a.kept = 0 /\ d["before"] = Fine(a.calls)
  /\ a.step = "body" => a.kept = e /\ d["before"] = Fine(e)
  /\ a.step \in {"beforeEach", "body"} =>
       d["body"] = <<>> /\ d["after"] = <<>> /\ d["undo"] = <<>>
  /\ a.step = "afterEach" =>
       /\ Broken(d) => a.kept = 0
       /\ ~Broken(d) => a.kept = e
       /\ a.calls < e + a.kept
       /\ d["after"] = Down(e, IF a.calls < e THEN a.calls ELSE e)
       /\ d["undo"] = Down(e, IF a.calls < e THEN 0 ELSE a.calls - e)
  /\ a.step \in {"finished", "failed", "end"} => Unwinding(d, e)
  /\ a.step \notin {"beforeEach", "body"} =>
       /\ Broken(d) => Len(d["body"]) = 0
       /\ ~Broken(d) => Len(d["body"]) = 1
  /\ a.step \in {"finished", "failed"} => ~Broken(d)
  /\ a.step \in {"beforeEach", "body", "afterEach", "finished"} => d["finished"] = <<>>
  /\ a.step \in {"failed", "end"} => Len(d["finished"]) = Len(d["body"])
  /\ a.step # "end" => d["failed"] = <<>>
  /\ Len(d["failed"]) <= Len(d["body"])
  /\ a.step = "failed" => a.state = "fail"
  /\ a.state = "fail" \/ d["failed"] # <<>> => Amiss(d)

DidInv == att # T!NoAttempt => Deeds(att, did, T!Each)

WalkInv == NestInv /\ VisitInv /\ FrameInv /\ CalledInv

HooksInv == Types /\ WalkInv /\ AttInv /\ DidInv

(* The tree of a file: what is in it has one place. *)
LEMMA TreeFacts ==
  ASSUME decl \in Decls
  PROVE  /\ T!tasks \in [Suites -> Seq(T!Tasks)]
         /\ \A s \in Suites, i \in Nat : i \in DOMAIN T!tasks[s] => T!tasks[s][i] \in T!Children(s)
         /\ \A s \in Suites, i, j \in Nat :
              i \in DOMAIN T!tasks[s] /\ j \in DOMAIN T!tasks[s] /\ T!tasks[s][i] = T!tasks[s][j] => i = j
         /\ \A s \in Suites : \A x \in T!Children(s) :
              /\ x \in T!Tasks /\ x # Root /\ T!Collected(x) /\ T!ParentOf(x) = s
              /\ \E i \in Nat : i \in DOMAIN T!tasks[s] /\ x = T!tasks[s][i]
         /\ \A x : T!Collected(x) =>
              /\ x \in T!Tasks /\ x # Root /\ T!ParentOf(x) \in Suites /\ x \in T!Children(T!ParentOf(x))
              /\ T!ParentOf(x) = Root \/ T!Collected(T!ParentOf(x))
<1>1. T!tasks \in Trees /\ T!Nested(T!tasks)
  BY TestRunFacts DEF Decls, T!tasks
<1>2. T!tasks \in [Suites -> Seq(T!Tasks)]
  BY <1>1 DEF T!Nested, T!Tasks
<1>3. Root \notin T!Tasks
  BY TestRunFacts DEF T!Tasks
<1>4. ASSUME NEW s \in Suites, NEW x \in T!Children(s)
      PROVE  /\ x \in T!Tasks /\ x # Root /\ T!Collected(x)
             /\ \E i \in Nat : i \in DOMAIN T!tasks[s] /\ x = T!tasks[s][i]
             /\ s = Root \/ T!Collected(s)
  <2>1. PICK i \in DOMAIN T!tasks[s] : x = T!tasks[s][i]
    BY <1>4 DEF T!Children, T!Range
  <2>2. T!tasks[s] \in Seq(T!Tasks) /\ T!tasks[s] # <<>>
    BY <1>2, <2>1
  <2>3. s = Root \/ T!Collected(s)
    BY <1>1, <2>2 DEF T!Nested, T!Collected, T!Children
  <2>4. QED
    BY <1>3, <1>4, <2>1, <2>2, <2>3 DEF T!Collected
<1>5. \A s, r \in Suites : \A x : x \in T!Children(s) /\ x \in T!Children(r) => s = r
  BY <1>1 DEF T!Nested, T!Children, T!Range
<1>6. ASSUME NEW s \in Suites, NEW x \in T!Children(s)
      PROVE  T!ParentOf(x) = s
  BY <1>5, <1>6 DEF T!ParentOf
<1>7. ASSUME NEW s \in Suites, NEW i \in DOMAIN T!tasks[s]
      PROVE  /\ T!tasks[s][i] \in T!Children(s)
             /\ \A j \in Nat : j \in DOMAIN T!tasks[s] /\ T!tasks[s][i] = T!tasks[s][j] => i = j
  BY <1>1 DEF T!Nested, T!Children, T!Range
<1>8. ASSUME NEW x, T!Collected(x)
      PROVE  /\ x \in T!Tasks /\ x # Root /\ T!ParentOf(x) \in Suites /\ x \in T!Children(T!ParentOf(x))
             /\ T!ParentOf(x) = Root \/ T!Collected(T!ParentOf(x))
  <2>1. PICK s \in Suites : x \in T!Children(s)
    BY <1>8 DEF T!Collected
  <2>2. QED
    BY <2>1, <1>4, <1>6
<1>9. QED
  BY <1>2, <1>4, <1>6, <1>7, <1>8

(* A child has its place among the tasks. *)
LEMMA ChildAt ==
  ASSUME decl \in Decls, NEW s \in Suites, NEW y \in T!Children(s)
  PROVE  \E k \in Nat : k \in DOMAIN T!tasks[s] /\ y = T!tasks[s][k]
BY TreeFacts

(* Among any tasks there is one whose suite is not among them. *)
LEMMA Outermost ==
  ASSUME decl \in Decls, NEW Y \in SUBSET T!Tasks, Y # {}, \A y \in Y : T!Collected(y)
  PROVE  \E y \in Y : T!ParentOf(y) \notin Y
<1>1. T!tasks \in Trees /\ T!Nested(T!tasks)
  BY TestRunFacts DEF Decls, T!tasks
<1>2. CASE Y \intersect Suites = {}
  BY <1>2, TreeFacts
<1>3. CASE Y \intersect Suites # {}
  <2>1. Y \intersect Suites \in (SUBSET Suites) \ {{}}
    BY <1>3
  <2>2. PICK s \in Y \intersect Suites : \A r \in Y \intersect Suites : s \notin T!Range(T!tasks[r])
    BY <1>1, <2>1 DEF T!Nested
  <2>3. T!ParentOf(s) \in Suites /\ s \in T!Children(T!ParentOf(s))
    BY <2>2, TreeFacts
  <2>4. QED
    BY <2>2, <2>3 DEF T!Children
<1>4. QED
  BY <1>2, <1>3

(* Chain's recursion. *)
LEMMA ChainStep ==
  ASSUME decl \in Decls
  PROVE  /\ T!Chain(Root) = <<>>
         /\ \A x : T!Collected(x) =>
              /\ T!Chain(x) = Append(T!Chain(T!ParentOf(x)), T!ParentOf(x))
              /\ T!Chain(x) \in Seq(Suites)
<1> DEFINE D == {t \in T!Tasks : T!Collected(t)} \union {Root}
           Good(A, f) == /\ Root \in A /\ f[Root] = <<>>
                         /\ \A y \in A : y # Root => T!ParentOf(y) \in A
                                         /\ f[y] = Append(f[T!ParentOf(y)], T!ParentOf(y))
           V(y, v) == \E A \in SUBSET D : \E f \in [A -> Seq(Suites)] :
                         Good(A, f) /\ y \in A /\ v = f[y]
<1>1. \A y \in D : y # Root => T!Collected(y) /\ y \in T!Tasks /\ T!ParentOf(y) \in D /\ T!ParentOf(y) \in Suites
  BY TreeFacts
<1>2. ASSUME NEW A \in SUBSET D, NEW f \in [A -> Seq(Suites)], Good(A, f),
             NEW B \in SUBSET D, NEW g \in [B -> Seq(Suites)], Good(B, g)
      PROVE  \A y \in A \intersect B : f[y] = g[y]
  <2> DEFINE Y == {y \in A \intersect B : f[y] # g[y]}
  <2>1. \A y \in Y : y # Root /\ T!Collected(y) /\ y \in T!Tasks
    BY <1>1, <1>2
  <2>2. SUFFICES ASSUME Y # {} PROVE FALSE
    OBVIOUS
  <2>3. PICK y \in Y : T!ParentOf(y) \notin Y
    <3> HIDE DEF Y
    <3> QED
      BY <2>1, <2>2, Outermost
  <2>4. QED
    BY <1>2, <2>1, <2>3
<1>3. \A y \in D : \E v : V(y, v)
  <2> DEFINE Y == {y \in D : ~\E v : V(y, v)}
  <2>1. V(Root, <<>>)
    <3>1. [z \in {Root} |-> <<>>] \in [{Root} -> Seq(Suites)]
      OBVIOUS
    <3>2. Good({Root}, [z \in {Root} |-> <<>>])
      OBVIOUS
    <3>3. {Root} \in SUBSET D
      OBVIOUS
    <3>4. QED
      BY <3>1, <3>2, <3>3
  <2>2. \A y \in Y : y # Root /\ T!Collected(y) /\ y \in T!Tasks
    BY <1>1, <2>1
  <2>3. SUFFICES ASSUME Y # {} PROVE FALSE
    OBVIOUS
  <2>4. PICK y \in Y : T!ParentOf(y) \notin Y
    <3> HIDE DEF Y
    <3> QED
      BY <2>2, <2>3, Outermost
  <2>5. T!ParentOf(y) \in D /\ T!ParentOf(y) \in Suites /\ y \in D /\ y # Root
    BY <1>1, <2>2, <2>4
  <2>6. PICK A \in SUBSET D : \E f \in [A -> Seq(Suites)] : Good(A, f) /\ T!ParentOf(y) \in A
    BY <2>4, <2>5
  <2>61. PICK f \in [A -> Seq(Suites)] : Good(A, f) /\ T!ParentOf(y) \in A
    BY <2>6
  <2>7. y \notin A
    BY <2>4, <2>6, <2>61
  <2> DEFINE B == A \union {y}
             g == [z \in B |-> IF z = y THEN Append(f[T!ParentOf(y)], T!ParentOf(y)) ELSE f[z]]
  <2>8. B \in SUBSET D /\ g \in [B -> Seq(Suites)]
    BY <2>5, <2>6, <2>61
  <2>9. Good(B, g)
    BY <2>5, <2>6, <2>61, <2>7
  <2>10. V(y, g[y])
    <3> HIDE DEF B, g, Good
    <3>1. y \in B
      BY DEF B
    <3> QED
      BY <2>8, <2>9, <3>1
  <2>11. QED
    BY <2>4, <2>10
<1>4. ASSUME NEW y, NEW v, NEW w, V(y, v), V(y, w)
      PROVE  v = w
  <2> HIDE DEF D, Good
  <2>1. PICK A \in SUBSET D : \E f \in [A -> Seq(Suites)] : Good(A, f) /\ y \in A /\ v = f[y]
    BY <1>4
  <2>11. PICK f \in [A -> Seq(Suites)] : Good(A, f) /\ y \in A /\ v = f[y]
    BY <2>1
  <2>2. PICK B \in SUBSET D : \E g \in [B -> Seq(Suites)] : Good(B, g) /\ y \in B /\ w = g[y]
    BY <1>4
  <2>21. PICK g \in [B -> Seq(Suites)] : Good(B, g) /\ y \in B /\ w = g[y]
    BY <2>2
  <2>3. \A z \in A \intersect B : f[z] = g[z]
    BY <1>2, <2>11, <2>21
  <2>4. QED
    BY <2>1, <2>11, <2>2, <2>21, <2>3
<1> DEFINE c == [y \in D |-> CHOOSE v : V(y, v)]
<1>5. \A y \in D : V(y, c[y])
  <2> HIDE DEF D, V
  <2> QED BY <1>3
<1>6. c[Root] = <<>> /\ c \in [D -> Seq(Suites)]
  <2> HIDE DEF c
  <2>1. \A y \in D : c[y] \in Seq(Suites)
    BY <1>5
  <2>2. c[Root] = <<>>
    BY <1>5
  <2>3. QED
    BY <2>1, <2>2 DEF c
<1>7. ASSUME NEW y \in D, y # Root
      PROVE  c[y] = Append(c[T!ParentOf(y)], T!ParentOf(y))
  <2> HIDE DEF c, D
  <2>1. PICK A \in SUBSET D : \E f \in [A -> Seq(Suites)] : Good(A, f) /\ y \in A /\ c[y] = f[y]
    BY <1>5, <1>7
  <2>11. PICK f \in [A -> Seq(Suites)] : Good(A, f) /\ y \in A /\ c[y] = f[y]
    BY <2>1
  <2>2. T!ParentOf(y) \in A /\ f[y] = Append(f[T!ParentOf(y)], T!ParentOf(y))
    BY <1>7, <2>11
  <2>3. V(T!ParentOf(y), f[T!ParentOf(y)])
    <3> HIDE DEF Good
    <3> DEFINE p == T!ParentOf(y)
    <3> HIDE DEF p
    <3>1. Good(A, f) /\ p \in A
      BY <2>11, <2>2 DEF p
    <3>2. V(p, f[p])
      BY <3>1
    <3> QED BY <3>2 DEF p
  <2>4. c[T!ParentOf(y)] = f[T!ParentOf(y)]
    <3> HIDE DEF V
    <3> QED BY <1>1, <1>4, <1>5, <1>7, <2>3
  <2>5. QED
    BY <2>1, <2>11, <2>2, <2>4
<1> DEFINE E(g) == [y \in D |-> IF y = Root THEN <<>> ELSE Append(g[T!ParentOf(y)], T!ParentOf(y))]
<1>8. c = E(c)
  <2> HIDE DEF c, D
  <2>1. c \in [D -> Seq(Suites)]
    BY <1>6
  <2>2. \A y \in D : c[y] = E(c)[y]
    BY <1>6, <1>7
  <2>3. QED
    BY <2>1, <2>2
<1> DEFINE ch == CHOOSE g : g = E(g)
<1>9. ch = E(ch)
  <2> HIDE DEF c, E
  <2> QED BY <1>8
<1>10. \A x : T!Chain(x) = ch[x]
  BY DEF T!Chain
<1>11. \A y \in D : ch[y] = IF y = Root THEN <<>> ELSE Append(ch[T!ParentOf(y)], T!ParentOf(y))
  <2> HIDE DEF ch, D
  <2> QED BY <1>9
<1>12. ASSUME NEW y \in D PROVE ch[y] \in Seq(Suites)
  <2> HIDE DEF ch
  <2> DEFINE Y == {z \in D : ch[z] \notin Seq(Suites)}
  <2>0. ch[Root] = <<>> /\ <<>> \in Seq(Suites)
    BY <1>11
  <2>1. \A z \in Y : z # Root /\ T!Collected(z) /\ z \in T!Tasks
    BY <1>1, <2>0
  <2>2. SUFFICES ASSUME Y # {} PROVE FALSE
    BY <1>12
  <2>3. PICK z \in Y : T!ParentOf(z) \notin Y
    <3> HIDE DEF Y
    <3> QED
      BY <2>1, <2>2, Outermost
  <2>4. T!ParentOf(z) \in D /\ ch[T!ParentOf(z)] \in Seq(Suites) /\ T!ParentOf(z) \in Suites
    BY <1>1, <2>1, <2>3
  <2>5. ch[z] = Append(ch[T!ParentOf(z)], T!ParentOf(z))
    BY <1>11, <2>1
  <2>6. ch[z] \in Seq(Suites)
    BY <2>4, <2>5
  <2>7. QED
    BY <2>6
<1>13. \A x : T!Collected(x) => x \in D /\ x # Root
  BY TreeFacts
<1>14. QED
  <2> HIDE DEF ch
  <2>1. Root \in D
    OBVIOUS
  <2> HIDE DEF D
  <2> QED BY <1>10, <1>11, <1>12, <1>13, <2>1

(* Runnable's recursion. *)
LEMMA RunnableStep ==
  ASSUME decl \in Decls, NEW s \in Suites
  PROVE  /\ T!Runnable(s) => T!OwnMode(s) = "none"
         /\ T!OwnMode(s) = "none" /\ (\E x \in T!Children(s) :
               IF x \in Suites THEN T!Runnable(x)
               ELSE T!Mode(x) \in {"run", "only"} /\ ~T!NotOnly(x) /\ x \notin decl.filtered) => T!Runnable(s)
<1> DEFINE Sel(x) == T!Mode(x) \in {"run", "only"} /\ ~T!NotOnly(x) /\ x \notin decl.filtered
           Due(Z, y) == T!OwnMode(y) = "none" /\ \E x \in T!Children(y) : IF x \in Suites THEN x \in Z ELSE Sel(x)
           Closed(Z) == \A y \in Suites : Due(Z, y) => y \in Z
           R == {y \in Suites : \A Z \in SUBSET Suites : Closed(Z) => y \in Z}
           E(c) == [y \in Suites |-> T!OwnMode(y) = "none" /\ \E x \in T!Children(y) : IF x \in Suites THEN c[x] ELSE Sel(x)]
           c0 == [y \in Suites |-> y \in R]
<1>1. \A Z \in SUBSET Suites : Closed(Z) => R \subseteq Z
  OBVIOUS
<1>2. \A Z, V \in SUBSET Suites : \A y \in Suites : Z \subseteq V /\ Due(Z, y) => Due(V, y)
  <2> HIDE DEF Sel
  <2> QED OBVIOUS
<1>3. Closed(R)
  <2> HIDE DEF Due
  <2>1. ASSUME NEW y \in Suites, Due(R, y) PROVE y \in R
    <3>1. ASSUME NEW Z \in SUBSET Suites, Closed(Z) PROVE y \in Z
      <4>1. R \subseteq Z /\ R \in SUBSET Suites
        BY <1>1, <3>1
      <4> HIDE DEF R
      <4> QED BY <1>2, <2>1, <3>1, <4>1
    <3> QED BY <3>1
  <2> QED BY <2>1
<1>4. \A y \in R : Due(R, y)
  <2> DEFINE Z == {y \in R : Due(R, y)}
  <2> HIDE DEF Due
  <2>0. R \in SUBSET Suites /\ Z \in SUBSET Suites /\ Z \subseteq R
    OBVIOUS
  <2>1. Closed(Z)
    <3>1. SUFFICES ASSUME NEW y \in Suites, Due(Z, y) PROVE y \in Z
      OBVIOUS
    <3>2. Due(R, y)
      <4> HIDE DEF Z, R
      <4> QED BY <1>2, <2>0, <3>1
    <3>3. y \in R
      <4> HIDE DEF R, Z
      <4> QED BY <1>3, <3>2
    <3> QED BY <3>2, <3>3
  <2>2. R \subseteq Z
    <3> HIDE DEF Z, Closed, R
    <3> QED BY <1>1, <2>0, <2>1
  <2> QED BY <2>2
<1>5. \A y \in Suites : y \in R <=> Due(R, y)
  <2> HIDE DEF Due, R
  <2> QED BY <1>3, <1>4
<1>6. c0 = E(c0)
  <2> HIDE DEF R, Sel
  <2>1. ASSUME NEW y \in Suites
        PROVE  c0[y] = (T!OwnMode(y) = "none" /\ \E x \in T!Children(y) : IF x \in Suites THEN c0[x] ELSE Sel(x))
    <3>1. \A x \in Suites : c0[x] <=> x \in R
      BY Zenon
    <3>2. (\E x \in T!Children(y) : IF x \in Suites THEN c0[x] ELSE Sel(x))
          <=> (\E x \in T!Children(y) : IF x \in Suites THEN x \in R ELSE Sel(x))
      <4> HIDE DEF c0
      <4> QED BY <3>1
    <3>3. y \in R <=> T!OwnMode(y) = "none" /\ \E x \in T!Children(y) : IF x \in Suites THEN x \in R ELSE Sel(x)
      BY <1>5
    <3>4. c0[y] = (y \in R)
      BY Zenon
    <3> DEFINE due == T!OwnMode(y) = "none" /\ \E x \in T!Children(y) : IF x \in Suites THEN c0[x] ELSE Sel(x)
    <3>5. y \in R <=> due
      <4> HIDE DEF c0
      <4> QED BY <3>2, <3>3
    <3>6. (y \in R) = due
      <4> HIDE DEF R, c0, Sel
      <4>1. \A a, b \in BOOLEAN : (a <=> b) => a = b
        OBVIOUS
      <4>2. (y \in R) \in BOOLEAN
        BY SMT
      <4>3. due \in BOOLEAN
        BY Zenon
      <4> HIDE DEF due
      <4> QED BY <3>5, <4>1, <4>2, <4>3, Zenon
    <3> HIDE DEF c0
    <3> QED BY <3>4, <3>6
  <2> QED BY <2>1
<1> DEFINE r == CHOOSE c : c = E(c)
<1>7. r = E(r)
  <2> HIDE DEF c0, E
  <2> QED BY <1>6
<1>8. \A x : T!Runnable(x) = r[x]
  BY DEF T!Runnable
<1>9. \A y \in Suites : r[y] = (T!OwnMode(y) = "none" /\ \E x \in T!Children(y) : IF x \in Suites THEN r[x] ELSE Sel(x))
  <2> HIDE DEF r, Sel
  <2> QED BY <1>7
<1> HIDE DEF r, Sel
<1>10. r[s] = (T!OwnMode(s) = "none" /\ \E x \in T!Children(s) : IF x \in Suites THEN r[x] ELSE Sel(x))
  BY <1>9
<1>11. T!Runnable(s) => T!OwnMode(s) = "none"
  BY <1>8, <1>10
<1>12. ASSUME T!OwnMode(s) = "none", NEW x \in T!Children(s), IF x \in Suites THEN T!Runnable(x) ELSE Sel(x)
       PROVE  T!Runnable(s)
  BY <1>8, <1>10, <1>12
<1>13. QED
  BY <1>11, <1>12 DEF Sel

-----------------------------------------------------------------------------
(* What the steps do with the stack                                        *)

(* The last frame, and the stack with another in its place. *)
LEMMA StackTop ==
  ASSUME Types, stack # <<>>
  PROVE  /\ Len(stack) \in Nat \ {0} /\ DOMAIN stack = 1 .. Len(stack)
         /\ T!Top = stack[Len(stack)] /\ T!Top \in Frames
         /\ \A i \in 1 .. Len(stack) : stack[i] \in Frames
         /\ \A f \in Frames :
              /\ T!WithTop(f) \in Seq(Frames) /\ Len(T!WithTop(f)) = Len(stack)
              /\ T!WithTop(f) # <<>>
              /\ T!WithTop(f)[Len(stack)] = f
              /\ \A i \in 1 .. Len(stack) - 1 : T!WithTop(f)[i] = stack[i]
<1>1. stack \in Seq(Frames)
  BY DEF Types
<1>2. Len(stack) \in Nat \ {0} /\ DOMAIN stack = 1 .. Len(stack)
  BY <1>1
<1>3. \A i \in 1 .. Len(stack) : stack[i] \in Frames
  BY <1>1
<1>4. T!Top = stack[Len(stack)]
  BY DEF T!Top, T!Last
<1>5. /\ T!Front(stack) \in Seq(Frames) /\ Len(T!Front(stack)) = Len(stack) - 1
      /\ \A i \in 1 .. Len(stack) - 1 : T!Front(stack)[i] = stack[i]
  BY <1>1, <1>2 DEF T!Front
<1>6. ASSUME NEW f \in Frames
      PROVE  /\ T!WithTop(f) \in Seq(Frames) /\ Len(T!WithTop(f)) = Len(stack)
             /\ T!WithTop(f) # <<>>
             /\ T!WithTop(f)[Len(stack)] = f
             /\ \A i \in 1 .. Len(stack) - 1 : T!WithTop(f)[i] = stack[i]
  <2> DEFINE r == T!Front(stack)
             n == Len(stack)
  <2>1. r \in Seq(Frames) /\ n \in Nat /\ Len(r) = n - 1 /\ \A i \in 1 .. n - 1 : r[i] = stack[i]
    BY <1>2, <1>5
  <2> HIDE DEF r, n
  <2>20. Append(r, f) \in Seq(Frames) /\ Len(Append(r, f)) = Len(r) + 1
    BY <2>1
  <2>21. Append(r, f) # <<>>
    BY <2>1
  <2>22. Append(r, f)[Len(r) + 1] = f
    BY <2>1
  <2>23. Len(r) + 1 = n
    BY <2>1
  <2>2. Append(r, f) \in Seq(Frames) /\ Len(Append(r, f)) = n /\ Append(r, f) # <<>>
        /\ Append(r, f)[n] = f
    BY <2>20, <2>21, <2>22, <2>23
  <2>3. \A i \in 1 .. n - 1 : Append(r, f)[i] = stack[i]
    BY <2>1
  <2>4. QED
    BY <2>2, <2>3 DEF r, n, T!WithTop
<1>7. QED
  BY <1>2, <1>3, <1>4, <1>6

(* What the declarations say does not change. *)
LEMMA DeclStable ==
  ASSUME UNCHANGED decl
  PROVE  /\ T!tasks' = T!tasks
         /\ \A x : /\ T!Mode(x)' = T!Mode(x) /\ T!OwnMode(x)' = T!OwnMode(x)
                   /\ T!Children(x)' = T!Children(x) /\ T!ParentOf(x)' = T!ParentOf(x)
                   /\ T!Collected(x)' = T!Collected(x) /\ T!Chain(x)' = T!Chain(x)
                   /\ T!NotOnly(x)' = T!NotOnly(x) /\ T!Runnable(x)' = T!Runnable(x)
                   /\ T!ForbiddenOnly(x)' = T!ForbiddenOnly(x)
                   /\ T!SkipAll(x)' = T!SkipAll(x) /\ T!Quiet(x)' = T!Quiet(x)
<1>1. T!tasks' = T!tasks /\ \A x : T!Mode(x)' = T!Mode(x) /\ T!OwnMode(x)' = T!OwnMode(x)
  BY DEF T!tasks, T!Mode, T!OwnMode
<1>2. \A x : T!Children(x)' = T!Children(x) /\ T!ParentOf(x)' = T!ParentOf(x) /\ T!Collected(x)' = T!Collected(x)
  BY DEF T!tasks, T!Children, T!ParentOf, T!Collected
<1>3. ASSUME NEW x PROVE T!Chain(x)' = T!Chain(x)
  BY DEF T!Chain, T!ParentOf, T!tasks, T!Collected, T!Children
<1>4. ASSUME NEW x PROVE T!NotOnly(x)' = T!NotOnly(x)
  BY DEF T!NotOnly, T!HasOnly, T!Included, T!SomeOnly, T!Mode, T!Children, T!tasks,
     T!ParentOf, T!Collected
<1>5. ASSUME NEW x PROVE T!Runnable(x)' = T!Runnable(x)
  BY DEF T!Runnable, T!OwnMode, T!Mode, T!Children, T!tasks, T!NotOnly, T!HasOnly,
     T!Included, T!SomeOnly, T!ParentOf, T!Collected
<1>6. ASSUME NEW x PROVE T!ForbiddenOnly(x)' = T!ForbiddenOnly(x)
  BY <1>1, <1>3 DEF T!ForbiddenOnly
<1>7. ASSUME NEW x PROVE T!SkipAll(x)' = T!SkipAll(x)
  BY <1>1 DEF T!SkipAll
<1>8. ASSUME NEW x PROVE T!Quiet(x)' = T!Quiet(x)
  BY <1>5, <1>6, <1>7 DEF T!Quiet
<1>9. QED
  BY <1>1, <1>2, <1>3, <1>4, <1>5, <1>6, <1>7, <1>8

(* A frame with another's suite and mode is as quiet. *)
LEMMA SameMode ==
  ASSUME NEW f, NEW g, f.suite = g.suite, f.mode = g.mode
  PROVE  T!SkipAll(f) = T!SkipAll(g) /\ T!Quiet(f) = T!Quiet(g)
BY DEF T!SkipAll, T!Quiet

(* The stack is a chain still, whatever becomes of its last frame. *)
LEMMA TopNested ==
  ASSUME Types, NestInv, stack # <<>>, UNCHANGED <<decl, progress>>,
         NEW g \in Frames, stack' = T!WithTop(g), g.suite = T!Top.suite,
         g.next \in 1 .. Len(T!tasks[T!Top.suite]) + 1
  PROVE  NestInv'
<1>1. /\ Len(stack) \in Nat \ {0} /\ DOMAIN stack = 1 .. Len(stack) /\ T!Top = stack[Len(stack)]
      /\ stack' \in Seq(Frames) /\ Len(stack') = Len(stack) /\ stack' # <<>>
      /\ stack'[Len(stack)] = g /\ \A i \in 1 .. Len(stack) - 1 : stack'[i] = stack[i]
  BY StackTop
<1>0. Len(stack) \in Nat
  BY <1>1
<1>2. DOMAIN stack' = 1 .. Len(stack)
  BY <1>1
<1>3. \A i \in 1 .. Len(stack) : stack'[i].suite = stack[i].suite
  BY <1>1
<1>4. ASSUME NEW i \in 1 .. Len(stack)
      PROVE  Chained(i)'
  <2>1. Chained(i)
    BY <1>1 DEF NestInv
  <2>2. [j \in 1 .. i - 1 |-> stack'[j].suite] = [j \in 1 .. i - 1 |-> stack[j].suite]
    BY <1>3
  <2>3. CASE i < Len(stack)
    <3>1. stack'[i] = stack[i] /\ stack'[i + 1].suite = stack[i + 1].suite
      BY <1>1, <1>3, <2>3
    <3>2. QED
      BY <1>1, <2>1, <2>2, <3>1, DeclStable DEF Chained
  <2>4. CASE i = Len(stack)
    <3>1. stack'[i] = g /\ stack[i] = T!Top /\ stack'[i].suite = stack[i].suite
      BY <1>1, <2>4
    <3>2. T!Chain(stack[i].suite)' = T!Chain(stack[i].suite) /\ T!tasks' = T!tasks
          /\ T!Collected(stack[i].suite)' = T!Collected(stack[i].suite)
      BY <3>1, DeclStable
    <3>3. ~(i < Len(stack')) /\ stack'[i].next \in 1 .. Len(T!tasks[stack'[i].suite]) + 1
      BY <1>1, <2>4, <3>1
    <3>4. QED
      BY <2>1, <2>2, <3>1, <3>2, <3>3 DEF Chained
  <2>5. i < Len(stack) \/ i = Len(stack)
    BY <1>0
  <2>6. QED
    BY <2>3, <2>4, <2>5
<1>5. QED
  BY <1>1, <1>2, <1>4 DEF NestInv

(* A step that neither enters a suite nor leaves a task behind. *)
LEMMA SameVisit ==
  ASSUME Types, VisitInv, UNCHANGED <<decl, records, told, progress>>, stack' \in Seq(Frames),
         Len(stack') = Len(stack),
         \A i \in 1 .. Len(stack) : stack'[i].suite = stack[i].suite /\ stack'[i].next = stack[i].next,
         \A s \in Suites : ~OnStack(s) => hooked'[s] = hooked[s]
  PROVE  VisitInv'
<1>1. DOMAIN stack = 1 .. Len(stack) /\ DOMAIN stack' = 1 .. Len(stack) /\ Len(stack) \in Nat
  BY DEF Types
<1>2. \A s : OnStack(s)' <=> OnStack(s)
  BY <1>1 DEF OnStack
<1>3. stack' = <<>> <=> stack = <<>>
  BY <1>1
<1>4. \A x : (Gone(x)' <=> Gone(x)) /\ (Past(x)' <=> Past(x))
  BY <1>3 DEF Gone, Past, Recorded
<1>5. Distinct'
  BY <1>1 DEF VisitInv, Distinct
<1>6. ASSUME NEW i \in 1 .. Len(stack)
      PROVE  InOrder(i)'
  <2>1. InOrder(i)
    BY <1>1 DEF VisitInv
  <2>2. stack'[i].suite = stack[i].suite /\ stack'[i].next = stack[i].next /\ T!tasks' = T!tasks
    BY DeclStable
  <2>3. QED
    BY <1>2, <1>4, <2>1, <2>2 DEF InOrder
<1>7. WholeSuites'
  BY <1>2, <1>4, DeclStable DEF VisitInv, WholeSuites
<1>8. WithinSuites'
  BY <1>2, <1>4, DeclStable DEF VisitInv, WithinSuites
<1>9. Unentered'
  BY <1>2, <1>4 DEF VisitInv, Unentered
<1>10. QED
  BY <1>1, <1>5, <1>6, <1>7, <1>8, <1>9 DEF VisitInv

(* A frame's suite has its tasks. *)
LEMMA FrameTasks ==
  ASSUME Types, NEW i \in 1 .. Len(stack)
  PROVE  /\ stack[i] \in Frames /\ stack[i].suite \in Suites /\ stack[i].next \in Nat
         /\ T!tasks[stack[i].suite] \in Seq(T!Tasks)
         /\ Len(T!tasks[stack[i].suite]) \in Nat
         /\ DOMAIN T!tasks[stack[i].suite] = 1 .. Len(T!tasks[stack[i].suite])
<1>1. stack \in Seq(Frames) /\ decl \in Decls
  BY DEF Types
<1>2. stack[i] \in Frames
  BY <1>1
<1>3. stack[i].suite \in Suites /\ stack[i].next \in Nat
  BY <1>2 DEF Frames
<1>4. T!tasks[stack[i].suite] \in Seq(T!Tasks)
  BY <1>1, <1>3, TreeFacts
<1>5. QED
  BY <1>2, <1>3, <1>4

(* The next task of the last frame: in one place, and ahead. *)
LEMMA NextTaskFacts ==
  ASSUME Types, NestInv, VisitInv, stack # <<>>, T!Top.next <= Len(T!tasks[T!Top.suite])
  PROVE  /\ T!Task \in T!Tasks /\ T!Task # Root /\ T!Task \in T!Children(T!Top.suite)
         /\ T!Collected(T!Task) /\ T!ParentOf(T!Task) = T!Top.suite
         /\ T!Top.next \in DOMAIN T!tasks[T!Top.suite] /\ T!Top.next \in Nat
         /\ ~Past(T!Task) /\ ~OnStack(T!Task) /\ OnStack(T!Top.suite)
         /\ \A i \in 1 .. Len(stack) : \A k \in DOMAIN T!tasks[stack[i].suite] :
              T!tasks[stack[i].suite][k] = T!Task => i = Len(stack) /\ k = T!Top.next
<1>1. /\ Len(stack) \in Nat \ {0} /\ DOMAIN stack = 1 .. Len(stack) /\ T!Top = stack[Len(stack)]
      /\ T!Top \in Frames /\ \A i \in 1 .. Len(stack) : stack[i] \in Frames
  BY StackTop
<1>2. decl \in Decls
  BY DEF Types
<1>3. T!tasks \in [Suites -> Seq(T!Tasks)] /\ T!Top.suite \in Suites
  BY <1>1, <1>2, TreeFacts DEF Frames
<1>4. T!Top.next \in DOMAIN T!tasks[T!Top.suite] /\ T!Top.next \in Nat
  <2>1. Chained(Len(stack))
    BY <1>1 DEF NestInv
  <2>2. T!Top.next \in 1 .. Len(T!tasks[T!Top.suite]) + 1
    BY <1>1, <2>1 DEF Chained
  <2>3. T!tasks[T!Top.suite] \in Seq(T!Tasks)
    BY <1>3
  <2>4. QED
    BY <2>2, <2>3
<1>5. /\ T!Task \in T!Tasks /\ T!Task # Root /\ T!Task \in T!Children(T!Top.suite)
      /\ T!Collected(T!Task) /\ T!ParentOf(T!Task) = T!Top.suite
  <2>1. T!Task \in T!Children(T!Top.suite)
    BY <1>2, <1>3, <1>4, TreeFacts DEF T!Task
  <2>2. QED
    BY <1>2, <1>3, <2>1, TreeFacts
<1>6. ~Past(T!Task) /\ ~OnStack(T!Task)
  <2>1. InOrder(Len(stack))
    BY <1>1 DEF VisitInv
  <2>2. QED
    BY <1>1, <1>4, <2>1 DEF InOrder, T!Task
<1>7. OnStack(T!Top.suite)
  BY <1>1 DEF OnStack
<1>8. ASSUME NEW i \in 1 .. Len(stack), NEW k \in DOMAIN T!tasks[stack[i].suite],
             T!tasks[stack[i].suite][k] = T!Task
      PROVE  i = Len(stack) /\ k = T!Top.next
  <2>1. stack[i].suite \in Suites /\ T!tasks[stack[i].suite] \in Seq(T!Tasks) /\ k \in Nat
    BY FrameTasks
  <2>2. T!Task \in T!Children(stack[i].suite)
    BY <1>2, <1>8, <2>1, TreeFacts
  <2>3. stack[i].suite = T!Top.suite
    BY <1>2, <1>5, <2>1, <2>2, TreeFacts
  <2>4. i = Len(stack)
    <3>1. i \in DOMAIN stack /\ Len(stack) \in DOMAIN stack /\ stack[i].suite = stack[Len(stack)].suite
      BY <1>1, <2>3
    <3>2. QED
      BY <3>1 DEF VisitInv, Distinct
  <2>5. k = T!Top.next
    BY <1>2, <1>3, <1>4, <1>8, <2>1, <2>3, TreeFacts DEF T!Task
  <2>6. QED
    BY <2>4, <2>5
<1>9. QED
  BY <1>4, <1>5, <1>6, <1>7, <1>8

(* The next task is past: a test's record, or a suite without tasks. *)
LEMMA TaskPast ==
  ASSUME Types, NestInv, VisitInv, stack # <<>>, T!Top.next <= Len(T!tasks[T!Top.suite]),
         UNCHANGED <<decl, progress, hooked>>, NEW x, x = T!Task,
         NEW g \in Frames, stack' = T!WithTop(g), g.suite = T!Top.suite, g.next = T!Top.next + 1,
         \A y \in T!Tasks : Past(y)' <=> Past(y) \/ y = x,
         x \in Suites => T!Children(x) = {}
  PROVE  NestInv' /\ VisitInv'
<1> DEFINE n == Len(stack)
<1>0. n \in Nat
  BY StackTop
<1>1. /\ n \in Nat \ {0} /\ DOMAIN stack = 1 .. n /\ T!Top = stack[n]
      /\ T!Top \in Frames /\ \A i \in 1 .. n : stack[i] \in Frames
      /\ stack' \in Seq(Frames) /\ Len(stack') = n /\ stack' # <<>>
      /\ stack'[n] = g /\ \A i \in 1 .. n - 1 : stack'[i] = stack[i]
  BY StackTop
<1>2. decl \in Decls /\ T!tasks \in [Suites -> Seq(T!Tasks)] /\ T!Top.suite \in Suites
  BY <1>1, TreeFacts DEF Types, Frames
<1>3. /\ x \in T!Tasks /\ x # Root /\ x \in T!Children(T!Top.suite)
      /\ T!Collected(x) /\ T!ParentOf(x) = T!Top.suite
      /\ T!Top.next \in DOMAIN T!tasks[T!Top.suite] /\ T!Top.next \in Nat
      /\ ~Past(x) /\ ~OnStack(x) /\ OnStack(T!Top.suite)
  BY NextTaskFacts
<1>4. \A i \in 1 .. n : \A k \in DOMAIN T!tasks[stack[i].suite] :
        T!tasks[stack[i].suite][k] = x => i = n /\ k = T!Top.next
  BY NextTaskFacts
<1>5. NestInv'
  <2>1. g.next \in 1 .. Len(T!tasks[T!Top.suite]) + 1
    BY <1>2, <1>3
  <2>2. QED
    BY <2>1, TopNested
<1>6. DOMAIN stack' = 1 .. n /\ \A i \in 1 .. n : stack'[i].suite = stack[i].suite
  BY <1>1
<1>7. \A s : OnStack(s)' <=> OnStack(s)
  BY <1>1, <1>6 DEF OnStack
<1>8. \A s \in Suites : Gone(s)' <=> Gone(s) \/ s = x
  <2>1. ~Gone(Root) /\ ~Gone(Root)'
    BY <1>1 DEF Gone
  <2>2. \A s \in Suites : s # Root => s \in T!Tasks /\ (Gone(s) <=> Past(s)) /\ (Gone(s)' <=> Past(s)')
    BY DEF T!Tasks, Past
  <2>3. QED
    BY <1>3, <2>1, <2>2
<1>9. Distinct'
  BY <1>1, <1>6 DEF VisitInv, Distinct
<1>10. ASSUME NEW i \in 1 .. n, NEW k \in DOMAIN T!tasks[stack[i].suite],
              NEW y, y = T!tasks[stack[i].suite][k]
       PROVE  IF k < stack'[i].next THEN Past(y)' \/ (i < n /\ k = stack'[i].next - 1)
              ELSE ~Past(y)' /\ ~OnStack(y)
  <2>1. stack[i].suite \in Suites /\ k \in Nat /\ T!tasks[stack[i].suite] \in Seq(T!Tasks)
        /\ stack[i].next \in Nat
    BY FrameTasks
  <2>2. y \in T!Tasks
    BY <1>10, <2>1
  <2>3. InOrder(i)
    BY <1>1 DEF VisitInv
  <2>4. IF k < stack[i].next THEN Past(y) \/ (i < n /\ k = stack[i].next - 1)
        ELSE ~Past(y) /\ ~OnStack(y)
    BY <1>10, <2>3 DEF InOrder
  <2>5. Past(y)' <=> Past(y) \/ y = x
    BY <2>2
  <2>6. y = x => i = n /\ k = T!Top.next
    BY <1>4, <1>10
  <2>7. CASE i < n
    <3>1. stack'[i] = stack[i]
      BY <1>1, <2>7
    <3>2. QED
      BY <2>4, <2>5, <2>6, <2>7, <3>1
  <2>8. CASE i = n
    <3>1. stack'[i].next = T!Top.next + 1 /\ stack[i] = T!Top
      BY <1>1, <2>8
    <3>2. k = T!Top.next => y = x
      BY <1>10, <3>1 DEF T!Task
    <3>3. CASE k < T!Top.next
      BY <1>3, <2>1, <2>4, <2>5, <2>8, <3>1, <3>3
    <3>4. CASE k = T!Top.next
      BY <1>3, <2>1, <2>5, <3>1, <3>2, <3>4
    <3>5. CASE k > T!Top.next
      BY <1>3, <2>1, <2>4, <2>5, <2>6, <3>1, <3>5
    <3>6. QED
      BY <1>3, <2>1, <3>3, <3>4, <3>5
  <2>9. i < n \/ i = n
    BY <1>0
  <2>10. QED
    BY <2>7, <2>8, <2>9
<1>11. \A i \in 1 .. n : InOrder(i)'
  <2>1. T!tasks' = T!tasks /\ DOMAIN stack' = 1 .. n
    BY <1>6, DeclStable
  <2>2. QED
    BY <1>1, <1>6, <1>7, <1>10, <2>1 DEF InOrder
<1>12. WholeSuites'
  <2>1. ASSUME NEW s \in Suites, Gone(s)' PROVE ~OnStack(s) /\ \A y \in T!Children(s) : Past(y)'
    <3>1. CASE Gone(s)
      <4>1. \A y \in T!Children(s) : y \in T!Tasks
        BY <1>2, TreeFacts
      <4>2. QED
        BY <3>1, <4>1 DEF VisitInv, WholeSuites
    <3>2. CASE s = x
      BY <1>3, <3>2
    <3>3. QED
      BY <1>8, <2>1, <3>1, <3>2
  <2>2. QED
    BY <1>7, <2>1, DeclStable DEF WholeSuites
<1>13. WithinSuites'
  <2>1. ASSUME NEW y \in T!Tasks, Past(y)' \/ OnStack(y)
        PROVE  T!Collected(y) /\ (Gone(T!ParentOf(y))' \/ OnStack(T!ParentOf(y)))
    <3>1. CASE Past(y) \/ OnStack(y)
      <4>1. T!Collected(y) /\ (Gone(T!ParentOf(y)) \/ OnStack(T!ParentOf(y)))
        BY <3>1 DEF VisitInv, WithinSuites
      <4>2. T!ParentOf(y) \in Suites /\ T!ParentOf(y)' = T!ParentOf(y)
        BY <1>2, <4>1, TreeFacts, DeclStable
      <4>3. QED
        BY <1>8, <4>1, <4>2
    <3>2. CASE y = x
      BY <1>3, <3>2
    <3>3. QED
      BY <2>1, <3>1, <3>2
  <2>2. QED
    BY <1>7, <2>1, DeclStable DEF WithinSuites
<1>14. Unentered'
  BY <1>7, <1>8 DEF VisitInv, Unentered
<1>15. QED
  BY <1>5, <1>6, <1>9, <1>11, <1>12, <1>13, <1>14 DEF VisitInv

(* A frame is pushed. *)
LEMMA StackPushed ==
  ASSUME Types, stack # <<>>, NEW g \in Frames, NEW f \in Frames
  PROVE  LET pushed == Append(T!WithTop(g), f)
         IN /\ pushed \in Seq(Frames) /\ Len(pushed) = Len(stack) + 1 /\ pushed # <<>>
            /\ DOMAIN pushed = 1 .. Len(stack) + 1
            /\ \A i \in 1 .. Len(stack) - 1 : pushed[i] = stack[i]
            /\ pushed[Len(stack)] = g /\ pushed[Len(stack) + 1] = f
<1>0. PICK n \in Nat \ {0} : n = Len(stack)
  BY StackTop
<1>1. PICK r : r = T!WithTop(g)
  OBVIOUS
<1>2. r \in Seq(Frames) /\ Len(r) = n /\ r[n] = g /\ \A i \in 1 .. n - 1 : r[i] = stack[i]
  BY <1>0, <1>1, StackTop
<1>3. Append(r, f) \in Seq(Frames) /\ Len(Append(r, f)) = n + 1
  BY <1>2
<1>4. Append(r, f) # <<>>
  BY <1>2
<1>5. Append(r, f)[n + 1] = f
  BY <1>2
<1>6. \A i \in 1 .. n : Append(r, f)[i] = r[i]
  BY <1>2
<1>7. DOMAIN Append(r, f) = 1 .. n + 1
  BY <1>3
<1>8. Append(r, f)[n] = g /\ \A i \in 1 .. n - 1 : Append(r, f)[i] = stack[i]
  <2>1. \A i \in 1 .. n - 1 : i \in 1 .. n
    BY <1>0
  <2>2. n \in 1 .. n
    BY <1>0
  <2>3. QED
    BY <1>2, <1>6, <2>1, <2>2
<1>9. QED
  BY <1>0, <1>1, <1>3, <1>4, <1>5, <1>7, <1>8

(* A suite is entered. *)
LEMMA SuiteEntered ==
  ASSUME Types, NestInv, VisitInv, stack # <<>>, T!Top.next <= Len(T!tasks[T!Top.suite]),
         T!Top.step = "tasks", T!Top.calls = 0,
         UNCHANGED <<decl, progress, hooked, told, records>>, NEW x \in Suites, x = T!Task,
         NEW g \in Frames, g = T!Advanced, NEW f \in Frames, f.suite = x, f.next = 1,
         NEW n \in Nat, n = Len(stack), Len(stack') = n + 1, DOMAIN stack' = 1 .. n + 1,
         stack' # <<>>, \A i \in 1 .. n - 1 : stack'[i] = stack[i],
         stack'[n] = g, stack'[n + 1] = f
  PROVE  NestInv' /\ VisitInv'
<1>1. /\ n \in Nat \ {0} /\ DOMAIN stack = 1 .. n /\ T!Top = stack[n]
      /\ T!Top \in Frames /\ \A i \in 1 .. n : stack[i] \in Frames
  BY StackTop
<1>2. /\ g.suite = T!Top.suite /\ g.next = T!Top.next + 1 /\ g.step = "tasks" /\ g.calls = 0
  BY <1>1 DEF T!Advanced, Frames
<1>6. \A i \in 1 .. n : stack'[i].suite = stack[i].suite
  BY <1>1, <1>2
<1>7. decl \in Decls /\ T!tasks \in [Suites -> Seq(T!Tasks)] /\ T!Top.suite \in Suites
  BY <1>1, TreeFacts DEF Types, Frames
<1>8. /\ x \in T!Tasks /\ x # Root /\ x \in T!Children(T!Top.suite)
      /\ T!Collected(x) /\ T!ParentOf(x) = T!Top.suite
      /\ T!Top.next \in DOMAIN T!tasks[T!Top.suite] /\ T!Top.next \in Nat
      /\ ~Past(x) /\ ~OnStack(x) /\ OnStack(T!Top.suite)
  BY NextTaskFacts
<1>9. \A i \in 1 .. n : \A k \in DOMAIN T!tasks[stack[i].suite] :
        T!tasks[stack[i].suite][k] = x => i = n /\ k = T!Top.next
  <2>1. \A i \in 1 .. Len(stack) : \A k \in DOMAIN T!tasks[stack[i].suite] :
          T!tasks[stack[i].suite][k] = T!Task => i = Len(stack) /\ k = T!Top.next
    BY NextTaskFacts
  <2>2. 1 .. n = 1 .. Len(stack)
    OBVIOUS
  <2>3. ASSUME NEW i \in 1 .. n, NEW k \in DOMAIN T!tasks[stack[i].suite], T!tasks[stack[i].suite][k] = x
        PROVE  i = n /\ k = T!Top.next
    <3>1. i \in 1 .. Len(stack) /\ T!tasks[stack[i].suite][k] = T!Task
      BY <2>2, <2>3
    <3>2. i = Len(stack) /\ k = T!Top.next
      BY <2>1, <2>3, <3>1
    <3>3. QED
      BY <3>2
  <2>4. QED
    BY <2>3
<1>10. ASSUME NEW i \in 1 .. n PROVE Chained(i)'
  <2>1. Chained(i)
    BY <1>1 DEF NestInv
  <2>2. [j \in 1 .. i - 1 |-> stack'[j].suite] = [j \in 1 .. i - 1 |-> stack[j].suite]
    BY <1>6
  <2>3. CASE i < n
    <3>1. stack'[i] = stack[i] /\ stack'[i + 1].suite = stack[i + 1].suite
      BY <1>6, <2>3
    <3>2. QED
      BY <2>1, <2>2, <2>3, <3>1, DeclStable DEF Chained
  <2>4. CASE i = n
    <3>1. stack'[i] = g /\ stack'[i].suite = stack[i].suite /\ stack'[i + 1] = f /\ stack[i] = T!Top
      BY <1>1, <1>6, <2>4
    <3>2. T!Chain(stack[i].suite)' = T!Chain(stack[i].suite) /\ T!tasks' = T!tasks
          /\ T!Collected(stack[i].suite)' = T!Collected(stack[i].suite)
      BY <3>1, DeclStable
    <3>3. stack'[i].next \in 1 .. Len(T!tasks[stack'[i].suite]) + 1
      <4>1. T!tasks[T!Top.suite] \in Seq(T!Tasks)
        BY <1>7
      <4>2. T!Top.next \in 1 .. Len(T!tasks[T!Top.suite]) /\ Len(T!tasks[T!Top.suite]) \in Nat
        BY <1>8, <4>1
      <4>3. QED
        BY <1>2, <3>1, <4>2
    <3>35. /\ stack'[i].next - 1 = T!Top.next /\ stack'[i].next > 1
           /\ stack'[i].step = "tasks" /\ stack'[i].calls = 0
      <4>1. T!Top.next >= 1
        BY <1>1, <2>1, <2>4 DEF Chained
      <4>2. QED
        BY <1>2, <1>8, <3>1, <4>1
    <3>4. T!tasks[stack'[i].suite][stack'[i].next - 1] = stack'[i + 1].suite
      BY <3>1, <3>35 DEF T!Task
    <3>5. QED
      BY <2>1, <2>2, <3>1, <3>2, <3>3, <3>35, <3>4 DEF Chained
  <2>5. i < n \/ i = n
    OBVIOUS
  <2>6. QED
    BY <2>3, <2>4, <2>5
<1>11. Chained(n + 1)'
  <2>1. T!Chain(x) = Append(T!Chain(T!Top.suite), T!Top.suite)
    BY <1>7, <1>8, ChainStep
  <2>2. T!Chain(T!Top.suite) = [j \in 1 .. n - 1 |-> stack[j].suite]
    <3>1. Chained(n)
      BY <1>1 DEF NestInv
    <3>2. QED
      BY <1>1, <3>1 DEF Chained
  <2>3. \A j \in 1 .. n : stack[j].suite \in Suites
    BY <1>1 DEF Frames
  <2>4. Append([j \in 1 .. n - 1 |-> stack[j].suite], T!Top.suite) = [j \in 1 .. n |-> stack[j].suite]
    BY <1>1, <2>3
  <2>5. T!Chain(x)' = T!Chain(x) /\ T!Collected(x)' = T!Collected(x) /\ T!tasks' = T!tasks
    BY DeclStable
  <2>6. T!Chain(x)' = [j \in 1 .. n |-> stack'[j].suite]
    BY <1>6, <2>1, <2>2, <2>4, <2>5
  <2>7. T!tasks[x] \in Seq(T!Tasks)
    BY <1>7
  <2>8. /\ stack'[n + 1].suite = x /\ stack'[n + 1].next \in 1 .. Len(T!tasks[x]) + 1
        /\ ~(n + 1 < Len(stack')) /\ (n + 1) - 1 = n /\ n + 1 # 1
    BY <1>1, <2>7
  <2>9. T!Chain(stack[n + 1].suite)' = T!Chain(x) /\ T!Collected(stack[n + 1].suite)'
    BY <1>8, <2>5, <2>8, DeclStable
  <2>10. QED
    BY <2>5, <2>6, <2>8, <2>9 DEF Chained
<1>12. NestInv'
  <2>1. \A i \in 1 .. n + 1 : i \in 1 .. n \/ i = n + 1
    OBVIOUS
  <2>2. \A i \in DOMAIN stack' : Chained(i)'
    BY <1>10, <1>11, <2>1
  <2>3. QED
    BY <2>2 DEF NestInv
<1>13. \A s : OnStack(s)' <=> OnStack(s) \/ s = x
  <2>1. ASSUME NEW s, OnStack(s)' PROVE OnStack(s) \/ s = x
    <3>1. PICK i \in 1 .. n + 1 : stack'[i].suite = s
      BY <2>1 DEF OnStack
    <3>2. CASE i = n + 1
      BY <3>1, <3>2
    <3>3. CASE i \in 1 .. n
      BY <1>1, <1>6, <3>1, <3>3 DEF OnStack
    <3>4. QED
      BY <3>2, <3>3
  <2>2. ASSUME NEW s, OnStack(s) PROVE OnStack(s)'
    <3>1. PICK i \in 1 .. n : stack[i].suite = s
      BY <1>1, <2>2 DEF OnStack
    <3>2. i \in 1 .. n + 1 /\ stack'[i].suite = s
      BY <1>6, <3>1
    <3>3. QED
      BY <3>2 DEF OnStack
  <2>3. OnStack(x)'
    <3>1. n + 1 \in 1 .. n + 1
      OBVIOUS
    <3>2. QED
      BY <3>1 DEF OnStack
  <2>4. QED
    BY <2>1, <2>2, <2>3
<1>14. \A s : (Gone(s)' <=> Gone(s)) /\ (Past(s)' <=> Past(s))
  BY DEF Gone, Past, Recorded
<1>15. Distinct'
  <2>1. \A i \in 1 .. n : stack[i].suite # x
    BY <1>1, <1>8 DEF OnStack
  <2>2. \A i, j \in 1 .. n : stack[i].suite = stack[j].suite => i = j
    BY <1>1 DEF VisitInv, Distinct
  <2>3. \A i \in 1 .. n + 1 : i \in 1 .. n \/ i = n + 1
    OBVIOUS
  <2>4. \A i, j \in 1 .. n + 1 : stack'[i].suite = stack'[j].suite => i = j
    BY <1>6, <2>1, <2>2, <2>3
  <2>5. QED
    BY <2>4 DEF Distinct
<1>16. ASSUME NEW i \in 1 .. n, NEW k \in DOMAIN T!tasks[stack[i].suite],
              NEW y, y = T!tasks[stack[i].suite][k]
       PROVE  IF k < stack'[i].next THEN Past(y) \/ (i < n + 1 /\ k = stack'[i].next - 1)
              ELSE ~Past(y) /\ ~(OnStack(y) \/ y = x)
  <2>1. stack[i].suite \in Suites /\ k \in Nat /\ stack[i].next \in Nat
    BY FrameTasks
  <2>2. InOrder(i)
    BY <1>1 DEF VisitInv
  <2>3. IF k < stack[i].next THEN Past(y) \/ (i < n /\ k = stack[i].next - 1)
        ELSE ~Past(y) /\ ~OnStack(y)
    BY <1>16, <2>2 DEF InOrder
  <2>4. y = x => i = n /\ k = T!Top.next
    BY <1>9, <1>16
  <2>5. CASE i < n
    <3>1. stack'[i] = stack[i]
      BY <2>5
    <3>2. QED
      BY <2>3, <2>4, <2>5, <3>1
  <2>6. CASE i = n
    <3>1. stack'[i].next = T!Top.next + 1 /\ stack[i] = T!Top
      BY <1>1, <1>2, <2>6
    <3>2. k = T!Top.next => y = x
      BY <1>16, <3>1 DEF T!Task
    <3>3. CASE k < T!Top.next
      BY <1>8, <2>1, <2>3, <2>6, <3>1, <3>3
    <3>4. CASE k = T!Top.next
      BY <1>8, <2>1, <2>6, <3>1, <3>2, <3>4
    <3>5. CASE k > T!Top.next
      BY <1>8, <2>1, <2>3, <2>4, <3>1, <3>5
    <3>6. QED
      BY <1>8, <2>1, <3>3, <3>4, <3>5
  <2>7. i < n \/ i = n
    OBVIOUS
  <2>8. QED
    BY <2>5, <2>6, <2>7
<1>17. \A i \in 1 .. n : InOrder(i)'
  <2>1. T!tasks' = T!tasks
    BY DeclStable
  <2>2. QED
    BY <1>6, <1>13, <1>14, <1>16, <2>1 DEF InOrder
<1>18. InOrder(n + 1)'
  <2>1. ASSUME NEW k \in DOMAIN T!tasks[x], NEW y, y = T!tasks[x][k]
        PROVE  k \in Nat /\ k >= 1 /\ ~Past(y) /\ ~OnStack(y) /\ y # x
    <3>1. k \in Nat /\ k >= 1
      <4>1. T!tasks[x] \in Seq(T!Tasks)
        BY <1>7
      <4>2. QED
        BY <2>1, <4>1
    <3>2. y \in T!Children(x) /\ y \in T!Tasks /\ T!ParentOf(y) = x
      BY <1>7, <2>1, <3>1, TreeFacts
    <3>3. ~Gone(x) /\ ~OnStack(x)
      BY <1>8 DEF Past
    <3>4. ~Past(y) /\ ~OnStack(y)
      BY <3>2, <3>3 DEF VisitInv, WithinSuites
    <3>5. y # x
      BY <1>8, <3>2
    <3>6. QED
      BY <3>1, <3>4, <3>5
  <2>2. T!tasks' = T!tasks
    BY DeclStable
  <2>3. QED
    BY <1>13, <1>14, <2>1, <2>2 DEF InOrder
<1>19. WholeSuites'
  <2>1. ASSUME NEW s \in Suites, Gone(s) PROVE s # x
    BY <1>8, <2>1 DEF Past
  <2>2. QED
    BY <1>13, <1>14, <2>1, DeclStable DEF VisitInv, WholeSuites
<1>20. WithinSuites'
  BY <1>8, <1>13, <1>14, DeclStable DEF VisitInv, WithinSuites
<1>21. Unentered'
  BY <1>13, <1>14 DEF VisitInv, Unentered
<1>22. VisitInv'
  <2>0. \A i \in 1 .. n + 1 : i \in 1 .. n \/ i = n + 1
    OBVIOUS
  <2>1. \A i \in DOMAIN stack' : InOrder(i)'
    BY <1>17, <1>18, <2>0
  <2>2. QED
    BY <1>15, <1>19, <1>20, <1>21, <2>1 DEF VisitInv
<1>23. QED
  BY <1>12, <1>22

(* A suite is left for the one around it. *)
LEMMA SuiteLeft ==
  ASSUME Types, NestInv, VisitInv, NEW n \in Nat, n > 1, n = Len(stack),
         T!Top.next > Len(T!tasks[T!Top.suite]), NEW x \in Suites, x = T!Top.suite,
         UNCHANGED <<decl, progress, hooked, records>>,
         NEW v, v # "none", x # Root => told' = [told EXCEPT ![x] = v],
         Len(stack') = n - 1, DOMAIN stack' = 1 .. n - 1, stack' # <<>>,
         \A i \in 1 .. n - 2 : stack'[i] = stack[i],
         stack'[n - 1].suite = stack[n - 1].suite, stack'[n - 1].next = stack[n - 1].next
  PROVE  NestInv' /\ VisitInv'
<1>1. /\ DOMAIN stack = 1 .. n /\ T!Top = stack[n] /\ stack # <<>>
      /\ T!Top \in Frames /\ \A i \in 1 .. n : stack[i] \in Frames
  BY StackTop
<1>2. decl \in Decls /\ T!tasks \in [Suites -> Seq(T!Tasks)]
  BY TreeFacts DEF Types
<1>3. \A i \in 1 .. n - 1 : stack'[i].suite = stack[i].suite /\ stack'[i].next = stack[i].next
  <2>1. \A i \in 1 .. n - 1 : i \in 1 .. n - 2 \/ i = n - 1
    OBVIOUS
  <2>2. QED
    BY <2>1
<1>4. \A i, j \in 1 .. n : stack[i].suite = stack[j].suite => i = j
  BY <1>1 DEF VisitInv, Distinct
<1>5. x # Root /\ \A i \in 1 .. n - 1 : stack[i].suite # x
  <2>1. Chained(1)
    BY <1>1 DEF NestInv
  <2>2. stack[1].suite = Root
    BY <2>1 DEF Chained
  <2>3. QED
    BY <1>1, <1>4, <2>2
<1>6. \A s : OnStack(s)' <=> \E i \in 1 .. n - 1 : stack[i].suite = s
  BY <1>3 DEF OnStack
<1>7. \A s : OnStack(s) <=> OnStack(s)' \/ s = x
  <2>1. ASSUME NEW s, OnStack(s) PROVE OnStack(s)' \/ s = x
    <3>1. PICK i \in 1 .. n : stack[i].suite = s
      BY <1>1, <2>1 DEF OnStack
    <3>2. i \in 1 .. n - 1 \/ i = n
      OBVIOUS
    <3>3. QED
      BY <1>1, <1>6, <3>1, <3>2
  <2>2. ASSUME NEW s, OnStack(s)' PROVE OnStack(s)
    <3>1. PICK i \in 1 .. n - 1 : stack[i].suite = s
      BY <1>6, <2>2
    <3>2. i \in 1 .. n
      OBVIOUS
    <3>3. QED
      BY <1>1, <3>1, <3>2 DEF OnStack
  <2>3. OnStack(x)
    BY <1>1 DEF OnStack
  <2>4. QED
    BY <2>1, <2>2, <2>3
<1>8. ~OnStack(x)'
  BY <1>5, <1>6
<1>9. \A y \in T!Tasks : Past(y)' <=> Past(y) \/ y = x
  <2>1. told' = [told EXCEPT ![x] = v] /\ told \in [Suites \ {Root} -> {"none", "fail", "todo", "skip", "pass"}]
    BY <1>5 DEF Types
  <2>2. ASSUME NEW y \in T!Tasks, y \in Suites PROVE Past(y)' <=> Past(y) \/ y = x
    <3>1. y # Root
      BY <2>2, TestRunFacts DEF T!Tasks
    <3>2. QED
      BY <2>1, <2>2, <3>1 DEF Past, Gone
  <2>3. ASSUME NEW y \in T!Tasks, y \notin Suites PROVE Past(y)' <=> Past(y) \/ y = x
    BY <2>3 DEF Past, Recorded
  <2>4. QED
    BY <2>2, <2>3
<1>10. \A s \in Suites : Gone(s)' <=> Gone(s) \/ s = x
  <2>1. ~Gone(Root) /\ ~Gone(Root)'
    BY <1>1 DEF Gone
  <2>2. \A s \in Suites : s # Root => s \in T!Tasks /\ (Gone(s) <=> Past(s)) /\ (Gone(s)' <=> Past(s)')
    BY DEF T!Tasks, Past
  <2>3. QED
    BY <1>5, <1>9, <2>1, <2>2
<1>11. NestInv'
  <2>1. ASSUME NEW i \in 1 .. n - 1 PROVE Chained(i)'
    <3>1. i \in 1 .. n /\ i < n
      OBVIOUS
    <3>2. Chained(i)
      BY <1>1, <3>1 DEF NestInv
    <3>3. [j \in 1 .. i - 1 |-> stack'[j].suite] = [j \in 1 .. i - 1 |-> stack[j].suite]
      BY <1>3
    <3>4. stack'[i].suite = stack[i].suite /\ stack'[i].next = stack[i].next
      BY <1>3
    <3>5. T!Chain(stack[i].suite)' = T!Chain(stack[i].suite) /\ T!tasks' = T!tasks
          /\ T!Collected(stack[i].suite)' = T!Collected(stack[i].suite)
      BY <3>4, DeclStable
    <3>6. CASE i < n - 1
      <4>1. stack'[i] = stack[i] /\ stack'[i + 1].suite = stack[i + 1].suite
        <5>1. i \in 1 .. n - 2 /\ i + 1 \in 1 .. n - 1
          BY <3>6
        <5>2. QED
          BY <1>3, <5>1
      <4>2. QED
        BY <3>1, <3>2, <3>3, <3>4, <3>5, <3>6, <4>1 DEF Chained
    <3>7. CASE i = n - 1
      BY <3>2, <3>3, <3>4, <3>5, <3>7 DEF Chained
    <3>8. QED
      BY <3>6, <3>7
  <2>2. QED
    BY <1>1, <2>1 DEF NestInv
<1>12. Distinct'
  <2>1. \A i, j \in 1 .. n - 1 : stack'[i].suite = stack'[j].suite => i = j
    <3>1. \A i \in 1 .. n - 1 : i \in 1 .. n
      OBVIOUS
    <3>2. QED
      BY <1>3, <1>4, <3>1
  <2>2. QED
    BY <2>1 DEF Distinct
<1>13. ASSUME NEW i \in 1 .. n - 1, NEW k \in DOMAIN T!tasks[stack[i].suite],
              NEW y, y = T!tasks[stack[i].suite][k]
       PROVE  IF k < stack[i].next THEN Past(y)' \/ (i < n - 1 /\ k = stack[i].next - 1)
              ELSE ~Past(y)' /\ ~OnStack(y)'
  <2>0. i \in 1 .. n /\ i < n
    OBVIOUS
  <2>1. stack[i].suite \in Suites /\ k \in Nat /\ stack[i].next \in Nat /\ y \in T!Tasks
    <3>1. i \in 1 .. Len(stack)
      BY <2>0
    <3>2. stack[i].suite \in Suites /\ T!tasks[stack[i].suite] \in Seq(T!Tasks) /\ stack[i].next \in Nat
      BY <3>1, FrameTasks
    <3>3. QED
      BY <1>13, <3>2
  <2>2. InOrder(i)
    BY <1>1, <2>0 DEF VisitInv
  <2>3. IF k < stack[i].next THEN Past(y) \/ (i < n /\ k = stack[i].next - 1)
        ELSE ~Past(y) /\ ~OnStack(y)
    BY <1>13, <2>2 DEF InOrder
  <2>4. Past(y)' <=> Past(y) \/ y = x
    BY <1>9, <2>1
  <2>5. ~OnStack(y) => y # x /\ ~OnStack(y)'
    BY <1>7
  <2>6. i = n - 1 /\ k = stack[i].next - 1 => y = x
    <3>1. Chained(i)
      BY <1>1, <2>0 DEF NestInv
    <3>2. T!tasks[stack[i].suite][stack[i].next - 1] = stack[i + 1].suite
      BY <2>0, <3>1 DEF Chained
    <3>3. i = n - 1 => stack[i + 1].suite = x
      BY <1>1
    <3>4. QED
      BY <1>13, <3>2, <3>3
  <2>7. QED
    BY <2>1, <2>3, <2>4, <2>5, <2>6
<1>14. \A i \in 1 .. n - 1 : InOrder(i)'
  <2>1. T!tasks' = T!tasks
    BY DeclStable
  <2>2. QED
    BY <1>3, <1>13, <2>1 DEF InOrder
<1>15. WholeSuites'
  <2>1. ASSUME NEW s \in Suites, Gone(s)' PROVE ~OnStack(s)' /\ \A y \in T!Children(s) : Past(y)'
    <3>0. \A y \in T!Children(s) : y \in T!Tasks
      BY <1>2, TreeFacts
    <3>1. CASE Gone(s)
      BY <1>7, <1>9, <3>0, <3>1 DEF VisitInv, WholeSuites
    <3>2. CASE s = x
      <4>1. ASSUME NEW y \in T!Children(x) PROVE Past(y)
        <5>1. PICK k \in Nat : k \in DOMAIN T!tasks[x] /\ y = T!tasks[x][k]
          BY <1>2, <4>1, ChildAt
        <5>2. InOrder(n)
          BY <1>1 DEF VisitInv
        <5>3. T!tasks[x] \in Seq(T!Tasks) /\ T!Top.next \in Nat
          BY <1>1, <1>2 DEF Frames
        <5>4. k < T!Top.next
          BY <5>1, <5>3
        <5>5. QED
          BY <1>1, <5>1, <5>2, <5>4 DEF InOrder
      <4>2. QED
        BY <1>8, <1>9, <3>0, <3>2, <4>1
    <3>3. QED
      BY <1>10, <2>1, <3>1, <3>2
  <2>2. QED
    BY <2>1, DeclStable DEF WholeSuites
<1>16. WithinSuites'
  <2>1. ASSUME NEW y \in T!Tasks, Past(y)' \/ OnStack(y)'
        PROVE  T!Collected(y) /\ (Gone(T!ParentOf(y))' \/ OnStack(T!ParentOf(y))')
    <3>1. Past(y) \/ OnStack(y)
      BY <1>7, <1>9, <2>1
    <3>2. T!Collected(y) /\ (Gone(T!ParentOf(y)) \/ OnStack(T!ParentOf(y)))
      BY <3>1 DEF VisitInv, WithinSuites
    <3>3. T!ParentOf(y) \in Suites /\ T!ParentOf(y)' = T!ParentOf(y)
      BY <1>2, <3>2, TreeFacts, DeclStable
    <3>4. QED
      BY <1>7, <1>10, <3>2, <3>3
  <2>2. QED
    BY <2>1, DeclStable DEF WithinSuites
<1>17. Unentered'
  BY <1>7, <1>10 DEF VisitInv, Unentered
<1>18. QED
  BY <1>11, <1>12, <1>14, <1>15, <1>16, <1>17 DEF VisitInv

(* The file's own suite is left. *)
LEMMA RootLeft ==
  ASSUME Types, NestInv, VisitInv, stack # <<>>, Len(stack) = 1,
         T!Top.next > Len(T!tasks[T!Top.suite]), stack' = <<>>, progress' = "ran",
         UNCHANGED <<decl, hooked, records, told>>
  PROVE  T!Top.suite = Root /\ NestInv' /\ VisitInv'
<1>1. /\ DOMAIN stack = {1} /\ T!Top = stack[1] /\ T!Top \in Frames
  BY StackTop
<1>2. decl \in Decls /\ T!tasks \in [Suites -> Seq(T!Tasks)] /\ Root \in Suites
  BY TreeFacts, TestRunFacts DEF Types
<1>3. T!Top.suite = Root
  BY <1>1 DEF NestInv, Chained
<1>4. \A s : (OnStack(s) <=> s = Root) /\ ~OnStack(s)'
  BY <1>1, <1>3 DEF OnStack
<1>5. \A s : (s # Root => (Gone(s)' <=> Gone(s))) /\ Gone(Root)' /\ ~Gone(Root)
  BY DEF Gone
<1>6. \A y \in T!Tasks : Past(y)' <=> Past(y)
  <2>1. Root \notin T!Tasks
    BY TestRunFacts DEF T!Tasks
  <2>2. QED
    BY <1>5, <2>1 DEF Past, Recorded
<1>7. NestInv'
  BY DEF NestInv
<1>8. WholeSuites'
  <2>1. ASSUME NEW s \in Suites, Gone(s)' PROVE \A y \in T!Children(s) : Past(y)'
    <3>0. \A y \in T!Children(s) : y \in T!Tasks
      BY <1>2, TreeFacts
    <3>1. CASE s # Root
      BY <1>5, <1>6, <2>1, <3>0, <3>1 DEF VisitInv, WholeSuites
    <3>2. CASE s = Root
      <4>1. ASSUME NEW y \in T!Children(Root) PROVE Past(y)
        <5>1. PICK k \in Nat : k \in DOMAIN T!tasks[Root] /\ y = T!tasks[Root][k]
          BY <1>2, <4>1, TreeFacts
        <5>2. InOrder(1)
          BY <1>1 DEF VisitInv
        <5>3. T!tasks[Root] \in Seq(T!Tasks) /\ T!Top.next \in Nat
          BY <1>1, <1>2 DEF Frames
        <5>4. k < T!Top.next
          BY <1>3, <5>1, <5>3
        <5>5. QED
          BY <1>1, <1>3, <5>1, <5>2, <5>4 DEF InOrder
      <4>2. QED
        BY <1>6, <3>0, <3>2, <4>1
    <3>3. QED
      BY <3>1, <3>2
  <2>2. QED
    BY <1>4, <2>1, DeclStable DEF WholeSuites
<1>9. WithinSuites'
  <2>1. ASSUME NEW y \in T!Tasks, Past(y)' PROVE T!Collected(y) /\ Gone(T!ParentOf(y))'
    <3>1. T!Collected(y) /\ (Gone(T!ParentOf(y)) \/ OnStack(T!ParentOf(y)))
      BY <1>6, <2>1 DEF VisitInv, WithinSuites
    <3>2. T!ParentOf(y)' = T!ParentOf(y)
      BY DeclStable
    <3>3. QED
      BY <1>4, <1>5, <3>1, <3>2
  <2>2. QED
    BY <1>4, <2>1, DeclStable DEF WithinSuites
<1>10. Unentered'
  BY <1>4, <1>5 DEF VisitInv, Unentered
<1>11. VisitInv'
  BY <1>8, <1>9, <1>10 DEF VisitInv, Distinct
<1>12. QED
  BY <1>3, <1>7, <1>11

(* At the start nothing is past. *)
LEMMA NothingYet ==
  ASSUME Types, NestInv, VisitInv, progress = "start"
  PROVE  /\ stack = <<>> /\ \A x \in T!Tasks : ~Past(x)
         /\ \A s \in Suites : ~Gone(s) /\ ~OnStack(s) /\ hooked[s] = T!NoCalls
<1>1. stack = <<>> /\ ~Gone(Root) /\ \A s : ~OnStack(s)
  BY DEF NestInv, Gone, OnStack
<1>2. \A x \in T!Tasks : Past(x) => T!Collected(x) /\ Gone(T!ParentOf(x))
  BY <1>1 DEF VisitInv, WithinSuites
<1>3. \A x \in T!Tasks : ~Past(x)
  <2> DEFINE Y == {x \in T!Tasks : Past(x)}
  <2>1. SUFFICES ASSUME Y # {} PROVE FALSE
    OBVIOUS
  <2>2. \A y \in Y : T!Collected(y)
    BY <1>2
  <2>3. PICK y \in Y : T!ParentOf(y) \notin Y
    <3> HIDE DEF Y
    <3> QED
      BY <2>1, <2>2, Outermost DEF Types, Y
  <2>4. T!ParentOf(y) \in Suites /\ Gone(T!ParentOf(y))
    BY <1>2, <2>3, TreeFacts DEF Types
  <2>5. T!ParentOf(y) \in T!Tasks /\ Past(T!ParentOf(y))
    BY <1>1, <2>4 DEF T!Tasks, Past
  <2>6. QED
    BY <2>3, <2>5
<1>4. \A s \in Suites : ~Gone(s)
  BY <1>1, <1>3 DEF Past, T!Tasks
<1>5. QED
  BY <1>1, <1>3, <1>4 DEF VisitInv, Unentered

(* The run of a file begins, or ends at once. *)
LEMMA RunBegun ==
  ASSUME Types, NestInv, VisitInv, progress = "start", UNCHANGED <<decl, hooked, records, told>>,
         \/ T!tasks[Root] = <<>> /\ stack' = <<>> /\ progress' = "ran"
         \/ /\ progress' = "run" /\ stack' # <<>> /\ Len(stack') = 1 /\ DOMAIN stack' = {1}
            /\ stack'[1].suite = Root /\ stack'[1].next = 1
  PROVE  NestInv' /\ VisitInv'
<1>1. /\ stack = <<>> /\ \A x \in T!Tasks : ~Past(x)
      /\ \A s \in Suites : ~Gone(s) /\ ~OnStack(s) /\ hooked[s] = T!NoCalls
  BY NothingYet
<1>2. decl \in Decls /\ T!tasks \in [Suites -> Seq(T!Tasks)] /\ Root \in Suites /\ Root \notin T!Tasks
  BY TreeFacts, TestRunFacts DEF Types, T!Tasks
<1>3. T!tasks[Root] \in Seq(T!Tasks)
  BY <1>2
<1>4. \A s : s # Root => (Gone(s)' <=> Gone(s))
  BY DEF Gone
<1>5. \A y \in T!Tasks : ~Past(y)'
  BY <1>1, <1>2, <1>4 DEF Past, Recorded
<1>6. CASE T!tasks[Root] = <<>> /\ stack' = <<>> /\ progress' = "ran"
  <2>1. \A s : ~OnStack(s)'
    BY <1>6 DEF OnStack
  <2>2. T!Children(Root) = {}
    BY <1>6 DEF T!Children, T!Range
  <2>3. WholeSuites'
    BY <1>1, <1>4, <2>1, <2>2, DeclStable DEF WholeSuites
  <2>4. WithinSuites'
    BY <1>5, <2>1 DEF WithinSuites
  <2>5. Unentered'
    BY <1>1 DEF Unentered
  <2>6. QED
    BY <1>6, <2>3, <2>4, <2>5 DEF NestInv, VisitInv, Distinct
<1>7. CASE /\ progress' = "run" /\ stack' # <<>> /\ Len(stack') = 1 /\ DOMAIN stack' = {1}
           /\ stack'[1].suite = Root /\ stack'[1].next = 1
  <2>1. \A s : OnStack(s)' <=> s = Root
    BY <1>7 DEF OnStack
  <2>2. \A s \in Suites : ~Gone(s)'
    BY <1>1, <1>4, <1>7 DEF Gone
  <2>3. Chained(1)'
    <3>1. T!Chain(Root) = <<>>
      BY <1>2, ChainStep
    <3>2. <<>> = [j \in 1 .. 1 - 1 |-> stack'[j].suite]
      OBVIOUS
    <3>3. T!Chain(stack[1].suite)' = <<>>
      BY <1>7, <3>1, DeclStable
    <3>4. T!tasks' = T!tasks /\ 1 \in 1 .. Len(T!tasks[Root]) + 1
      BY <1>3, DeclStable
    <3>5. QED
      BY <1>7, <3>2, <3>3, <3>4 DEF Chained
  <2>4. NestInv'
    BY <1>7, <2>3 DEF NestInv
  <2>5. InOrder(1)'
    <3>1. ASSUME NEW k \in DOMAIN T!tasks[Root], NEW y, y = T!tasks[Root][k]
          PROVE  k \in Nat /\ k >= 1 /\ ~Past(y)' /\ y # Root
      BY <1>2, <1>3, <1>5, <3>1
    <3>2. T!tasks' = T!tasks
      BY DeclStable
    <3>3. QED
      BY <1>7, <2>1, <3>1, <3>2 DEF InOrder
  <2>6. WholeSuites'
    BY <2>2 DEF WholeSuites
  <2>7. WithinSuites'
    BY <1>2, <1>5, <2>1 DEF WithinSuites
  <2>8. Unentered'
    BY <1>1 DEF Unentered
  <2>9. QED
    BY <1>7, <2>4, <2>5, <2>6, <2>7, <2>8 DEF VisitInv, Distinct
<1>8. QED
  BY <1>6, <1>7

-----------------------------------------------------------------------------
(* The hooks of suites                                                     *)

(* What an element more adds to a sequence's. *)
LEMMA RangeAppend ==
  ASSUME NEW S, NEW c \in Seq(S), NEW e \in S
  PROVE  T!Range(Append(c, e)) = T!Range(c) \union {e}
<1>1. PICK n \in Nat : n = Len(c)
  OBVIOUS
<1>2. PICK a : a = Append(c, e)
  OBVIOUS
<1>3. DOMAIN a = 1 .. n + 1 /\ DOMAIN c = 1 .. n
  BY <1>1, <1>2
<1>4. a[n + 1] = e
  BY <1>1, <1>2
<1>5. \A i \in 1 .. n : a[i] = c[i]
  BY <1>1, <1>2
<1>6. 1 .. n + 1 = (1 .. n) \union {n + 1}
  BY <1>1
<1>7. T!Range(a) = T!Range(c) \union {e}
  BY <1>3, <1>4, <1>5, <1>6 DEF T!Range
<1>8. QED
  BY <1>2, <1>7

(* A suite's frame when it is entered. *)
LEMMA FrameFacts ==
  ASSUME decl \in Decls, NEW s \in Suites, NEW m \in {"none", "skip", "todo", "hook"}
  PROVE  LET f == T!Frame(s, m)
         IN /\ f \in Frames /\ f.suite = s /\ f.mode = m /\ f.next = 1 /\ f.calls = 0
            /\ f.step = (IF T!Quiet(f) THEN "tasks" ELSE "beforeAll")
            /\ ~T!Quiet(f) => ~f.hook
            /\ T!SkipAll(f) = "none" /\ T!ForbiddenOnly(s) => f.hook
<1> DEFINE b == [suite |-> s, mode |-> m, next |-> 1, step |-> "tasks", calls |-> 0,
                 hook |-> m = "hook", failed |-> FALSE]
           d == T!SkipAll(b) = "none" /\ T!ForbiddenOnly(s)
           f == [b EXCEPT !.hook = @ \/ d, !.failed = d, !.step = IF T!Quiet(b) THEN "tasks" ELSE "beforeAll"]
<1>1. T!Frame(s, m) = f
  BY DEF T!Frame
<1>2. f.suite = s /\ f.mode = m /\ b.suite = s /\ b.mode = m
  OBVIOUS
<1>3. T!SkipAll(f) = T!SkipAll(b) /\ T!Quiet(f) = T!Quiet(b)
  <2> HIDE DEF f, b
  <2> QED BY <1>2, SameMode
<1>4. f \in Frames
  <2> HIDE DEF d
  <2>1. (m = "hook" \/ d) \in BOOLEAN /\ d \in BOOLEAN
    BY DEF d
  <2> QED BY <2>1 DEF Frames
<1>5. f.next = 1 /\ f.calls = 0 /\ f.step = (IF T!Quiet(b) THEN "tasks" ELSE "beforeAll")
  OBVIOUS
<1>6. f.hook <=> m = "hook" \/ d
  <2> HIDE DEF d
  <2> QED OBVIOUS
<1>7. d => f.hook
  <2> HIDE DEF d
  <2> QED BY <1>6
<1>8. ~T!Quiet(f) => m # "hook" /\ ~d
  <2>1. ~T!Quiet(b) => T!SkipAll(b) = "none" /\ ~T!ForbiddenOnly(s)
    BY <1>2 DEF T!Quiet
  <2>2. T!SkipAll(b) = "none" => m = "none"
    BY <1>2 DEF T!SkipAll
  <2> HIDE DEF f, b
  <2> QED BY <1>3, <2>1, <2>2
<1>9. QED
  <2> HIDE DEF f, b
  <2> QED BY <1>1, <1>2, <1>3, <1>4, <1>5, <1>6, <1>7, <1>8 DEF d

(* A frame goes on when no hook is called. *)
LEMMA FrameKept ==
  ASSUME NEW f, NEW g, FrameHooks(f), UNCHANGED decl, hooked'[f.suite] = hooked[f.suite],
         g.suite = f.suite, g.mode = f.mode, g.step = f.step, g.calls = f.calls, g.hook = f.hook,
         g.next = f.next \/ f.calls = 0
  PROVE  FrameHooks(g)'
<1>1. T!Quiet(g)' <=> T!Quiet(f)
  BY SameMode, DeclStable
<1>2. T!tasks' = T!tasks
  BY DeclStable
<1>3. Unhooked(f.suite)' <=> Unhooked(f.suite)
  BY DEF Unhooked, T!Aftermath
<1>4. T!CallsAfter(g) = T!CallsAfter(f)
  BY DEF T!CallsAfter
<1>5. Unhooked(g.suite)' <=> Unhooked(f.suite)
  BY <1>3
<1>6. (f.calls > 0 => f.next > Len(T!tasks[f.suite])) => (g.calls > 0 => g.next > Len(T!tasks[g.suite]))
  BY SMT
<1>7. QED
  BY <1>1, <1>2, <1>4, <1>5, <1>6 DEF FrameHooks

(* Whose hooks run, the suites around it do not skip theirs. *)
LEMMA ModesKept ==
  ASSUME NEW i \in Nat, FrameModes(i), UNCHANGED decl, NEW h, stack'[i].hook = h,
         stack[i].hook => h,
         stack'[i].suite = stack[i].suite, stack'[i].mode = stack[i].mode,
         \A j \in 1 .. i - 1 : stack'[j].suite = stack[j].suite /\ stack'[j].mode = stack[j].mode
                               /\ stack'[j].hook = stack[j].hook
  PROVE  FrameModes(i)'
<1>1. ASSUME NEW f, NEW g, f.suite = g.suite, f.mode = g.mode
      PROVE  T!SkipAll(g)' = T!SkipAll(f)
  BY <1>1, SameMode, DeclStable
<1>2. T!SkipAll(stack[i])' = T!SkipAll(stack[i])
  BY <1>1
<1>3. \A j \in 1 .. i - 1 : T!SkipAll(stack[j])' = T!SkipAll(stack[j])
  BY <1>1
<1>4. T!ForbiddenOnly(stack[i].suite)' = T!ForbiddenOnly(stack[i].suite)
  BY DeclStable
<1>5. QED
  BY <1>2, <1>3, <1>4 DEF FrameModes

(* Hooks that were called stay so when no hook is called. *)
LEMMA CalledKept ==
  ASSUME CalledInv, UNCHANGED <<decl, hooked>>,
         \A s \in Suites : Gone(s)' /\ ~Gone(s) /\ T!Called(s) => Unhooked(s)
  PROVE  CalledInv'
<1>1. \A s : /\ (T!Called(s)' <=> T!Called(s)) /\ (Unhooked(s)' <=> Unhooked(s))
             /\ (T!Live(s)' <=> T!Live(s)) /\ T!Aftermath(s)' = T!Aftermath(s)
  BY DEF T!Called, Unhooked, T!Live, T!Aftermath
<1>2. \A s : T!Runnable(s)' = T!Runnable(s) /\ T!Chain(s)' = T!Chain(s)
  BY DeclStable
<1>3. QED
  BY <1>1, <1>2 DEF CalledInv

(* Around a suite that runs are suites that do. *)
LEMMA RunnableAround ==
  ASSUME decl \in Decls, NEW s \in Suites, T!Collected(s), T!Runnable(s),
         \A a \in T!Range(T!Chain(s)) : T!OwnMode(a) = "none"
  PROVE  \A a \in T!Range(T!Chain(s)) : T!Runnable(a)
<1> DEFINE Y == {y \in T!Tasks \intersect Suites :
                   /\ T!Collected(y) /\ T!Runnable(y)
                   /\ \A a \in T!Range(T!Chain(y)) : T!OwnMode(a) = "none"
                   /\ ~\A a \in T!Range(T!Chain(y)) : T!Runnable(a)}
<1>1. SUFFICES ASSUME Y # {} PROVE FALSE
  <2>1. s \in T!Tasks
    BY TreeFacts
  <2>2. QED
    BY <2>1
<1>2. PICK y \in Y : T!ParentOf(y) \notin Y
  <2>1. Y \in SUBSET T!Tasks /\ \A z \in Y : T!Collected(z)
    OBVIOUS
  <2> HIDE DEF Y
  <2> QED BY <1>1, <2>1, Outermost
<1>3. PICK p \in Suites : p = T!ParentOf(y)
  BY <1>2, TreeFacts
<1>4. /\ y \in T!Children(p)
      /\ p = Root \/ T!Collected(p)
      /\ T!Chain(y) = Append(T!Chain(p), p) /\ T!Chain(y) \in Seq(Suites)
  BY <1>2, <1>3, TreeFacts, ChainStep
<1>5. T!Chain(p) \in Seq(Suites)
  <2>1. <<>> \in Seq(Suites)
    OBVIOUS
  <2>2. QED
    BY <1>4, <2>1, ChainStep
<1>6. T!Range(T!Chain(y)) = T!Range(T!Chain(p)) \union {p}
  <2> DEFINE c == T!Chain(p)
  <2>1. c \in Seq(Suites)
    BY <1>5
  <2> HIDE DEF c
  <2>2. T!Range(Append(c, p)) = T!Range(c) \union {p}
    BY <2>1, RangeAppend
  <2> QED BY <1>4, <2>2 DEF c
<1>7. T!Runnable(p)
  <2>1. T!OwnMode(p) = "none" /\ y \in Suites /\ T!Runnable(y)
    BY <1>2, <1>6
  <2>2. QED
    BY <1>4, <2>1, RunnableStep
<1>8. p = Root => T!Range(T!Chain(p)) = {}
  <2>1. T!Range(<<>>) = {}
    BY DEF T!Range
  <2>2. QED
    BY <2>1, ChainStep
<1>9. p # Root => \A a \in T!Range(T!Chain(p)) : T!Runnable(a)
  <2>1. SUFFICES ASSUME p # Root PROVE \A a \in T!Range(T!Chain(p)) : T!Runnable(a)
    OBVIOUS
  <2>2. T!Collected(p) /\ p \in T!Tasks
    BY <1>4, <2>1, TreeFacts
  <2>3. \A a \in T!Range(T!Chain(p)) : T!OwnMode(a) = "none"
    BY <1>2, <1>6
  <2>4. p \notin Y
    BY <1>2, <1>3
  <2> QED BY <1>7, <2>2, <2>3, <2>4
<1>10. QED
  BY <1>2, <1>6, <1>7, <1>8, <1>9

(* The suites around one whose hooks run have run their beforeAll hooks. *)
LEMMA AncestorsLive ==
  ASSUME Types, NestInv, FrameInv, stack # <<>>, T!SkipAll(T!Top) = "none", T!Runnable(T!Top.suite)
  PROVE  /\ \A a \in T!Range(T!Chain(T!Top.suite)) : T!Live(a)
         /\ T!Chain(T!Top.suite) = [j \in 1 .. Len(stack) - 1 |-> stack[j].suite]
<1>0. PICK n \in Nat : n = Len(stack)
  BY StackTop
<1>1. /\ n \in Nat \ {0} /\ DOMAIN stack = 1 .. n /\ T!Top = stack[n]
      /\ T!Top \in Frames /\ \A i \in 1 .. n : stack[i] \in Frames
  BY <1>0, StackTop
<1>2. Chained(n) /\ FrameModes(n)
  <2>1. n \in DOMAIN stack
    BY <1>1
  <2>2. QED
    BY <2>1 DEF NestInv, FrameInv
<1>3. T!Chain(T!Top.suite) = [j \in 1 .. n - 1 |-> stack[j].suite]
  BY <1>1, <1>2 DEF Chained
<1>4. \A j \in 1 .. n - 1 : T!SkipAll(stack[j]) = "none" /\ ~stack[j].hook
  <2>1. T!Top.mode = "none"
    BY DEF T!SkipAll
  <2>2. QED
    BY <1>1, <1>2, <2>1 DEF FrameModes
<1>5. \A j \in 1 .. n - 1 : T!OwnMode(stack[j].suite) = "none"
  BY <1>4 DEF T!SkipAll
<1>6. \A a \in T!Range(T!Chain(T!Top.suite)) : \E j \in 1 .. n - 1 : a = stack[j].suite
  BY <1>3 DEF T!Range
<1>7. ASSUME NEW j \in 1 .. n - 1 PROVE T!Live(stack[j].suite)
  <2>1. j \in 1 .. n /\ j < n /\ n # 1
    BY <1>0
  <2>2. T!Collected(T!Top.suite) /\ T!Top.suite \in Suites
    <3>1. T!Top.suite # Root
      <4>1. T!Top.suite = Root => T!Chain(T!Top.suite) = <<>>
        BY ChainStep DEF Types
      <4>2. j \in DOMAIN T!Chain(T!Top.suite)
        BY <1>3
      <4>3. DOMAIN <<>> = {}
        OBVIOUS
      <4>4. QED
        BY <4>1, <4>2, <4>3
    <3>2. QED
      BY <1>1, <1>2, <3>1 DEF Chained, Frames
  <2>3. stack[j].suite \in T!Range(T!Chain(T!Top.suite))
    BY <1>3 DEF T!Range
  <2>4. T!Runnable(stack[j].suite)
    <3>1. \A a \in T!Range(T!Chain(T!Top.suite)) : T!OwnMode(a) = "none"
      BY <1>5, <1>6
    <3>2. \A a \in T!Range(T!Chain(T!Top.suite)) : T!Runnable(a)
      BY <2>2, <3>1, RunnableAround DEF Types
    <3>3. QED
      BY <2>3, <3>2
  <2>5. FrameHooks(stack[j]) /\ FrameModes(j) /\ Chained(j)
    BY <1>1, <2>1 DEF NestInv, FrameInv
  <2>6. ~T!Quiet(stack[j])
    BY <1>4, <2>4, <2>5 DEF T!Quiet, FrameModes
  <2>7. stack[j].step = "tasks" /\ stack[j].calls = 0 /\ ~stack[j].hook
    BY <1>0, <1>4, <2>1, <2>5 DEF Chained
  <2>8. T!CallsAfter(stack[j]) # 0 /\ 0 < NHooks
    <3>1. NHooks \in Nat \ {0}
      BY TestRunFacts
    <3>2. T!CallsAfter(stack[j]) = 2 * NHooks
      BY <2>7 DEF T!CallsAfter
    <3>3. QED
      BY <3>1, <3>2
  <2>9. /\ Len(hooked[stack[j].suite]["before"]) = NHooks /\ T!Clean(hooked[stack[j].suite]["before"])
        /\ Len(hooked[stack[j].suite]["after"]) = 0 /\ hooked[stack[j].suite]["undo"] = <<>>
    BY <2>5, <2>6, <2>7, <2>8 DEF FrameHooks
  <2>10. hooked[stack[j].suite]["after"] \in Seq({"ok", "throw"})
    BY <1>1, <2>1 DEF Types, Frames, Calls, T!NoCalls
  <2>11. T!Aftermath(stack[j].suite) = <<>>
    <3>1. hooked[stack[j].suite]["after"] = <<>>
      BY <2>9, <2>10
    <3>2. <<>> \o <<>> = <<>>
      OBVIOUS
    <3>3. QED
      BY <2>9, <3>1, <3>2 DEF T!Aftermath
  <2>12. QED
    BY <2>9, <2>11 DEF T!Live
<1>8. QED
  BY <1>0, <1>3, <1>6, <1>7

(* What the last frame and the hooks of its suite look like. *)
LEMMA TopFacts ==
  ASSUME Types, WalkInv, stack # <<>>
  PROVE  /\ FrameHooks(T!Top) /\ T!Top \in Frames /\ T!Top.suite \in Suites /\ OnStack(T!Top.suite)
         /\ Chained(Len(stack)) /\ InOrder(Len(stack)) /\ FrameModes(Len(stack))
         /\ \A i \in 1 .. Len(stack) - 1 :
              /\ i \in 1 .. Len(stack) /\ stack[i].suite # T!Top.suite /\ stack[i].suite \in Suites
              /\ FrameHooks(stack[i]) /\ FrameModes(i)
         /\ hooked[T!Top.suite]["before"] \in Seq({"ok", "throw"})
         /\ hooked[T!Top.suite]["after"] \in Seq({"ok", "throw"})
         /\ hooked[T!Top.suite]["undo"] \in Seq({"ok", "throw"})
<1>0. PICK n \in Nat \ {0} : n = Len(stack)
  BY StackTop
<1>1. DOMAIN stack = 1 .. n /\ T!Top = stack[n] /\ T!Top \in Frames /\ \A i \in 1 .. n : stack[i] \in Frames
  BY <1>0, StackTop
<1>2. n \in DOMAIN stack /\ \A i \in 1 .. n - 1 : i \in DOMAIN stack /\ i # n
  BY <1>0, <1>1
<1>3. T!Top.suite \in Suites /\ \A i \in 1 .. n - 1 : stack[i].suite \in Suites
  BY <1>1, <1>2 DEF Frames
<1>4. \A i \in 1 .. n - 1 : stack[i].suite # T!Top.suite
  BY <1>1, <1>2 DEF WalkInv, VisitInv, Distinct
<1>5. FrameHooks(T!Top) /\ Chained(n) /\ InOrder(n) /\ FrameModes(n) /\ OnStack(T!Top.suite)
  BY <1>1, <1>2 DEF WalkInv, NestInv, VisitInv, FrameInv, OnStack
<1>6. \A i \in 1 .. n - 1 : FrameHooks(stack[i]) /\ FrameModes(i)
  BY <1>2 DEF WalkInv, FrameInv
<1>7. hooked[T!Top.suite] \in [Calls -> Seq({"ok", "throw"})]
  BY <1>3 DEF Types
<1>8. "before" \in Calls /\ "after" \in Calls /\ "undo" \in Calls
  BY DEF Calls, T!NoCalls
<1>9. QED
  BY <1>0, <1>1, <1>2, <1>3, <1>4, <1>5, <1>6, <1>7, <1>8

(* The last frame's suite calls a hook: the frames around it go on, and so *)
(* do the hooks of the other suites.                                       *)
LEMMA OthersKept ==
  ASSUME Types, WalkInv, stack # <<>>, UNCHANGED <<decl, records, told, progress>>,
         NEW t \in Suites, t = T!Top.suite,
         NEW g \in Frames, stack' = T!WithTop(g), g.suite = t, g.mode = T!Top.mode,
         g.next = T!Top.next, T!Top.hook => g.hook, FrameHooks(g)',
         \A s \in Suites : s # t => hooked'[s] = hooked[s],
         T!Live(t) \/ T!Aftermath(t) # <<>> => T!Live(t)' \/ T!Aftermath(t)' # <<>>,
         T!Runnable(t) /\ \A a \in T!Range(T!Chain(t)) : T!Live(a) \/ T!Aftermath(a) # <<>>
  PROVE  WalkInv'
<1>0. PICK n \in Nat \ {0} : n = Len(stack)
  BY StackTop
<1>1. /\ DOMAIN stack = 1 .. n /\ T!Top = stack[n] /\ \A i \in 1 .. n : stack[i] \in Frames
      /\ stack' \in Seq(Frames) /\ Len(stack') = n /\ stack' # <<>>
      /\ stack'[n] = g /\ \A i \in 1 .. n - 1 : stack'[i] = stack[i]
  BY <1>0, StackTop
<1>2. /\ T!Top.suite \in Suites /\ OnStack(T!Top.suite) /\ Chained(n) /\ FrameModes(n)
      /\ \A i \in 1 .. n - 1 : /\ i \in 1 .. n /\ stack[i].suite # T!Top.suite /\ stack[i].suite \in Suites
                               /\ FrameHooks(stack[i]) /\ FrameModes(i)
  BY <1>0, TopFacts
<1>3. \A i \in 1 .. n : i \in 1 .. n - 1 \/ i = n
  BY <1>0
<1>4. DOMAIN stack' = 1 .. n
  BY <1>1
<1>5. NestInv'
  <2>1. g.next \in 1 .. Len(T!tasks[T!Top.suite]) + 1
    BY <1>1, <1>2 DEF Chained
  <2>2. QED
    BY <2>1, TopNested DEF WalkInv
<1>6. VisitInv'
  <2>1. \A i \in 1 .. n : stack'[i].suite = stack[i].suite /\ stack'[i].next = stack[i].next
    BY <1>1, <1>3
  <2>2. \A s \in Suites : ~OnStack(s) => hooked'[s] = hooked[s]
    BY <1>2
  <2>3. stack' \in Seq(Frames) /\ Len(stack') = Len(stack)
    BY <1>0, <1>1
  <2>4. \A i \in 1 .. Len(stack) : stack'[i].suite = stack[i].suite /\ stack'[i].next = stack[i].next
    BY <1>0, <2>1
  <2>5. QED
    BY <2>2, <2>3, <2>4, SameVisit DEF WalkInv
<1>7. FrameInv'
  <2>1. ASSUME NEW i \in 1 .. n - 1 PROVE FrameHooks(stack[i])' /\ FrameModes(i)'
    <3>1. PICK f : f = stack[i]
      OBVIOUS
    <3>2. hooked'[f.suite] = hooked[f.suite] /\ FrameHooks(f)
      BY <1>2, <3>1
    <3>3. FrameHooks(f)'
      BY <3>2, FrameKept
    <3>4. stack'[i] = f /\ i \in Nat /\ \A j \in 1 .. i - 1 : stack'[j] = stack[j]
      BY <1>0, <1>1, <3>1
    <3>5. FrameModes(i)'
      BY <1>2, <3>1, <3>4, ModesKept
    <3>6. QED
      BY <3>1, <3>3, <3>4, <3>5
  <2>2. FrameModes(n)'
    BY <1>0, <1>1, <1>2, ModesKept
  <2>3. FrameHooks(stack[n])'
    BY <1>1
  <2>4. QED
    BY <1>3, <1>4, <2>1, <2>2, <2>3 DEF FrameInv
<1>8. CalledInv'
  <2>1. \A s \in Suites : s # t =>
          /\ (T!Called(s)' <=> T!Called(s)) /\ (Unhooked(s)' <=> Unhooked(s))
          /\ (T!Live(s)' <=> T!Live(s)) /\ T!Aftermath(s)' = T!Aftermath(s)
    BY DEF T!Called, Unhooked, T!Live, T!Aftermath
  <2>2. ASSUME NEW a \in Suites, T!Live(a) \/ T!Aftermath(a) # <<>> PROVE T!Live(a)' \/ T!Aftermath(a)' # <<>>
    <3>1. CASE a = t
      BY <2>2, <3>1
    <3>2. CASE a # t
      BY <2>1, <2>2, <3>2
    <3>3. QED
      BY <3>1, <3>2
  <2>3. ASSUME NEW s \in Suites, T!Called(s)'
        PROVE  /\ T!Runnable(s) /\ \A a \in T!Range(T!Chain(s)) : T!Live(a) \/ T!Aftermath(a) # <<>>
               /\ s # t => T!Called(s)
    BY <2>1, <2>3 DEF WalkInv, CalledInv
  <2>4. ASSUME NEW s \in Suites, T!Called(s)' PROVE \A a \in T!Range(T!Chain(s)) : a \in Suites
    <3>1. s = Root \/ T!Collected(s)
      <4>1. CASE s = t
        BY <1>1, <1>2, <4>1 DEF Chained
      <4>2. CASE s # t /\ s # Root
        <5>1. T!Called(s)
          BY <2>3, <2>4, <4>2
        <5>2. Gone(s) \/ OnStack(s)
          BY <5>1 DEF WalkInv, VisitInv, Unentered, T!Called
        <5>3. s \in T!Tasks /\ (Past(s) \/ OnStack(s))
          BY <4>2, <5>2 DEF T!Tasks, Past
        <5>4. QED
          BY <5>3 DEF WalkInv, VisitInv, WithinSuites
      <4>3. QED
        BY <4>1, <4>2
    <3>2. T!Chain(s) \in Seq(Suites)
      <4>1. <<>> \in Seq(Suites)
        OBVIOUS
      <4>2. QED
        BY <3>1, <4>1, ChainStep DEF Types
    <3>3. QED
      BY <3>2 DEF T!Range
  <2>5. \A s \in Suites : Gone(s)' => Gone(s) /\ s # t
    <3>1. \A s : Gone(s)' <=> Gone(s)
      BY <1>1 DEF Gone
    <3>2. \A s \in Suites : Gone(s) => s # t
      BY <1>2 DEF WalkInv, VisitInv, WholeSuites
    <3>3. QED
      BY <3>1, <3>2
  <2>6. \A s : T!Runnable(s)' = T!Runnable(s) /\ T!Chain(s)' = T!Chain(s)
    BY DeclStable
  <2>7. ASSUME NEW s \in Suites, T!Called(s)'
        PROVE  \A a \in T!Range(T!Chain(s)) : T!Live(a)' \/ T!Aftermath(a)' # <<>>
    BY <2>2, <2>3, <2>4, <2>7
  <2>8. ASSUME NEW s \in Suites, T!Called(s)', Gone(s)' PROVE Unhooked(s)'
    BY <2>1, <2>3, <2>5, <2>8 DEF WalkInv, CalledInv
  <2>9. QED
    BY <2>3, <2>6, <2>7, <2>8 DEF CalledInv
<1>9. QED
  BY <1>5, <1>6, <1>7, <1>8 DEF WalkInv

(* What one call more makes of a suite's calls. *)
LEMMA CallAdded ==
  ASSUME NEW a \in Seq({"ok", "throw"}), NEW b \in Seq({"ok", "throw"}), NEW o \in {"ok", "throw"}
  PROVE  /\ Append(a, o) \in Seq({"ok", "throw"}) /\ Len(Append(a, o)) = Len(a) + 1
         /\ Append(a, o) # <<>>
         /\ T!Clean(Append(a, o)) <=> T!Clean(a) /\ o = "ok"
         /\ Len(a \o b) = Len(a) + Len(b)
         /\ a \o Append(b, o) # <<>> /\ T!Last(a \o Append(b, o)) = o
         /\ b = <<>> => Append(a, o) \o b # <<>> /\ T!Last(Append(a, o) \o b) = o
<1>1. T!Range(Append(a, o)) = T!Range(a) \union {o}
  BY RangeAppend
<1>2. T!Clean(Append(a, o)) <=> T!Clean(a) /\ o = "ok"
  BY <1>1 DEF T!Clean
<1>3. a \o Append(b, o) # <<>> /\ T!Last(a \o Append(b, o)) = o
  BY DEF T!Last
<1>4. b = <<>> => Append(a, o) \o b # <<>> /\ T!Last(Append(a, o) \o b) = o
  BY DEF T!Last
<1>5. QED
  BY <1>2, <1>3, <1>4

(* What a frame must say after a step. *)
LEMMA FrameNext ==
  ASSUME UNCHANGED decl, NEW g, NEW h, h = hooked'[g.suite], ~T!Quiet(g)
  PROVE  /\ g.step = "beforeAll" /\ ~g.hook /\ g.calls < NHooks /\ Len(h["before"]) = g.calls
            /\ T!Clean(h["before"]) /\ h["after"] = <<>> /\ h["undo"] = <<>>
            => FrameHooks(g)'
         /\ /\ g.step = "tasks" /\ g.calls <= T!CallsAfter(g)
            /\ IF g.hook THEN ~T!Clean(h["before"]) ELSE Len(h["before"]) = NHooks /\ T!Clean(h["before"])
            /\ g.calls > 0 => g.next > Len(T!tasks[g.suite])
            /\ IF g.calls = T!CallsAfter(g) THEN Unhooked(g.suite)'
               ELSE IF g.calls < NHooks THEN Len(h["after"]) = g.calls /\ h["undo"] = <<>>
               ELSE Len(h["after"]) + Len(h["undo"]) = g.calls
            => FrameHooks(g)'
<1>1. T!tasks' = T!tasks /\ T!Quiet(g)' = T!Quiet(g)
  BY DeclStable
<1>2. T!CallsAfter(g)' = T!CallsAfter(g) /\ T!Clean(h["before"])' = T!Clean(h["before"])
  BY DEF T!CallsAfter, T!Clean
<1>3. QED
  BY <1>1, <1>2 DEF FrameHooks

(* A beforeAll hook is called: __callBeforeAll of the last frame's suite. *)
LEMMA BeforeAllCalled ==
  ASSUME Types, WalkInv, NEW o, T!BeforeAll(o)
  PROVE  WalkInv'
<1>0. stack # <<>> /\ UNCHANGED <<decl, records, told, progress>> /\ o \in {"ok", "throw"}
  BY DEF T!BeforeAll, WalkInv, NestInv
<1>1. PICK t \in Suites : t = T!Top.suite
  BY <1>0, TopFacts
<1>2. FrameHooks(T!Top) /\ T!Top \in Frames /\ hooked[t]["before"] \in Seq({"ok", "throw"})
  BY <1>0, <1>1, TopFacts
<1>3. NHooks \in Nat \ {0} /\ decl \in Decls /\ hooked \in [Suites -> [Calls -> Seq({"ok", "throw"})]]
  BY TestRunFacts DEF Types
<1>4. /\ ~T!Quiet(T!Top) /\ ~T!Top.hook /\ T!Top.calls < NHooks /\ Len(hooked[t]["before"]) = T!Top.calls
      /\ T!Clean(hooked[t]["before"]) /\ hooked[t]["after"] = <<>> /\ hooked[t]["undo"] = <<>>
  BY <1>1, <1>2 DEF T!BeforeAll, FrameHooks
<1>5. T!SkipAll(T!Top) = "none" /\ T!Runnable(t)
  BY <1>1, <1>4 DEF T!Quiet
<1>6. T!Runnable(t) /\ \A a \in T!Range(T!Chain(t)) : T!Live(a) \/ T!Aftermath(a) # <<>>
  BY <1>0, <1>1, <1>5, AncestorsLive DEF WalkInv, Types
<1>7. ~(T!Live(t) \/ T!Aftermath(t) # <<>>)
  BY <1>3, <1>4 DEF T!Live, T!Aftermath
<1>8. "before" \in Calls /\ "after" \in Calls /\ "undo" \in Calls
  BY DEF Calls, T!NoCalls
<1>9. /\ hooked'[t]["before"] = Append(hooked[t]["before"], o)
      /\ hooked'[t]["after"] = <<>> /\ hooked'[t]["undo"] = <<>>
      /\ \A s \in Suites : s # t => hooked'[s] = hooked[s]
  BY <1>1, <1>3, <1>4, <1>8 DEF T!BeforeAll, T!Hooked
<1> DEFINE last == o = "throw" \/ T!Top.calls + 1 = NHooks
           frame == [T!Top EXCEPT !.calls = IF last THEN 0 ELSE @ + 1,
                            !.step = IF last THEN "tasks" ELSE @,
                            !.hook = @ \/ o = "throw", !.failed = @ \/ o = "throw"]
<1>10. stack' = T!WithTop(frame)
  BY DEF T!BeforeAll
<1>16. /\ frame \in Frames /\ frame.suite = t /\ frame.mode = T!Top.mode /\ frame.next = T!Top.next
       /\ frame.calls = (IF last THEN 0 ELSE T!Top.calls + 1)
       /\ frame.step = (IF last THEN "tasks" ELSE "beforeAll")
       /\ frame.hook = (o = "throw")
  <2>1. T!Top.step = "beforeAll"
    BY DEF T!BeforeAll
  <2>2. (T!Top.hook \/ o = "throw") \in BOOLEAN /\ (T!Top.failed \/ o = "throw") \in BOOLEAN
    OBVIOUS
  <2>3. (IF last THEN 0 ELSE T!Top.calls + 1) \in Nat
    BY <1>2 DEF Frames
  <2>4. frame = [T!Top EXCEPT !.calls = frame.calls, !.step = frame.step, !.hook = frame.hook, !.failed = frame.failed]
    BY <1>2 DEF Frames
  <2>5. (T!Top.hook \/ o = "throw") = (o = "throw")
    BY <1>4
  <2>6. QED
    BY <1>1, <1>2, <2>1, <2>2, <2>3, <2>5 DEF Frames
<1>11. PICK g \in Frames :
         /\ stack' = T!WithTop(g) /\ g.suite = t /\ g.mode = T!Top.mode /\ g.next = T!Top.next
         /\ g.calls = (IF last THEN 0 ELSE T!Top.calls + 1)
         /\ g.step = (IF last THEN "tasks" ELSE "beforeAll")
         /\ g.hook = (o = "throw")
  BY <1>10, <1>16
<1>12. T!Quiet(g)' = T!Quiet(g) /\ ~T!Quiet(g) /\ Len(T!tasks[g.suite])' = Len(T!tasks[g.suite])
  <2>1. ~T!Quiet(g)
    BY <1>1, <1>4, <1>11, SameMode
  <2>2. T!Quiet(g)' = T!Quiet(g) /\ T!tasks' = T!tasks
    BY <1>0, DeclStable
  <2>3. QED
    BY <2>1, <2>2
<1>13. FrameHooks(g)'
  <2>2. T!Top.calls \in Nat
    BY <1>2 DEF Frames
  <2>3. /\ Len(hooked'[t]["before"]) = T!Top.calls + 1
        /\ T!Clean(hooked'[t]["before"]) <=> o = "ok"
    BY <1>0, <1>2, <1>4, <1>9, CallAdded
  <2>4. PICK h : h = hooked'[t]
    OBVIOUS
  <2>5. CASE last
    <3>1. g.calls = 0 /\ g.step = "tasks" /\ ~(g.calls > 0)
      BY <1>11, <2>5
    <3>2. IF g.hook THEN ~T!Clean(h["before"]) ELSE Len(h["before"]) = NHooks /\ T!Clean(h["before"])
      BY <1>0, <1>11, <2>3, <2>4, <2>5
    <3>3. Len(h["after"]) = 0 /\ h["undo"] = <<>>
      BY <1>9, <2>4
    <3>4. T!CallsAfter(g) > 0 /\ T!CallsAfter(g) \in Nat /\ 0 < NHooks
      BY <1>3 DEF T!CallsAfter
    <3>5. g.calls <= T!CallsAfter(g) /\ g.calls # T!CallsAfter(g) /\ g.calls < NHooks
      BY <3>1, <3>4
    <3>6. QED
      BY <1>0, <1>11, <1>12, <2>4, <3>1, <3>2, <3>3, <3>5, FrameNext
  <2>6. CASE ~last
    <3>1. g.step = "beforeAll" /\ ~g.hook /\ g.calls = T!Top.calls + 1 /\ o = "ok"
      BY <1>0, <1>11, <2>6
    <3>2. g.calls < NHooks
      BY <1>3, <1>4, <2>2, <2>6, <3>1
    <3>3. Len(h["before"]) = g.calls /\ T!Clean(h["before"]) /\ h["after"] = <<>> /\ h["undo"] = <<>>
      BY <1>9, <2>3, <2>4, <3>1
    <3>4. QED
      BY <1>0, <1>11, <1>12, <2>4, <3>1, <3>2, <3>3, FrameNext
  <2>7. QED
    BY <2>5, <2>6
<1>14. T!Top.hook => g.hook
  BY <1>4
<1>15. QED
  BY <1>0, <1>1, <1>6, <1>7, <1>9, <1>11, <1>13, <1>14, OthersKept

(* A hook of a suite that is left is called. *)
LEMMA AfterAllCalled ==
  ASSUME Types, WalkInv, NEW o, T!AfterAll(o)
  PROVE  WalkInv'
<1>0. stack # <<>> /\ UNCHANGED <<decl, records, told, progress>> /\ o \in {"ok", "throw"}
  BY DEF T!AfterAll, T!TasksDone, T!AtTasks, WalkInv, NestInv
<1>1. PICK t \in Suites : t = T!Top.suite
  BY <1>0, TopFacts
<1>2. /\ FrameHooks(T!Top) /\ T!Top \in Frames /\ hooked[t]["before"] \in Seq({"ok", "throw"})
      /\ hooked[t]["after"] \in Seq({"ok", "throw"}) /\ hooked[t]["undo"] \in Seq({"ok", "throw"})
  BY <1>0, <1>1, TopFacts
<1>3. /\ NHooks \in Nat \ {0} /\ decl \in Decls
      /\ hooked \in [Suites -> [Calls -> Seq({"ok", "throw"})]]
  BY TestRunFacts DEF Types
<1>4. /\ ~T!Quiet(T!Top) /\ T!Top.step = "tasks" /\ T!Top.next > Len(T!tasks[t]) /\ T!Top.calls < T!CallsAfter(T!Top)
      /\ T!Top.calls \in Nat
  BY <1>1, <1>2 DEF T!AfterAll, T!TasksDone, T!AtTasks, Frames
<1>5. T!SkipAll(T!Top) = "none" /\ T!Runnable(t)
  BY <1>1, <1>4 DEF T!Quiet
<1>6. T!Runnable(t) /\ \A a \in T!Range(T!Chain(t)) : T!Live(a) \/ T!Aftermath(a) # <<>>
  BY <1>0, <1>1, <1>5, AncestorsLive DEF WalkInv, Types
<1> DEFINE w == IF T!Top.calls < NHooks THEN "after" ELSE "undo"
<1>7. "before" \in Calls /\ "after" \in Calls /\ "undo" \in Calls
  BY DEF Calls, T!NoCalls
<1>8. PICK a \in Seq({"ok", "throw"}), b \in Seq({"ok", "throw"}) :
        a = hooked[t]["after"] /\ b = hooked[t]["undo"]
  BY <1>2
<1>9. PICK h : h = hooked'[t]
  OBVIOUS
<1>10. /\ h["before"] = hooked[t]["before"]
       /\ h["after"] = (IF T!Top.calls < NHooks THEN Append(a, o) ELSE a)
       /\ h["undo"] = (IF T!Top.calls < NHooks THEN b ELSE Append(b, o))
       /\ \A s \in Suites : s # t => hooked'[s] = hooked[s]
  BY <1>1, <1>3, <1>7, <1>8, <1>9 DEF T!AfterAll, T!Hooked
<1> DEFINE frame == [T!Top EXCEPT !.calls = IF o = "ok" THEN @ + 1 ELSE T!CallsAfter(T!Top),
                                !.failed = @ \/ o = "throw"]
<1>11. T!CallsAfter(T!Top) \in Nat /\ T!CallsAfter(T!Top) >= NHooks
  BY <1>3 DEF T!CallsAfter
<1>12. /\ frame \in Frames /\ stack' = T!WithTop(frame) /\ frame.suite = t /\ frame.mode = T!Top.mode
       /\ frame.next = T!Top.next /\ frame.step = "tasks" /\ frame.hook = T!Top.hook
       /\ frame.calls = (IF o = "ok" THEN T!Top.calls + 1 ELSE T!CallsAfter(T!Top))
  <2>1. (T!Top.failed \/ o = "throw") \in BOOLEAN
    OBVIOUS
  <2>2. (IF o = "ok" THEN T!Top.calls + 1 ELSE T!CallsAfter(T!Top)) \in Nat
    BY <1>4, <1>11
  <2>3. QED
    BY <1>1, <1>2, <1>4, <2>1, <2>2 DEF Frames, T!AfterAll
<1>13. PICK g \in Frames :
         /\ stack' = T!WithTop(g) /\ g.suite = t /\ g.mode = T!Top.mode
         /\ g.next = T!Top.next /\ g.step = "tasks" /\ g.hook = T!Top.hook
         /\ g.calls = (IF o = "ok" THEN T!Top.calls + 1 ELSE T!CallsAfter(T!Top))
  BY <1>12
<1>14. ~T!Quiet(g) /\ T!CallsAfter(g) = T!CallsAfter(T!Top)
  BY <1>1, <1>4, <1>13, SameMode DEF T!CallsAfter
<1>15. /\ IF T!Top.hook THEN ~T!Clean(h["before"]) ELSE Len(h["before"]) = NHooks /\ T!Clean(h["before"])
       /\ IF T!Top.calls < NHooks THEN Len(a) = T!Top.calls /\ b = <<>> ELSE Len(a) + Len(b) = T!Top.calls
  <2>1. PICK c : c = hooked[t]
    OBVIOUS
  <2>2. PICK f : f = T!Top
    OBVIOUS
  <2>3. /\ IF f.hook THEN ~T!Clean(c["before"]) ELSE Len(c["before"]) = NHooks /\ T!Clean(c["before"])
        /\ IF f.calls < NHooks THEN Len(c["after"]) = f.calls /\ c["undo"] = <<>>
           ELSE Len(c["after"]) + Len(c["undo"]) = f.calls
    <3>1. /\ FrameHooks(f) /\ ~T!Quiet(f) /\ f.step = "tasks" /\ f.calls # T!CallsAfter(f)
          /\ hooked[f.suite] = c
      BY <1>1, <1>2, <1>4, <1>11, <2>1, <2>2
    <3>2. f.step # "beforeAll"
      BY <3>1
    <3>3. QED
      BY <3>1, <3>2 DEF FrameHooks
  <2>4. QED
    BY <1>8, <1>10, <2>1, <2>2, <2>3
<1>16. T!Aftermath(t)' = (IF T!Top.calls < NHooks THEN Append(a, o) \o b ELSE a \o Append(b, o))
  BY <1>9, <1>10 DEF T!Aftermath
<1>17. T!Aftermath(t)' # <<>> /\ T!Last(T!Aftermath(t)') = o
  BY <1>0, <1>15, <1>16, CallAdded
<1>18. Len(Append(a, o)) = Len(a) + 1 /\ Len(Append(b, o)) = Len(b) + 1 /\ Len(a) \in Nat /\ Len(b) \in Nat
  BY <1>0, CallAdded
<1>19. Len(T!Aftermath(t)') = T!Top.calls + 1
  <2>1. CASE T!Top.calls < NHooks
    <3>1. Append(a, o) \in Seq({"ok", "throw"})
      BY <1>0
    <3>2. Len(Append(a, o) \o b) = Len(Append(a, o)) + Len(b) /\ Len(b) = 0
      BY <1>15, <2>1, <3>1
    <3>3. QED
      BY <1>4, <1>15, <1>16, <1>18, <2>1, <3>2
  <2>2. CASE ~(T!Top.calls < NHooks)
    <3>1. Append(b, o) \in Seq({"ok", "throw"})
      BY <1>0
    <3>2. Len(a \o Append(b, o)) = Len(a) + Len(Append(b, o))
      BY <3>1
    <3>3. QED
      BY <1>4, <1>15, <1>16, <1>18, <2>2, <3>2
  <2>3. QED
    BY <2>1, <2>2
<1>20. FrameHooks(g)'
  <2>1. g.calls <= T!CallsAfter(g) /\ (g.calls > 0 => g.next > Len(T!tasks[t]))
    BY <1>4, <1>11, <1>13, <1>14
  <2>2. CASE g.calls = T!CallsAfter(g)
    <3>1. Unhooked(t)'
      <4>1. CASE o = "throw"
        BY <1>17, <4>1 DEF Unhooked
      <4>2. CASE o = "ok"
        <5>1. Len(T!Aftermath(t)') = T!CallsAfter(T!Top)
          BY <1>13, <1>14, <1>19, <2>2, <4>2
        <5>2. T!CallsAfter(T!Top) = IF T!Clean(hooked'[t]["before"]) THEN 2 * NHooks ELSE NHooks
          BY <1>9, <1>15 DEF T!CallsAfter
        <5>3. QED
          BY <5>1, <5>2 DEF Unhooked
      <4>3. QED
        BY <1>0, <4>1, <4>2
    <3>2. QED
      BY <1>0, <1>9, <1>13, <1>14, <1>15, <2>1, <2>2, <3>1, FrameNext
  <2>3. CASE g.calls # T!CallsAfter(g)
    <3>1. o = "ok" /\ g.calls = T!Top.calls + 1
      BY <1>0, <1>13, <1>14, <2>3
    <3>2. IF g.calls < NHooks THEN Len(h["after"]) = g.calls /\ h["undo"] = <<>>
          ELSE Len(h["after"]) + Len(h["undo"]) = g.calls
      <4>1. CASE T!Top.calls < NHooks
        <5>1. h["after"] = Append(a, o) /\ h["undo"] = <<>> /\ Len(h["after"]) = g.calls
          BY <1>10, <1>15, <1>18, <3>1, <4>1
        <5>2. QED
          BY <1>4, <3>1, <5>1
      <4>2. CASE ~(T!Top.calls < NHooks)
        <5>1. h["after"] = a /\ h["undo"] = Append(b, o) /\ ~(g.calls < NHooks)
          BY <1>3, <1>4, <1>10, <3>1, <4>2
        <5>2. QED
          BY <1>4, <1>15, <1>18, <3>1, <4>2, <5>1
      <4>3. QED
        BY <4>1, <4>2
    <3>3. QED
      BY <1>0, <1>9, <1>13, <1>14, <1>15, <2>1, <2>3, <3>2, FrameNext
  <2>4. QED
    BY <2>2, <2>3
<1>21. T!Live(t) \/ T!Aftermath(t) # <<>> => T!Live(t)' \/ T!Aftermath(t)' # <<>>
  BY <1>17
<1>22. \A s \in Suites : s # t => hooked'[s] = hooked[s]
  BY <1>10
<1>23. g.next = T!Top.next /\ (T!Top.hook => g.hook)
  BY <1>13
<1>24. QED
  BY <1>0, <1>1, <1>6, <1>13, <1>20, <1>21, <1>22, <1>23, OthersKept

(* Frames go on while no hook of theirs is called. *)
LEMMA FramesKept ==
  ASSUME Types, FrameInv, UNCHANGED <<decl, hooked>>, NEW m \in Nat, m <= Len(stack),
         \A i \in 1 .. m :
           /\ stack'[i].suite = stack[i].suite /\ stack'[i].mode = stack[i].mode
           /\ stack'[i].step = stack[i].step /\ stack'[i].calls = stack[i].calls
           /\ stack'[i].hook = stack[i].hook
           /\ stack'[i].next = stack[i].next \/ stack[i].calls = 0
  PROVE  \A i \in 1 .. m : FrameHooks(stack[i])' /\ FrameModes(i)'
<1>1. SUFFICES ASSUME NEW i \in 1 .. m PROVE FrameHooks(stack[i])' /\ FrameModes(i)'
  OBVIOUS
<1>2. i \in DOMAIN stack /\ i \in Nat /\ \A j \in 1 .. i - 1 : j \in 1 .. m
  BY DEF Types
<1>3. PICK f : f = stack[i]
  OBVIOUS
<1>4. PICK g : g = stack'[i]
  OBVIOUS
<1>5. FrameHooks(f) /\ FrameModes(i)
  BY <1>2, <1>3 DEF FrameInv
<1>6. FrameHooks(g)'
  BY <1>3, <1>4, <1>5, FrameKept
<1>7. PICK h : h = g.hook
  OBVIOUS
<1>8. stack'[i].hook = h /\ (stack[i].hook => h)
  BY <1>4, <1>7
<1>9. stack'[i].suite = stack[i].suite /\ stack'[i].mode = stack[i].mode
  OBVIOUS
<1>10. \A j \in 1 .. i - 1 : stack'[j].suite = stack[j].suite /\ stack'[j].mode = stack[j].mode
                            /\ stack'[j].hook = stack[j].hook
  BY <1>2
<1>11. FrameModes(i)'
  BY <1>2, <1>5, <1>8, <1>9, <1>10, ModesKept
<1>12. QED
  BY <1>4, <1>6, <1>11

(* At a task of the last frame none of its afterAll hooks was called. *)
LEMMA AtTask ==
  ASSUME Types, WalkInv, NEW x, Here(x)
  PROVE  /\ progress = "run" /\ stack # <<>> /\ T!Top.step = "tasks"
         /\ T!Top.next \in Nat /\ T!Top.next <= Len(T!tasks[T!Top.suite]) /\ x = T!Task
         /\ T!Top \in Frames /\ T!Top.suite \in Suites /\ T!Top.calls = 0
         /\ T!Advanced \in Frames /\ T!Advanced.suite = T!Top.suite /\ T!Advanced.mode = T!Top.mode
         /\ T!Advanced.next = T!Top.next + 1 /\ T!Advanced.step = T!Top.step
         /\ T!Advanced.calls = T!Top.calls /\ T!Advanced.hook = T!Top.hook
<1>1. /\ progress = "run" /\ T!Top.step = "tasks"
      /\ T!Top.next <= Len(T!tasks[T!Top.suite]) /\ x = T!Task
  BY DEF Here
<1>2. stack # <<>>
  BY <1>1 DEF WalkInv, NestInv
<1>3. FrameHooks(T!Top) /\ T!Top \in Frames /\ T!Top.suite \in Suites
  BY <1>2, TopFacts
<1>4. T!Top.next \in Nat /\ T!Top.calls \in Nat
  BY <1>3 DEF Frames
<1>5. T!tasks[T!Top.suite] \in Seq(T!Tasks)
  BY <1>3, TreeFacts DEF Types
<1>6. T!Top.calls = 0
  <2>1. PICK f : f = T!Top
    OBVIOUS
  <2>2. FrameHooks(f) /\ f.step # "beforeAll" /\ f.next <= Len(T!tasks[f.suite]) /\ f.calls \in Nat
        /\ f.next \in Nat /\ Len(T!tasks[f.suite]) \in Nat
    BY <1>1, <1>3, <1>4, <1>5, <2>1
  <2>3. f.calls = 0 \/ f.calls > 0
    BY <2>2
  <2>4. ~(f.next > Len(T!tasks[f.suite]))
    BY <2>2
  <2>5. QED
    BY <2>1, <2>2, <2>3, <2>4 DEF FrameHooks
<1>7. /\ T!Advanced \in Frames /\ T!Advanced.suite = T!Top.suite /\ T!Advanced.mode = T!Top.mode
      /\ T!Advanced.next = T!Top.next + 1 /\ T!Advanced.step = T!Top.step
      /\ T!Advanced.calls = T!Top.calls /\ T!Advanced.hook = T!Top.hook
  BY <1>3, <1>4 DEF T!Advanced, Frames
<1>8. QED
  BY <1>1, <1>2, <1>3, <1>4, <1>6, <1>7

(* The last frame is at its next task. *)
LEMMA Moved ==
  ASSUME Types, WalkInv, UNCHANGED <<decl, progress, hooked>>, NEW x, Here(x),
         NEW b \in BOOLEAN, stack' = T!WithTop([T!Advanced EXCEPT !.failed = b]),
         \A y \in T!Tasks : Past(y)' <=> Past(y) \/ y = x,
         x \in Suites => T!Children(x) = {}
  PROVE  WalkInv'
<1>1. /\ progress = "run" /\ stack # <<>> /\ T!Top.next <= Len(T!tasks[T!Top.suite]) /\ x = T!Task
      /\ T!Top \in Frames /\ T!Top.suite \in Suites /\ T!Top.calls = 0
      /\ T!Advanced \in Frames /\ T!Advanced.suite = T!Top.suite /\ T!Advanced.mode = T!Top.mode
      /\ T!Advanced.next = T!Top.next + 1 /\ T!Advanced.step = T!Top.step
      /\ T!Advanced.calls = T!Top.calls /\ T!Advanced.hook = T!Top.hook
  BY AtTask
<1>2. PICK g \in Frames :
        /\ g.suite = T!Top.suite /\ g.mode = T!Top.mode
        /\ g.next = T!Top.next + 1 /\ g.step = T!Top.step /\ g.calls = T!Top.calls
        /\ g.hook = T!Top.hook /\ stack' = T!WithTop(g)
  <2>1. PICK f \in Frames : f = T!Advanced
    BY <1>1
  <2>2. PICK g : g = [f EXCEPT !.failed = b]
    OBVIOUS
  <2>3. g \in Frames /\ stack' = T!WithTop(g)
    BY <2>1, <2>2 DEF Frames
  <2>4. /\ g.suite = f.suite /\ g.mode = f.mode /\ g.next = f.next /\ g.step = f.step
        /\ g.calls = f.calls /\ g.hook = f.hook
    BY <2>2 DEF Frames
  <2>5. QED
    BY <1>1, <2>1, <2>3, <2>4
<1>3. NestInv' /\ VisitInv'
  BY <1>1, <1>2, TaskPast DEF WalkInv
<1>4. PICK n \in Nat \ {0} : n = Len(stack)
  BY <1>1, StackTop
<1>5. /\ T!Top = stack[n] /\ stack' \in Seq(Frames) /\ Len(stack') = n
      /\ stack'[n] = g /\ \A i \in 1 .. n - 1 : stack'[i] = stack[i]
  <2>1. stack # <<>> /\ stack' = T!WithTop(g)
    BY <1>1, <1>2
  <2>2. /\ T!WithTop(g) \in Seq(Frames) /\ Len(T!WithTop(g)) = n /\ T!Top = stack[n]
        /\ T!WithTop(g)[n] = g /\ \A i \in 1 .. n - 1 : T!WithTop(g)[i] = stack[i]
    BY <1>4, <2>1, StackTop
  <2>3. QED
    BY <2>1, <2>2
<1>6. \A i \in 1 .. n :
        /\ stack'[i].suite = stack[i].suite /\ stack'[i].mode = stack[i].mode
        /\ stack'[i].step = stack[i].step /\ stack'[i].calls = stack[i].calls
        /\ stack'[i].hook = stack[i].hook
        /\ stack'[i].next = stack[i].next \/ stack[i].calls = 0
  <2>1. \A i \in 1 .. n : i \in 1 .. n - 1 \/ i = n
    BY <1>4
  <2>2. \A i \in 1 .. n - 1 : stack'[i] = stack[i]
    BY <1>5
  <2>3. /\ stack'[n].suite = stack[n].suite /\ stack'[n].mode = stack[n].mode
        /\ stack'[n].step = stack[n].step /\ stack'[n].calls = stack[n].calls
        /\ stack'[n].hook = stack[n].hook
        /\ stack'[n].next = stack[n].next \/ stack[n].calls = 0
    BY <1>1, <1>2, <1>5
  <2>4. QED
    BY <2>1, <2>2, <2>3
<1>7. \A i \in 1 .. n : FrameHooks(stack[i])' /\ FrameModes(i)'
  <2>1. n \in Nat /\ n <= Len(stack)
    BY <1>4
  <2>2. QED
    BY <1>6, <2>1, FramesKept DEF WalkInv
<1>8. FrameInv'
  <2>1. DOMAIN stack' = 1 .. n
    BY <1>5
  <2>2. QED
    BY <1>7, <2>1 DEF FrameInv
<1>9. \A s \in Suites : Gone(s)' /\ ~Gone(s) /\ T!Called(s) => Unhooked(s)
  <2>1. SUFFICES ASSUME NEW s \in Suites, Gone(s)', ~Gone(s) PROVE ~T!Called(s)
    OBVIOUS
  <2>2. s # Root
    BY <1>1, <1>5, <2>1 DEF Gone, WalkInv, NestInv
  <2>3. s = x
    <3>1. s \in T!Tasks /\ Past(s)' /\ ~Past(s)
      BY <2>1, <2>2 DEF T!Tasks, Past
    <3>2. QED
      BY <3>1
  <2>4. ~OnStack(s)
    BY <1>1, <2>3, NextTaskFacts DEF WalkInv
  <2>5. QED
    BY <2>1, <2>4 DEF WalkInv, VisitInv, Unentered, T!Called
<1>10. CalledInv'
  BY <1>9, CalledKept DEF WalkInv
<1>11. QED
  BY <1>3, <1>8, <1>10 DEF WalkInv

(* A test's record makes it past. *)
LEMMA RecordAdded ==
  ASSUME Types, UNCHANGED <<told, progress>>, stack # <<>>, stack' # <<>>, NEW t \in Tests, NEW v,
         [test |-> t, status |-> v] \in Records, T!Told(t, v)
  PROVE  \A y \in T!Tasks : Past(y)' <=> Past(y) \/ y = t
<1>1. PICK r \in Records : r = [test |-> t, status |-> v]
  OBVIOUS
<1>2. T!Range(records)' = T!Range(records) \union {r}
  <2>1. records \in Seq(Records) /\ records' = Append(records, r)
    BY <1>1 DEF Types, T!Told
  <2>2. QED
    BY <2>1, RangeAppend
<1>3. \A y : Recorded(y)' <=> Recorded(y) \/ y = t
  BY <1>1, <1>2 DEF Recorded
<1>4. \A y : Gone(y)' <=> Gone(y)
  BY DEF Gone
<1>5. t \notin Suites
  BY TestRunFacts
<1>6. QED
  BY <1>3, <1>4, <1>5 DEF Past

(* A suite that is told at once, without a frame of its own. *)
LEMMA EmptySuiteEntered ==
  ASSUME Types, WalkInv, NEW s \in Suites \ {Root}, Here(s), T!tasks[s] = <<>>,
         stack' = T!WithTop([T!Advanced EXCEPT !.failed = TRUE]), told' = [told EXCEPT ![s] = "fail"],
         UNCHANGED <<decl, records, progress, hooked>>
  PROVE  WalkInv'
<1>1. progress = "run" /\ stack # <<>>
  BY AtTask
<1>2. \A y \in T!Tasks : Past(y)' <=> Past(y) \/ y = s
  <2>1. \A y \in Suites \ {Root} : Gone(y)' <=> Gone(y) \/ y = s
    <3>1. told \in [Suites \ {Root} -> {"none", "fail", "todo", "skip", "pass"}]
      BY DEF Types
    <3>2. QED
      BY <3>1 DEF Gone
  <2>2. \A y : Recorded(y)' <=> Recorded(y)
    BY DEF Recorded
  <2>3. \A y \in T!Tasks : y # Root /\ (y \notin Suites => y # s)
    BY TestRunFacts DEF T!Tasks
  <2>4. QED
    BY <2>1, <2>2, <2>3 DEF Past
<1>3. T!Children(s) = {}
  BY DEF T!Children, T!Range
<1>4. TRUE \in BOOLEAN
  OBVIOUS
<1>5. QED
  BY <1>2, <1>3, <1>4, Moved

(* A suite is entered. *)
LEMMA SuitePushed ==
  ASSUME Types, WalkInv, NEW s \in Suites \ {Root}, Here(s),
         stack' = Append(T!WithTop(T!Advanced), T!Frame(s, IF T!Top.hook THEN "hook" ELSE T!SkipAll(T!Top))),
         UNCHANGED <<decl, records, told, progress, hooked>>
  PROVE  WalkInv'
<1>1. /\ progress = "run" /\ stack # <<>> /\ T!Top.step = "tasks"
      /\ T!Top.next <= Len(T!tasks[T!Top.suite]) /\ s = T!Task
      /\ T!Top \in Frames /\ T!Top.suite \in Suites /\ T!Top.calls = 0
      /\ T!Advanced \in Frames /\ T!Advanced.suite = T!Top.suite /\ T!Advanced.mode = T!Top.mode
      /\ T!Advanced.next = T!Top.next + 1 /\ T!Advanced.step = T!Top.step
      /\ T!Advanced.calls = T!Top.calls /\ T!Advanced.hook = T!Top.hook
  BY AtTask
<1>2. PICK m : m = IF T!Top.hook THEN "hook" ELSE T!SkipAll(T!Top)
  OBVIOUS
<1>3. m \in {"none", "skip", "todo", "hook"} /\ (m = "none" => ~T!Top.hook /\ T!SkipAll(T!Top) = "none")
  BY <1>1, <1>2 DEF T!SkipAll, T!OwnMode, Frames
<1>4. decl \in Decls /\ NHooks \in Nat \ {0}
  BY TestRunFacts DEF Types
<1>5. PICK f \in Frames :
        /\ f = T!Frame(s, m) /\ f.suite = s /\ f.mode = m /\ f.next = 1 /\ f.calls = 0
        /\ f.step = (IF T!Quiet(f) THEN "tasks" ELSE "beforeAll")
        /\ ~T!Quiet(f) => ~f.hook
        /\ T!SkipAll(f) = "none" /\ T!ForbiddenOnly(s) => f.hook
  BY <1>3, <1>4, FrameFacts
<1>6. PICK g \in Frames : g = T!Advanced
  BY <1>1
<1>7. PICK n \in Nat \ {0} : n = Len(stack)
  BY <1>1, StackTop
<1>8. stack' = Append(T!WithTop(g), f)
  BY <1>2, <1>5, <1>6
<1>9. /\ Len(stack') = n + 1 /\ DOMAIN stack' = 1 .. n + 1 /\ stack' # <<>>
      /\ \A i \in 1 .. n - 1 : stack'[i] = stack[i]
      /\ stack'[n] = g /\ stack'[n + 1] = f /\ T!Top = stack[n]
  <2>1. LET pushed == Append(T!WithTop(g), f)
        IN /\ pushed \in Seq(Frames) /\ Len(pushed) = Len(stack) + 1 /\ pushed # <<>>
           /\ DOMAIN pushed = 1 .. Len(stack) + 1
           /\ \A i \in 1 .. Len(stack) - 1 : pushed[i] = stack[i]
           /\ pushed[Len(stack)] = g /\ pushed[Len(stack) + 1] = f
    <3>1. stack # <<>>
      BY <1>1
    <3>2. QED
      BY <3>1, StackPushed
  <2>2. T!Top = stack[n]
    BY <1>1, <1>7, StackTop
  <2>3. QED
    BY <1>7, <1>8, <2>1, <2>2
<1>10. NestInv' /\ VisitInv'
  BY <1>1, <1>5, <1>6, <1>7, <1>9, SuiteEntered DEF WalkInv
<1>11. \A i \in 1 .. n :
        /\ stack'[i].suite = stack[i].suite /\ stack'[i].mode = stack[i].mode
        /\ stack'[i].step = stack[i].step /\ stack'[i].calls = stack[i].calls
        /\ stack'[i].hook = stack[i].hook
        /\ stack'[i].next = stack[i].next \/ stack[i].calls = 0
  <2>1. \A i \in 1 .. n : i \in 1 .. n - 1 \/ i = n
    BY <1>7
  <2>2. QED
    BY <1>1, <1>6, <1>9, <2>1
<1>12. \A i \in 1 .. n : FrameHooks(stack[i])' /\ FrameModes(i)'
  <2>1. n \in Nat /\ n <= Len(stack)
    BY <1>7
  <2>2. QED
    BY <1>11, <2>1, FramesKept DEF WalkInv
<1>13. FrameHooks(f)'
  <2>1. hooked[s] = T!NoCalls
    <3>1. ~Past(s) /\ ~OnStack(s)
      BY <1>1, NextTaskFacts DEF WalkInv
    <3>2. QED
      BY <3>1 DEF Past, WalkInv, VisitInv, Unentered
  <2>2. CASE T!Quiet(f)
    <3>1. T!Quiet(f)'
      BY <2>2, DeclStable
    <3>2. hooked'[f.suite] = T!NoCalls /\ f.step = "tasks" /\ f.calls = 0
      BY <1>5, <2>1, <2>2
    <3>3. QED
      BY <3>1, <3>2 DEF FrameHooks
  <2>3. CASE ~T!Quiet(f)
    <3>1. f.step = "beforeAll" /\ ~f.hook /\ f.calls = 0 /\ f.calls < NHooks
      BY <1>4, <1>5, <2>3
    <3>2. PICK h : h = hooked'[f.suite]
      OBVIOUS
    <3>3. h["before"] = <<>> /\ h["after"] = <<>> /\ h["undo"] = <<>>
      BY <1>5, <2>1, <3>2 DEF T!NoCalls
    <3>4. Len(h["before"]) = f.calls /\ T!Clean(h["before"])
      BY <3>1, <3>3 DEF T!Clean, T!Range
    <3>5. QED
      BY <2>3, <3>1, <3>2, <3>3, <3>4, FrameNext
  <2>4. QED
    BY <2>2, <2>3
<1>14. FrameModes(n + 1)'
  <2>1. T!SkipAll(f)' = T!SkipAll(f) /\ T!ForbiddenOnly(s)' = T!ForbiddenOnly(s)
    BY DeclStable
  <2>2. ASSUME f.mode = "none", NEW j \in 1 .. n
        PROVE  T!SkipAll(stack[j])' = "none" /\ ~stack'[j].hook
    <3>1. ~T!Top.hook /\ T!SkipAll(T!Top) = "none"
      BY <1>3, <1>5, <2>2
    <3>2. T!SkipAll(stack[j]) = "none" /\ ~stack[j].hook
      <4>1. CASE j = n
        BY <1>9, <3>1, <4>1
      <4>2. CASE j # n
        <5>1. FrameModes(n)
          BY <1>1, <1>7, TopFacts
        <5>2. T!Top.mode = "none" /\ j \in 1 .. n - 1
          BY <1>7, <3>1, <4>2 DEF T!SkipAll
        <5>3. QED
          BY <1>9, <5>1, <5>2 DEF FrameModes
      <4>3. QED
        BY <4>1, <4>2
    <3>3. PICK c : c = stack'[j]
      OBVIOUS
    <3>4. T!SkipAll(c)' = T!SkipAll(c)
      BY DeclStable
    <3>5. T!SkipAll(c) = T!SkipAll(stack[j])
      BY <1>11, <3>3, SameMode
    <3>6. T!SkipAll(stack[j])' = T!SkipAll(c)'
      BY <3>3
    <3>7. QED
      BY <1>11, <3>2, <3>4, <3>5, <3>6
  <2>3. (n + 1) - 1 = n
    BY <1>7
  <2>4. T!SkipAll(f) = "none" /\ T!ForbiddenOnly(f.suite) => f.hook
    BY <1>5
  <2>5. T!ForbiddenOnly(f.suite)' = T!ForbiddenOnly(f.suite)
    BY DeclStable
  <2>6. QED
    BY <1>9, <2>1, <2>2, <2>3, <2>4, <2>5 DEF FrameModes
<1>15. FrameInv'
  <2>1. FrameHooks(stack[n + 1])'
    BY <1>9, <1>13
  <2>2. \A i \in 1 .. n + 1 : i \in 1 .. n \/ i = n + 1
    BY <1>7
  <2>3. QED
    BY <1>9, <1>12, <1>14, <2>1, <2>2 DEF FrameInv
<1>16. CalledInv'
  <2>1. \A r : Gone(r)' <=> Gone(r)
    BY <1>1, <1>9 DEF Gone
  <2>2. QED
    BY <2>1, CalledKept DEF WalkInv
<1>17. QED
  BY <1>10, <1>15, <1>16 DEF WalkInv

(* A test is done with. *)
LEMMA TestDone ==
  ASSUME Types, WalkInv, NEW t \in Tests, Here(t), UNCHANGED <<decl, told, progress, hooked>>,
         NEW b \in BOOLEAN, stack' = T!WithTop([T!Advanced EXCEPT !.failed = b]),
         NEW v \in {"passed", "failed", "skipped", "todo", "pending"}, T!Told(t, v)
  PROVE  WalkInv'
<1>1. stack # <<>> /\ T!Top \in Frames /\ T!Advanced \in Frames
  BY AtTask
<1>2. stack' # <<>>
  <2>1. PICK f \in Frames : f = T!Advanced
    BY <1>1
  <2>2. [f EXCEPT !.failed = b] \in Frames
    BY DEF Frames
  <2>3. QED
    BY <1>1, <2>1, <2>2, StackTop
<1>3. [test |-> t, status |-> v] \in Records
  BY DEF Records
<1>4. \A y \in T!Tasks : Past(y)' <=> Past(y) \/ y = t
  BY <1>1, <1>2, <1>3, RecordAdded
<1>5. t \notin Suites
  BY TestRunFacts
<1>6. QED
  BY <1>4, <1>5, Moved

(* A test that does not run, or that its .only forbids. *)
LEMMA TestNotTried ==
  ASSUME Types, WalkInv, NEW t \in Tests, T!NotRun(t) \/ T!Forbidden(t)
  PROVE  WalkInv'
<1>1. Here(t) /\ UNCHANGED <<decl, told, progress, hooked>>
  BY DEF T!NotRun, T!Forbidden, T!TaskIs, T!AtTasks, Here
<1>2. T!Top \in Frames /\ T!Advanced \in Frames /\ T!Advanced = [T!Advanced EXCEPT !.failed = T!Advanced.failed]
  BY <1>1, AtTask DEF Frames
<1>3. PICK b \in BOOLEAN : b = T!Advanced.failed
  BY <1>2 DEF Frames
<1>4. CASE T!NotRun(t)
  <2>1. \E v \in {"passed", "failed", "skipped", "todo", "pending"} : T!Told(t, v)
    BY <1>4 DEF T!NotRun
  <2>2. stack' = T!WithTop([T!Advanced EXCEPT !.failed = b])
    BY <1>2, <1>3, <1>4 DEF T!NotRun, T!NextTask
  <2>3. QED
    BY <1>1, <2>1, <2>2, TestDone
<1>5. CASE T!Forbidden(t)
  <2>1. stack' = T!WithTop([T!Advanced EXCEPT !.failed = TRUE]) /\ T!Told(t, "failed")
    BY <1>5 DEF T!Forbidden
  <2>2. QED
    BY <1>1, <2>1, TestDone
<1>6. QED
  BY <1>4, <1>5

(* A suite is left. *)
LEMMA SuiteLeaves ==
  ASSUME Types, WalkInv, T!Leave
  PROVE  WalkInv'
<1>1. /\ progress = "run" /\ stack # <<>> /\ T!Top.next > Len(T!tasks[T!Top.suite])
      /\ T!Top.step = "tasks" /\ UNCHANGED <<decl, records, hooked>>
      /\ T!Quiet(T!Top) \/ T!Top.calls = T!CallsAfter(T!Top)
  BY DEF T!Leave, T!TasksDone, T!AtTasks, WalkInv, NestInv
<1>2. PICK t \in Suites : t = T!Top.suite
  BY <1>1, TopFacts
<1>3. T!Called(t) => Unhooked(t)
  <2>1. FrameHooks(T!Top) /\ T!Top \in Frames
    BY <1>1, TopFacts
  <2>2. PICK f : f = T!Top
    OBVIOUS
  <2>3. FrameHooks(f) /\ f.step # "beforeAll" /\ f.suite = t /\ (T!Quiet(f) \/ f.calls = T!CallsAfter(f))
    BY <1>1, <1>2, <2>1, <2>2
  <2>4. QED
    BY <2>3 DEF FrameHooks, T!Called
<1>4. PICK n \in Nat \ {0} : n = Len(stack)
  BY <1>1, StackTop
<1>5. CASE n = 1
  <2>1. stack' = <<>> /\ progress' = "ran" /\ UNCHANGED told
    BY <1>4, <1>5 DEF T!Leave
  <2>2. T!Top.suite = Root /\ NestInv' /\ VisitInv'
    BY <1>1, <1>4, <1>5, <2>1, RootLeft DEF WalkInv
  <2>3. FrameInv'
    BY <2>1 DEF FrameInv
  <2>4. \A s \in Suites : Gone(s)' /\ ~Gone(s) /\ T!Called(s) => Unhooked(s)
    <3>1. \A s \in Suites : Gone(s)' /\ ~Gone(s) => s = t
      BY <1>2, <2>1, <2>2 DEF Gone
    <3>2. QED
      BY <1>3, <3>1
  <2>5. CalledInv'
    BY <1>1, <2>4, CalledKept DEF WalkInv
  <2>6. QED
    BY <2>2, <2>3, <2>5 DEF WalkInv
<1>6. CASE n # 1
  <2>1. n > 1 /\ n - 1 \in 1 .. n /\ n - 2 \in Nat /\ n - 1 \in Nat
    BY <1>4, <1>6
  <2>2. PICK outer \in Frames : outer = stack[n - 1]
    BY <1>1, <1>4, <2>1, StackTop
  <2>3. PICK v : /\ v # "none" /\ told' = [told EXCEPT ![t] = v]
    BY <1>2, <1>4, <1>6 DEF T!Leave
  <2>4. PICK b \in BOOLEAN : stack' = Append(SubSeq(stack, 1, n - 2), [outer EXCEPT !.failed = b])
    <3>1. (outer.failed \/ T!Top.failed) \in BOOLEAN
      OBVIOUS
    <3>2. stack' = Append(SubSeq(stack, 1, n - 2), [outer EXCEPT !.failed = outer.failed \/ T!Top.failed])
      BY <1>4, <1>6, <2>2 DEF T!Leave
    <3>3. QED
      BY <3>1, <3>2
  <2>5. PICK g \in Frames :
          /\ g = [outer EXCEPT !.failed = b] /\ g.suite = outer.suite /\ g.mode = outer.mode
          /\ g.next = outer.next /\ g.step = outer.step /\ g.calls = outer.calls /\ g.hook = outer.hook
    <3>1. PICK g : g = [outer EXCEPT !.failed = b]
      OBVIOUS
    <3>2. g \in Frames
      BY <3>1 DEF Frames
    <3>3. /\ g.suite = outer.suite /\ g.mode = outer.mode
          /\ g.next = outer.next /\ g.step = outer.step /\ g.calls = outer.calls /\ g.hook = outer.hook
      BY <3>1 DEF Frames
    <3>4. QED
      BY <3>1, <3>2, <3>3
  <2>6. PICK inner \in Seq(Frames) :
          inner = SubSeq(stack, 1, n - 2) /\ Len(inner) = n - 2 /\ \A i \in 1 .. n - 2 : inner[i] = stack[i]
    <3>1. stack \in Seq(Frames)
      BY DEF Types
    <3>2. PICK k \in Nat : k = n - 2 /\ k <= Len(stack)
      BY <1>4, <2>1
    <3>3. PICK c : c = SubSeq(stack, 1, k)
      OBVIOUS
    <3>4. c \in Seq(Frames)
      BY <3>1, <3>2, <3>3
    <3>5. Len(c) = k
      BY <3>1, <3>2, <3>3
    <3>6. \A i \in 1 .. k : c[i] = stack[i]
      BY <3>1, <3>2, <3>3
    <3>7. QED
      BY <3>2, <3>3, <3>4, <3>5, <3>6
  <2>7. /\ Len(stack') = n - 1 /\ DOMAIN stack' = 1 .. n - 1 /\ stack' # <<>>
        /\ \A i \in 1 .. n - 2 : stack'[i] = stack[i]
        /\ stack'[n - 1] = g
    <3>1. stack' = Append(inner, g)
      BY <2>4, <2>5, <2>6
    <3>2. QED
      BY <2>1, <2>6, <3>1
  <2>8. stack'[n - 1].suite = stack[n - 1].suite /\ stack'[n - 1].next = stack[n - 1].next
    BY <2>2, <2>5, <2>7
  <2>9. NestInv' /\ VisitInv'
    <3>1. n \in Nat /\ UNCHANGED progress
      BY <1>4, <1>6 DEF T!Leave
    <3>2. QED
      BY <1>1, <1>2, <1>4, <2>1, <2>3, <2>7, <2>8, <3>1, SuiteLeft DEF WalkInv
  <2>10. FrameInv'
    <3>1. \A i \in 1 .. n - 1 : i \in 1 .. n - 2 \/ i = n - 1
      BY <2>1
    <3>2. \A i \in 1 .. n - 1 :
            /\ stack'[i].suite = stack[i].suite /\ stack'[i].mode = stack[i].mode
            /\ stack'[i].step = stack[i].step /\ stack'[i].calls = stack[i].calls
            /\ stack'[i].hook = stack[i].hook
            /\ stack'[i].next = stack[i].next \/ stack[i].calls = 0
      BY <2>2, <2>5, <2>7, <3>1
    <3>3. n - 1 <= Len(stack)
      BY <1>4
    <3>4. \A i \in 1 .. n - 1 : FrameHooks(stack[i])' /\ FrameModes(i)'
      BY <1>1, <2>1, <3>2, <3>3, FramesKept DEF WalkInv
    <3>5. QED
      BY <2>7, <3>4 DEF FrameInv
  <2>11. CalledInv'
    <3>1. \A s \in Suites : Gone(s)' /\ ~Gone(s) => s = t
      <4>1. told \in [Suites \ {Root} -> {"none", "fail", "todo", "skip", "pass"}]
        BY DEF Types
      <4>2. \A s \in Suites \ {Root} : s # t => told'[s] = told[s]
        BY <2>3, <4>1
      <4>3. ~Gone(Root)'
        BY <2>7 DEF Gone
      <4>4. QED
        BY <4>2, <4>3 DEF Gone
    <3>2. QED
      BY <1>1, <1>3, <3>1, CalledKept DEF WalkInv
  <2>12. QED
    BY <2>9, <2>10, <2>11 DEF WalkInv
<1>7. QED
  BY <1>5, <1>6

(* The file's own suite is entered. *)
LEMMA FileBegun ==
  ASSUME Types, WalkInv, T!Begin
  PROVE  WalkInv'
<1>1. progress = "start" /\ UNCHANGED <<decl, records, told, hooked>>
  BY DEF T!Begin
<1>2. /\ stack = <<>> /\ \A x \in T!Tasks : ~Past(x)
      /\ \A s \in Suites : ~Gone(s) /\ ~OnStack(s) /\ hooked[s] = T!NoCalls
  BY <1>1, NothingYet DEF WalkInv
<1>3. CalledInv'
  <2>1. \A s \in Suites : ~T!Called(s)
    BY <1>2 DEF T!Called
  <2>2. QED
    BY <1>1, <2>1, CalledKept DEF WalkInv
<1>4. CASE T!tasks[Root] = <<>> /\ ~decl.passWithNoTests
  <2>1. stack' = <<>> /\ progress' = "ran"
    BY <1>2, <1>4 DEF T!Begin
  <2>2. NestInv' /\ VisitInv'
    BY <1>1, <1>4, <2>1, RunBegun DEF WalkInv
  <2>3. FrameInv'
    BY <2>1 DEF FrameInv
  <2>4. QED
    BY <1>3, <2>2, <2>3 DEF WalkInv
<1>5. CASE ~(T!tasks[Root] = <<>> /\ ~decl.passWithNoTests)
  <2>1. stack' = <<T!Frame(Root, "none")>> /\ progress' = "run"
    BY <1>5 DEF T!Begin
  <2>2. Root \in Suites /\ decl \in Decls /\ NHooks \in Nat \ {0}
    BY TestRunFacts DEF Types
  <2>3. PICK f \in Frames :
          /\ f = T!Frame(Root, "none") /\ f.suite = Root /\ f.mode = "none" /\ f.next = 1 /\ f.calls = 0
          /\ f.step = (IF T!Quiet(f) THEN "tasks" ELSE "beforeAll")
          /\ ~T!Quiet(f) => ~f.hook
          /\ T!SkipAll(f) = "none" /\ T!ForbiddenOnly(Root) => f.hook
    BY <2>2, FrameFacts
  <2>4. stack' # <<>> /\ Len(stack') = 1 /\ DOMAIN stack' = {1} /\ stack'[1] = f
    BY <2>1, <2>3
  <2>5. NestInv' /\ VisitInv'
    <3>1. stack'[1].suite = Root /\ stack'[1].next = 1
      BY <2>3, <2>4
    <3>2. QED
      BY <1>1, <2>1, <2>4, <3>1, RunBegun DEF WalkInv
  <2>6. FrameHooks(f)'
    <3>1. hooked[Root] = T!NoCalls
      BY <1>2, <2>2
    <3>2. CASE T!Quiet(f)
      <4>1. T!Quiet(f)'
        BY <1>1, <3>2, DeclStable
      <4>2. hooked'[f.suite] = T!NoCalls /\ f.step = "tasks" /\ f.calls = 0
        BY <1>1, <2>3, <3>1, <3>2
      <4>3. QED
        BY <4>1, <4>2 DEF FrameHooks
    <3>3. CASE ~T!Quiet(f)
      <4>1. f.step = "beforeAll" /\ ~f.hook /\ f.calls = 0 /\ f.calls < NHooks
        BY <2>2, <2>3, <3>3
      <4>2. PICK h : h = hooked'[f.suite]
        OBVIOUS
      <4>3. h["before"] = <<>> /\ h["after"] = <<>> /\ h["undo"] = <<>>
        BY <1>1, <2>3, <3>1, <4>2 DEF T!NoCalls
      <4>4. Len(h["before"]) = f.calls /\ T!Clean(h["before"])
        BY <4>1, <4>3 DEF T!Clean, T!Range
      <4>5. QED
        BY <1>1, <3>3, <4>1, <4>2, <4>3, <4>4, FrameNext
    <3>4. QED
      BY <3>2, <3>3
  <2>7. FrameModes(1)'
    <3>1. T!SkipAll(f)' = T!SkipAll(f) /\ T!ForbiddenOnly(f.suite)' = T!ForbiddenOnly(f.suite)
      BY <1>1, DeclStable
    <3>2. T!SkipAll(f) = "none" /\ T!ForbiddenOnly(f.suite) => f.hook
      BY <2>3
    <3>3. 1 .. 1 - 1 = {}
      OBVIOUS
    <3>4. QED
      BY <2>4, <3>1, <3>2, <3>3 DEF FrameModes
  <2>8. FrameInv'
    <3>1. FrameHooks(stack[1])'
      BY <2>4, <2>6
    <3>2. QED
      BY <2>4, <2>7, <3>1 DEF FrameInv
  <2>9. QED
    BY <1>3, <2>5, <2>8 DEF WalkInv
<1>6. QED
  BY <1>4, <1>5

(* The walk stands still. *)
LEMMA WalkStill ==
  ASSUME Types, WalkInv, UNCHANGED <<decl, stack, records, told, hooked>>,
         progress' = progress \/ (progress = "run" /\ progress' = "stuck")
           \/ (progress = "ran" /\ progress' \in {"ERROR", "PASS", "FAIL"}) \/ (progress = "stuck" /\ progress' = "ERROR")
  PROVE  WalkInv'
<1>1. \A s : Gone(s)' <=> Gone(s)
  BY DEF Gone
<1>2. \A x : (Past(x)' <=> Past(x)) /\ (OnStack(x)' <=> OnStack(x))
  BY <1>1 DEF Past, Recorded, OnStack
<1>3. \A i : (Chained(i)' <=> Chained(i))
  BY DEF Chained, T!Collected, T!Children, T!Chain, T!ParentOf, T!tasks
<1>4. NestInv'
  BY <1>3 DEF WalkInv, NestInv
<1>5. \A i : (InOrder(i)' <=> InOrder(i))
  <2>1. T!tasks' = T!tasks
    BY DEF T!tasks
  <2>2. QED
    BY <1>2, <2>1 DEF InOrder
<1>6. \A x : T!Children(x)' = T!Children(x) /\ T!ParentOf(x)' = T!ParentOf(x) /\ (T!Collected(x)' <=> T!Collected(x))
  BY DeclStable
<1>7. VisitInv'
  BY <1>1, <1>2, <1>5, <1>6 DEF WalkInv, VisitInv, Distinct, WholeSuites, WithinSuites,
     Unentered
<1>8. FrameInv'
  <2>1. \A i \in DOMAIN stack : FrameHooks(stack[i])' /\ FrameModes(i)'
    <3>1. PICK n \in Nat : n = Len(stack) /\ DOMAIN stack = 1 .. n
      BY DEF Types
    <3>2. n <= Len(stack)
      BY <3>1
    <3>3. QED
      BY <3>1, <3>2, FramesKept DEF WalkInv
  <2>2. QED
    BY <2>1 DEF FrameInv
<1>9. CalledInv'
  BY <1>1, CalledKept DEF WalkInv
<1>10. QED
  BY <1>4, <1>7, <1>8, <1>9 DEF WalkInv

-----------------------------------------------------------------------------
(* The steps of an attempt                                                 *)

(* One step more of a kind leaves the other kinds. *)
LEMMA DeedAdded ==
  ASSUME NEW d \in [Kinds -> Seq(Steps)], NEW w \in Kinds, NEW k \in Int, NEW o \in T!Outcomes
  PROVE  /\ More(d, w, k, o) \in [Kinds -> Seq(Steps)]
         /\ More(d, w, k, o)[w] = Append(d[w], [k |-> k, o |-> o])
         /\ Len(More(d, w, k, o)[w]) = Len(d[w]) + 1
         /\ \A v \in Kinds : v # w => More(d, w, k, o)[v] = d[v]
         /\ Amiss(d) => Amiss(More(d, w, k, o))
         /\ o # "ok" => Amiss(More(d, w, k, o))
<1>0. PICK x : x = More(d, w, k, o)
  OBVIOUS
<1>1. [k |-> k, o |-> o] \in Steps
  BY DEF Steps
<1>2. PICK r \in Steps : r = [k |-> k, o |-> o] /\ r.o = o
  BY <1>1
<1>3. d[w] \in Seq(Steps) /\ Append(d[w], r) \in Seq(Steps) /\ Append(d[w], r) # <<>>
      /\ Len(Append(d[w], r)) = Len(d[w]) + 1
  OBVIOUS
<1>4. x \in [Kinds -> Seq(Steps)] /\ x[w] = Append(d[w], r) /\ \A v \in Kinds : v # w => x[v] = d[v]
  BY <1>0, <1>2, <1>3 DEF More
<1>5. Amiss(d) => Amiss(x)
  <2>1. ASSUME NEW v \in Kinds, NEW i \in DOMAIN d[v], d[v][i].o # "ok" PROVE Amiss(x)
    <3>1. i \in DOMAIN x[v] /\ x[v][i] = d[v][i]
      <4>1. CASE v = w
        <5>1. i \in 1 .. Len(d[w])
          BY <1>3, <4>1
        <5>2. QED
          BY <1>3, <1>4, <4>1, <5>1
      <4>2. CASE v # w
        BY <1>4, <4>2
      <4>3. QED
        BY <4>1, <4>2
    <3>2. QED
      BY <2>1, <3>1 DEF Amiss
  <2>2. QED
    BY <2>1 DEF Amiss
<1>6. o # "ok" => Amiss(x)
  <2>1. PICK i : i = Len(d[w]) + 1
    OBVIOUS
  <2>2. i \in DOMAIN x[w] /\ x[w][i] = r
    BY <1>3, <1>4, <2>1
  <2>3. QED
    BY <1>2, <2>2 DEF Amiss
<1>8. QED
  BY <1>0, <1>2, <1>3, <1>4, <1>5, <1>6

(* A sequence that is one longer, element by element. *)
LEMMA AppendIs ==
  ASSUME NEW S, NEW c \in Seq(S), NEW r \in S, NEW n \in Nat, n = Len(c), NEW a, a = Append(c, r)
  PROVE  /\ a \in Seq(S) /\ Len(a) = n + 1 /\ DOMAIN a = 1 .. n + 1 /\ a # <<>> /\ a[n + 1] = r
         /\ \A i \in 1 .. n : a[i] = c[i]
<1>1. a \in Seq(S) /\ Len(a) = n + 1 /\ DOMAIN a = 1 .. n + 1 /\ a # <<>> /\ a[n + 1] = r
  OBVIOUS
<1>2. \A i \in 1 .. n : a[i] = c[i]
  OBVIOUS
<1>3. QED
  BY <1>1, <1>2

(* n hooks forwards, and the next of them. *)
LEMMA FineFacts ==
  ASSUME NEW n \in Nat
  PROVE  /\ Fine(n) \in Seq(Steps) /\ Len(Fine(n)) = n
         /\ Append(Fine(n), [k |-> n + 1, o |-> "ok"]) = Fine(n + 1)
         /\ \A x \in T!Range(Fine(n)) : x.o = "ok"
         /\ Fine(0) = <<>>
<1>0. \A m \in Nat :
        /\ Fine(m) \in Seq(Steps) /\ Len(Fine(m)) = m /\ DOMAIN Fine(m) = 1 .. m
        /\ \A i \in 1 .. m : Fine(m)[i] = [k |-> i, o |-> "ok"]
  BY DEF Fine, Steps, T!Outcomes
<1>1. Fine(n) \in Seq(Steps) /\ Len(Fine(n)) = n /\ DOMAIN Fine(n) = 1 .. n
  BY <1>0
<1>2. Append(Fine(n), [k |-> n + 1, o |-> "ok"]) = Fine(n + 1)
  <2>1. PICK r : r = [k |-> n + 1, o |-> "ok"]
    OBVIOUS
  <2>2. r \in Steps
    BY <2>1 DEF Steps, T!Outcomes
  <2>3. PICK c \in Seq(Steps) : c = Fine(n) /\ Len(c) = n /\ \A i \in 1 .. n : c[i] = [k |-> i, o |-> "ok"]
    BY <1>1 DEF Fine
  <2>4. PICK a : a = Append(c, r)
    OBVIOUS
  <2>5. /\ a \in Seq(Steps) /\ Len(a) = n + 1 /\ a[n + 1] = r
        /\ \A i \in 1 .. n : a[i] = c[i]
    BY <2>2, <2>3, <2>4, AppendIs
  <2>6. PICK b \in Seq(Steps) :
          b = Fine(n + 1) /\ Len(b) = n + 1 /\ \A i \in 1 .. n + 1 : b[i] = [k |-> i, o |-> "ok"]
    <3>1. n + 1 \in Nat
      OBVIOUS
    <3>2. QED
      BY <1>0, <3>1
  <2>7. \A i \in 1 .. n + 1 : a[i] = b[i]
    <3>1. \A i \in 1 .. n + 1 : i \in 1 .. n \/ i = n + 1
      OBVIOUS
    <3>2. \A i \in 1 .. n : a[i] = b[i]
      BY <2>3, <2>5, <2>6
    <3>3. a[n + 1] = b[n + 1]
      BY <2>1, <2>5, <2>6
    <3>4. QED
      BY <3>1, <3>2, <3>3
  <2>8. a = b
    BY <2>5, <2>6, <2>7, SeqEqual
  <2>9. QED
    BY <2>1, <2>3, <2>4, <2>6, <2>8
<1>3. \A x \in T!Range(Fine(n)) : x.o = "ok"
  BY DEF T!Range, Fine
<1>4. Fine(0) = <<>>
  BY DEF Fine
<1>5. QED
  BY <1>1, <1>2, <1>3, <1>4

(* n hooks backwards from e, and the next of them. *)
LEMMA DownFacts ==
  ASSUME NEW n \in Nat, NEW e \in Nat
  PROVE  /\ Down(e, n) \in Seq(Steps) /\ Len(Down(e, n)) = n
         /\ Append(Down(e, n), [k |-> e - n, o |-> "ok"]) = Down(e, n + 1)
         /\ \A i \in 1 .. n : Down(e, n)[i].k = e + 1 - i /\ Down(e, n)[i].o = "ok"
         /\ Down(e, 0) = <<>>
<1>0. \A m \in Nat :
        /\ Down(e, m) \in Seq(Steps) /\ Len(Down(e, m)) = m /\ DOMAIN Down(e, m) = 1 .. m
        /\ \A i \in 1 .. m : Down(e, m)[i] = [k |-> e + 1 - i, o |-> "ok"]
  BY DEF Down, Steps, T!Outcomes
<1>1. Down(e, n) \in Seq(Steps) /\ Len(Down(e, n)) = n /\ DOMAIN Down(e, n) = 1 .. n
  BY <1>0
<1>2. Append(Down(e, n), [k |-> e - n, o |-> "ok"]) = Down(e, n + 1)
  <2>1. PICK r : r = [k |-> e - n, o |-> "ok"]
    OBVIOUS
  <2>2. r \in Steps
    BY <2>1 DEF Steps, T!Outcomes
  <2>3. PICK c \in Seq(Steps) : c = Down(e, n) /\ Len(c) = n /\ \A i \in 1 .. n : c[i] = [k |-> e + 1 - i, o |-> "ok"]
    BY <1>1 DEF Down
  <2>4. PICK a : a = Append(c, r)
    OBVIOUS
  <2>5. /\ a \in Seq(Steps) /\ Len(a) = n + 1 /\ a[n + 1] = r
        /\ \A i \in 1 .. n : a[i] = c[i]
    BY <2>2, <2>3, <2>4, AppendIs
  <2>6. PICK b \in Seq(Steps) :
          b = Down(e, n + 1) /\ Len(b) = n + 1 /\ \A i \in 1 .. n + 1 : b[i] = [k |-> e + 1 - i, o |-> "ok"]
    <3>1. n + 1 \in Nat
      OBVIOUS
    <3>2. QED
      BY <1>0, <3>1
  <2>7. \A i \in 1 .. n + 1 : a[i] = b[i]
    <3>1. \A i \in 1 .. n + 1 : i \in 1 .. n \/ i = n + 1
      OBVIOUS
    <3>2. \A i \in 1 .. n : a[i] = b[i]
      BY <2>3, <2>5, <2>6
    <3>3. a[n + 1] = b[n + 1]
      BY <2>1, <2>5, <2>6
    <3>4. QED
      BY <3>1, <3>2, <3>3
  <2>8. a = b
    BY <2>5, <2>6, <2>7, SeqEqual
  <2>9. QED
    BY <2>1, <2>3, <2>4, <2>6, <2>8
<1>3. \A i \in 1 .. n : Down(e, n)[i].k = e + 1 - i /\ Down(e, n)[i].o = "ok"
  BY DEF Down
<1>4. Down(e, 0) = <<>>
  BY DEF Down
<1>5. QED
  BY <1>1, <1>2, <1>3, <1>4

(* Calls from the last hook backwards, up to one that went wrong. *)
LEMMA UnwoundNext ==
  ASSUME NEW e \in Nat, NEW n \in Nat, n < e, NEW o \in T!Outcomes, o # "ok" \/ n + 1 = e
  PROVE  /\ T!Unwound(Append(Down(e, n), [k |-> e - n, o |-> o]), e, 1)
         /\ T!Last(Append(Down(e, n), [k |-> e - n, o |-> o])).o = o
<1>0. PICK c : c = Append(Down(e, n), [k |-> e - n, o |-> o])
  OBVIOUS
<1>1. PICK r \in Steps : r = [k |-> e - n, o |-> o]
  <2>1. e - n \in Int
    OBVIOUS
  <2>2. QED
    BY <2>1 DEF Steps
<1>2. /\ Len(c) = n + 1 /\ DOMAIN c = 1 .. n + 1 /\ c[n + 1] = r /\ c # <<>>
      /\ \A i \in 1 .. n : c[i] = Down(e, n)[i]
  <2>1. Down(e, n) \in Seq(Steps) /\ Len(Down(e, n)) = n /\ c = Append(Down(e, n), r)
    BY <1>0, <1>1, DownFacts
  <2>2. QED
    BY <2>1, AppendIs
<1>3. T!Last(c) = r
  BY <1>2 DEF T!Last
<1>8. \A i \in 1 .. n : Down(e, n)[i].k = e + 1 - i /\ Down(e, n)[i].o = "ok"
  BY DownFacts
<1>4. \A i \in DOMAIN c : c[i].k = e + 1 - i
  <2>1. \A i \in 1 .. n + 1 : i \in 1 .. n \/ i = n + 1
    OBVIOUS
  <2>2. r.k = e + 1 - (n + 1)
    BY <1>1
  <2>3. QED
    BY <1>1, <1>2, <2>1, <2>2, <1>8
<1>5. \A i \in 1 .. Len(c) - 1 : c[i].o = "ok"
  <2>1. Len(c) - 1 = n
    BY <1>2
  <2>2. QED
    BY <1>2, <2>1, <1>8
<1>6. Len(c) < e + 1 - 1 => c # <<>> /\ T!Last(c).o # "ok"
  BY <1>1, <1>2, <1>3
<1>7. QED
  BY <1>0, <1>1, <1>3, <1>4, <1>5, <1>6 DEF T!Unwound

(* All hooks backwards are unwound. *)
LEMMA UnwoundAll ==
  ASSUME NEW e \in Nat \ {0}
  PROVE  T!Unwound(Down(e, e), e, 1) /\ T!Last(Down(e, e)).o = "ok"
<1>1. Down(e, e) \in Seq(Steps) /\ Len(Down(e, e)) = e
      /\ \A i \in 1 .. e : Down(e, e)[i].k = e + 1 - i /\ Down(e, e)[i].o = "ok"
  BY DownFacts
<1>2. T!Last(Down(e, e)) = Down(e, e)[e] /\ e \in 1 .. e
  BY <1>1 DEF T!Last
<1>3. QED
  BY <1>1, <1>2 DEF T!Unwound

(* The kinds of steps. *)
LEMMA KindNames ==
  /\ "before" \in Kinds /\ "body" \in Kinds /\ "after" \in Kinds /\ "undo" \in Kinds
  /\ "finished" \in Kinds /\ "failed" \in Kinds /\ "zombie" \in Kinds
BY DEF Kinds, T!Nothing

(* What an attempt is that goes to its afterEach hooks. *)
LEMMA SettledFacts ==
  ASSUME NEW a \in AttemptStates, NEW o \in T!Outcomes, NEW b, b = T!Settled(a, o)
  PROVE  /\ b \in AttemptStates /\ b.test = a.test /\ b.no = a.no /\ b.kept = a.kept /\ b.step = "afterEach"
         /\ b.calls = 0
         /\ b.state = (IF o = "skip" THEN "skip" ELSE IF o \in {"ok", "caught"} THEN "pass" ELSE "fail")
<1>1. PICK s : s = IF o = "skip" THEN "skip" ELSE IF o \in {"ok", "caught"} THEN "pass" ELSE "fail"
  OBVIOUS
<1>2. PICK p \in BOOLEAN, q \in BOOLEAN, m \in Nat :
        b = [a EXCEPT !.ok = p, !.pending = q, !.calls = 0, !.step = "afterEach",
                      !.state = s, !.errors = m]
  <2>1. (o \in {"ok", "caught"}) \in BOOLEAN /\ (a.pending \/ o \in {"skip", "caught"}) \in BOOLEAN
    OBVIOUS
  <2>2. a.errors \in Nat /\ a.errors + 1 \in Nat
    BY DEF AttemptStates
  <2>3. (IF o \in {"ok", "caught"} \/ (a.pending \/ o \in {"skip", "caught"})
           THEN a.errors ELSE a.errors + 1) \in Nat
    BY <2>2
  <2>4. b = [a EXCEPT !.ok = (o \in {"ok", "caught"}), !.pending = (a.pending \/ o \in {"skip", "caught"}),
                      !.calls = 0, !.step = "afterEach", !.state = s,
                      !.errors = IF o \in {"ok", "caught"} \/ (a.pending \/ o \in {"skip", "caught"})
                                   THEN a.errors ELSE a.errors + 1]
    BY <1>1 DEF T!Settled
  <2>5. QED
    BY <2>1, <2>3, <2>4
<1>3. s \in {"run", "pass", "fail", "skip"} /\ 0 \in Nat /\ "afterEach" \in AttemptSteps
  BY <1>1 DEF AttemptSteps
<1>4. b \in AttemptStates
  BY <1>2, <1>3 DEF AttemptStates
<1>5. /\ b.test = a.test /\ b.no = a.no /\ b.kept = a.kept /\ b.step = "afterEach"
      /\ b.calls = 0 /\ b.state = s
  BY <1>2 DEF AttemptStates
<1>6. QED
  BY <1>1, <1>4, <1>5

(* What an attempt is after an error. *)
LEMMA ThrownFacts ==
  ASSUME NEW a \in AttemptStates, NEW o \in {"ok", "throw", "skip"}, NEW b, b = T!Thrown(a, o)
  PROVE  /\ b \in AttemptStates /\ b.test = a.test /\ b.no = a.no /\ b.kept = a.kept /\ b.step = a.step
         /\ b.calls = a.calls
         /\ b.state = a.state \/ (b.state = "fail" /\ o # "ok")
<1>1. a.errors \in Nat /\ a.errors + 1 \in Nat
  BY DEF AttemptStates
<1>2. b = a \/ b = [a EXCEPT !.pending = TRUE]
      \/ (b = [a EXCEPT !.ok = FALSE, !.state = "fail", !.errors = a.errors + 1] /\ o # "ok")
  BY DEF T!Thrown
<1>3. QED
  BY <1>1, <1>2 DEF AttemptStates

(* An attempt that begins has done nothing. *)
LEMMA DeedsAtStart ==
  ASSUME NEW e \in Nat \ {0}, NEW t \in Tests, NEW no \in Nat, NEW errors \in Nat
  PROVE  /\ T!Attempt(t, no, errors) \in AttemptStates /\ T!Attempt(t, no, errors).test = t
         /\ Deeds(T!Attempt(t, no, errors), T!Nothing, e)
<1>1. PICK a : a = T!Attempt(t, no, errors)
  OBVIOUS
<1>2. a \in AttemptStates /\ a.test = t /\ a.step = "beforeEach" /\ a.calls = 0 /\ a.kept = 0 /\ a.state = "run"
  BY <1>1 DEF T!Attempt, AttemptStates, AttemptSteps
<1>3. \A w \in Kinds : T!Nothing[w] = <<>>
  BY DEF Kinds, T!Nothing
<1>4. Fine(0) = <<>>
  BY FineFacts
<1>5. T!Nothing["before"] = Fine(a.calls) /\ T!Nothing["body"] = <<>> /\ T!Nothing["after"] = <<>>
      /\ T!Nothing["undo"] = <<>> /\ T!Nothing["finished"] = <<>> /\ T!Nothing["failed"] = <<>>
      /\ Len(T!Nothing["failed"]) <= Len(T!Nothing["body"])
  BY <1>2, <1>3, <1>4, KindNames
<1>6. Deeds(a, T!Nothing, e)
  BY <1>2, <1>5 DEF Deeds
<1>7. QED
  BY <1>1, <1>2, <1>6

(* A beforeEach hook is called. *)
LEMMA DeedsBeforeEach ==
  ASSUME NEW e \in Nat \ {0}, NEW a \in AttemptStates, NEW d \in [Kinds -> Seq(Steps)], Deeds(a, d, e),
         a.step = "beforeEach", NEW o \in {"ok", "throw", "skip"},
         NEW x, x = More(d, "before", a.calls + 1, o), NEW b, b = BeforeEachCalled(a, e, o)
  PROVE  b \in AttemptStates /\ b.test = a.test /\ x \in [Kinds -> Seq(Steps)] /\ Deeds(b, x, e)
<1>1. /\ a.calls \in Nat /\ a.calls < e /\ a.kept = 0 /\ d["before"] = Fine(a.calls) /\ d["body"] = <<>>
      /\ d["after"] = <<>> /\ d["undo"] = <<>> /\ d["finished"] = <<>> /\ d["failed"] = <<>>
      /\ (a.state = "fail" => Amiss(d))
  BY DEF Deeds, AttemptStates
<1>2. a.calls + 1 \in Int /\ o \in T!Outcomes
  BY <1>1 DEF T!Outcomes
<1>3. PICK r : r = [k |-> a.calls + 1, o |-> o]
  OBVIOUS
<1>4. /\ x \in [Kinds -> Seq(Steps)] /\ x["before"] = Append(Fine(a.calls), r) /\ r \in Steps
      /\ x["body"] = <<>> /\ x["after"] = <<>> /\ x["undo"] = <<>> /\ x["finished"] = <<>>
      /\ x["failed"] = <<>> /\ (Amiss(d) \/ o # "ok" => Amiss(x))
  <2>1. /\ x \in [Kinds -> Seq(Steps)] /\ [k |-> a.calls + 1, o |-> o] \in Steps
        /\ x["before"] = Append(d["before"], [k |-> a.calls + 1, o |-> o])
        /\ \A v \in Kinds : v # "before" => x[v] = d[v]
        /\ Amiss(d) \/ o # "ok" => Amiss(x)
    <3>1. PICK w \in Kinds, n \in Int : w = "before" /\ n = a.calls + 1
      BY <1>2, KindNames
    <3>2. x = More(d, w, n, o)
      BY <3>1
    <3>3. /\ x \in [Kinds -> Seq(Steps)]
          /\ x[w] = Append(d[w], [k |-> n, o |-> o])
          /\ \A v \in Kinds : v # w => x[v] = d[v]
          /\ Amiss(d) \/ o # "ok" => Amiss(x)
      BY <1>2, <3>1, <3>2, DeedAdded
    <3>4. [k |-> n, o |-> o] \in Steps
      BY <1>2 DEF Steps
    <3>5. QED
      BY <3>1, <3>3, <3>4
  <2>2. QED
    BY <1>1, <1>3, <2>1, KindNames
<1>5. Len(x["failed"]) <= Len(x["body"]) /\ Len(x["body"]) = 0
  BY <1>4
<1>6. CASE o = "ok"
  <2>1. x["before"] = Fine(a.calls + 1)
    BY <1>1, <1>3, <1>4, <1>6, FineFacts
  <2>2. /\ b \in AttemptStates /\ b.test = a.test /\ b.calls = a.calls + 1 /\ b.state = a.state
        /\ b.kept = (IF a.calls + 1 = e THEN e ELSE 0)
        /\ b.step = (IF a.calls + 1 = e THEN "body" ELSE "beforeEach")
    <3>1. PICK m \in Nat, s \in AttemptSteps :
            /\ m = (IF a.calls + 1 = e THEN e ELSE 0)
            /\ s = (IF a.calls + 1 = e THEN "body" ELSE "beforeEach")
      BY DEF AttemptSteps
    <3>2. b = [a EXCEPT !.calls = a.calls + 1, !.kept = m, !.step = s]
      BY <1>6, <3>1 DEF BeforeEachCalled
    <3>3. a.calls + 1 \in Nat
      BY <1>1
    <3>4. b \in AttemptStates
      BY <3>1, <3>2, <3>3 DEF AttemptStates
    <3>5. /\ b.test = a.test /\ b.calls = a.calls + 1 /\ b.state = a.state /\ b.kept = m /\ b.step = s
      BY <3>2 DEF AttemptStates
    <3>6. QED
      BY <3>1, <3>4, <3>5
  <2>3. CASE a.calls + 1 = e
    BY <1>1, <1>4, <1>5, <2>1, <2>2, <2>3 DEF Deeds
  <2>4. CASE a.calls + 1 # e
    <3>1. b.calls < e
      BY <1>1, <2>2, <2>4
    <3>2. QED
      BY <1>1, <1>4, <1>5, <2>1, <2>2, <2>4, <3>1 DEF Deeds
  <2>5. QED
    BY <1>4, <2>2, <2>3, <2>4
<1>7. CASE o # "ok"
  <2>1. b \in AttemptStates /\ b.test = a.test /\ b.kept = 0 /\ b.step = "afterEach" /\ b.calls = 0
    BY <1>1, <1>2, <1>7, SettledFacts DEF BeforeEachCalled
  <2>2. Broken(x)
    <3>1. T!Range(x["before"]) = T!Range(Fine(a.calls)) \union {r}
      <4>1. PICK c \in Seq(Steps) : c = Fine(a.calls)
        BY <1>1, FineFacts
      <4>2. T!Range(Append(c, r)) = T!Range(c) \union {r}
        BY <1>4, RangeAppend
      <4>3. QED
        BY <1>4, <4>1, <4>2
    <3>2. QED
      BY <1>3, <1>7, <3>1 DEF Broken
  <2>3. Down(e, 0) = <<>>
    BY DownFacts
  <2>4. /\ b.calls < e + b.kept /\ b.calls < e
        /\ x["after"] = Down(e, IF b.calls < e THEN b.calls ELSE e)
        /\ x["undo"] = Down(e, IF b.calls < e THEN 0 ELSE b.calls - e)
    BY <1>4, <2>1, <2>3
  <2>5. Amiss(x)
    BY <1>4, <1>7
  <2>6. QED
    BY <1>4, <1>5, <2>1, <2>2, <2>4, <2>5 DEF Deeds
<1>8. QED
  BY <1>6, <1>7

(* The body is called. *)
LEMMA DeedsBody ==
  ASSUME NEW e \in Nat \ {0}, NEW a \in AttemptStates, NEW d \in [Kinds -> Seq(Steps)], Deeds(a, d, e),
         a.step = "body", NEW o \in T!Outcomes,
         NEW x, x = More(d, "body", 0, o),
         NEW b, b = T!Settled(a, o)
  PROVE  b \in AttemptStates /\ b.test = a.test /\ x \in [Kinds -> Seq(Steps)] /\ Deeds(b, x, e)
<1>1. /\ a.kept = e /\ d["before"] = Fine(e) /\ d["body"] = <<>>
      /\ d["after"] = <<>> /\ d["undo"] = <<>> /\ d["finished"] = <<>> /\ d["failed"] = <<>>
  BY DEF Deeds
<1>2. ~Broken(d)
  BY <1>1, FineFacts DEF Broken
<1>3. /\ x \in [Kinds -> Seq(Steps)] /\ x["before"] = Fine(e) /\ Len(x["body"]) = Len(d["body"]) + 1
      /\ x["after"] = <<>> /\ x["undo"] = <<>> /\ x["finished"] = <<>>
      /\ x["failed"] = <<>> /\ (Amiss(d) \/ o # "ok" => Amiss(x)) /\ ~Broken(x)
  <2>1. 0 \in Int
    OBVIOUS
  <2>2. /\ x \in [Kinds -> Seq(Steps)] /\ Len(x["body"]) = Len(d["body"]) + 1
        /\ \A v \in Kinds : v # "body" => x[v] = d[v]
        /\ (Amiss(d) \/ o # "ok" => Amiss(x)) /\ (Broken(x) <=> Broken(d))
    <3>1. PICK w \in Kinds, n \in Int : w = "body" /\ n = 0
      BY <2>1, KindNames
    <3>2. x = More(d, w, n, o) /\ w # "before"
      BY <3>1
    <3>3. /\ x \in [Kinds -> Seq(Steps)] /\ Len(x[w]) = Len(d[w]) + 1
          /\ x[w] = Append(d[w], [k |-> n, o |-> o])
          /\ \A v \in Kinds : v # w => x[v] = d[v]
          /\ (Amiss(d) \/ o # "ok" => Amiss(x))
      BY <3>1, <3>2, DeedAdded
    <3>4. x["before"] = d["before"]
      BY <3>2, <3>3, KindNames
    <3>5. QED
      BY <3>1, <3>3, <3>4 DEF Broken
  <2>3. QED
    BY <1>1, <1>2, <2>2, KindNames
<1>4. Len(x["body"]) = 1 /\ Len(x["failed"]) <= Len(x["body"])
  BY <1>1, <1>3
<1>5. /\ b \in AttemptStates /\ b.test = a.test /\ b.kept = e /\ b.step = "afterEach" /\ b.calls = 0
      /\ (b.state = "fail" => o # "ok")
  BY <1>1, SettledFacts
<1>6. Down(e, 0) = <<>>
  BY DownFacts
<1>7. /\ b.calls < e + b.kept /\ b.calls < e
      /\ x["after"] = Down(e, IF b.calls < e THEN b.calls ELSE e)
      /\ x["undo"] = Down(e, IF b.calls < e THEN 0 ELSE b.calls - e)
  BY <1>3, <1>5, <1>6
<1>8. b.state = "fail" => Amiss(x)
  BY <1>3, <1>5
<1>9. QED
  BY <1>3, <1>4, <1>5, <1>7, <1>8 DEF Deeds

(* A body left behind by its timeout skips the test. *)
LEMMA DeedsZombie ==
  ASSUME NEW e \in Nat \ {0}, NEW a \in AttemptStates, NEW d \in [Kinds -> Seq(Steps)], Deeds(a, d, e),
         NEW x, x = More(d, "zombie", 0, "skip"), NEW b, b = [a EXCEPT !.pending = TRUE]
  PROVE  b \in AttemptStates /\ b.test = a.test /\ x \in [Kinds -> Seq(Steps)] /\ Deeds(b, x, e)
<1>1. /\ b \in AttemptStates /\ b.test = a.test /\ b.step = a.step /\ b.calls = a.calls /\ b.kept = a.kept
      /\ b.state = a.state
  BY DEF AttemptStates
<1>2. /\ x \in [Kinds -> Seq(Steps)] /\ \A v \in Kinds : v # "zombie" => x[v] = d[v]
      /\ (Amiss(d) => Amiss(x)) /\ (Broken(x) <=> Broken(d))
  <2>1. PICK w \in Kinds, n \in Int, o \in T!Outcomes : w = "zombie" /\ n = 0 /\ o = "skip"
    BY KindNames DEF T!Outcomes
  <2>2. x = More(d, w, n, o) /\ w # "before"
    BY <2>1
  <2>3. /\ x \in [Kinds -> Seq(Steps)] /\ \A v \in Kinds : v # w => x[v] = d[v]
        /\ (Amiss(d) => Amiss(x)) /\ x[w] = Append(d[w], [k |-> n, o |-> o])
    <3>1. w \in Kinds /\ n \in Int /\ o \in T!Outcomes /\ x = More(d, w, n, o)
      BY <2>1, <2>2
    <3>2. /\ More(d, w, n, o) \in [Kinds -> Seq(Steps)]
          /\ More(d, w, n, o)[w] = Append(d[w], [k |-> n, o |-> o])
          /\ Len(More(d, w, n, o)[w]) = Len(d[w]) + 1
          /\ \A v \in Kinds : v # w => More(d, w, n, o)[v] = d[v]
          /\ Amiss(d) => Amiss(More(d, w, n, o))
          /\ o # "ok" => Amiss(More(d, w, n, o))
      BY <3>1, DeedAdded
    <3>3. QED
      BY <3>1, <3>2
  <2>4. x["before"] = d["before"]
    BY <2>2, <2>3, KindNames
  <2>5. QED
    BY <2>1, <2>3, <2>4 DEF Broken
<1>3. /\ x["before"] = d["before"] /\ x["body"] = d["body"] /\ x["after"] = d["after"]
      /\ x["undo"] = d["undo"] /\ x["finished"] = d["finished"] /\ x["failed"] = d["failed"]
  BY <1>2, KindNames
<1>4. Unwinding(d, e) => Unwinding(x, e)
  BY <1>2, <1>3 DEF Unwinding
<1>5. Deeds(b, x, e)
  BY <1>1, <1>2, <1>3, <1>4 DEF Deeds
<1>6. QED
  BY <1>1, <1>2, <1>5

(* An onTestFinished or onTestFailed handler is called. *)
LEMMA DeedsHandler ==
  ASSUME NEW e \in Nat \ {0}, NEW a \in AttemptStates, NEW d \in [Kinds -> Seq(Steps)], Deeds(a, d, e),
         NEW s \in {"finished", "failed"}, a.step = s, NEW o \in {"ok", "throw", "skip"},
         NEW x, x = More(d, s, 0, o), NEW b, b = HandlerCalled(a, s, o)
  PROVE  b \in AttemptStates /\ b.test = a.test /\ x \in [Kinds -> Seq(Steps)] /\ Deeds(b, x, e)
<1>0. PICK c : c = T!Thrown(a, o) /\ b = [c EXCEPT !.step = IF s = "finished" THEN T!AfterFinished(c) ELSE "end"]
  BY DEF HandlerCalled
<1>1. /\ c \in AttemptStates /\ c.test = a.test /\ (c.state = a.state \/ (c.state = "fail" /\ o # "ok"))
  BY <1>0, ThrownFacts
<1>2. PICK q \in AttemptSteps :
        q = (IF s = "finished" THEN IF c.state = "fail" THEN "failed" ELSE "end" ELSE "end")
  BY DEF AttemptSteps
<1>3. b \in AttemptStates /\ b.test = a.test /\ b.step = q /\ b.state = c.state
  <2>1. b = [c EXCEPT !.step = q]
    BY <1>0, <1>2 DEF T!AfterFinished
  <2>2. QED
    BY <1>1, <2>1 DEF AttemptStates
<1>4. /\ x \in [Kinds -> Seq(Steps)] /\ \A v \in Kinds : v # s => x[v] = d[v]
      /\ Len(x[s]) = Len(d[s]) + 1
      /\ (Amiss(d) \/ o # "ok" => Amiss(x)) /\ (Broken(x) <=> Broken(d))
  <2>1. PICK w \in Kinds, n \in Int : w = s /\ n = 0
    BY KindNames
  <2>2. x = More(d, w, n, o) /\ w # "before" /\ o \in T!Outcomes
    BY <2>1 DEF T!Outcomes
  <2>3. /\ x \in [Kinds -> Seq(Steps)] /\ \A v \in Kinds : v # w => x[v] = d[v]
        /\ x[w] = Append(d[w], [k |-> n, o |-> o])
        /\ Len(x[w]) = Len(d[w]) + 1 /\ (Amiss(d) \/ o # "ok" => Amiss(x))
    <3>1. w \in Kinds /\ n \in Int /\ o \in T!Outcomes /\ x = More(d, w, n, o)
      BY <2>1, <2>2
    <3>2. /\ More(d, w, n, o) \in [Kinds -> Seq(Steps)]
          /\ More(d, w, n, o)[w] = Append(d[w], [k |-> n, o |-> o])
          /\ Len(More(d, w, n, o)[w]) = Len(d[w]) + 1
          /\ \A v \in Kinds : v # w => More(d, w, n, o)[v] = d[v]
          /\ Amiss(d) => Amiss(More(d, w, n, o))
          /\ o # "ok" => Amiss(More(d, w, n, o))
      BY <3>1, DeedAdded
    <3>3. QED
      BY <3>1, <3>2
  <2>4. x["before"] = d["before"]
    BY <2>2, <2>3, KindNames
  <2>5. QED
    BY <2>1, <2>3, <2>4 DEF Broken
<1>5. /\ x["before"] = d["before"] /\ x["body"] = d["body"] /\ x["after"] = d["after"]
      /\ x["undo"] = d["undo"]
  BY <1>4, KindNames
<1>6. /\ Unwinding(d, e) /\ ~Broken(d) /\ Len(d["body"]) = 1 /\ d["failed"] = <<>>
      /\ (a.state = "fail" => Amiss(d))
      /\ (s = "finished" => d["finished"] = <<>>)
      /\ (s = "failed" => Len(d["finished"]) = 1 /\ a.state = "fail")
  BY DEF Deeds
<1>7. Unwinding(x, e) /\ ~Broken(x) /\ Len(x["body"]) = 1
  BY <1>4, <1>5, <1>6 DEF Unwinding
<1>8. CASE s = "finished"
  <2>1. Len(x["finished"]) = 1 /\ x["failed"] = <<>>
    <3>1. Len(d["finished"]) = 0 /\ Len(x["finished"]) = Len(d["finished"]) + 1
      BY <1>4, <1>6, <1>8
    <3>2. x["failed"] = <<>>
      BY <1>4, <1>6, <1>8, KindNames
    <3>3. QED
      BY <3>1, <3>2
  <2>2. Len(x["failed"]) <= Len(x["body"]) /\ (b.state = "fail" => Amiss(x))
    BY <1>1, <1>3, <1>4, <1>6, <1>7, <2>1
  <2>3. b.step \in {"failed", "end"} /\ (b.step = "failed" => b.state = "fail")
    BY <1>2, <1>3, <1>8
  <2>4. Deeds(b, x, e)
    BY <1>7, <2>1, <2>2, <2>3 DEF Deeds
  <2>5. QED
    BY <1>3, <1>4, <2>4
<1>9. CASE s = "failed"
  <2>1. Len(x["finished"]) = 1 /\ Len(x["failed"]) = 1 /\ Amiss(x)
    <3>1. Len(d["failed"]) = 0
      BY <1>6
    <3>2. Len(x["failed"]) = Len(d["failed"]) + 1
      BY <1>4, <1>9
    <3>3. x["finished"] = d["finished"]
      BY <1>4, <1>9, KindNames
    <3>4. QED
      BY <1>4, <1>6, <1>9, <3>1, <3>2, <3>3
  <2>2. b.step = "end"
    BY <1>2, <1>3, <1>9
  <2>3. Deeds(b, x, e)
    BY <1>7, <2>1, <2>2 DEF Deeds
  <2>4. QED
    BY <1>3, <1>4, <2>3
<1>10. QED
  BY <1>8, <1>9

(* An afterEach hook is called, or what a beforeEach hook returned. *)
LEMMA DeedsAfterEach ==
  ASSUME NEW e \in Nat \ {0}, NEW a \in AttemptStates, NEW d \in [Kinds -> Seq(Steps)], Deeds(a, d, e),
         a.step = "afterEach", NEW o \in {"ok", "throw", "skip"},
         NEW x, x = AfterEachDone(a, d, e, o), NEW b, b = AfterEachCalled(a, d, e, o)
  PROVE  b \in AttemptStates /\ b.test = a.test /\ x \in [Kinds -> Seq(Steps)] /\ Deeds(b, x, e)
<1>0. PICK last \in BOOLEAN : last <=> o # "ok" \/ a.calls + 1 = e + a.kept
  OBVIOUS
<1>1. /\ a.calls \in Nat /\ a.kept \in Nat /\ (Broken(d) => a.kept = 0) /\ (~Broken(d) => a.kept = e)
      /\ a.calls < e + a.kept
      /\ d["after"] = Down(e, IF a.calls < e THEN a.calls ELSE e)
      /\ d["undo"] = Down(e, IF a.calls < e THEN 0 ELSE a.calls - e)
      /\ (Broken(d) => Len(d["body"]) = 0) /\ (~Broken(d) => Len(d["body"]) = 1)
      /\ d["finished"] = <<>> /\ d["failed"] = <<>> /\ (a.state = "fail" => Amiss(d))
  BY DEF Deeds, AttemptStates
<1>2. PICK c \in AttemptStates :
        /\ c = T!Thrown(a, o) /\ c.test = a.test /\ c.kept = a.kept /\ c.step = "afterEach"
        /\ c.calls = a.calls /\ (c.state = a.state \/ (c.state = "fail" /\ o # "ok"))
  BY ThrownFacts
<1>3. PICK q \in AttemptSteps, m \in Nat :
        /\ q = (IF last THEN (IF d["body"] # <<>> THEN "finished" ELSE "end") ELSE "afterEach")
        /\ m = (IF last THEN 0 ELSE a.calls + 1)
  <2>1. a.calls + 1 \in Nat
    BY <1>1
  <2>2. QED
    BY <2>1 DEF AttemptSteps
<1>4. /\ b \in AttemptStates /\ b.test = a.test /\ b.kept = a.kept /\ b.step = q /\ b.calls = m
      /\ b.state = c.state
  <2>1. b = [c EXCEPT !.calls = m, !.step = q]
    BY <1>0, <1>2, <1>3 DEF AfterEachCalled
  <2>2. b \in AttemptStates
    BY <2>1 DEF AttemptStates
  <2>3. QED
    BY <1>2, <2>1, <2>2 DEF AttemptStates
<1>5. PICK w \in Kinds, n \in Int :
        /\ w = (IF a.calls < e THEN "after" ELSE "undo")
        /\ n = (IF a.calls < e THEN e - a.calls ELSE 2 * e - a.calls)
  <2>1. e - a.calls \in Int /\ 2 * e - a.calls \in Int
    BY <1>1
  <2>2. CASE a.calls < e
    BY <2>1, <2>2, KindNames
  <2>3. CASE ~(a.calls < e)
    BY <2>1, <2>3, KindNames
  <2>4. QED
    BY <2>2, <2>3
<1>6. /\ x \in [Kinds -> Seq(Steps)] /\ x[w] = Append(d[w], [k |-> n, o |-> o])
      /\ \A v \in Kinds : v # w => x[v] = d[v]
      /\ (Amiss(d) \/ o # "ok" => Amiss(x)) /\ (Broken(x) <=> Broken(d))
  <2>1. x = More(d, w, n, o) /\ w # "before" /\ o \in T!Outcomes
    BY <1>5 DEF T!Outcomes, AfterEachDone
  <2>2. /\ x \in [Kinds -> Seq(Steps)] /\ x[w] = Append(d[w], [k |-> n, o |-> o])
        /\ \A v \in Kinds : v # w => x[v] = d[v]
        /\ (Amiss(d) \/ o # "ok" => Amiss(x))
    BY <1>5, <2>1, DeedAdded
  <2>3. x["before"] = d["before"]
    BY <2>1, <2>2, KindNames
  <2>4. QED
    BY <2>2, <2>3 DEF Broken
<1>7. /\ x["before"] = d["before"] /\ x["body"] = d["body"]
      /\ x["finished"] = <<>> /\ x["failed"] = <<>> /\ (b.state = "fail" => Amiss(x))
  BY <1>1, <1>2, <1>4, <1>5, <1>6, KindNames
<1>8. /\ (Broken(x) => Len(x["body"]) = 0) /\ (~Broken(x) => Len(x["body"]) = 1)
      /\ Len(x["failed"]) <= Len(x["body"])
  <2>1. Len(x["failed"]) = 0
    BY <1>7
  <2>2. QED
    BY <1>1, <1>6, <1>7, <2>1
<1>9. Down(e, 0) = <<>>
  BY DownFacts
<1>10. CASE ~last
  <2>1. /\ o = "ok" /\ a.calls + 1 # e + a.kept /\ b.calls = a.calls + 1 /\ b.step = "afterEach"
        /\ (Broken(x) => b.kept = 0) /\ (~Broken(x) => b.kept = e)
    BY <1>1, <1>0, <1>3, <1>4, <1>6, <1>10
  <2>2. b.calls < e + b.kept
    <3>1. b.kept = a.kept /\ a.calls + 1 < e + a.kept
      <4>1. PICK i \in Nat, j \in Nat : i = a.calls /\ j = e + a.kept
        BY <1>1
      <4>2. i < j /\ i + 1 # j
        BY <1>1, <2>1, <4>1
      <4>3. i + 1 < j
        BY <4>2
      <4>4. QED
        BY <1>4, <4>1, <4>3
    <3>2. QED
      BY <2>1, <3>1
  <2>3. /\ x["after"] = Down(e, IF b.calls < e THEN b.calls ELSE e)
        /\ x["undo"] = Down(e, IF b.calls < e THEN 0 ELSE b.calls - e)
    <3>1. CASE a.calls < e
      <4>1. x["after"] = Append(Down(e, a.calls), [k |-> e - a.calls, o |-> "ok"]) /\ x["undo"] = <<>>
        BY <1>1, <1>5, <1>6, <1>9, <2>1, <3>1, KindNames
      <4>2. x["after"] = Down(e, a.calls + 1)
        BY <1>1, <4>1, DownFacts
      <4>3. CASE a.calls + 1 < e
        BY <1>9, <2>1, <4>1, <4>2, <4>3
      <4>4. CASE a.calls + 1 = e
        <5>1. b.calls = e /\ ~(b.calls < e) /\ b.calls - e = 0
          BY <2>1, <4>4
        <5>2. QED
          BY <1>9, <4>1, <4>2, <4>4, <5>1
      <4>5. QED
        BY <1>1, <3>1, <4>3, <4>4
    <3>2. CASE ~(a.calls < e)
      <4>1. PICK j \in Nat : j = a.calls - e
        BY <1>1, <3>2
      <4>2. 2 * e - a.calls = e - j /\ b.calls - e = j + 1 /\ ~(b.calls < e)
        <5>1. 2 * e = e + e
          OBVIOUS
        <5>2. a.calls = e + j
          BY <1>1, <4>1
        <5>4. b.calls = e + j + 1
          BY <2>1, <5>2
        <5>3. QED
          BY <5>1, <5>2, <5>4
      <4>3. x["undo"] = Append(Down(e, j), [k |-> e - j, o |-> "ok"]) /\ x["after"] = Down(e, e)
        BY <1>1, <1>5, <1>6, <2>1, <3>2, <4>1, <4>2, KindNames
      <4>4. x["undo"] = Down(e, j + 1)
        BY <4>3, DownFacts
      <4>5. QED
        BY <4>2, <4>3, <4>4
    <3>3. QED
      BY <3>1, <3>2
  <2>4. Deeds(b, x, e)
    BY <1>7, <1>8, <2>1, <2>2, <2>3 DEF Deeds
  <2>5. QED
    BY <1>4, <1>6, <2>4
<1>11. CASE last
  <2>1. o \in T!Outcomes
    BY DEF T!Outcomes
  <2>2. Unwinding(x, e)
    <3>1. CASE a.calls < e
      <4>1. x["after"] = Append(Down(e, a.calls), [k |-> e - a.calls, o |-> o]) /\ x["undo"] = <<>>
        BY <1>1, <1>5, <1>6, <1>9, <3>1, KindNames
      <4>2. o # "ok" \/ a.calls + 1 = e
        BY <1>0, <1>1, <1>11, <3>1
      <4>3. T!Unwound(x["after"], e, 1) /\ T!Last(x["after"]).o = o
        <5>0. PICK y : y = x["after"]
          OBVIOUS
        <5>1. PICK j \in Nat, r \in T!Outcomes : j = a.calls /\ r = o
          BY <1>1, <2>1
        <5>2. y = Append(Down(e, j), [k |-> e - j, o |-> r]) /\ j < e /\ (r # "ok" \/ j + 1 = e)
          BY <3>1, <4>1, <4>2, <5>0, <5>1
        <5>3. T!Unwound(y, e, 1) /\ T!Last(y).o = r
          BY <5>2, UnwoundNext
        <5>4. QED
          BY <5>0, <5>1, <5>3
      <4>4. Broken(x) \/ o # "ok"
        BY <1>0, <1>1, <1>6, <1>11, <3>1
      <4>5. QED
        BY <4>1, <4>3, <4>4 DEF Unwinding
    <3>2. CASE ~(a.calls < e)
      <4>1. PICK j \in Nat : j = a.calls - e
        BY <1>1, <3>2
      <4>2. ~Broken(x) /\ a.kept = e
        BY <1>1, <1>6, <3>2
      <4>3. 2 * e - a.calls = e - j /\ j < e /\ (o # "ok" \/ j + 1 = e)
        <5>1. a.calls < e + e
          BY <1>1, <4>2
        <5>2. a.calls + 1 = e + e => j + 1 = e
          BY <1>1, <4>1
        <5>3. o # "ok" \/ a.calls + 1 = e + e
          BY <1>0, <1>11, <4>2
        <5>4. 2 * e - a.calls = e - j /\ j < e
          <6>1. 2 * e = e + e
            OBVIOUS
          <6>2. a.calls = e + j
            BY <1>1, <4>1
          <6>3. QED
            BY <5>1, <6>1, <6>2
        <5>5. QED
          BY <5>2, <5>3, <5>4
      <4>4. x["undo"] = Append(Down(e, j), [k |-> e - j, o |-> o]) /\ x["after"] = Down(e, e)
        BY <1>1, <1>5, <1>6, <3>2, <4>1, <4>3, KindNames
      <4>5. T!Unwound(x["undo"], e, 1)
        <5>0. PICK y : y = x["undo"]
          OBVIOUS
        <5>1. PICK r \in T!Outcomes : r = o
          BY <2>1
        <5>2. y = Append(Down(e, j), [k |-> e - j, o |-> r]) /\ j < e /\ (r # "ok" \/ j + 1 = e)
          BY <4>3, <4>4, <5>0, <5>1
        <5>3. T!Unwound(y, e, 1)
          BY <5>2, UnwoundNext
        <5>4. QED
          BY <5>0, <5>1, <5>3
      <4>6. T!Unwound(x["after"], e, 1) /\ T!Last(x["after"]).o = "ok"
        BY <4>4, UnwoundAll
      <4>7. QED
        BY <4>2, <4>5, <4>6 DEF Unwinding
    <3>3. QED
      BY <3>1, <3>2
  <2>3. CASE d["body"] # <<>>
    <3>1. b.step = "finished" /\ ~Broken(x)
      BY <1>1, <1>3, <1>4, <1>6, <1>11, <2>3
    <3>2. Deeds(b, x, e)
      BY <1>7, <1>8, <2>2, <3>1 DEF Deeds
    <3>3. QED
      BY <1>4, <1>6, <3>2
  <2>4. CASE d["body"] = <<>>
    <3>1. b.step = "end" /\ Len(x["finished"]) = Len(x["body"])
      BY <1>3, <1>4, <1>7, <1>11, <2>4
    <3>2. Deeds(b, x, e)
      BY <1>7, <1>8, <2>2, <3>1 DEF Deeds
    <3>3. QED
      BY <1>4, <1>6, <3>2
  <2>5. QED
    BY <2>3, <2>4
<1>12. QED
  BY <1>10, <1>11

-----------------------------------------------------------------------------
(* Together                                                                *)

(* A test has hooks. *)
LEMMA ChainLength ==
  ASSUME decl \in Decls, NEW t, T!Collected(t)
  PROVE  NHooks * Len(T!Chain(t)) \in Nat \ {0}
<1>1. PICK c, s : c = T!Chain(T!ParentOf(t)) /\ s = T!ParentOf(t)
  OBVIOUS
<1>2. T!Chain(t) = Append(c, s) /\ T!Chain(t) \in Seq(Suites) /\ (s = Root \/ T!Collected(s)) /\ s \in Suites
  BY <1>1, ChainStep, TreeFacts
<1>3. c \in Seq(Suites)
  <2>1. <<>> \in Seq(Suites)
    OBVIOUS
  <2>2. QED
    BY <1>1, <1>2, <2>1, ChainStep
<1>4. PICK k \in Nat \ {0} : k = Len(T!Chain(t))
  BY <1>2, <1>3
<1>5. NHooks \in Nat \ {0}
  BY TestRunFacts
<1>6. NHooks * k \in Nat \ {0}
  BY <1>5
<1>7. QED
  BY <1>4, <1>6

(* The test that is tried. *)
LEMMA TestTried ==
  ASSUME Types, WalkInv, AttInv, att # T!NoAttempt
  PROVE  /\ att \in AttemptStates /\ att.test \in Tests /\ stack # <<>> /\ T!Collected(att.test)
         /\ T!ParentOf(att.test) = T!Top.suite /\ T!Top.suite \in Suites
         /\ T!Each \in Nat \ {0}
         /\ progress = "run" => Here(att.test)
<1>1. att \in AttemptStates /\ att.test \in Tests
  BY DEF Types, AttemptStates
<1>2. stack # <<>> /\ T!Top.step = "tasks" /\ T!Top.next <= Len(T!tasks[T!Top.suite]) /\ att.test = T!Task
  BY DEF AttInv
<1>3. T!Collected(T!Task) /\ T!ParentOf(T!Task) = T!Top.suite /\ T!Top.suite \in Suites
  BY <1>2, TopFacts, NextTaskFacts DEF WalkInv
<1>4. T!Each \in Nat \ {0}
  BY <1>2, <1>3, ChainLength DEF T!Each, Types
<1>5. QED
  BY <1>1, <1>2, <1>3, <1>4 DEF Here

(* What decides whether a test is tried stays. *)
LEMMA SameVerdict ==
  ASSUME UNCHANGED <<decl, stack>>, NEW t
  PROVE  /\ T!Pending(t)' <=> T!Pending(t)
         /\ T!LeftOut(t)' <=> T!LeftOut(t)
         /\ T!ForbiddenOnly(t)' <=> T!ForbiddenOnly(t)
         /\ T!Top' = T!Top /\ T!tasks' = T!tasks /\ T!Task' = T!Task
<1>1. T!Top' = T!Top /\ T!tasks' = T!tasks
  BY DEF T!Top, T!tasks
<1>2. \A x : /\ T!Mode(x)' = T!Mode(x) /\ T!NotOnly(x)' = T!NotOnly(x)
             /\ T!ForbiddenOnly(x)' = T!ForbiddenOnly(x) /\ T!SkipAll(x)' = T!SkipAll(x)
  BY DeclStable
<1>3. PICK f : f = T!Top
  OBVIOUS
<1>4. T!Top' = f /\ T!SkipAll(f)' = T!SkipAll(f)
  BY <1>1, <1>2, <1>3
<1>5. T!Filtered(t)' <=> T!Filtered(t)
  BY <1>3, <1>4 DEF T!Filtered
<1>6. T!Todo(t)' <=> T!Todo(t)
  BY <1>2, <1>3, <1>4, <1>5 DEF T!Todo
<1>7. T!LeftOut(t)' <=> T!LeftOut(t)
  BY <1>2, <1>3, <1>4, <1>5, <1>6 DEF T!LeftOut
<1>8. T!Pending(t)' <=> T!Pending(t)
  BY <1>2, <1>3, <1>4 DEF T!Pending
<1>9. T!Task' = T!Task
  BY <1>1 DEF T!Task
<1>10. QED
  BY <1>1, <1>2, <1>7, <1>8, <1>9

(* The attempt under way goes on to another step, or a first one. *)
LEMMA AttemptStep ==
  ASSUME Types, WalkInv, AttInv, att # T!NoAttempt, progress = "run",
         UNCHANGED <<decl, stack, records, told, progress, hooked>>,
         NEW e, e = T!Each, NEW b \in AttemptStates, att' = b, b.test = att.test,
         NEW x \in [Kinds -> Seq(Steps)], did' = x, Deeds(b, x, e)
  PROVE  HooksInv'
<1>1. Types'
  BY DEF Types
<1>2. WalkInv'
  BY WalkStill
<1>3. AttInv'
  <2>1. PICK t : t = att.test
    OBVIOUS
  <2>2. /\ stack # <<>> /\ T!Top.step = "tasks" /\ T!Top.next <= Len(T!tasks[T!Top.suite]) /\ t = T!Task
        /\ ~T!Pending(t) /\ ~T!LeftOut(t) /\ ~T!ForbiddenOnly(t)
    BY <2>1 DEF AttInv
  <2>3. att'.test = t
    BY <2>1
  <2>4. /\ stack' # <<>> /\ T!Top'.step = "tasks" /\ T!Top'.next <= Len(T!tasks'[T!Top'.suite]) /\ t = T!Task'
        /\ ~T!Pending(t)' /\ ~T!LeftOut(t)' /\ ~T!ForbiddenOnly(t)'
    BY <2>2, SameVerdict
  <2>5. ~T!Pending(att.test)' /\ ~T!LeftOut(att.test)' /\ ~T!ForbiddenOnly(att.test)'
    BY <2>3, <2>4
  <2>6. QED
    BY <2>3, <2>4, <2>5 DEF AttInv
<1>4. DidInv'
  <2>1. T!Each' = e
    <3>1. T!Chain(att.test)' = T!Chain(att.test)
      <4>1. PICK t : t = att.test
        OBVIOUS
      <4>2. T!Chain(t)' = T!Chain(t) /\ att'.test = t
        BY <4>1, DeclStable
      <4>3. QED
        BY <4>1, <4>2
    <3>2. QED
      BY <3>1 DEF T!Each
  <2>2. QED
    BY <2>1 DEF DidInv
<1>5. QED
  BY <1>1, <1>2, <1>3, <1>4 DEF HooksInv

(* Between the tests. *)
LEMMA NoTestTried ==
  ASSUME Types', WalkInv', att' = T!NoAttempt
  PROVE  HooksInv'
BY DEF HooksInv, AttInv, DidInv

(* The invariant holds of a file that was collected. *)
LEMMA HooksAtStart ==
  ASSUME T!Init
  PROVE  HooksInv
<1>1. /\ decl \in Decls /\ stack = <<>> /\ att = T!NoAttempt /\ records = <<>>
      /\ told = [s \in Suites \ {Root} |-> "none"] /\ progress = "start" /\ did = T!Nothing
      /\ hooked = [s \in Suites |-> T!NoCalls]
  BY DEF T!Init, Decls
<1>2. Types
  <2>1. T!Nothing \in [Kinds -> Seq(Steps)]
    BY DEF Kinds, T!Nothing
  <2>2. T!NoCalls \in [Calls -> Seq({"ok", "throw"})]
    BY DEF Calls, T!NoCalls
  <2>3. stack \in Seq(Frames) /\ records \in Seq(Records)
    BY <1>1
  <2>4. QED
    BY <1>1, <2>1, <2>2, <2>3 DEF Types
<1>3. /\ \A s \in Suites : ~Gone(s) /\ ~OnStack(s) /\ ~T!Called(s) /\ hooked[s] = T!NoCalls
      /\ \A x \in T!Tasks : ~Past(x) /\ ~OnStack(x)
  <2>1. DOMAIN stack = {} /\ T!Range(records) = {}
    BY <1>1 DEF T!Range
  <2>2. \A s \in Suites : ~Gone(s)
    BY <1>1 DEF Gone
  <2>3. \A x : ~OnStack(x) /\ ~Recorded(x)
    BY <2>1 DEF OnStack, Recorded
  <2>4. \A s \in Suites : hooked[s] = T!NoCalls
    BY <1>1
  <2>5. QED
    BY <2>2, <2>3, <2>4 DEF Past, T!Called
<1>4. DOMAIN stack = {}
  BY <1>1
<1>5. NestInv
  BY <1>1, <1>4 DEF NestInv
<1>6. VisitInv
  BY <1>3, <1>4 DEF VisitInv, Distinct, WholeSuites, WithinSuites, Unentered
<1>7. FrameInv /\ CalledInv
  BY <1>3, <1>4 DEF FrameInv, CalledInv
<1>8. QED
  BY <1>1, <1>2, <1>5, <1>6, <1>7 DEF HooksInv, WalkInv, AttInv, DidInv

(* A step of the walk, between the tests. *)
LEMMA WalkGoesOn ==
  ASSUME HooksInv, \/ T!Begin \/ T!Leave \/ \E s \in Suites \ {Root} : T!EnterSuite(s)
                   \/ \E t \in Tests : T!NotRun(t) \/ T!Forbidden(t)
                   \/ \E o \in T!Outcomes : T!BeforeAll(o) \/ T!AfterAll(o)
  PROVE  HooksInv'
<1>1. Types /\ WalkInv /\ AttInv
  BY DEF HooksInv
<1>2. CASE T!Begin
  <2>1. att = T!NoAttempt
    BY <1>1, <1>2 DEF T!Begin, AttInv
  <2>2. WalkInv' /\ UNCHANGED <<decl, att, records, told, did, hooked>>
    BY <1>1, <1>2, FileBegun DEF T!Begin
  <2>3. stack' \in Seq(Frames) /\ progress' \in {"run", "ran"}
    <3>1. CASE stack' = <<T!Frame(Root, "none")>> /\ progress' = "run"
      <4>1. T!Frame(Root, "none") \in Frames
        BY <1>1, TestRunFacts, FrameFacts DEF Types
      <4>2. QED
        BY <3>1, <4>1
    <3>2. CASE UNCHANGED stack /\ progress' = "ran"
      BY <1>1, <3>2 DEF Types
    <3>3. QED
      BY <1>2, <3>1, <3>2 DEF T!Begin
  <2>4. Types'
    BY <1>1, <2>2, <2>3 DEF Types
  <2>5. QED
    BY <2>1, <2>2, <2>4, NoTestTried
<1>3. CASE T!Leave
  <2>1. att = T!NoAttempt /\ progress = "run" /\ stack # <<>>
    BY <1>1, <1>3 DEF T!Leave, T!TasksDone, T!AtTasks, WalkInv, NestInv
  <2>2. WalkInv' /\ UNCHANGED <<decl, att, records, did, hooked>>
    BY <1>1, <1>3, SuiteLeaves DEF T!Leave
  <2>3. progress' \in {"run", "ran"}
    BY <1>3, <2>1 DEF T!Leave
  <2>4. told' \in [Suites \ {Root} -> {"none", "fail", "todo", "skip", "pass"}]
    BY <1>1, <1>3 DEF T!Leave, Types
  <2>5. stack' \in Seq(Frames)
    <3>1. PICK n \in Nat \ {0} : n = Len(stack)
      BY <1>1, <2>1, StackTop
    <3>2. CASE n = 1
      BY <1>3, <3>1, <3>2 DEF T!Leave
    <3>3. CASE n # 1
      <4>1. n - 1 \in 1 .. n /\ n - 2 \in Nat
        BY <3>1, <3>3
      <4>2. PICK outer \in Frames, inner \in Frames : outer = stack[n - 1] /\ inner = T!Top
        BY <1>1, <2>1, <3>1, <4>1, StackTop
      <4>3. PICK b \in BOOLEAN : b = (outer.failed \/ inner.failed)
        OBVIOUS
      <4>4. stack' = Append(SubSeq(stack, 1, n - 2), [outer EXCEPT !.failed = b])
        BY <1>3, <3>1, <3>3, <4>2, <4>3 DEF T!Leave
      <4>5. PICK g \in Frames : g = [outer EXCEPT !.failed = b]
        BY <4>2, <4>3 DEF Frames
      <4>6. PICK k \in Nat : k = n - 2 /\ k <= Len(stack)
        BY <3>1, <4>1
      <4>7. SubSeq(stack, 1, k) \in Seq(Frames)
        BY <1>1, <4>6 DEF Types
      <4>8. QED
        BY <4>4, <4>5, <4>6, <4>7
    <3>4. QED
      BY <3>2, <3>3
  <2>6. Types'
    BY <1>1, <2>2, <2>3, <2>4, <2>5 DEF Types
  <2>7. QED
    BY <2>1, <2>2, <2>6, NoTestTried
<1>4. ASSUME NEW s \in Suites \ {Root}, T!EnterSuite(s) PROVE HooksInv'
  <2>1. Here(s) /\ att = T!NoAttempt
    BY <1>4 DEF T!EnterSuite, T!TaskIs, T!AtTasks, Here
  <2>2. UNCHANGED <<decl, att, records, progress, did, hooked>>
    BY <1>4 DEF T!EnterSuite
  <2>3. stack # <<>> /\ T!Top \in Frames /\ T!Advanced \in Frames
    BY <1>1, <2>1, AtTask
  <2>4. CASE /\ stack' = T!WithTop([T!Advanced EXCEPT !.failed = TRUE]) /\ T!tasks[s] = <<>>
             /\ told' = [told EXCEPT ![s] = "fail"]
    <3>1. WalkInv'
      BY <1>1, <2>1, <2>2, <2>4, EmptySuiteEntered
    <3>2. PICK g \in Frames : g = [T!Advanced EXCEPT !.failed = TRUE]
      <4>1. PICK f \in Frames : f = T!Advanced
        BY <2>3
      <4>2. [f EXCEPT !.failed = TRUE] \in Frames
        BY DEF Frames
      <4>3. QED
        BY <4>1, <4>2
    <3>3. stack' \in Seq(Frames)
      BY <1>1, <2>3, <2>4, <3>2, StackTop
    <3>4. told' \in [Suites \ {Root} -> {"none", "fail", "todo", "skip", "pass"}]
      BY <1>1, <2>4 DEF Types
    <3>5. Types'
      BY <1>1, <2>2, <3>3, <3>4 DEF Types
    <3>6. QED
      BY <2>1, <2>2, <3>1, <3>5, NoTestTried
  <2>5. CASE /\ stack' = Append(T!WithTop(T!Advanced), T!Frame(s, IF T!Top.hook THEN "hook" ELSE T!SkipAll(T!Top)))
             /\ UNCHANGED told
    <3>1. WalkInv'
      BY <1>1, <2>1, <2>2, <2>5, SuitePushed
    <3>2. PICK m \in {"none", "skip", "todo", "hook"} : m = IF T!Top.hook THEN "hook" ELSE T!SkipAll(T!Top)
      BY <2>3 DEF T!SkipAll, T!OwnMode, Frames
    <3>3. T!Frame(s, m) \in Frames
      BY <1>1, <3>2, FrameFacts DEF Types
    <3>4. T!WithTop(T!Advanced) \in Seq(Frames)
      BY <1>1, <2>3, StackTop
    <3>5. stack' \in Seq(Frames)
      BY <2>5, <3>2, <3>3, <3>4
    <3>6. Types'
      BY <1>1, <2>2, <2>5, <3>5 DEF Types
    <3>7. QED
      BY <2>1, <2>2, <3>1, <3>6, NoTestTried
  <2>6. QED
    BY <1>4, <2>4, <2>5 DEF T!EnterSuite
<1>5. ASSUME NEW t \in Tests, T!NotRun(t) \/ T!Forbidden(t) PROVE HooksInv'
  <2>1. Here(t) /\ att = T!NoAttempt /\ UNCHANGED <<decl, att, told, progress, did, hooked>>
    BY <1>5 DEF T!NotRun, T!Forbidden, T!TaskIs, T!AtTasks, Here
  <2>2. WalkInv'
    BY <1>1, <1>5, TestNotTried
  <2>3. stack # <<>> /\ T!Top \in Frames /\ T!Advanced \in Frames
    BY <1>1, <2>1, AtTask
  <2>4. stack' \in Seq(Frames)
    <3>1. PICK f \in Frames : f = T!Advanced
      BY <2>3
    <3>2. [f EXCEPT !.failed = TRUE] \in Frames
      BY DEF Frames
    <3>3. stack' = T!WithTop(f) \/ stack' = T!WithTop([f EXCEPT !.failed = TRUE])
      BY <1>5, <3>1 DEF T!NotRun, T!Forbidden, T!NextTask
    <3>4. QED
      BY <1>1, <2>3, <3>2, <3>3, StackTop
  <2>5. records' \in Seq(Records)
    <3>1. PICK v \in {"passed", "failed", "skipped", "todo", "pending"} : T!Told(t, v)
      BY <1>5 DEF T!NotRun, T!Forbidden
    <3>2. [test |-> t, status |-> v] \in Records
      BY <3>1 DEF Records
    <3>3. QED
      BY <1>1, <3>1, <3>2 DEF T!Told, Types
  <2>6. Types'
    BY <1>1, <2>1, <2>4, <2>5 DEF Types
  <2>7. QED
    BY <2>1, <2>2, <2>6, NoTestTried
<1>6. ASSUME NEW o \in T!Outcomes, T!BeforeAll(o) \/ T!AfterAll(o) PROVE HooksInv'
  <2>1. stack # <<>> /\ UNCHANGED <<decl, att, records, told, progress, did>> /\ o \in {"ok", "throw"}
    BY <1>1, <1>6 DEF T!BeforeAll, T!AfterAll, T!TasksDone, T!AtTasks, WalkInv, NestInv
  <2>2. att = T!NoAttempt
    BY <1>1, <1>6 DEF T!BeforeAll, T!AfterAll, T!TasksDone, T!AtTasks, AttInv
  <2>3. WalkInv'
    BY <1>1, <1>6, BeforeAllCalled, AfterAllCalled
  <2>4. T!Top \in Frames /\ T!Top.suite \in Suites
    BY <1>1, <2>1, TopFacts
  <2>5. stack' \in Seq(Frames)
    <3>1. NHooks \in Nat /\ T!Top.calls \in Nat /\ T!CallsAfter(T!Top) \in Nat
      BY <2>4, TestRunFacts DEF Frames, T!CallsAfter
    <3>2. PICK n \in Nat, p \in {"tasks", "beforeAll"}, h \in BOOLEAN, b \in BOOLEAN :
            stack' = T!WithTop([T!Top EXCEPT !.calls = n, !.step = p, !.hook = h, !.failed = b])
      <4>1. T!Top.calls + 1 \in Nat /\ (T!Top.hook \/ o = "throw") \in BOOLEAN /\ (T!Top.failed \/ o = "throw") \in BOOLEAN
            /\ 0 \in Nat /\ T!Top.step \in {"tasks", "beforeAll"} /\ T!Top.hook \in BOOLEAN
        BY <2>4, <3>1 DEF Frames
      <4>2. CASE T!BeforeAll(o)
        <5>1. PICK last \in BOOLEAN : last <=> o = "throw" \/ T!Top.calls + 1 = NHooks
          OBVIOUS
        <5>2. PICK n \in Nat, p \in {"tasks", "beforeAll"} :
                n = (IF last THEN 0 ELSE T!Top.calls + 1) /\ p = (IF last THEN "tasks" ELSE T!Top.step)
          BY <4>1
        <5>3. stack' = T!WithTop([T!Top EXCEPT !.calls = n, !.step = p, !.hook = (T!Top.hook \/ o = "throw"),
                                           !.failed = (T!Top.failed \/ o = "throw")])
          BY <4>2, <5>1, <5>2 DEF T!BeforeAll
        <5>4. QED
          BY <4>1, <5>2, <5>3
      <4>3. CASE T!AfterAll(o)
        <5>1. PICK n \in Nat : n = (IF o = "ok" THEN T!Top.calls + 1 ELSE T!CallsAfter(T!Top))
          BY <3>1, <4>1
        <5>2. stack' = T!WithTop([T!Top EXCEPT !.calls = n, !.failed = (T!Top.failed \/ o = "throw")])
          BY <4>3, <5>1 DEF T!AfterAll
        <5>3. [T!Top EXCEPT !.calls = n, !.failed = (T!Top.failed \/ o = "throw")]
              = [T!Top EXCEPT !.calls = n, !.step = T!Top.step, !.hook = T!Top.hook, !.failed = (T!Top.failed \/ o = "throw")]
          BY <2>4 DEF Frames
        <5>4. PICK p \in {"tasks", "beforeAll"}, h \in BOOLEAN, b \in BOOLEAN :
                p = T!Top.step /\ h = T!Top.hook /\ b = (T!Top.failed \/ o = "throw")
          BY <4>1
        <5>5. stack' = T!WithTop([T!Top EXCEPT !.calls = n, !.step = p, !.hook = h, !.failed = b])
          BY <5>2, <5>3, <5>4
        <5>6. QED
          BY <5>1, <5>4, <5>5
      <4>4. QED
        BY <1>6, <4>2, <4>3
    <3>3. PICK f \in Frames : f = T!Top
      BY <2>4
    <3>4. [f EXCEPT !.calls = n, !.step = p, !.hook = h, !.failed = b] \in Frames
      BY <3>2 DEF Frames
    <3>5. QED
      BY <1>1, <2>1, <3>2, <3>3, <3>4, StackTop
  <2>6. hooked' \in [Suites -> [Calls -> Seq({"ok", "throw"})]]
    <3>1. PICK w \in Calls, s \in Suites : hooked' = [hooked EXCEPT ![s][w] = Append(@, o)]
      <4>1. "before" \in Calls /\ "after" \in Calls /\ "undo" \in Calls
        BY DEF Calls, T!NoCalls
      <4>2. QED
        BY <1>6, <2>4, <4>1 DEF T!BeforeAll, T!AfterAll, T!Hooked
    <3>2. hooked \in [Suites -> [Calls -> Seq({"ok", "throw"})]]
      BY <1>1 DEF Types
    <3>3. Append(hooked[s][w], o) \in Seq({"ok", "throw"})
      BY <2>1, <3>1, <3>2
    <3>4. QED
      BY <3>1, <3>2, <3>3
  <2>7. Types'
    BY <1>1, <2>1, <2>5, <2>6 DEF Types
  <2>8. QED
    BY <2>1, <2>2, <2>3, <2>7, NoTestTried
<1>7. QED
  BY <1>2, <1>3, <1>4, <1>5, <1>6

(* A step of an attempt. *)
LEMMA AttemptGoes ==
  ASSUME HooksInv, \/ T!ZombieSkips
                   \/ \E o \in T!Outcomes : T!BeforeEach(o) \/ T!Body(o) \/ T!AfterEach(o) \/ T!Handler(o)
  PROVE  HooksInv'
<1>1. Types /\ WalkInv /\ AttInv /\ DidInv /\ att # T!NoAttempt /\ progress = "run"
  BY DEF HooksInv, T!ZombieSkips, T!BeforeEach, T!Body, T!AfterEach, T!Handler, T!At
<1>2. UNCHANGED <<decl, stack, records, told, progress, hooked>>
  BY DEF T!ZombieSkips, T!BeforeEach, T!Body, T!AfterEach, T!Handler, T!AttemptGoesOn
<1>3. PICK e \in Nat \ {0} : e = T!Each
  BY <1>1, TestTried
<1>4. PICK a \in AttemptStates, d \in [Kinds -> Seq(Steps)] : a = att /\ d = did
  BY <1>1 DEF Types
<1>5. Deeds(a, d, e)
  BY <1>1, <1>3, <1>4 DEF DidInv
<1>6. ASSUME NEW b \in AttemptStates, NEW x \in [Kinds -> Seq(Steps)], att' = b, did' = x,
             b.test = a.test, Deeds(b, x, e)
      PROVE  HooksInv'
  BY <1>1, <1>2, <1>3, <1>4, <1>6, AttemptStep
<1>7. CASE T!ZombieSkips
  <2>1. PICK b, x : b = [a EXCEPT !.pending = TRUE] /\ x = More(d, "zombie", 0, "skip")
    OBVIOUS
  <2>2. att' = b /\ did' = x
    BY <1>4, <1>7, <2>1 DEF T!ZombieSkips, T!Did, More
  <2>3. b \in AttemptStates /\ b.test = a.test /\ x \in [Kinds -> Seq(Steps)] /\ Deeds(b, x, e)
    BY <1>3, <1>4, <1>5, <2>1, DeedsZombie
  <2>4. QED
    BY <1>6, <2>2, <2>3
<1>8. ASSUME NEW o \in T!Outcomes, T!BeforeEach(o) PROVE HooksInv'
  <2>1. a.step = "beforeEach" /\ o \in {"ok", "throw", "skip"}
    BY <1>4, <1>8 DEF T!BeforeEach, T!At
  <2>2. PICK b, x : b = BeforeEachCalled(a, e, o) /\ x = More(d, "before", a.calls + 1, o)
    OBVIOUS
  <2>3. att' = b /\ did' = x
    BY <1>3, <1>4, <1>8, <2>2 DEF T!BeforeEach, BeforeEachCalled, T!Did, More
  <2>4. b \in AttemptStates /\ b.test = a.test /\ x \in [Kinds -> Seq(Steps)] /\ Deeds(b, x, e)
    BY <1>3, <1>4, <1>5, <2>1, <2>2, DeedsBeforeEach
  <2>5. QED
    BY <1>6, <2>3, <2>4
<1>9. ASSUME NEW o \in T!Outcomes, T!Body(o) PROVE HooksInv'
  <2>1. a.step = "body"
    BY <1>4, <1>9 DEF T!Body, T!At
  <2>2. PICK b, x : b = T!Settled(a, o) /\ x = More(d, "body", 0, o)
    OBVIOUS
  <2>3. att' = b /\ did' = x
    BY <1>4, <1>9, <2>2 DEF T!Body, T!Did, More
  <2>4. b \in AttemptStates /\ b.test = a.test /\ x \in [Kinds -> Seq(Steps)] /\ Deeds(b, x, e)
    BY <1>3, <1>4, <1>5, <2>1, <2>2, DeedsBody
  <2>5. QED
    BY <1>6, <2>3, <2>4
<1>10. ASSUME NEW o \in T!Outcomes, T!AfterEach(o) PROVE HooksInv'
  <2>1. a.step = "afterEach" /\ o \in {"ok", "throw", "skip"}
    BY <1>4, <1>10 DEF T!AfterEach, T!At
  <2>3. PICK b, x : b = AfterEachCalled(a, d, e, o) /\ x = AfterEachDone(a, d, e, o)
    OBVIOUS
  <2>4. att' = b
    BY <1>3, <1>4, <1>10, <2>3 DEF T!AfterEach, AfterEachCalled, T!AfterHooks
  <2>5. did' = x
    BY <1>3, <1>4, <1>10, <2>3 DEF T!AfterEach, AfterEachDone, T!Did, More
  <2>6. b \in AttemptStates /\ b.test = a.test /\ x \in [Kinds -> Seq(Steps)] /\ Deeds(b, x, e)
    BY <1>3, <1>4, <1>5, <2>1, <2>3, DeedsAfterEach
  <2>7. QED
    BY <1>6, <2>4, <2>5, <2>6
<1>11. ASSUME NEW o \in T!Outcomes, T!Handler(o) PROVE HooksInv'
  <2>1. PICK s \in {"finished", "failed"} :
          a.step = s /\ did' = More(d, s, 0, o) /\ att' = HandlerCalled(a, s, o)
    BY <1>4, <1>11 DEF T!Handler, HandlerCalled, T!At, T!Did, More
  <2>2. PICK b, x : b = HandlerCalled(a, s, o) /\ x = More(d, s, 0, o)
    OBVIOUS
  <2>3. o \in {"ok", "throw", "skip"}
    BY <1>11 DEF T!Handler
  <2>4. b \in AttemptStates /\ b.test = a.test /\ x \in [Kinds -> Seq(Steps)] /\ Deeds(b, x, e)
    BY <1>3, <1>4, <1>5, <2>1, <2>2, <2>3, DeedsHandler
  <2>5. att' = b /\ did' = x
    BY <2>1, <2>2
  <2>6. QED
    BY <1>6, <2>4, <2>5
<1>12. QED
  BY <1>7, <1>8, <1>9, <1>10, <1>11

(* A test is tried for the first time. *)
LEMMA TestStarted ==
  ASSUME HooksInv, NEW t \in Tests, T!StartTest(t)
  PROVE  HooksInv'
<1>1. /\ Types /\ WalkInv /\ Here(t) /\ UNCHANGED <<decl, stack, records, told, progress, hooked>>
      /\ ~T!Pending(t) /\ ~T!LeftOut(t) /\ ~T!ForbiddenOnly(t)
      /\ att' = T!Attempt(t, 1, 0) /\ did' = T!Nothing
  BY DEF HooksInv, T!StartTest, T!TaskIs, T!AtTasks, Here
<1>2. progress = "run" /\ stack # <<>> /\ T!Top.step = "tasks" /\ T!Top.next <= Len(T!tasks[T!Top.suite]) /\ t = T!Task
  BY <1>1, AtTask
<1>3. 1 \in Nat /\ 0 \in Nat
  OBVIOUS
<1>4. PICK b \in AttemptStates : b = T!Attempt(t, 1, 0) /\ b.test = t /\ b # T!NoAttempt
  <2>1. PICK e \in Nat \ {0} : e = 1
    OBVIOUS
  <2>2. T!Attempt(t, 1, 0) \in AttemptStates /\ T!Attempt(t, 1, 0).test = t
    BY <1>3, <2>1, DeedsAtStart
  <2>3. T!Attempt(t, 1, 0) # T!NoAttempt
    <3>1. "no" \in DOMAIN T!Attempt(t, 1, 0) /\ "no" \notin DOMAIN T!NoAttempt
      BY DEF T!Attempt, T!NoAttempt
    <3>2. QED
      BY <3>1
  <2>4. QED
    BY <2>2, <2>3
<1>5. Types'
  <2>1. T!Nothing \in [Kinds -> Seq(Steps)]
    BY DEF Kinds, T!Nothing
  <2>2. QED
    BY <1>1, <1>4, <2>1 DEF Types
<1>6. WalkInv'
  BY <1>1, WalkStill
<1>7. AttInv'
  <2>1. /\ stack' # <<>> /\ T!Top'.step = "tasks" /\ T!Top'.next <= Len(T!tasks'[T!Top'.suite]) /\ t = T!Task'
        /\ ~T!Pending(t)' /\ ~T!LeftOut(t)' /\ ~T!ForbiddenOnly(t)'
    BY <1>1, <1>2, SameVerdict
  <2>2. att'.test = t
    BY <1>1, <1>4
  <2>3. ~T!Pending(att.test)' /\ ~T!LeftOut(att.test)' /\ ~T!ForbiddenOnly(att.test)'
    BY <2>1, <2>2
  <2>4. progress' = "run"
    BY <1>1, <1>2
  <2>5. QED
    BY <2>1, <2>2, <2>3, <2>4 DEF AttInv
<1>8. DidInv'
  <2>1. att' # T!NoAttempt
    BY <1>1, <1>4
  <2>2. T!Each' \in Nat \ {0}
    <3>1. T!Collected(t)
      BY <1>1, <1>2, NextTaskFacts DEF WalkInv
    <3>2. NHooks * Len(T!Chain(t)) \in Nat \ {0}
      BY <1>1, <3>1, ChainLength DEF Types
    <3>3. T!Chain(t)' = T!Chain(t) /\ att'.test = t
      BY <1>1, <1>4, DeclStable
    <3>4. T!Chain(att.test)' = T!Chain(t)
      BY <3>3
    <3>5. QED
      BY <3>2, <3>4 DEF T!Each
  <2>3. PICK e \in Nat \ {0} : e = T!Each'
    BY <2>2
  <2>4. Deeds(b, T!Nothing, e)
    BY <1>3, <1>4, <2>3, DeedsAtStart
  <2>5. QED
    BY <1>1, <1>4, <2>3, <2>4 DEF DidInv
<1>9. QED
  BY <1>5, <1>6, <1>7, <1>8 DEF HooksInv

(* An attempt ends. *)
LEMMA AttemptEnded ==
  ASSUME HooksInv, T!EndAttempt
  PROVE  HooksInv'
<1>1. Types /\ WalkInv /\ AttInv /\ DidInv /\ att # T!NoAttempt /\ progress = "run"
  BY DEF HooksInv, T!EndAttempt, T!At
<1>2. /\ att \in AttemptStates /\ att.test \in Tests /\ stack # <<>> /\ T!Each \in Nat \ {0} /\ Here(att.test)
  BY <1>1, TestTried
<1>3. UNCHANGED <<decl, told, progress, hooked>> /\ did' = T!Nothing
  BY DEF T!EndAttempt
<1>4. PICK t \in Tests : t = att.test
  BY <1>2
<1>5. PICK a : a = T!Flipped(att)
  OBVIOUS
<1>6. /\ a.test = t /\ a.no \in Nat /\ a.errors \in Nat
  <2>1. att.errors + 1 \in Nat /\ att.mark \in Nat /\ att.no \in Nat /\ att.errors \in Nat
    BY <1>2 DEF AttemptStates
  <2>2. a = att \/ a = [att EXCEPT !.ok = TRUE, !.errors = att.mark]
        \/ a = [att EXCEPT !.ok = FALSE, !.errors = att.errors + 1]
    BY <1>5 DEF T!Flipped
  <2>3. QED
    BY <1>2, <1>4, <2>1, <2>2 DEF AttemptStates
<1>7. T!Nothing \in [Kinds -> Seq(Steps)]
  BY DEF Kinds, T!Nothing
<1>8. CASE /\ att' = T!Attempt(a.test, a.no + 1, a.errors)
           /\ UNCHANGED <<stack, records>>
  <2>1. PICK e \in Nat \ {0}, n \in Nat, m \in Nat : e = T!Each /\ n = a.no + 1 /\ m = a.errors
    <3>1. a.no + 1 \in Nat
      BY <1>6
    <3>2. QED
      BY <1>2, <1>6, <3>1
  <2>2. PICK b \in AttemptStates : b = T!Attempt(t, n, m) /\ b.test = t /\ Deeds(b, T!Nothing, e)
    BY <1>4, <2>1, DeedsAtStart
  <2>3. att' = b /\ b.test = att.test
    BY <1>4, <1>6, <1>8, <2>1, <2>2
  <2>4. QED
    BY <1>1, <1>3, <1>7, <1>8, <2>1, <2>2, <2>3, AttemptStep
<1>9. CASE /\ att' = T!NoAttempt
           /\ \E v \in {"passed", "failed", "skipped"}, b \in BOOLEAN :
                T!Told(t, v) /\ stack' = T!WithTop([T!Advanced EXCEPT !.failed = b])
  <2>1. PICK v \in {"passed", "failed", "skipped", "todo", "pending"}, b \in BOOLEAN :
          T!Told(t, v) /\ stack' = T!WithTop([T!Advanced EXCEPT !.failed = b])
    BY <1>9
  <2>2. Here(t)
    BY <1>2, <1>4
  <2>3. WalkInv'
    BY <1>1, <1>3, <1>4, <2>1, <2>2, TestDone
  <2>4. PICK f \in Frames : f = T!Advanced
    BY <1>1, <2>2, AtTask
  <2>5. [f EXCEPT !.failed = b] \in Frames
    BY <2>1 DEF Frames
  <2>6. stack' \in Seq(Frames)
    BY <1>1, <1>2, <2>1, <2>4, <2>5, StackTop
  <2>7. records' \in Seq(Records)
    <3>1. [test |-> t, status |-> v] \in Records
      BY <1>4, <2>1 DEF Records
    <3>2. QED
      BY <1>1, <2>1, <3>1 DEF T!Told, Types
  <2>8. Types'
    BY <1>1, <1>3, <1>7, <1>9, <2>6, <2>7 DEF Types
  <2>9. QED
    BY <1>9, <2>3, <2>8, NoTestTried
<1>10. \/ /\ att' = T!Attempt(a.test, a.no + 1, a.errors)
          /\ UNCHANGED <<stack, records>>
       \/ /\ att' = T!NoAttempt
          /\ \E v \in {"passed", "failed", "skipped"}, b \in BOOLEAN :
               T!Told(t, v) /\ stack' = T!WithTop([T!Advanced EXCEPT !.failed = b])
  <2>1. CASE ~a.pending /\ ~a.ok /\ a.no <= decl.retry
    BY <1>5, <2>1 DEF T!EndAttempt
  <2>2. CASE ~(~a.pending /\ ~a.ok /\ a.no <= decl.retry)
    <3>1. PICK v \in {"passed", "failed", "skipped"} :
            v = IF a.pending THEN "skipped" ELSE IF a.ok THEN "passed" ELSE "failed"
      OBVIOUS
    <3>2. PICK b \in BOOLEAN : b = (T!Advanced.failed \/ v = "failed")
      OBVIOUS
    <3>3. att' = T!NoAttempt /\ T!Told(t, v)
      BY <1>5, <1>6, <2>2, <3>1 DEF T!EndAttempt
    <3>4. stack' = T!WithTop([T!Advanced EXCEPT !.failed = T!Advanced.failed \/ v = "failed"])
      <4>1. T!Advanced \in Frames
        BY <1>1, <1>2, AtTask
      <4>2. QED
        BY <1>5, <2>2, <3>1, <4>1 DEF T!EndAttempt, Frames
    <3>5. QED
      BY <3>1, <3>2, <3>3, <3>4
  <2>3. QED
    BY <2>1, <2>2
<1>11. QED
  BY <1>8, <1>9, <1>10

(* The run hangs, or is reported. *)
LEMMA TestsEnd ==
  ASSUME HooksInv, T!Hang \/ T!Report \/ UNCHANGED T!vars
  PROVE  HooksInv'
<1>1. Types /\ WalkInv /\ AttInv /\ DidInv
  BY DEF HooksInv
<1>2. /\ UNCHANGED <<decl, stack, att, records, told, did, hooked>>
      /\ \/ progress' = progress \/ (progress = "run" /\ progress' = "stuck")
         \/ (progress = "ran" /\ progress' \in {"ERROR", "PASS", "FAIL"})
         \/ (progress = "stuck" /\ progress' = "ERROR")
  BY DEF T!Hang, T!Report, T!vars
<1>3. WalkInv'
  BY <1>1, <1>2, WalkStill
<1>4. Types'
  BY <1>1, <1>2 DEF Types
<1>5. CASE att = T!NoAttempt
  BY <1>2, <1>3, <1>4, <1>5, NoTestTried
<1>6. CASE att # T!NoAttempt
  <2>1. PICK t : t = att.test
    OBVIOUS
  <2>2. att' = att /\ att'.test = t /\ progress' \in {"run", "stuck", "ERROR"}
    BY <1>1, <1>2, <1>6, <2>1 DEF AttInv
  <2>3. AttInv'
    <3>1. /\ stack # <<>> /\ T!Top.step = "tasks" /\ T!Top.next <= Len(T!tasks[T!Top.suite]) /\ t = T!Task
          /\ ~T!Pending(t) /\ ~T!LeftOut(t) /\ ~T!ForbiddenOnly(t)
      BY <1>1, <1>6, <2>1 DEF AttInv
    <3>2. /\ stack' # <<>> /\ T!Top'.step = "tasks" /\ T!Top'.next <= Len(T!tasks'[T!Top'.suite]) /\ t = T!Task'
          /\ ~T!Pending(t)' /\ ~T!LeftOut(t)' /\ ~T!ForbiddenOnly(t)'
      BY <1>2, <3>1, SameVerdict
    <3>3. ~T!Pending(att.test)' /\ ~T!LeftOut(att.test)' /\ ~T!ForbiddenOnly(att.test)'
      BY <2>2, <3>2
    <3>4. QED
      BY <2>2, <3>2, <3>3 DEF AttInv
  <2>4. DidInv'
    <3>1. T!Chain(att.test)' = T!Chain(att.test)
      <4>1. T!Chain(t)' = T!Chain(t)
        BY <1>2, DeclStable
      <4>2. QED
        BY <2>1, <2>2, <4>1
    <3>2. T!Each' = T!Each
      BY <3>1 DEF T!Each
    <3>3. QED
      BY <1>1, <1>2, <3>2 DEF DidInv
  <2>5. QED
    BY <1>3, <1>4, <2>3, <2>4 DEF HooksInv
<1>7. QED
  BY <1>5, <1>6

(* The invariant. *)
LEMMA HooksKept ==
  ASSUME HooksInv, [T!Next]_(T!vars)
  PROVE  HooksInv'
<1>1. CASE T!Next
  BY <1>1, WalkGoesOn, AttemptGoes, TestStarted, AttemptEnded, TestsEnd DEF T!Next
<1>2. CASE UNCHANGED T!vars
  BY <1>2, TestsEnd
<1>3. QED
  BY <1>1, <1>2

-----------------------------------------------------------------------------
(* What the invariant gives                                                *)

(* When all that is in a suite is past, so is all that is below it. *)
LEMMA BelowPast ==
  ASSUME Types, VisitInv, NEW s \in Suites, \A x \in T!Children(s) : Past(x)
  PROVE  \A t \in T!Below(s) : Recorded(t)
<1> DEFINE Y == {x \in T!Tasks : T!Collected(x) /\ s \in T!Range(T!Chain(x)) /\ ~Past(x)}
<1>1. ASSUME NEW t \in T!Below(s), ~Recorded(t) PROVE FALSE
  <2>1. t \in Y
    <3>1. t \in Tests /\ t \notin Suites /\ T!Collected(t) /\ s \in T!Range(T!Chain(t))
      BY TestRunFacts DEF T!Below
    <3>2. QED
      BY <1>1, <3>1 DEF Past, T!Tasks
  <2>2. PICK y \in Y : T!ParentOf(y) \notin Y
    <3>1. decl \in Decls /\ Y \in SUBSET T!Tasks /\ Y # {} /\ \A y \in Y : T!Collected(y)
      BY <2>1 DEF Types
    <3> HIDE DEF Y
    <3>2. QED
      BY <3>1, Outermost
  <2>3. y \in T!Tasks /\ T!Collected(y) /\ s \in T!Range(T!Chain(y)) /\ ~Past(y)
    BY <2>2
  <2>4. PICK p \in Suites : p = T!ParentOf(y)
    BY <2>3, TreeFacts DEF Types
  <2>5. y \in T!Children(p) /\ (p = Root \/ T!Collected(p))
    BY <2>3, <2>4, TreeFacts DEF Types
  <2>6. s = p \/ s \in T!Range(T!Chain(p))
    <3>1. PICK c : c = T!Chain(p)
      OBVIOUS
    <3>2. c \in Seq(Suites)
      <4>1. <<>> \in Seq(Suites)
        OBVIOUS
      <4>2. QED
        BY <2>5, <3>1, <4>1, ChainStep DEF Types
    <3>3. T!Chain(y) = Append(c, p)
      BY <2>3, <2>4, <3>1, ChainStep DEF Types
    <3>4. T!Range(Append(c, p)) = T!Range(c) \union {p}
      BY <3>2, RangeAppend
    <3>5. QED
      BY <2>3, <3>1, <3>3, <3>4
  <2>7. CASE s = p
    BY <2>3, <2>5, <2>7
  <2>8. CASE s \in T!Range(T!Chain(p))
    <3>1. p # Root
      <4>1. T!Chain(Root) = <<>>
        BY ChainStep DEF Types
      <4>2. T!Range(<<>>) = {}
        BY DEF T!Range
      <4>3. QED
        BY <2>8, <4>1, <4>2
    <3>2. p \in T!Tasks /\ T!Collected(p)
      BY <2>5, <3>1 DEF T!Tasks
    <3>3. Gone(p)
      BY <2>2, <2>4, <2>8, <3>2 DEF Past
    <3>4. QED
      BY <2>3, <2>5, <3>3 DEF VisitInv, WholeSuites
  <2>9. QED
    BY <2>6, <2>7, <2>8
<1>2. QED
  BY <1>1

(* The invariant says how the hooks of a suite run. *)
LEMMA AroundSuites ==
  ASSUME HooksInv
  PROVE  T!HooksOfSuite
<1>1. Types /\ NestInv /\ VisitInv /\ FrameInv /\ CalledInv
  BY DEF HooksInv, WalkInv
<1>2. SUFFICES ASSUME NEW s \in Suites
               PROVE  /\ T!Called(s) => T!Runnable(s) /\ \A a \in T!Range(T!Chain(s)) : T!Live(a) \/ T!Aftermath(a) # <<>>
                      /\ T!Aftermath(s) # <<>> => \A t \in T!Below(s) : Recorded(t)
                      /\ T!Called(s) /\ progress = "ran" => Unhooked(s)
  BY DEF T!HooksOfSuite, Recorded, Unhooked
<1>3. T!Called(s) => T!Runnable(s) /\ \A a \in T!Range(T!Chain(s)) : T!Live(a) \/ T!Aftermath(a) # <<>>
  BY <1>1 DEF CalledInv
<1>4. T!Called(s) /\ progress = "ran" => Unhooked(s)
  <2>1. progress = "ran" => ~OnStack(s)
    BY <1>1 DEF NestInv, OnStack
  <2>2. T!Called(s) => Gone(s) \/ OnStack(s)
    BY <1>1 DEF VisitInv, Unentered, T!Called
  <2>3. QED
    BY <1>1, <2>1, <2>2 DEF CalledInv
<1>5. ASSUME T!Aftermath(s) # <<>> PROVE \A t \in T!Below(s) : Recorded(t)
  <2>1. T!Called(s)
    <3>1. SUFFICES ASSUME hooked[s] = T!NoCalls PROVE FALSE
      BY DEF T!Called
    <3>2. hooked[s]["after"] = <<>> /\ hooked[s]["undo"] = <<>>
      BY <3>1 DEF T!NoCalls
    <3>3. <<>> \o <<>> = <<>>
      OBVIOUS
    <3>4. QED
      BY <1>5, <3>2, <3>3 DEF T!Aftermath
  <2>2. CASE Gone(s)
    BY <1>1, <2>2, BelowPast DEF VisitInv, WholeSuites
  <2>3. CASE ~Gone(s)
    <3>1. PICK i \in DOMAIN stack : stack[i].suite = s
      BY <1>1, <2>1, <2>3 DEF VisitInv, Unentered, T!Called, OnStack
    <3>2. PICK n \in Nat : n = Len(stack) /\ DOMAIN stack = 1 .. n
      BY <1>1 DEF Types
    <3>3. PICK f : f = stack[i]
      OBVIOUS
    <3>4. FrameHooks(f) /\ Chained(i) /\ InOrder(i) /\ f.suite = s /\ f \in Frames
      BY <1>1, <3>1, <3>2, <3>3 DEF FrameInv, NestInv, VisitInv, Types
    <3>5. f.calls # 0
      <4>1. SUFFICES ASSUME f.calls = 0 PROVE FALSE
        OBVIOUS
      <4>2. ~T!Quiet(f)
        BY <2>1, <3>4 DEF FrameHooks, T!Called
      <4>3. NHooks \in Nat \ {0} /\ T!CallsAfter(f) # 0 /\ 0 < NHooks
        BY TestRunFacts DEF T!CallsAfter
      <4>4. Len(hooked[s]["after"]) = 0 /\ hooked[s]["undo"] = <<>>
        <5>1. CASE f.step = "beforeAll"
          <6>1. hooked[s]["after"] = <<>> /\ hooked[s]["undo"] = <<>>
            BY <3>4, <4>2, <5>1 DEF FrameHooks
          <6>2. QED
            BY <6>1
        <5>2. CASE f.step # "beforeAll"
          BY <3>4, <4>1, <4>2, <4>3, <5>2 DEF FrameHooks
        <5>3. QED
          BY <5>1, <5>2
      <4>5. "after" \in Calls
        BY DEF Calls, T!NoCalls
      <4>6. hooked[s]["after"] \in Seq({"ok", "throw"})
        BY <1>1, <4>5 DEF Types
      <4>7. hooked[s]["after"] = <<>> /\ <<>> \o <<>> = <<>>
        BY <4>4, <4>6
      <4>8. QED
        BY <1>5, <4>4, <4>7 DEF T!Aftermath
    <3>6. i = n
      BY <3>1, <3>2, <3>3, <3>4, <3>5 DEF Chained
    <3>7. f.next > Len(T!tasks[s])
      <4>1. ~T!Quiet(f) /\ f.calls > 0
        <5>1. ~T!Quiet(f)
          BY <2>1, <3>4 DEF FrameHooks, T!Called
        <5>2. f.calls \in Nat
          BY <3>4 DEF Frames
        <5>3. QED
          BY <3>5, <5>1, <5>2
      <4>2. f.step # "beforeAll"
        <5>1. SUFFICES ASSUME f.step = "beforeAll" PROVE FALSE
          OBVIOUS
        <5>2. hooked[s]["after"] = <<>> /\ hooked[s]["undo"] = <<>> /\ <<>> \o <<>> = <<>>
          BY <3>4, <4>1, <5>1 DEF FrameHooks
        <5>3. QED
          BY <1>5, <5>2 DEF T!Aftermath
      <4>3. QED
        BY <3>4, <4>1, <4>2 DEF FrameHooks
    <3>8. \A x \in T!Children(s) : Past(x)
      <4>1. SUFFICES ASSUME NEW x \in T!Children(s) PROVE Past(x)
        OBVIOUS
      <4>2. PICK k \in Nat : k \in DOMAIN T!tasks[s] /\ x = T!tasks[s][k]
        BY <1>1, <4>1, TreeFacts DEF Types
      <4>3. T!tasks[s] \in Seq(T!Tasks)
        BY <1>1, TreeFacts DEF Types
      <4>4. k <= Len(T!tasks[s]) /\ Len(T!tasks[s]) \in Nat /\ f.next \in Nat
        BY <3>4, <4>2, <4>3 DEF Frames
      <4>5. k < f.next
        BY <3>7, <4>4
      <4>6. ~(i < Len(stack))
        BY <3>2, <3>6
      <4>7. QED
        BY <3>3, <3>4, <4>2, <4>5, <4>6 DEF InOrder
    <3>9. QED
      BY <1>1, <3>8, BelowPast
  <2>4. QED
    BY <2>2, <2>3
<1>6. QED
  BY <1>3, <1>4, <1>5

(* The suites of a test that is tried run. *)
LEMMA SuitesLive ==
  ASSUME Types, WalkInv, AttInv, att # T!NoAttempt
  PROVE  \A s \in T!Range(T!Chain(att.test)) : T!Live(s)
<1>1. PICK t \in Tests : t = att.test /\ stack # <<>> /\ T!Collected(t) /\ T!ParentOf(t) = T!Top.suite
  BY TestTried
<1>2. PICK f \in Frames, s \in Suites : f = T!Top /\ s = f.suite
  BY <1>1, TopFacts
<1>3. ~T!LeftOut(t) /\ f.step = "tasks" /\ f.next <= Len(T!tasks[s])
  BY <1>1, <1>2 DEF AttInv
<1>4. T!SkipAll(f) = "none" /\ ~f.hook
  BY <1>2, <1>3 DEF T!LeftOut
<1>5. T!Mode(t) \in {"run", "only"} /\ ~T!NotOnly(t) /\ t \notin decl.filtered
  <2>1. T!Mode(t) \in T!Modes
    <3>1. t \in T!Tasks /\ t # Root
      BY <1>1, TestRunFacts DEF T!Tasks
    <3>2. QED
      BY <3>1 DEF Types, Decls, T!Mode
  <2>2. T!Mode(t) \notin {"skip", "todo"} /\ ~T!NotOnly(t) /\ ~T!Filtered(t)
    BY <1>3 DEF T!LeftOut
  <2>3. QED
    BY <1>2, <1>4, <2>1, <2>2 DEF T!Modes, T!Filtered
<1>6. t \in T!Children(s) /\ t \notin Suites
  BY <1>1, <1>2, TreeFacts, TestRunFacts DEF Types
<1>7. T!OwnMode(s) = "none"
  BY <1>2, <1>4 DEF T!SkipAll
<1>8. T!Runnable(s)
  BY <1>5, <1>6, <1>7, RunnableStep DEF Types
<1>9. ~T!Quiet(f)
  <2>1. T!ForbiddenOnly(s) => f.hook
    BY <1>1, <1>2, <1>4, TopFacts, StackTop DEF FrameModes
  <2>2. QED
    BY <1>2, <1>4, <1>8, <2>1 DEF T!Quiet
<1>10. T!Live(s)
  <2>1. Here(t) \/ f.calls = 0 \/ f.calls # 0
    OBVIOUS
  <2>2. FrameHooks(f)
    BY <1>1, <1>2, TopFacts
  <2>3. f.calls \in Nat /\ f.next \in Nat /\ Len(T!tasks[s]) \in Nat
    <3>1. T!tasks[s] \in Seq(T!Tasks)
      BY TreeFacts DEF Types
    <3>2. QED
      BY <1>2, <3>1 DEF Frames
  <2>4. f.calls = 0
    BY <1>2, <1>3, <1>9, <2>2, <2>3 DEF FrameHooks
  <2>5. NHooks \in Nat \ {0} /\ T!CallsAfter(f) # 0 /\ 0 < NHooks
    BY TestRunFacts DEF T!CallsAfter
  <2>6. /\ Len(hooked[s]["before"]) = NHooks /\ T!Clean(hooked[s]["before"])
        /\ Len(hooked[s]["after"]) = 0 /\ hooked[s]["undo"] = <<>>
    BY <1>2, <1>3, <1>4, <1>9, <2>2, <2>4, <2>5 DEF FrameHooks
  <2>7. hooked[s]["after"] \in Seq({"ok", "throw"})
    <3>1. "after" \in Calls
      BY DEF Calls, T!NoCalls
    <3>2. QED
      BY <1>2, <3>1 DEF Types
  <2>8. hooked[s]["after"] = <<>> /\ <<>> \o <<>> = <<>>
    BY <2>6, <2>7
  <2>9. QED
    BY <2>6, <2>8 DEF T!Live, T!Aftermath
<1>11. \A a \in T!Range(T!Chain(s)) : T!Live(a)
  BY <1>1, <1>2, <1>4, <1>8, AncestorsLive DEF WalkInv
<1>12. T!Range(T!Chain(t)) = T!Range(T!Chain(s)) \union {s}
  <2>1. PICK c : c = T!Chain(s)
    OBVIOUS
  <2>2. c \in Seq(Suites)
    <3>1. <<>> \in Seq(Suites)
      OBVIOUS
    <3>2. s = Root \/ T!Collected(s)
      BY <1>1, <1>2, TreeFacts DEF Types
    <3>3. QED
      BY <2>1, <3>1, <3>2, ChainStep DEF Types
  <2>3. T!Chain(t) = Append(c, s)
    BY <1>1, <1>2, <2>1, ChainStep DEF Types
  <2>4. QED
    BY <1>2, <2>1, <2>2, <2>3, RangeAppend
<1>13. QED
  BY <1>1, <1>10, <1>11, <1>12

(* The invariant says how the hooks of a test run. *)
LEMMA AroundTests ==
  ASSUME HooksInv
  PROVE  T!HooksOfTest
<1>1. Types /\ WalkInv /\ AttInv /\ DidInv
  BY DEF HooksInv
<1>2. ASSUME T!At("body")
      PROVE  /\ \A s \in T!Range(T!Chain(att.test)) : T!Live(s)
             /\ did["before"] = [i \in 1 .. T!Each |-> [k |-> i, o |-> "ok"]]
  <2>1. att # T!NoAttempt /\ att.step = "body"
    BY <1>2 DEF T!At
  <2>2. did["before"] = Fine(T!Each)
    BY <1>1, <2>1 DEF DidInv, Deeds
  <2>3. QED
    BY <1>1, <2>1, <2>2, SuitesLive DEF Fine
<1>3. ASSUME T!At("end")
      PROVE  LET broken == \E e \in T!Range(did["before"]) : e.o # "ok"
             IN /\ T!Unwound(did["after"], T!Each, 1)
                /\ IF broken \/ T!Last(did["after"]).o # "ok" THEN did["undo"] = <<>>
                   ELSE T!Unwound(did["undo"], T!Each, 1)
                /\ Len(did["body"]) = (IF broken THEN 0 ELSE 1)
                /\ Len(did["finished"]) = Len(did["body"])
                /\ Len(did["failed"]) <= Len(did["body"])
                /\ did["failed"] # <<>> => T!CameTo(did) # "clean"
  <2>1. att # T!NoAttempt /\ att.step = "end"
    BY <1>3 DEF T!At
  <2>2. /\ Unwinding(did, T!Each)
        /\ Broken(did) => Len(did["body"]) = 0
        /\ ~Broken(did) => Len(did["body"]) = 1
        /\ Len(did["finished"]) = Len(did["body"])
        /\ Len(did["failed"]) <= Len(did["body"])
        /\ did["failed"] # <<>> => Amiss(did)
    BY <1>1, <2>1 DEF DidInv, Deeds
  <2>3. Amiss(did) => T!CameTo(did) # "clean"
    <3>1. PICK d \in [Kinds -> Seq(Steps)] : d = did
      BY <1>1 DEF Types
    <3>2. ASSUME NEW w \in Kinds, NEW i \in DOMAIN d[w], d[w][i].o # "ok" PROVE T!CameTo(d) # "clean"
      <4>1. d[w][i] \in T!Range(d[w]) /\ w \in DOMAIN d
        BY <3>1 DEF T!Range
      <4>2. d[w][i].o \in UNION {{e.o : e \in T!Range(d[v])} : v \in DOMAIN d}
        BY <4>1
      <4>3. QED
        BY <3>2, <4>2 DEF T!CameTo
    <3>3. QED
      BY <3>1, <3>2 DEF Amiss
  <2>4. T!Unwound(did["after"], T!Each, 1)
    BY <2>2 DEF Unwinding
  <2>5. IF Broken(did) \/ T!Last(did["after"]).o # "ok" THEN did["undo"] = <<>>
        ELSE T!Unwound(did["undo"], T!Each, 1)
    BY <2>2 DEF Unwinding
  <2>6. Len(did["body"]) = (IF Broken(did) THEN 0 ELSE 1)
    <3>1. CASE Broken(did)
      BY <2>2, <3>1
    <3>2. CASE ~Broken(did)
      BY <2>2, <3>2
    <3>3. QED
      BY <3>1, <3>2
  <2>7. QED
    BY <2>2, <2>3, <2>4, <2>5, <2>6 DEF Broken
<1>4. QED
  BY <1>2, <1>3 DEF T!HooksOfTest

(* The hooks of a suite and of a test run around what they are declared    *)
(* for, in order and undone backwards, whatever throws, skips or times     *)
(* out: of any file that describe and it can collect, any number of hooks  *)
(* and any retries, from what runSuite and __tt.run keep of their progress.*)
THEOREM HooksAroundHolds == T!Spec => []HooksAround
<1>1. T!Init => HooksInv
  BY HooksAtStart
<1>2. HooksInv /\ [T!Next]_(T!vars) => HooksInv'
  BY HooksKept
<1>3. HooksInv => HooksAround
  BY AroundTests, AroundSuites DEF HooksAround, T!HooksAround
<1>4. QED
  BY <1>1, <1>2, <1>3, PTL DEF T!Spec

-----------------------------------------------------------------------------
(* What the tests of one file are told as, and what is invariant of it     *)

Tallies == [passed : Nat, failed : Nat, skipped : Nat, failures : Nat, noSuite : BOOLEAN]

TallyTypes ==
  /\ sum \in Tallies
  /\ attempts \in [Tests -> Seq({"skip", "clean", "error"})]

(* A suite that does not run, and one of which a beforeAll hook threw or   *)
(* that a forbidden .only fails.                                           *)
Shut(s) == T!OwnMode(s) # "none"
Spoilt(s) == ~T!Clean(hooked[s]["before"]) \/ T!ForbiddenOnly(s)

(* The suites around a suite's tasks, and the outermost of them that is    *)
(* shut.                                                                   *)
Around(s) == T!Range(T!Chain(s)) \union {s}

OuterShut(s, around) == s \in around /\ Shut(s) /\ \A r \in T!Range(T!Chain(s)) : ~Shut(r)

(* What a frame says of the suites around its tasks: whether one is        *)
(* spoilt, else the mode of the outermost that is shut.                    *)
FrameMode(f) ==
  LET around == Around(f.suite)
  IN IF \E s \in around : Spoilt(s) THEN f.hook /\ T!SkipAll(f) \in {"none", "hook"}
     ELSE /\ ~f.hook
          /\ IF \E s \in around : Shut(s)
               THEN \E s \in around : OuterShut(s, around) /\ T!SkipAll(f) = T!OwnMode(s)
               ELSE T!SkipAll(f) = "none"

ModesInv ==
  \A i \in DOMAIN stack :
    FrameMode(stack[i]) /\ (stack[i].step = "beforeAll" => stack[i].next = 1)

(* An attempt knows what its steps came to: whether one skipped the test,  *)
(* else whether one went wrong.                                            *)
Skipped(d) == \E w \in Kinds : \E i \in DOMAIN d[w] : d[w][i].o \in {"skip", "caught"}

Came(a, d) ==
  /\ a.pending <=> Skipped(d)
  /\ a.mark <= a.errors
  /\ ~a.pending => (a.errors > a.mark <=> Amiss(d))
  /\ ~a.pending => IF a.step \in {"beforeEach", "body"} THEN ~Amiss(d) ELSE a.ok <=> ~Amiss(d)

(* A test is tried again after this. *)
Again(t) == IF t \in decl.fails THEN "clean" ELSE "error"

(* The attempts before the one under way, and all of a test's: those but   *)
(* the last had to be followed by another.                                 *)
Tried(a, d) ==
  /\ a.no = Len(attempts[a.test]) + 1 /\ a.no <= decl.retry + 1
  /\ \A i \in DOMAIN attempts[a.test] : attempts[a.test][i] = Again(a.test)
  /\ Came(a, d)

Tries(t) ==
  /\ Len(attempts[t]) <= decl.retry + 1
  /\ \A i \in 1 .. Len(attempts[t]) - 1 : attempts[t][i] = Again(t)
  /\ ~Recorded(t) /\ (att = T!NoAttempt \/ att.test # t) => attempts[t] = <<>>

TriesInv == (att # T!NoAttempt => Tried(att, did)) /\ \A t \in Tests : Tries(t)

(* MustBeTold of a test whose attempts came to that: it depends on the     *)
(* declarations and on which beforeAll hooks threw, and on nothing else.   *)
OuterOf(around) ==
  LET shut == {s \in around : T!OwnMode(s) # "none"}
  IN CHOOSE s \in shut : shut \intersect T!Range(T!Chain(s)) = {}

ToldAs(t, came) ==
  LET around == T!Range(T!Chain(t))
  IN IF \E s \in around : Spoilt(s) THEN "skipped"
     ELSE IF \E s \in around : Shut(s)
       THEN IF T!Mode(t) = "only" THEN "pending"
            ELSE IF T!OwnMode(OuterOf(around)) = "todo" \/ T!Mode(t) = "todo" THEN "todo" ELSE "skipped"
     ELSE IF t \in decl.filtered THEN "skipped"
     ELSE IF T!Mode(t) = "todo" THEN "todo"
     ELSE IF T!Mode(t) = "skip" \/ T!NotOnly(t) THEN "skipped"
     ELSE IF T!ForbiddenOnly(t) THEN "failed"
     ELSE IF T!Last(came) = "skip" THEN "skipped"
     ELSE IF T!Last(came) = (IF t \in decl.fails THEN "error" ELSE "clean") THEN "passed" ELSE "failed"

(* A test is recorded once, as what it must be told as; the counts are the *)
(* records'.                                                               *)
RecordsInv ==
  /\ \A i, j \in DOMAIN records : records[i].test = records[j].test => i = j
  /\ \A r \in T!Range(records) : r.status = T!MustBeTold(r.test)

CountsInv ==
  /\ sum.passed = T!CountOf({"passed"})
  /\ sum.failed = T!CountOf({"failed"})
  /\ sum.skipped = T!CountOf({"skipped", "todo"})

(* A failure that is not only a frame's: of a test, a hook, or a suite     *)
(* that was left.                                                          *)
Lasting ==
  \/ sum.failed > 0
  \/ \E s \in Suites, w \in Calls : ~T!Clean(hooked[s][w])
  \/ \E s \in Suites \ {Root} : told[s] = "fail"

(* Failures are counted for what lasts, for the suites on the stack that   *)
(* will be told as failed, and for a file in which nothing was collected.  *)
FailuresInv ==
  /\ sum.noSuite => progress \in {"ran", "ERROR"}
  /\ \A i \in DOMAIN stack : stack[i].failed => T!SkipAll(stack[i]) = "none" /\ sum.failures > 0
  /\ Lasting => sum.failures > 0
  /\ sum.failures > 0 => sum.noSuite \/ Lasting \/ \E j \in DOMAIN stack : j > 1 /\ stack[j].failed
  /\ progress \in {"PASS", "FAIL"} => ~sum.noSuite /\ (progress = "PASS" <=> T!Ok)

ToldInv == TallyTypes /\ ModesInv /\ TriesInv /\ RecordsInv /\ CountsInv /\ FailuresInv

-----------------------------------------------------------------------------
(* What an attempt comes to                                                *)

(* What a step leaves an attempt with, of what Came says of it. *)
LEMMA DeedOutcomes ==
  ASSUME NEW d \in [Kinds -> Seq(Steps)], NEW w \in Kinds, NEW k \in Int, NEW o \in T!Outcomes,
         NEW x, x = More(d, w, k, o)
  PROVE  /\ x \in [Kinds -> Seq(Steps)]
         /\ Amiss(x) <=> Amiss(d) \/ o # "ok"
         /\ Skipped(x) <=> Skipped(d) \/ o \in {"skip", "caught"}
<1>0. [k |-> k, o |-> o] \in Steps
  BY DEF Steps
<1>1. PICK r \in Steps : r = [k |-> k, o |-> o] /\ r.o = o
  BY <1>0
<1>2. PICK n \in Nat : n = Len(d[w])
  OBVIOUS
<1>3. /\ x \in [Kinds -> Seq(Steps)] /\ x[w] = Append(d[w], r)
      /\ \A v \in Kinds : v # w => x[v] = d[v]
  BY <1>1, DeedAdded
<1>4. DOMAIN x[w] = 1 .. n + 1 /\ x[w][n + 1] = r /\ DOMAIN d[w] = 1 .. n /\ n + 1 \in 1 .. n + 1
      /\ \A i \in 1 .. n : i \in 1 .. n + 1 /\ x[w][i] = d[w][i]
  <2>1. d[w] \in Seq(Steps)
    OBVIOUS
  <2>2. QED
    BY <1>1, <1>2, <1>3, <2>1, AppendIs
<1>5. \A i \in 1 .. n + 1 : i \in 1 .. n \/ i = n + 1
  BY <1>2
<1>6. ASSUME NEW v \in Kinds, NEW i \in DOMAIN d[v] PROVE i \in DOMAIN x[v] /\ x[v][i] = d[v][i]
  BY <1>3, <1>4, <1>6
<1>7. ASSUME NEW v \in Kinds, NEW i \in DOMAIN x[v]
      PROVE  (i \in DOMAIN d[v] /\ x[v][i] = d[v][i]) \/ x[v][i] = r
  BY <1>3, <1>4, <1>5, <1>7
<1>8. Amiss(x) <=> Amiss(d) \/ o # "ok"
  BY <1>1, <1>4, <1>6, <1>7 DEF Amiss
<1>9. Skipped(x) <=> Skipped(d) \/ o \in {"skip", "caught"}
  <2>1. Skipped(d) => Skipped(x)
    BY <1>6 DEF Skipped
  <2>2. o \in {"skip", "caught"} => Skipped(x)
    BY <1>1, <1>4 DEF Skipped
  <2>3. Skipped(x) => Skipped(d) \/ o \in {"skip", "caught"}
    BY <1>1, <1>7 DEF Skipped
  <2>4. QED
    BY <2>1, <2>2, <2>3
<1>10. QED
  BY <1>3, <1>8, <1>9

(* An attempt starts with nothing done. *)
LEMMA NothingDone ==
  ASSUME NEW t \in Tests, NEW no \in Nat, NEW errors \in Nat
  PROVE  Came(T!Attempt(t, no, errors), T!Nothing)
<1>1. ASSUME NEW w \in Kinds PROVE DOMAIN T!Nothing[w] = {}
  <2>1. T!Nothing[w] = <<>>
    BY DEF Kinds, T!Nothing
  <2>2. QED
    BY <2>1
<1>2. ~Amiss(T!Nothing) /\ ~Skipped(T!Nothing)
  BY <1>1 DEF Amiss, Skipped
<1>0. PICK a : a = T!Attempt(t, no, errors)
  OBVIOUS
<1>3. a.pending = FALSE /\ a.mark = errors /\ a.errors = errors /\ a.step = "beforeEach"
  BY <1>0 DEF T!Attempt
<1>4. errors <= errors /\ ~(errors > errors)
  OBVIOUS
<1>5. QED
  BY <1>0, <1>2, <1>3, <1>4 DEF Came

(* ... after its body, or a beforeEach hook that did not do, ... *)
LEMMA CameSettled ==
  ASSUME NEW a \in AttemptStates, NEW d \in [Kinds -> Seq(Steps)], Came(a, d),
         a.step \in {"beforeEach", "body"}, NEW w \in Kinds, NEW k \in Int, NEW o \in T!Outcomes,
         NEW b, b = T!Settled(a, o), NEW x, x = More(d, w, k, o)
  PROVE  Came(b, x) /\ b.test = a.test /\ b.no = a.no
<1>1. a.errors \in Nat /\ a.mark \in Nat /\ a.pending \in BOOLEAN
  BY DEF AttemptStates
<1>2. /\ Amiss(x) <=> Amiss(d) \/ o # "ok"
      /\ Skipped(x) <=> Skipped(d) \/ o \in {"skip", "caught"}
  BY DeedOutcomes
<1>3. PICK p \in BOOLEAN : p <=> a.pending \/ o \in {"skip", "caught"}
  OBVIOUS
<1>4. PICK ok \in BOOLEAN : ok <=> o \in {"ok", "caught"}
  OBVIOUS
<1>5. /\ b.test = a.test /\ b.no = a.no /\ b.mark = a.mark /\ b.step = "afterEach"
      /\ b.pending <=> p
      /\ b.ok <=> ok
      /\ b.errors = IF ok \/ p THEN a.errors ELSE a.errors + 1
  BY <1>3, <1>4 DEF T!Settled, AttemptStates
<1>6. /\ a.pending <=> Skipped(d)
      /\ a.mark <= a.errors
      /\ ~a.pending => ~Amiss(d) /\ ~(a.errors > a.mark)
  BY DEF Came
<1>7. o \in {"ok", "throw", "timeout", "skip", "caught"}
  BY DEF T!Outcomes
<1>8. /\ b.pending <=> Skipped(x)
      /\ b.mark <= b.errors
      /\ ~b.pending => (b.errors > b.mark <=> Amiss(x))
      /\ ~b.pending => (b.ok <=> ~Amiss(x))
  <2>1. b.pending <=> Skipped(x)
    BY <1>2, <1>3, <1>5, <1>6
  <2>2. b.mark <= b.errors
    BY <1>1, <1>5, <1>6
  <2>3. ASSUME ~b.pending PROVE (b.errors > b.mark <=> Amiss(x)) /\ (b.ok <=> ~Amiss(x))
    <3>1. ~p /\ ~Amiss(d) /\ a.errors = a.mark /\ ~a.pending /\ o \notin {"skip", "caught"}
      BY <1>1, <1>3, <1>5, <1>6, <2>3
    <3>2. CASE o = "ok"
      BY <1>1, <1>2, <1>4, <1>5, <3>1, <3>2
    <3>3. CASE o # "ok"
      BY <1>1, <1>2, <1>4, <1>5, <1>7, <3>1, <3>3
    <3>4. QED
      BY <3>2, <3>3
  <2>4. QED
    BY <2>1, <2>2, <2>3
<1>9. QED
  BY <1>5, <1>8 DEF Came

(* ... after an afterEach hook or a handler, ... *)
LEMMA CameThrown ==
  ASSUME NEW a \in AttemptStates, NEW d \in [Kinds -> Seq(Steps)], Came(a, d),
         a.step \notin {"beforeEach", "body"}, NEW w \in Kinds, NEW k \in Int,
         NEW o \in {"ok", "throw", "skip"}, NEW c, c = T!Thrown(a, o), NEW x, x = More(d, w, k, o),
         NEW b, b.pending = c.pending, b.errors = c.errors, b.mark = c.mark, b.ok = c.ok,
         b.step \notin {"beforeEach", "body"}
  PROVE  Came(b, x) /\ c.test = a.test /\ c.no = a.no
<1>1. a.errors \in Nat /\ a.mark \in Nat /\ a.pending \in BOOLEAN /\ o \in T!Outcomes
  BY DEF AttemptStates, T!Outcomes
<1>2. /\ Amiss(x) <=> Amiss(d) \/ o # "ok"
      /\ Skipped(x) <=> Skipped(d) \/ o \in {"skip", "caught"}
  BY <1>1, DeedOutcomes
<1>3. /\ a.pending <=> Skipped(d)
      /\ a.mark <= a.errors
      /\ ~a.pending => (a.errors > a.mark <=> Amiss(d)) /\ (a.ok <=> ~Amiss(d))
  BY DEF Came
<1>4. CASE c = a /\ (o = "ok" \/ (o = "throw" /\ a.pending))
  BY <1>2, <1>3, <1>4 DEF Came
<1>5. CASE o = "skip" /\ c = [a EXCEPT !.pending = TRUE]
  <2>1. c.pending /\ c.errors = a.errors /\ c.mark = a.mark /\ c.test = a.test /\ c.no = a.no
    BY <1>5 DEF AttemptStates
  <2>2. QED
    BY <1>2, <1>3, <1>5, <2>1 DEF Came
<1>6. CASE /\ o = "throw" /\ ~a.pending
           /\ c = [a EXCEPT !.ok = FALSE, !.state = "fail", !.errors = @ + 1]
  <2>1. /\ ~c.pending /\ c.errors = a.errors + 1 /\ c.mark = a.mark /\ c.ok = FALSE
        /\ c.test = a.test /\ c.no = a.no
    BY <1>6 DEF AttemptStates
  <2>2. c.errors > c.mark /\ c.mark <= c.errors
    BY <1>1, <1>3, <2>1
  <2>3. Amiss(x) /\ ~Skipped(x)
    BY <1>2, <1>3, <1>6
  <2>4. QED
    BY <2>1, <2>2, <2>3 DEF Came
<1>7. QED
  BY <1>4, <1>5, <1>6 DEF T!Thrown

(* ... after a beforeEach hook that did, ... *)
LEMMA CameOk ==
  ASSUME NEW a \in AttemptStates, NEW d \in [Kinds -> Seq(Steps)], Came(a, d),
         a.step \in {"beforeEach", "body"}, NEW w \in Kinds, NEW k \in Int,
         NEW x, x = More(d, w, k, "ok"),
         NEW b, b.pending = a.pending, b.errors = a.errors, b.mark = a.mark,
         b.step \in {"beforeEach", "body"}
  PROVE  Came(b, x)
<1>1. "ok" \in T!Outcomes
  BY DEF T!Outcomes
<1>2. (Amiss(x) <=> Amiss(d)) /\ (Skipped(x) <=> Skipped(d))
  BY <1>1, DeedOutcomes
<1>3. QED
  BY <1>2 DEF Came

(* ... and after a body left behind has skipped it. *)
LEMMA CameZombie ==
  ASSUME NEW a \in AttemptStates, NEW d \in [Kinds -> Seq(Steps)], Came(a, d),
         NEW b, b = [a EXCEPT !.pending = TRUE], NEW x, x = More(d, "zombie", 0, "skip")
  PROVE  Came(b, x) /\ b.test = a.test /\ b.no = a.no
<1>1. "skip" \in T!Outcomes /\ "zombie" \in Kinds /\ 0 \in Int
  BY KindNames DEF T!Outcomes
<1>5. PICK o \in T!Outcomes, w \in Kinds, k \in Int : o = "skip" /\ w = "zombie" /\ k = 0
  BY <1>1
<1>6. x = More(d, w, k, o)
  BY <1>5
<1>2. Skipped(x)
  BY <1>5, <1>6, DeedOutcomes
<1>3. b.pending /\ b.errors = a.errors /\ b.mark = a.mark /\ b.test = a.test /\ b.no = a.no
  BY DEF AttemptStates
<1>4. QED
  BY <1>2, <1>3 DEF Came

(* An attempt is not none. *)
LEMMA AnAttempt ==
  ASSUME NEW a \in AttemptStates
  PROVE  a # T!NoAttempt
<1>1. DOMAIN a = {"test", "no", "step", "calls", "ok", "state", "pending", "errors", "mark", "kept"}
  BY DEF AttemptStates
<1>2. DOMAIN T!NoAttempt = {"test"}
  BY DEF T!NoAttempt
<1>3. QED
  BY <1>1, <1>2

(* What an attempt is said to have come to. *)
LEMMA AttemptCame ==
  ASSUME Types, att # T!NoAttempt, progress = "run", Came(att, did),
         \/ T!ZombieSkips
         \/ \E o \in T!Outcomes : T!BeforeEach(o) \/ T!Body(o) \/ T!AfterEach(o) \/ T!Handler(o)
  PROVE  Came(att', did') /\ att'.test = att.test /\ att'.no = att.no
<1>1. PICK a \in AttemptStates, d \in [Kinds -> Seq(Steps)] : a = att /\ d = did
  BY DEF Types
<1>2. Came(a, d) /\ a.calls \in Nat /\ T!Each = T!Each
  BY <1>1 DEF AttemptStates
<1>3. CASE T!ZombieSkips
  <2>1. PICK b, x : b = [a EXCEPT !.pending = TRUE] /\ x = More(d, "zombie", 0, "skip")
    OBVIOUS
  <2>2. att' = b /\ did' = x
    BY <1>1, <1>3, <2>1 DEF T!ZombieSkips, T!Did, More
  <2>3. QED
    BY <1>1, <1>2, <2>1, <2>2, CameZombie
<1>4. ASSUME NEW o \in T!Outcomes, T!BeforeEach(o)
      PROVE  Came(att', did') /\ att'.test = att.test /\ att'.no = att.no
  <2>1. a.step = "beforeEach" /\ a.calls + 1 \in Int /\ "before" \in Kinds
    BY <1>1, <1>2, <1>4, KindNames DEF T!BeforeEach, T!At
  <2>2. PICK w \in Kinds, k \in Int : w = "before" /\ k = a.calls + 1
    BY <2>1
  <2>3. PICK b, x : b = att' /\ x = More(d, w, k, o)
    OBVIOUS
  <2>4. did' = x
    BY <1>1, <1>4, <2>2, <2>3 DEF T!BeforeEach, T!Did, More
  <2>5. CASE o = "ok"
    <3>1. PICK e : e = T!Each
      OBVIOUS
    <3>2. b = [a EXCEPT !.calls = @ + 1, !.kept = IF a.calls + 1 = e THEN e ELSE 0,
                        !.step = IF a.calls + 1 = e THEN "body" ELSE @]
      BY <1>1, <1>4, <2>3, <2>5, <3>1 DEF T!BeforeEach
    <3>3. /\ b.test = a.test /\ b.no = a.no /\ b.pending = a.pending /\ b.errors = a.errors
          /\ b.mark = a.mark /\ b.step \in {"beforeEach", "body"}
      BY <2>1, <3>2 DEF AttemptStates
    <3>4. x = More(d, w, k, "ok")
      BY <2>3, <2>5
    <3>5. Came(b, x)
      BY <1>2, <2>1, <3>3, <3>4, CameOk
    <3>6. QED
      BY <1>1, <2>3, <2>4, <3>3, <3>5
  <2>6. CASE o # "ok"
    <3>1. b = T!Settled(a, o)
      BY <1>1, <1>4, <2>3, <2>6 DEF T!BeforeEach
    <3>2. QED
      BY <1>1, <1>2, <2>1, <2>3, <2>4, <3>1, CameSettled
  <2>7. QED
    BY <2>5, <2>6
<1>5. ASSUME NEW o \in T!Outcomes, T!Body(o)
      PROVE  Came(att', did') /\ att'.test = att.test /\ att'.no = att.no
  <2>1. a.step = "body" /\ 0 \in Int /\ "body" \in Kinds
    BY <1>1, <1>5, KindNames DEF T!Body, T!At
  <2>2. PICK w \in Kinds, k \in Int : w = "body" /\ k = 0
    BY <2>1
  <2>3. PICK b, x : b = T!Settled(a, o) /\ x = More(d, w, k, o)
    OBVIOUS
  <2>4. att' = b /\ did' = x
    BY <1>1, <1>5, <2>2, <2>3 DEF T!Body, T!Did, More
  <2>5. QED
    BY <1>1, <1>2, <2>1, <2>3, <2>4, CameSettled
<1>6. ASSUME NEW o \in T!Outcomes, T!AfterEach(o)
      PROVE  Came(att', did') /\ att'.test = att.test /\ att'.no = att.no
  <2>1. a.step = "afterEach" /\ o \in {"ok", "throw", "skip"}
    BY <1>1, <1>6 DEF T!AfterEach, T!At
  <2>2. PICK e : e = T!Each
    OBVIOUS
  <2>3. PICK c, b, n, p : c = T!Thrown(a, o) /\ b = att'
          /\ p = (IF o # "ok" \/ a.calls + 1 = e + a.kept THEN T!AfterHooks ELSE c.step)
          /\ n = (IF o # "ok" \/ a.calls + 1 = e + a.kept THEN 0 ELSE c.calls + 1)
    OBVIOUS
  <2>4. b = [c EXCEPT !.calls = n, !.step = p]
    BY <1>1, <1>6, <2>2, <2>3 DEF T!AfterEach
  <2>5. c \in AttemptStates /\ c.step = a.step
    BY <2>1, <2>3, ThrownFacts
  <2>6. /\ b.test = c.test /\ b.no = c.no /\ b.pending = c.pending /\ b.errors = c.errors
        /\ b.mark = c.mark /\ b.ok = c.ok /\ b.step = p
    BY <2>4, <2>5 DEF AttemptStates
  <2>7. p \notin {"beforeEach", "body"}
    BY <2>1, <2>3, <2>5 DEF T!AfterHooks
  <2>8. \E w \in Kinds, k \in Int : did' = More(d, w, k, o)
    <3>1. e \in Int /\ e - a.calls \in Int /\ 2 * e - a.calls \in Int /\ "after" \in Kinds /\ "undo" \in Kinds
      <4>1. PICK m \in Nat : m = a.calls
        BY <1>2
      <4>2. e \in Int
        BY <1>1, <2>2 DEF T!Each
      <4>3. QED
        BY <4>1, <4>2, KindNames
    <3>2. did' = More(d, "after", e - a.calls, o) \/ did' = More(d, "undo", 2 * e - a.calls, o)
      BY <1>1, <1>6, <2>2 DEF T!AfterEach, T!Did, More
    <3>3. QED
      BY <3>1, <3>2
  <2>9. PICK w \in Kinds, k \in Int : did' = More(d, w, k, o)
    BY <2>8
  <2>10. Came(b, did') /\ c.test = a.test /\ c.no = a.no
    <3>1. PICK x : x = did'
      OBVIOUS
    <3>2. x = More(d, w, k, o)
      BY <2>9, <3>1
    <3>3. a.step \notin {"beforeEach", "body"} /\ b.step \notin {"beforeEach", "body"}
      BY <2>1, <2>6, <2>7
    <3>5. Came(b, x) /\ c.test = a.test /\ c.no = a.no
      BY <1>1, <1>2, <2>1, <2>3, <2>6, <2>9, <3>2, <3>3, CameThrown
    <3>4. QED
      BY <3>1, <3>5
  <2>11. QED
    BY <1>1, <2>3, <2>6, <2>10
<1>7. ASSUME NEW o \in T!Outcomes, T!Handler(o)
      PROVE  Came(att', did') /\ att'.test = att.test /\ att'.no = att.no
  <2>1. PICK s \in {"finished", "failed"} :
          a.step = s /\ did' = More(d, s, 0, o) /\ att' = HandlerCalled(a, s, o)
    BY <1>1, <1>7 DEF T!Handler, HandlerCalled, T!At, T!Did, More
  <2>2. o \in {"ok", "throw", "skip"} /\ s \in Kinds /\ 0 \in Int
    BY <1>7, KindNames DEF T!Handler
  <2>3. PICK c, b, x : c = T!Thrown(a, o) /\ b = att' /\ x = did'
    OBVIOUS
  <2>4. PICK p : p = (IF s = "finished" THEN T!AfterFinished(c) ELSE "end")
    OBVIOUS
  <2>5. b = [c EXCEPT !.step = p] /\ p \in {"failed", "end"}
    BY <2>1, <2>3, <2>4 DEF HandlerCalled, T!AfterFinished
  <2>6. c \in AttemptStates /\ c.step = a.step
    BY <2>2, <2>3, ThrownFacts
  <2>7. /\ b.test = c.test /\ b.no = c.no /\ b.pending = c.pending /\ b.errors = c.errors
        /\ b.mark = c.mark /\ b.ok = c.ok /\ b.step = p
    BY <2>5, <2>6 DEF AttemptStates
  <2>8. PICK w \in Kinds, k \in Int : w = s /\ k = 0
    BY <2>2
  <2>9. x = More(d, w, k, o)
    BY <2>1, <2>3, <2>8
  <2>12. a.step \notin {"beforeEach", "body"} /\ b.step \notin {"beforeEach", "body"}
    BY <2>1, <2>5, <2>7
  <2>10. Came(b, x) /\ c.test = a.test /\ c.no = a.no
    BY <1>1, <1>2, <2>2, <2>3, <2>7, <2>8, <2>9, <2>12, CameThrown
  <2>11. QED
    BY <1>1, <2>3, <2>7, <2>10
<1>8. QED
  BY <1>3, <1>4, <1>5, <1>6, <1>7

(* The history's own account of an attempt. *)
LEMMA CameToIs ==
  ASSUME NEW d \in [Kinds -> Seq(Steps)]
  PROVE  /\ T!CameTo(d) \in {"skip", "clean", "error"}
         /\ T!CameTo(d) = IF Skipped(d) THEN "skip" ELSE IF Amiss(d) THEN "error" ELSE "clean"
<1>1. PICK S : S = UNION {{e.o : e \in T!Range(d[w])} : w \in DOMAIN d}
  OBVIOUS
<1>2. \A o : o \in S <=> \E w \in Kinds : \E i \in DOMAIN d[w] : d[w][i].o = o
  <2>1. \A o : o \in S <=> \E w \in DOMAIN d : \E e \in T!Range(d[w]) : o = e.o
    BY <1>1
  <2>2. \A w \in Kinds : \A e : e \in T!Range(d[w]) <=> \E i \in DOMAIN d[w] : d[w][i] = e
    BY DEF T!Range
  <2>3. DOMAIN d = Kinds
    OBVIOUS
  <2>4. QED
    BY <2>1, <2>2, <2>3
<1>3. S \intersect {"skip", "caught"} # {} <=> Skipped(d)
  BY <1>2 DEF Skipped
<1>4. S \subseteq {"ok"} <=> ~Amiss(d)
  BY <1>2 DEF Amiss
<1>5. T!CameTo(d) = IF S \intersect {"skip", "caught"} # {} THEN "skip"
                  ELSE IF S \subseteq {"ok"} THEN "clean" ELSE "error"
  BY <1>1 DEF T!CameTo
<1>6. QED
  BY <1>3, <1>4, <1>5

(* A record more. *)
LEMMA NowRecorded ==
  ASSUME Types, NEW t \in Tests, NEW v, [test |-> t, status |-> v] \in Records, T!Told(t, v)
  PROVE  \A y : Recorded(y)' <=> Recorded(y) \/ y = t
<1>1. PICK r \in Records : r = [test |-> t, status |-> v]
  OBVIOUS
<1>2. T!Range(records)' = T!Range(records) \union {r}
  <2>1. records \in Seq(Records) /\ records' = Append(records, r)
    BY <1>1 DEF Types, T!Told
  <2>2. QED
    BY <2>1, RangeAppend
<1>3. QED
  BY <1>1, <1>2 DEF Recorded

(* The attempts at a test are those that had to be followed by another     *)
(* one, and the last.                                                      *)
LEMMA TriesAre ==
  ASSUME NEW a, NEW d, att' = a, did' = d, a # T!NoAttempt => Tried(a, d)', \A t \in Tests : Tries(t)'
  PROVE  TriesInv'
<1>1. a # T!NoAttempt => Tried(att, did)'
  BY DEF Tried, Again, Came, Amiss, Skipped
<1>2. QED
  BY <1>1 DEF TriesInv

(* ... without a step of an attempt, ... *)
LEMMA TriesStill ==
  ASSUME TriesInv, UNCHANGED <<decl, att, did, attempts>>, \A t \in Tests : Recorded(t) => Recorded(t)'
  PROVE  TriesInv'
<1>1. PICK a : a = att
  OBVIOUS
<1>2. PICK d : d = did
  OBVIOUS
<1>3. a # T!NoAttempt => Tried(a, d)'
  <2>1. a # T!NoAttempt => Tried(a, d)
    BY <1>1, <1>2 DEF TriesInv
  <2>2. Tried(a, d)' <=> Tried(a, d)
    BY DEF Tried, Again
  <2>3. QED
    BY <2>1, <2>2
<1>4. \A t \in Tests : Tries(t)'
  BY DEF TriesInv, Tries, Again
<1>5. QED
  BY <1>1, <1>2, <1>3, <1>4, TriesAre

(* ... at each of them, ... *)
LEMMA TriesGoOn ==
  ASSUME HooksInv, HooksInv', TriesInv,
         \/ T!ZombieSkips
         \/ \E o \in T!Outcomes : T!BeforeEach(o) \/ T!Body(o) \/ T!AfterEach(o) \/ T!Handler(o)
  PROVE  TriesInv'
<1>1. Types /\ att # T!NoAttempt /\ progress = "run"
  BY DEF HooksInv, T!ZombieSkips, T!BeforeEach, T!Body, T!AfterEach, T!Handler, T!At
<1>2. UNCHANGED <<decl, records, attempts>>
  BY DEF T!ZombieSkips, T!BeforeEach, T!Body, T!AfterEach, T!Handler, T!AttemptGoesOn
<1>3. PICK a, d, b, x : a = att /\ d = did /\ b = att' /\ x = did'
  OBVIOUS
<1>4. a \in AttemptStates /\ Tried(a, d)
  BY <1>1, <1>3 DEF TriesInv, Types
<1>5. Came(b, x) /\ b.test = a.test /\ b.no = a.no
  <2>1. Came(att, did)
    BY <1>3, <1>4 DEF Tried
  <2>2. QED
    BY <1>1, <1>3, <2>1, AttemptCame
<1>6. b # T!NoAttempt
  <2>1. DOMAIN b = DOMAIN a
    BY <1>3, <1>4 DEF T!ZombieSkips, T!BeforeEach, T!Body, T!AfterEach, T!Handler,
       T!Settled, T!Thrown
  <2>2. "no" \in DOMAIN b
    BY <1>4, <2>1 DEF AttemptStates
  <2>3. QED
    BY <2>2 DEF T!NoAttempt
<1>7. Tried(b, x)'
  BY <1>2, <1>4, <1>5 DEF Tried, Again
<1>8. ASSUME NEW t \in Tests PROVE Tries(t)'
  <2>1. Tries(t)
    BY DEF TriesInv
  <2>2. Recorded(t)' <=> Recorded(t)
    BY <1>2 DEF Recorded
  <2>3. (att' = T!NoAttempt \/ att'.test # t) => att.test # t
    BY <1>3, <1>5, <1>6
  <2>4. QED
    BY <1>2, <2>1, <2>2, <2>3 DEF Tries, Again
<1>9. QED
  BY <1>3, <1>7, <1>8, TriesAre

(* ... at the first attempt ... *)
LEMMA TriesBegin ==
  ASSUME HooksInv, TriesInv, NEW t \in Tests, T!StartTest(t)
  PROVE  TriesInv'
<1>1. Types /\ WalkInv /\ Here(t) /\ att = T!NoAttempt
  BY DEF HooksInv, T!StartTest, T!TaskIs, T!AtTasks, Here
<1>2. UNCHANGED <<decl, records, attempts>> /\ att' = T!Attempt(t, 1, 0) /\ did' = T!Nothing
  BY DEF T!StartTest
<1>3. ~Recorded(t)
  <2>1. stack # <<>> /\ T!Top.next <= Len(T!tasks[T!Top.suite]) /\ t = T!Task
    BY <1>1, AtTask
  <2>2. ~Past(t) /\ t \notin Suites
    BY <1>1, <2>1, NextTaskFacts, TestRunFacts DEF WalkInv
  <2>3. QED
    BY <2>2 DEF Past
<1>4. attempts[t] = <<>> /\ decl.retry \in Nat
  <2>1. decl.retry \in Nat
    BY <1>1 DEF Types, Decls
  <2>2. QED
    BY <1>1, <1>3, <2>1 DEF TriesInv, Tries
<1>5. PICK a, d : a = T!Attempt(t, 1, 0) /\ d = T!Nothing
  OBVIOUS
<1>6. a.test = t /\ a.no = 1 /\ Came(a, d)
  BY <1>5, NothingDone DEF T!Attempt
<1>7. Tried(a, d)'
  BY <1>2, <1>4, <1>6 DEF Tried, Again
<1>8. \A y \in Tests : Tries(y)'
  BY <1>1, <1>2 DEF TriesInv, Tries, Again, Recorded
<1>9. QED
  BY <1>2, <1>5, <1>7, <1>8, TriesAre

(* ... and at the end of one, which another follows or none. *)
LEMMA TriesEnd ==
  ASSUME HooksInv, TallyTypes, TriesInv, T!EndAttempt
  PROVE  TriesInv'
<1>1. Types /\ WalkInv /\ AttInv /\ att # T!NoAttempt
  BY DEF HooksInv, T!EndAttempt, T!At
<1>2. PICK c \in AttemptStates, d \in [Kinds -> Seq(Steps)] : c = att /\ d = did
  BY <1>1 DEF Types
<1>3. c.step = "end" /\ Tried(c, d) /\ UNCHANGED decl
  BY <1>1, <1>2 DEF TriesInv, T!EndAttempt, T!At
<1>4. PICK t \in Tests : t = c.test
  BY <1>2 DEF AttemptStates
<1>13. PICK a : a = T!Flipped(c)
  OBVIOUS
<1>5. PICK s \in Seq({"skip", "clean", "error"}), e \in {"skip", "clean", "error"}, n \in Nat :
        s = attempts[t] /\ e = T!CameTo(d) /\ n = Len(s)
  BY <1>2, <1>4, CameToIs DEF TallyTypes
<1>6. /\ attempts' = [attempts EXCEPT ![t] = Append(s, e)] /\ a.test = t /\ a.no = c.no
      /\ a.pending = c.pending /\ a.errors \in Nat /\ a.no \in Nat
      /\ ~a.pending /\ ~a.ok => e = Again(t)
  <2>1. c.errors + 1 \in Nat /\ c.mark \in Nat /\ c.no \in Nat /\ c.errors \in Nat
    BY <1>2 DEF AttemptStates
  <2>2. a = c \/ a = [c EXCEPT !.ok = TRUE, !.errors = c.mark]
        \/ a = [c EXCEPT !.ok = FALSE, !.errors = c.errors + 1]
    BY <1>13 DEF T!Flipped
  <2>3. a.test = t /\ a.no = c.no /\ a.pending = c.pending /\ a.errors \in Nat /\ a.no \in Nat
    BY <1>2, <1>4, <2>1, <2>2 DEF AttemptStates
  <2>4. attempts' = [attempts EXCEPT ![t] = Append(s, e)]
    BY <1>2, <1>4, <1>5, <1>13, <2>3 DEF T!EndAttempt
  <2>5. ASSUME ~a.pending, ~a.ok PROVE e = Again(t)
    <3>1. /\ ~Skipped(d)
          /\ c.errors > c.mark <=> Amiss(d)
          /\ c.ok <=> ~Amiss(d)
      BY <1>3, <2>3, <2>5 DEF Tried, Came
    <3>2. e = IF Amiss(d) THEN "error" ELSE "clean"
      BY <1>2, <1>5, <3>1, CameToIs
    <3>3. CASE t \in decl.fails
      <4>1. ~(c.errors > c.mark)
        BY <1>2, <1>4, <1>13, <2>3, <2>5, <3>3 DEF T!Flipped, AttemptStates
      <4>2. QED
        BY <3>1, <3>2, <3>3, <4>1 DEF Again
    <3>4. CASE t \notin decl.fails
      <4>1. a = c
        BY <1>4, <1>13, <3>4 DEF T!Flipped
      <4>2. QED
        BY <2>5, <3>1, <3>2, <3>4, <4>1 DEF Again
    <3>5. QED
      BY <3>3, <3>4
  <2>6. QED
    BY <2>3, <2>4, <2>5
<1>7. c.no = n + 1 /\ c.no <= decl.retry + 1 /\ \A i \in 1 .. n : s[i] = Again(t)
  <2>1. DOMAIN s = 1 .. n
    BY <1>5
  <2>2. QED
    BY <1>3, <1>4, <1>5, <2>1 DEF Tried
<1>8. PICK z : z = Append(s, e)
  OBVIOUS
<1>9. z = attempts'[t] /\ Len(z) = n + 1 /\ DOMAIN z = 1 .. n + 1 /\ z[n + 1] = e
      /\ \A i \in 1 .. n : z[i] = s[i]
  <2>1. attempts \in [Tests -> Seq({"skip", "clean", "error"})]
    BY DEF TallyTypes
  <2>2. z = attempts'[t]
    BY <1>6, <1>8, <2>1
  <2>3. PICK S : S = {"skip", "clean", "error"}
    OBVIOUS
  <2>4. s \in Seq(S) /\ e \in S /\ n \in Nat /\ n = Len(s)
    BY <1>5, <2>3
  <2>5. Len(z) = n + 1 /\ DOMAIN z = 1 .. n + 1 /\ z[n + 1] = e /\ \A i \in 1 .. n : z[i] = s[i]
    BY <1>8, <2>4, AppendIs
  <2>6. QED
    BY <2>2, <2>5
<1>10. CASE /\ ~a.pending /\ ~a.ok /\ a.no <= decl.retry
            /\ att' = T!Attempt(a.test, a.no + 1, a.errors) /\ did' = T!Nothing /\ UNCHANGED records
  <2>1. PICK k \in Nat : k = a.no + 1
    BY <1>6
  <2>2. PICK b, x : b = T!Attempt(t, k, a.errors) /\ x = T!Nothing
    OBVIOUS
  <2>3. b.test = t /\ b.no = k /\ Came(b, x) /\ att' = b /\ did' = x
    BY <1>6, <1>10, <2>1, <2>2, NothingDone DEF T!Attempt
  <2>4. k = (n + 1) + 1 /\ k <= decl.retry + 1
    <3>1. decl.retry \in Nat
      BY <1>1 DEF Types, Decls
    <3>2. QED
      BY <1>6, <1>7, <1>10, <2>1, <3>1
  <2>5. \A i \in 1 .. n + 1 : z[i] = Again(t)
    <3>1. \A i \in 1 .. n + 1 : i \in 1 .. n \/ i = n + 1
      BY <1>5
    <3>2. QED
      BY <1>6, <1>7, <1>9, <1>10, <3>1
  <2>6. Again(t)' = Again(t)
    BY <1>3 DEF Again
  <2>7. Tried(b, x)'
    <3>1. Again(b.test)' = Again(t)'
      BY <2>3
    <3>2. QED
      BY <1>3, <1>9, <2>3, <2>4, <2>5, <2>6, <3>1 DEF Tried
  <2>8. ASSUME NEW y \in Tests PROVE Tries(y)'
    <3>1. Tries(y) /\ (Recorded(y)' <=> Recorded(y)) /\ Again(y)' = Again(y)
      BY <1>3, <1>10 DEF TriesInv, Recorded, Again
    <3>2. CASE y = t
      <4>1. b # T!NoAttempt
        <5>1. "no" \in DOMAIN b
          BY <2>2 DEF T!Attempt
        <5>2. QED
          BY <5>1 DEF T!NoAttempt
      <4>2. ~(att' = T!NoAttempt \/ att'.test # t)
        BY <2>3, <4>1
      <4>3. Len(z) <= decl.retry + 1 /\ \A i \in 1 .. Len(z) - 1 : z[i] = Again(t)
        <5>1. Len(z) - 1 = n /\ n + 1 <= decl.retry + 1
          BY <1>5, <1>7, <1>9
        <5>2. QED
          BY <1>7, <1>9, <5>1
      <4>4. QED
        BY <1>3, <1>9, <3>1, <3>2, <4>2, <4>3 DEF Tries
    <3>3. CASE y # t
      <4>1. attempts'[y] = attempts[y] /\ att.test # y
        BY <1>2, <1>4, <1>6, <3>3 DEF TallyTypes
      <4>2. QED
        BY <1>3, <3>1, <4>1 DEF Tries
    <3>4. QED
      BY <3>2, <3>3
  <2>9. QED
    BY <2>3, <2>7, <2>8, TriesAre
<1>11. CASE att' = T!NoAttempt /\ \E v \in {"passed", "failed", "skipped"} : T!Told(t, v)
  <2>1. \A y : Recorded(y)' <=> Recorded(y) \/ y = t
    <3>1. PICK v \in {"passed", "failed", "skipped"} : T!Told(t, v)
      BY <1>11
    <3>2. [test |-> t, status |-> v] \in Records
      BY <1>4, <3>1 DEF Records
    <3>3. QED
      BY <1>1, <1>4, <3>1, <3>2, NowRecorded
  <2>2. ASSUME NEW y \in Tests PROVE Tries(y)'
    <3>1. Tries(y) /\ Again(y)' = Again(y)
      BY <1>3 DEF TriesInv, Again
    <3>2. CASE y = t
      <4>1. Len(z) <= decl.retry + 1 /\ \A i \in 1 .. Len(z) - 1 : z[i] = Again(t)
        <5>1. Len(z) - 1 = n /\ n + 1 <= decl.retry + 1
          BY <1>5, <1>7, <1>9
        <5>2. QED
          BY <1>7, <1>9, <5>1
      <4>2. QED
        BY <1>3, <1>9, <2>1, <3>1, <3>2, <4>1 DEF Tries
    <3>3. CASE y # t
      <4>1. attempts'[y] = attempts[y] /\ att.test # y
        BY <1>2, <1>4, <1>6, <3>3 DEF TallyTypes
      <4>2. QED
        BY <1>3, <2>1, <3>1, <4>1 DEF Tries
    <3>4. QED
      BY <3>2, <3>3
  <2>3. PICK x : x = did'
    OBVIOUS
  <2>4. QED
    BY <1>11, <2>2, <2>3, TriesAre
<1>12. QED
  <2>1. PICK v \in {"passed", "failed", "skipped"} :
          v = IF a.pending THEN "skipped" ELSE IF a.ok THEN "passed" ELSE "failed"
    OBVIOUS
  <2>2. \/ /\ ~a.pending /\ ~a.ok /\ a.no <= decl.retry
           /\ att' = T!Attempt(a.test, a.no + 1, a.errors) /\ did' = T!Nothing /\ UNCHANGED records
        \/ att' = T!NoAttempt /\ T!Told(t, v)
    BY <1>2, <1>4, <1>6, <1>13, <2>1 DEF T!EndAttempt
  <2>3. QED
    BY <1>10, <1>11, <2>1, <2>2

-----------------------------------------------------------------------------
(* What the frames say of the suites around them                           *)

(* What the frames say of the suites around their tasks. *)
LEMMA AroundFrame ==
  ASSUME Types, NestInv, NEW i \in 1 .. Len(stack)
  PROVE  /\ Around(stack[i].suite) = {stack[j].suite : j \in 1 .. i}
         /\ Around(stack[i].suite) \subseteq Suites
         /\ \A j \in 1 .. i : T!Range(T!Chain(stack[j].suite)) = {stack[k].suite : k \in 1 .. j - 1}
<1>1. PICK n \in Nat : n = Len(stack) /\ DOMAIN stack = 1 .. n /\ i <= n
  BY DEF Types
<1>2. ASSUME NEW j \in 1 .. n
      PROVE  T!Range(T!Chain(stack[j].suite)) = {stack[k].suite : k \in 1 .. j - 1}
  <2>1. T!Chain(stack[j].suite) = [k \in 1 .. j - 1 |-> stack[k].suite]
    BY <1>1 DEF NestInv, Chained
  <2>2. PICK c : c = T!Chain(stack[j].suite)
    OBVIOUS
  <2>3. DOMAIN c = 1 .. j - 1 /\ \A k \in 1 .. j - 1 : c[k] = stack[k].suite
    BY <2>1, <2>2
  <2>4. T!Range(c) = {stack[k].suite : k \in 1 .. j - 1}
    BY <2>3 DEF T!Range
  <2>5. QED
    BY <2>2, <2>4
<1>3. \A k \in 1 .. i : k \in 1 .. i - 1 \/ k = i
  BY <1>1
<1>4. \A k \in 1 .. i - 1 : k \in 1 .. i
  BY <1>1
<1>5. i \in 1 .. i /\ i \in 1 .. n /\ \A k \in 1 .. i : k \in 1 .. n
  BY <1>1
<1>6. Around(stack[i].suite) = {stack[j].suite : j \in 1 .. i}
  <2>1. T!Range(T!Chain(stack[i].suite)) = {stack[k].suite : k \in 1 .. i - 1}
    BY <1>2, <1>5
  <2>2. QED
    BY <1>3, <1>4, <1>5, <2>1 DEF Around
<1>7. \A k \in 1 .. n : stack[k].suite \in Suites
  <2>1. \A k \in 1 .. n : stack[k] \in Frames
    BY <1>1 DEF Types
  <2>2. QED
    BY <2>1 DEF Frames
<1>8. QED
  BY <1>2, <1>5, <1>6, <1>7

(* Whether a suite is spoilt or shut, while no beforeAll hook throws. *)
LEMMA SameSuites ==
  ASSUME UNCHANGED decl, NEW S, \A s \in S : T!Clean(hooked'[s]["before"]) <=> T!Clean(hooked[s]["before"])
  PROVE  /\ \A s : Shut(s)' <=> Shut(s)
         /\ \A s : Around(s)' = Around(s)
         /\ \A s \in S : Spoilt(s)' <=> Spoilt(s)
<1>1. \A s : T!OwnMode(s)' = T!OwnMode(s) /\ T!Chain(s)' = T!Chain(s) /\ (T!ForbiddenOnly(s)' = T!ForbiddenOnly(s))
  BY DeclStable
<1>2. QED
  BY <1>1 DEF Shut, Around, Spoilt

(* A frame says the same of them then, ... *)
LEMMA ModeKept ==
  ASSUME UNCHANGED decl, NEW f, FrameMode(f), NEW g, g.suite = f.suite, g.mode = f.mode, g.hook = f.hook,
         \A s \in Around(f.suite) : T!Clean(hooked'[s]["before"]) <=> T!Clean(hooked[s]["before"])
  PROVE  FrameMode(g)'
<1>1. PICK A : A = Around(f.suite)
  OBVIOUS
<1>2. /\ \A s : Shut(s)' <=> Shut(s)
      /\ \A s : Around(s)' = Around(s)
      /\ \A s \in A : Spoilt(s)' <=> Spoilt(s)
  BY <1>1, SameSuites
<1>3. Around(g.suite)' = A
  BY <1>1, <1>2
<1>4. /\ \A s : T!OwnMode(s)' = T!OwnMode(s) /\ T!Chain(s)' = T!Chain(s)
      /\ T!SkipAll(g)' = T!SkipAll(g) /\ T!SkipAll(g) = T!SkipAll(f)
  BY DeclStable, SameMode
<1>5. \A s : OuterShut(s, A)' <=> OuterShut(s, A)
  BY <1>2, <1>4 DEF OuterShut
<1>6. QED
  BY <1>1, <1>2, <1>3, <1>4, <1>5 DEF FrameMode

(* ... and so do all. *)
LEMMA ModesSame ==
  ASSUME Types, NestInv, ModesInv, UNCHANGED decl, NEW n \in Nat, n <= Len(stack), DOMAIN stack' = 1 .. n,
         \A i \in 1 .. n :
           /\ stack'[i].suite = stack[i].suite /\ stack'[i].mode = stack[i].mode
           /\ stack'[i].hook = stack[i].hook
           /\ stack'[i].step = "beforeAll" => stack[i].step = "beforeAll" /\ stack'[i].next = stack[i].next,
         \A s \in Suites : T!Clean(hooked'[s]["before"]) <=> T!Clean(hooked[s]["before"])
  PROVE  ModesInv'
<1>1. ASSUME NEW i \in 1 .. n
      PROVE  FrameMode(stack[i])' /\ (stack'[i].step = "beforeAll" => stack'[i].next = 1)
  <2>1. i \in 1 .. Len(stack) /\ i \in DOMAIN stack
    BY DEF Types
  <2>2. PICK f, g : f = stack[i] /\ g = stack'[i]
    OBVIOUS
  <2>3. FrameMode(f) /\ (f.step = "beforeAll" => f.next = 1)
    BY <2>1, <2>2 DEF ModesInv
  <2>4. Around(f.suite) \subseteq Suites
    BY <2>1, <2>2, AroundFrame
  <2>5. FrameMode(g)'
    BY <2>2, <2>3, <2>4, ModeKept
  <2>6. QED
    BY <2>2, <2>3, <2>5
<1>2. QED
  BY <1>1 DEF ModesInv

(* The kinds of calls. *)
LEMMA CallNames == "before" \in Calls /\ "after" \in Calls /\ "undo" \in Calls
BY DEF Calls, T!NoCalls

(* The calls of a suite stay clean unless one throws. *)
LEMMA CleanAfter ==
  ASSUME Types, NEW s \in Suites, NEW w \in Calls, NEW o \in {"ok", "throw"}, T!Hooked(s, w, o)
  PROVE  \A r \in Suites, v \in Calls :
           T!Clean(hooked'[r][v]) <=> T!Clean(hooked[r][v]) /\ (r = s /\ v = w => o = "ok")
<1>1. PICK c \in Seq({"ok", "throw"}) : c = hooked[s][w]
  BY DEF Types
<1>2. hooked' = [hooked EXCEPT ![s][w] = Append(c, o)]
  BY <1>1 DEF T!Hooked
<1>3. hooked \in [Suites -> [Calls -> Seq({"ok", "throw"})]]
  BY DEF Types
<1>4. T!Clean(Append(c, o)) <=> T!Clean(c) /\ o = "ok"
  <2>1. <<>> \in Seq({"ok", "throw"})
    OBVIOUS
  <2>2. QED
    BY <2>1, CallAdded
<1>5. ASSUME NEW r \in Suites, NEW v \in Calls
      PROVE  hooked'[r][v] = IF r = s /\ v = w THEN Append(c, o) ELSE hooked[r][v]
  BY <1>2, <1>3
<1>6. QED
  BY <1>1, <1>4, <1>5

(* The last frame changed, but not what it says of the suites around. *)
LEMMA ModesTop ==
  ASSUME Types, NestInv, ModesInv, UNCHANGED decl, stack # <<>>, NEW g \in Frames, stack' = T!WithTop(g),
         g.suite = T!Top.suite, g.mode = T!Top.mode, g.hook = T!Top.hook,
         g.step = "beforeAll" => T!Top.step = "beforeAll" /\ g.next = T!Top.next,
         \A s \in Suites : T!Clean(hooked'[s]["before"]) <=> T!Clean(hooked[s]["before"])
  PROVE  ModesInv'
<1>1. PICK n \in Nat \ {0} : n = Len(stack)
  BY StackTop
<1>2. /\ stack' \in Seq(Frames) /\ Len(stack') = n /\ stack'[n] = g /\ T!Top = stack[n]
      /\ \A i \in 1 .. n - 1 : stack'[i] = stack[i]
  BY <1>1, StackTop
<1>3. DOMAIN stack' = 1 .. n /\ \A i \in 1 .. n : i \in 1 .. n - 1 \/ i = n
  BY <1>1, <1>2
<1>4. \A i \in 1 .. n :
        /\ stack'[i].suite = stack[i].suite /\ stack'[i].mode = stack[i].mode
        /\ stack'[i].hook = stack[i].hook
        /\ stack'[i].step = "beforeAll" => stack[i].step = "beforeAll" /\ stack'[i].next = stack[i].next
  BY <1>2, <1>3
<1>5. n \in Nat /\ n <= Len(stack)
  BY <1>1
<1>6. QED
  BY <1>3, <1>4, <1>5, ModesSame

(* A beforeAll hook that throws spoils its suite, as its frame then says. *)
LEMMA ModesBeforeAll ==
  ASSUME Types, WalkInv, ModesInv, NEW o, T!BeforeAll(o)
  PROVE  ModesInv'
<1>1. stack # <<>> /\ T!Top.step = "beforeAll" /\ o \in {"ok", "throw"} /\ UNCHANGED decl
  BY DEF T!BeforeAll, WalkInv, NestInv
<1>2. PICK f \in Frames, s \in Suites : f = T!Top /\ s = f.suite
  BY <1>1, TopFacts
<1>3. FrameHooks(f) /\ ~T!Quiet(f) /\ ~f.hook /\ T!SkipAll(f) = "none"
  <2>1. FrameHooks(f)
    BY <1>1, <1>2, TopFacts
  <2>2. ~T!Quiet(f)
    BY <1>1, <1>2, <2>1 DEF FrameHooks
  <2>3. QED
    BY <1>1, <1>2, <2>1, <2>2 DEF FrameHooks, T!Quiet
<1>4. \A r \in Suites : T!Clean(hooked'[r]["before"]) <=> T!Clean(hooked[r]["before"]) /\ (r = s => o = "ok")
  BY <1>1, <1>2, CallNames, CleanAfter DEF T!BeforeAll
<1>5. f.calls \in Nat /\ f.calls + 1 \in Nat /\ f.step = "beforeAll" /\ f.hook \in BOOLEAN /\ f.failed \in BOOLEAN
  BY <1>1, <1>2 DEF Frames
<1>6. PICK last \in BOOLEAN : last <=> o = "throw" \/ f.calls + 1 = NHooks
  OBVIOUS
<1>7. PICK k \in Nat, p \in {"tasks", "beforeAll"}, h \in BOOLEAN, b \in BOOLEAN :
        /\ k = (IF last THEN 0 ELSE f.calls + 1) /\ p = (IF last THEN "tasks" ELSE f.step)
        /\ h = (f.hook \/ o = "throw") /\ b = (f.failed \/ o = "throw")
  BY <1>5
<1>8. PICK g \in Frames : g = [f EXCEPT !.calls = k, !.step = p, !.hook = h, !.failed = b]
  <2>1. [f EXCEPT !.calls = k, !.step = p, !.hook = h, !.failed = b] \in Frames
    BY <1>2, <1>7 DEF Frames
  <2>2. QED
    BY <2>1
<1>9. stack' = T!WithTop(g)
  BY <1>2, <1>6, <1>7, <1>8 DEF T!BeforeAll
<1>10. /\ g.suite = s /\ g.mode = f.mode /\ g.hook = h /\ g.next = f.next
       /\ g.step = p
  BY <1>2, <1>8 DEF Frames
<1>11. CASE o = "ok"
  <2>1. \A r \in Suites : T!Clean(hooked'[r]["before"]) <=> T!Clean(hooked[r]["before"])
    BY <1>4, <1>11
  <2>2. h = f.hook
    BY <1>5, <1>7, <1>11
  <2>3. QED
    BY <1>1, <1>2, <1>9, <1>10, <2>1, <2>2, ModesTop DEF WalkInv
<1>12. CASE o = "throw"
  <2>1. PICK n \in Nat \ {0} : n = Len(stack) /\ f = stack[n]
    BY <1>1, <1>2, StackTop
  <2>2. /\ stack' \in Seq(Frames) /\ Len(stack') = n /\ stack'[n] = g
        /\ \A i \in 1 .. n - 1 : stack'[i] = stack[i]
    BY <1>1, <1>9, <2>1, StackTop
  <2>3. g.hook /\ g.step = "tasks"
    BY <1>6, <1>7, <1>10, <1>12
  <2>4. FrameMode(g)'
    <3>1. Spoilt(s)'
      <4>1. ~T!Clean(hooked'[s]["before"])
        BY <1>4, <1>12
      <4>2. QED
        BY <4>1 DEF Spoilt
    <3>2. s \in Around(s)'
      BY DEF Around
    <3>3. T!SkipAll(g)' = "none"
      <4>1. T!SkipAll(g) = T!SkipAll(f)
        BY <1>2, <1>10, SameMode
      <4>2. T!SkipAll(g)' = T!SkipAll(g)
        BY <1>1, DeclStable
      <4>3. QED
        BY <1>3, <4>1, <4>2
    <3>4. QED
      BY <1>10, <2>3, <3>1, <3>2, <3>3 DEF FrameMode
  <2>5. ASSUME NEW i \in 1 .. n - 1
        PROVE  FrameMode(stack[i])' /\ (stack'[i].step = "beforeAll" => stack'[i].next = 1)
    <3>1. i \in DOMAIN stack /\ i \in 1 .. Len(stack)
      BY <2>1 DEF Types
    <3>2. PICK c : c = stack[i] /\ c = stack'[i]
      BY <2>2
    <3>3. FrameMode(c) /\ (c.step = "beforeAll" => c.next = 1)
      BY <3>1, <3>2 DEF ModesInv
    <3>4. Around(c.suite) \subseteq Suites /\ s \notin Around(c.suite)
      <4>1. Around(c.suite) = {stack[j].suite : j \in 1 .. i} /\ Around(c.suite) \subseteq Suites
        BY <3>1, <3>2, AroundFrame DEF WalkInv
      <4>2. \A j \in 1 .. i : j \in 1 .. n - 1 /\ stack[j].suite # s
        <5>1. \A j \in 1 .. i : j \in 1 .. n - 1
          BY <2>1
        <5>2. QED
          BY <1>1, <1>2, <2>1, <5>1, TopFacts
      <4>3. QED
        BY <4>1, <4>2
    <3>5. \A r \in Around(c.suite) : T!Clean(hooked'[r]["before"]) <=> T!Clean(hooked[r]["before"])
      BY <1>4, <3>4
    <3>6. FrameMode(c)'
      BY <1>1, <3>3, <3>5, ModeKept
    <3>7. QED
      BY <3>2, <3>3, <3>6
  <2>6. DOMAIN stack' = 1 .. n /\ \A i \in 1 .. n : i \in 1 .. n - 1 \/ i = n
    BY <2>1, <2>2
  <2>7. FrameMode(stack[n])'
    BY <2>2, <2>4
  <2>8. QED
    BY <2>2, <2>3, <2>5, <2>6, <2>7 DEF ModesInv
<1>13. QED
  BY <1>1, <1>11, <1>12

(* An afterAll hook spoils none. *)
LEMMA ModesAfterAll ==
  ASSUME Types, WalkInv, ModesInv, NEW o, T!AfterAll(o)
  PROVE  ModesInv'
<1>1. stack # <<>> /\ T!Top.step = "tasks" /\ o \in {"ok", "throw"} /\ UNCHANGED decl
  BY DEF T!AfterAll, T!TasksDone, T!AtTasks, WalkInv, NestInv
<1>2. PICK f \in Frames, s \in Suites : f = T!Top /\ s = f.suite
  BY <1>1, TopFacts
<1>3. PICK w \in {"after", "undo"} : T!Hooked(s, w, o)
  BY <1>2 DEF T!AfterAll
<1>4. w \in Calls /\ w # "before" /\ "before" \in Calls
  BY CallNames
<1>5. \A r \in Suites : T!Clean(hooked'[r]["before"]) <=> T!Clean(hooked[r]["before"])
  BY <1>1, <1>3, <1>4, CleanAfter
<1>6. NHooks \in Nat /\ f.calls \in Nat /\ T!CallsAfter(f) \in Nat /\ f.calls + 1 \in Nat /\ f.failed \in BOOLEAN
  BY <1>2, TestRunFacts DEF Frames, T!CallsAfter
<1>7. PICK k \in Nat, b \in BOOLEAN :
        k = (IF o = "ok" THEN f.calls + 1 ELSE T!CallsAfter(f)) /\ b = (f.failed \/ o = "throw")
  BY <1>6
<1>8. PICK g \in Frames : g = [f EXCEPT !.calls = k, !.failed = b]
  <2>1. [f EXCEPT !.calls = k, !.failed = b] \in Frames
    BY <1>2, <1>7 DEF Frames
  <2>2. QED
    BY <2>1
<1>9. stack' = T!WithTop(g)
  BY <1>2, <1>7, <1>8 DEF T!AfterAll
<1>10. g.suite = f.suite /\ g.mode = f.mode /\ g.hook = f.hook /\ g.step = "tasks"
  BY <1>1, <1>2, <1>8 DEF Frames
<1>11. QED
  BY <1>1, <1>2, <1>5, <1>9, <1>10, ModesTop DEF WalkInv

(* A task is done with. *)
LEMMA ModesAdvanced ==
  ASSUME Types, WalkInv, ModesInv, NEW x, Here(x), UNCHANGED <<decl, hooked>>,
         \/ stack' = T!WithTop(T!Advanced)
         \/ \E b \in BOOLEAN : stack' = T!WithTop([T!Advanced EXCEPT !.failed = b])
  PROVE  ModesInv'
<1>1. PICK a \in Frames : a = T!Advanced
  BY AtTask
<1>2. stack # <<>> /\ a.suite = T!Top.suite /\ a.mode = T!Top.mode /\ a.hook = T!Top.hook /\ a.step = "tasks"
  BY <1>1, AtTask
<1>3. PICK b \in BOOLEAN : stack' = T!WithTop(a) \/ stack' = T!WithTop([a EXCEPT !.failed = b])
  BY <1>1
<1>4. PICK g \in Frames : stack' = T!WithTop(g) /\ (g = a \/ g = [a EXCEPT !.failed = b])
  <2>1. [a EXCEPT !.failed = b] \in Frames
    BY <1>1, <1>3 DEF Frames
  <2>2. QED
    BY <1>1, <1>3, <2>1
<1>5. g.suite = a.suite /\ g.mode = a.mode /\ g.hook = a.hook /\ g.step = a.step
  BY <1>1, <1>4 DEF Frames
<1>6. QED
  BY <1>2, <1>4, <1>5, ModesTop DEF WalkInv

(* Nothing happens to the stack. *)
LEMMA ModesStill ==
  ASSUME Types, WalkInv, ModesInv, UNCHANGED <<decl, stack, hooked>>
  PROVE  ModesInv'
<1>1. PICK n \in Nat : n = Len(stack) /\ DOMAIN stack' = 1 .. n /\ n <= Len(stack)
  BY DEF Types
<1>2. QED
  BY <1>1, ModesSame DEF WalkInv

(* What a suite leaves the stack with. *)
LEMMA StackLeft ==
  ASSUME Types, stack # <<>>, T!Leave, NEW n \in Nat, n > 1, n = Len(stack)
  PROVE  /\ Len(stack') = n - 1 /\ DOMAIN stack' = 1 .. n - 1
         /\ \A i \in 1 .. n - 1 :
              /\ stack'[i].suite = stack[i].suite /\ stack'[i].mode = stack[i].mode
              /\ stack'[i].hook = stack[i].hook /\ stack'[i].step = stack[i].step
              /\ stack'[i].next = stack[i].next
              /\ stack'[i].failed <=> stack[i].failed \/ (i = n - 1 /\ T!Top.failed)
<1>1. n - 1 \in 1 .. n /\ n - 2 \in Nat /\ n # 1
  OBVIOUS
<1>2. PICK outer \in Frames, inner \in Frames : outer = stack[n - 1] /\ inner = T!Top
  BY <1>1, StackTop
<1>3. PICK b \in BOOLEAN : b = (outer.failed \/ inner.failed)
  OBVIOUS
<1>4. PICK g \in Frames : g = [outer EXCEPT !.failed = b]
  <2>1. [outer EXCEPT !.failed = b] \in Frames
    BY <1>2, <1>3 DEF Frames
  <2>2. QED
    BY <2>1
<1>5. stack' = Append(SubSeq(stack, 1, n - 2), g)
  BY <1>1, <1>2, <1>3, <1>4 DEF T!Leave
<1>6. PICK k \in Nat : k = n - 2 /\ k <= Len(stack) /\ k + 1 = n - 1
  BY <1>1
<1>7. PICK z : z = SubSeq(stack, 1, k)
  OBVIOUS
<1>8. z \in Seq(Frames) /\ Len(z) = k /\ \A i \in 1 .. k : z[i] = stack[i]
  <2>1. stack \in Seq(Frames)
    BY DEF Types
  <2>2. z \in Seq(Frames)
    BY <1>6, <1>7, <2>1
  <2>3. Len(z) = k
    BY <1>6, <1>7, <2>1
  <2>4. \A i \in 1 .. k : z[i] = stack[i]
    BY <1>6, <1>7, <2>1
  <2>5. QED
    BY <2>2, <2>3, <2>4
<1>9. /\ Len(stack') = k + 1 /\ DOMAIN stack' = 1 .. k + 1 /\ stack'[k + 1] = g
      /\ \A i \in 1 .. k : stack'[i] = stack[i]
  <2>1. stack' = Append(z, g)
    BY <1>5, <1>6, <1>7
  <2>2. QED
    BY <1>4, <1>6, <1>8, <2>1, AppendIs
<1>10. /\ g.suite = outer.suite /\ g.mode = outer.mode /\ g.hook = outer.hook /\ g.step = outer.step
       /\ g.next = outer.next /\ g.failed = b
  BY <1>2, <1>4 DEF Frames
<1>11. \A i \in 1 .. n - 1 : (i \in 1 .. k /\ i # n - 1) \/ i = k + 1
  BY <1>6
<1>12. QED
  BY <1>2, <1>3, <1>6, <1>9, <1>10, <1>11

(* A suite is left. *)
LEMMA ModesLeft ==
  ASSUME Types, WalkInv, ModesInv, T!Leave
  PROVE  ModesInv'
<1>1. stack # <<>> /\ Types /\ UNCHANGED <<decl, hooked>>
  BY DEF T!Leave, T!TasksDone, T!AtTasks, WalkInv, NestInv
<1>2. PICK n \in Nat \ {0} : n = Len(stack)
  BY <1>1, StackTop
<1>3. CASE n = 1
  <2>1. stack' = <<>>
    BY <1>2, <1>3 DEF T!Leave
  <2>2. DOMAIN stack' = {}
    BY <2>1
  <2>3. QED
    BY <2>2 DEF ModesInv
<1>4. CASE n # 1
  <2>1. n > 1 /\ n - 1 \in Nat /\ n - 1 <= Len(stack)
    BY <1>2, <1>4
  <2>2. /\ DOMAIN stack' = 1 .. n - 1
        /\ \A i \in 1 .. n - 1 :
             /\ stack'[i].suite = stack[i].suite /\ stack'[i].mode = stack[i].mode
             /\ stack'[i].hook = stack[i].hook /\ stack'[i].step = stack[i].step
             /\ stack'[i].next = stack[i].next
    BY <1>1, <1>2, <2>1, StackLeft
  <2>3. PICK m \in Nat : m = n - 1
    BY <2>1
  <2>4. QED
    BY <1>1, <2>1, <2>2, <2>3, ModesSame DEF WalkInv
<1>5. QED
  BY <1>3, <1>4

(* The run begins. *)
LEMMA ModesBegun ==
  ASSUME Types, WalkInv, ModesInv, T!Begin
  PROVE  ModesInv'
<1>1. UNCHANGED <<decl, hooked>> /\ progress = "start"
  BY DEF T!Begin
<1>2. CASE UNCHANGED stack
  BY <1>1, <1>2, ModesStill
<1>3. CASE stack' = <<T!Frame(Root, "none")>>
  <2>1. Root \in Suites /\ "none" \in {"none", "skip", "todo", "hook"} /\ decl \in Decls
    BY TestRunFacts DEF Types
  <2>2. PICK f : f = T!Frame(Root, "none")
    OBVIOUS
  <2>3. f.suite = Root /\ f.mode = "none" /\ f.next = 1
    BY <2>1, <2>2, FrameFacts
  <2>4. DOMAIN stack' = {1} /\ stack'[1] = f
    BY <1>3, <2>2
  <2>5. T!OwnMode(Root) = "none" /\ ~T!ForbiddenOnly(Root)
    BY DEF T!OwnMode, T!Mode, T!ForbiddenOnly
  <2>6. ~f.hook /\ T!SkipAll(f) = "none"
    <3>1. T!SkipAll(f) = "none"
      BY <2>3, <2>5 DEF T!SkipAll
    <3>2. ~f.hook
      BY <2>2, <2>5 DEF T!Frame
    <3>3. QED
      BY <3>1, <3>2
  <2>7. hooked[Root] = T!NoCalls
    BY <1>1, <2>1, NothingYet DEF WalkInv
  <2>8. T!Clean(hooked[Root]["before"])
    <3>1. hooked[Root]["before"] = <<>>
      BY <2>7 DEF T!NoCalls
    <3>2. QED
      BY <3>1 DEF T!Clean, T!Range
  <2>9. Around(Root) = {Root}
    <3>1. T!Chain(Root) = <<>>
      BY <2>1, ChainStep
    <3>2. T!Range(<<>>) = {}
      BY DEF T!Range
    <3>3. QED
      BY <3>1, <3>2 DEF Around
  <2>10. FrameMode(f)
    BY <2>3, <2>5, <2>6, <2>8, <2>9 DEF FrameMode, Spoilt, Shut
  <2>11. FrameMode(f)'
    BY <1>1, <2>10, ModeKept
  <2>12. FrameMode(stack[1])'
    BY <2>4, <2>11
  <2>13. QED
    BY <2>3, <2>4, <2>12 DEF ModesInv
<1>4. QED
  BY <1>2, <1>3 DEF T!Begin

(* A suite is entered under what the frame above says. *)
LEMMA ModesPushed ==
  ASSUME Types, WalkInv, WalkInv', ModesInv, NEW s \in Suites \ {Root}, Here(s),
         stack' = Append(T!WithTop(T!Advanced), T!Frame(s, IF T!Top.hook THEN "hook" ELSE T!SkipAll(T!Top))),
         UNCHANGED <<decl, hooked>>
  PROVE  ModesInv'
<1>1. /\ stack # <<>> /\ T!Top.step = "tasks"
      /\ T!Top.next <= Len(T!tasks[T!Top.suite]) /\ s = T!Task
      /\ T!Top \in Frames /\ T!Top.suite \in Suites
      /\ T!Advanced \in Frames /\ T!Advanced.suite = T!Top.suite /\ T!Advanced.mode = T!Top.mode
      /\ T!Advanced.step = T!Top.step /\ T!Advanced.hook = T!Top.hook
  BY AtTask
<1>2. PICK t \in Frames : t = T!Top
  BY <1>1
<1>3. PICK m \in {"none", "skip", "todo", "hook"} : m = IF t.hook THEN "hook" ELSE T!SkipAll(t)
  BY <1>2 DEF T!SkipAll, T!OwnMode, Frames
<1>4. decl \in Decls
  BY DEF Types
<1>5. PICK f \in Frames : f = T!Frame(s, m) /\ f.suite = s /\ f.mode = m /\ f.next = 1
  BY <1>3, <1>4, FrameFacts
<1>6. PICK g \in Frames : g = T!Advanced
  BY <1>1
<1>7. PICK n \in Nat \ {0} : n = Len(stack) /\ t = stack[n]
  BY <1>1, <1>2, StackTop
<1>8. stack' = Append(T!WithTop(g), f)
  BY <1>2, <1>3, <1>5, <1>6
<1>9. /\ DOMAIN stack' = 1 .. n + 1 /\ \A i \in 1 .. n - 1 : stack'[i] = stack[i]
      /\ stack'[n] = g /\ stack'[n + 1] = f
  <2>1. LET pushed == Append(T!WithTop(g), f)
        IN /\ pushed \in Seq(Frames) /\ Len(pushed) = Len(stack) + 1 /\ pushed # <<>>
           /\ DOMAIN pushed = 1 .. Len(stack) + 1
           /\ \A i \in 1 .. Len(stack) - 1 : pushed[i] = stack[i]
           /\ pushed[Len(stack)] = g /\ pushed[Len(stack) + 1] = f
    BY <1>1, StackPushed
  <2>2. QED
    BY <1>7, <1>8, <2>1
<1>10. T!Collected(s) /\ T!ParentOf(s) = t.suite /\ hooked[s] = T!NoCalls /\ s # Root /\ s \in T!Tasks
  <2>1. T!Collected(s) /\ T!ParentOf(s) = T!Top.suite /\ s # Root /\ s \in T!Tasks /\ ~Past(s) /\ ~OnStack(s)
    BY <1>1, NextTaskFacts DEF WalkInv
  <2>2. QED
    BY <1>2, <2>1 DEF Past, WalkInv, VisitInv, Unentered
<1>11. T!Range(T!Chain(s)) = Around(t.suite)
  <2>1. PICK c : c = T!Chain(t.suite)
    OBVIOUS
  <2>2. c \in Seq(Suites)
    <3>1. <<>> \in Seq(Suites)
      OBVIOUS
    <3>2. t.suite = Root \/ T!Collected(t.suite)
      BY <1>4, <1>10, TreeFacts
    <3>3. QED
      BY <1>4, <2>1, <3>1, <3>2, ChainStep
  <2>3. T!Chain(s) = Append(c, t.suite)
    BY <1>4, <1>10, <2>1, ChainStep
  <2>4. t.suite \in Suites
    BY <1>1, <1>2
  <2>5. T!Range(Append(c, t.suite)) = T!Range(c) \union {t.suite}
    BY <2>2, <2>4, RangeAppend
  <2>6. QED
    BY <2>1, <2>3, <2>5 DEF Around
<1>12. FrameMode(t)
  <2>1. n \in DOMAIN stack
    BY <1>7 DEF Types
  <2>2. QED
    BY <1>7, <2>1 DEF ModesInv
<1>13. T!Clean(hooked[s]["before"])
  <2>1. hooked[s]["before"] = <<>>
    BY <1>10 DEF T!NoCalls
  <2>2. QED
    BY <2>1 DEF T!Clean, T!Range
<1>14. T!ForbiddenOnly(s) => T!OwnMode(s) = "none" /\ \A r \in Around(t.suite) : ~Shut(r)
  BY <1>11 DEF T!ForbiddenOnly, T!OwnMode, Shut
<1>15. f.hook <=> m = "hook" \/ (T!SkipAll(f) = "none" /\ T!ForbiddenOnly(s))
  <2>1. PICK e : e = [suite |-> s, mode |-> m, next |-> 1, step |-> "tasks", calls |-> 0,
                      hook |-> m = "hook", failed |-> FALSE]
    OBVIOUS
  <2>2. e.suite = f.suite /\ e.mode = f.mode /\ (e.hook <=> m = "hook")
    BY <1>5, <2>1
  <2>3. T!SkipAll(e) = T!SkipAll(f)
    BY <2>2, SameMode
  <2>4. PICK b \in BOOLEAN : b = (T!SkipAll(e) = "none" /\ T!ForbiddenOnly(s))
    OBVIOUS
  <2>5. f = [e EXCEPT !.hook = @ \/ b, !.failed = b, !.step = IF T!Quiet(e) THEN "tasks" ELSE "beforeAll"]
    BY <1>5, <2>1, <2>4 DEF T!Frame
  <2>6. f.hook <=> e.hook \/ b
    BY <2>1, <2>5
  <2>7. QED
    BY <2>2, <2>3, <2>4, <2>6
<1>16. T!SkipAll(f) = IF m # "none" THEN m ELSE T!OwnMode(s)
  BY <1>5 DEF T!SkipAll
<1>17. FrameMode(f)
  <2>1. Around(s) = Around(t.suite) \union {s}
    BY <1>11 DEF Around
  <2>2. CASE \E r \in Around(t.suite) : Spoilt(r)
    <3>1. t.hook
      BY <1>12, <2>2 DEF FrameMode
    <3>2. f.hook /\ T!SkipAll(f) = "hook"
      BY <1>3, <1>15, <1>16, <3>1
    <3>3. QED
      BY <1>5, <2>1, <2>2, <3>2 DEF FrameMode
  <2>3. CASE ~\E r \in Around(t.suite) : Spoilt(r)
    <3>1. ~t.hook /\ m = T!SkipAll(t)
      BY <1>3, <1>12, <2>3 DEF FrameMode
    <3>2. Spoilt(s) <=> T!ForbiddenOnly(s)
      BY <1>13 DEF Spoilt
    <3>3. CASE \E r \in Around(t.suite) : Shut(r)
      <4>1. PICK r \in Around(t.suite) : OuterShut(r, Around(t.suite)) /\ m = T!OwnMode(r)
        BY <1>12, <2>3, <3>1, <3>3 DEF FrameMode
      <4>2. m \in {"skip", "todo"}
        BY <4>1 DEF OuterShut, Shut, T!OwnMode
      <4>3. ~T!ForbiddenOnly(s) /\ ~Spoilt(s) /\ ~f.hook /\ T!SkipAll(f) = m
        BY <1>14, <1>15, <1>16, <3>2, <3>3, <4>2
      <4>4. OuterShut(r, Around(s)) /\ r \in Around(s) /\ Shut(r)
        BY <2>1, <4>1 DEF OuterShut
      <4>5. ~\E q \in Around(s) : Spoilt(q)
        BY <2>1, <2>3, <4>3
      <4>6. QED
        BY <1>5, <4>1, <4>3, <4>4, <4>5 DEF FrameMode
    <3>4. CASE ~\E r \in Around(t.suite) : Shut(r)
      <4>1. m = "none"
        BY <1>12, <2>3, <3>1, <3>4 DEF FrameMode
      <4>2. T!SkipAll(f) = T!OwnMode(s)
        BY <1>16, <4>1
      <4>3. CASE T!ForbiddenOnly(s)
        <5>1. f.hook /\ T!SkipAll(f) = "none" /\ Spoilt(s) /\ s \in Around(s)
          BY <1>14, <1>15, <2>1, <3>2, <4>2, <4>3
        <5>2. QED
          BY <1>5, <5>1 DEF FrameMode
      <4>4. CASE ~T!ForbiddenOnly(s)
        <5>1. ~f.hook /\ ~\E q \in Around(s) : Spoilt(q)
          BY <1>15, <2>1, <2>3, <3>2, <4>1, <4>4
        <5>2. CASE Shut(s)
          <6>1. OuterShut(s, Around(s)) /\ s \in Around(s)
            BY <1>11, <2>1, <3>4, <5>2 DEF OuterShut
          <6>2. QED
            BY <1>5, <4>2, <5>1, <5>2, <6>1 DEF FrameMode
        <5>3. CASE ~Shut(s)
          <6>1. T!SkipAll(f) = "none" /\ ~\E q \in Around(s) : Shut(q)
            BY <2>1, <3>4, <4>2, <5>3 DEF Shut
          <6>2. QED
            BY <1>5, <5>1, <6>1 DEF FrameMode
        <5>4. QED
          BY <5>2, <5>3
      <4>5. QED
        BY <4>3, <4>4
    <3>5. QED
      BY <3>3, <3>4
  <2>4. QED
    BY <2>2, <2>3
<1>18. \A h : FrameMode(h) => FrameMode(h)'
  BY ModeKept
<1>19. ASSUME NEW i \in 1 .. n
       PROVE  FrameMode(stack[i])' /\ (stack'[i].step = "beforeAll" => stack'[i].next = 1)
  <2>1. i \in DOMAIN stack
    BY <1>7 DEF Types
  <2>2. CASE i = n
    <3>1. FrameMode(g)'
      BY <1>1, <1>2, <1>6, <1>12, ModeKept
    <3>2. FrameMode(stack[i])'
      BY <1>9, <2>2, <3>1
    <3>3. QED
      BY <1>1, <1>6, <1>9, <2>2, <3>2
  <2>3. CASE i # n
    <3>1. PICK c : c = stack[i] /\ c = stack'[i]
      BY <1>7, <1>9, <2>3
    <3>2. FrameMode(c) /\ (c.step = "beforeAll" => c.next = 1)
      BY <2>1, <3>1 DEF ModesInv
    <3>3. FrameMode(c)'
      BY <1>18, <3>2
    <3>4. QED
      BY <3>1, <3>2, <3>3
  <2>4. QED
    BY <2>2, <2>3
<1>20. FrameMode(stack[n + 1])'
  BY <1>9, <1>17, <1>18
<1>21. \A i \in 1 .. n + 1 : i \in 1 .. n \/ i = n + 1
  BY <1>7
<1>22. QED
  BY <1>5, <1>9, <1>19, <1>20, <1>21 DEF ModesInv

-----------------------------------------------------------------------------
(* What a test is told as                                                  *)

(* What a test is told as. *)
LEMMA MustBe ==
  ASSUME NEW t
  PROVE  T!MustBeTold(t) = ToldAs(t, attempts[t])
<1> DEFINE around == T!Range(T!Chain(t))
           shut == {s \in around : T!OwnMode(s) # "none"}
           outer == CHOOSE s \in shut : shut \intersect T!Range(T!Chain(s)) = {}
           broken(s) == ~T!Clean(hooked[s]["before"]) \/ T!ForbiddenOnly(s)
           came == attempts[t]
           ran == IF t \in decl.filtered THEN "skipped"
                  ELSE IF T!Mode(t) = "todo" THEN "todo"
                  ELSE IF T!Mode(t) = "skip" \/ T!NotOnly(t) THEN "skipped"
                  ELSE IF T!ForbiddenOnly(t) THEN "failed"
                  ELSE IF T!Last(came) = "skip" THEN "skipped"
                  ELSE IF T!Last(came) = (IF t \in decl.fails THEN "error" ELSE "clean")
                         THEN "passed" ELSE "failed"
           kept == IF T!Mode(t) = "only" THEN "pending"
                   ELSE IF T!OwnMode(outer) = "todo" \/ T!Mode(t) = "todo" THEN "todo" ELSE "skipped"
<1>1. T!MustBeTold(t) = CASE \E s \in around : broken(s) -> "skipped"
                        [] ~(\E s \in around : broken(s)) /\ shut # {} -> kept
                        [] OTHER -> ran
  BY DEF T!MustBeTold
<1>2. ToldAs(t, attempts[t]) = IF \E s \in around : broken(s) THEN "skipped"
                               ELSE IF shut # {} THEN kept ELSE ran
  <2>1. outer = OuterOf(around)
    BY DEF OuterOf
  <2>2. \A s : Spoilt(s) <=> broken(s)
    BY DEF Spoilt
  <2>3. (\E s \in around : Shut(s)) <=> shut # {}
    BY DEF Shut
  <2>4. QED
    BY <2>1, <2>2, <2>3 DEF ToldAs
<1> HIDE DEF kept, ran
<1>3. QED
  BY <1>1, <1>2

(* It stays while no beforeAll hook throws. *)
LEMMA ToldAsKept ==
  ASSUME UNCHANGED decl, NEW t, NEW came,
         \A s \in T!Range(T!Chain(t)) : T!Clean(hooked'[s]["before"]) <=> T!Clean(hooked[s]["before"])
  PROVE  ToldAs(t, came)' = ToldAs(t, came)
<1>1. PICK A : A = T!Range(T!Chain(t))
  OBVIOUS
<1>2. /\ \A s : Shut(s)' <=> Shut(s)
      /\ \A s \in A : Spoilt(s)' <=> Spoilt(s)
  BY <1>1, SameSuites
<1>3. \A x : /\ T!Mode(x)' = T!Mode(x) /\ T!OwnMode(x)' = T!OwnMode(x) /\ T!Chain(x)' = T!Chain(x)
             /\ T!NotOnly(x)' = T!NotOnly(x) /\ T!ForbiddenOnly(x)' = T!ForbiddenOnly(x)
  BY DeclStable
<1>4. OuterOf(A)' = OuterOf(A)
  BY DEF OuterOf, T!OwnMode, T!Mode, T!Chain, T!ParentOf, T!tasks, T!Collected, T!Children
<1>5. T!Range(T!Chain(t))' = A
  BY <1>1, <1>3
<1>6. PICK o : o = OuterOf(A)
  OBVIOUS
<1>7. T!OwnMode(OuterOf(A))' = T!OwnMode(OuterOf(A))
  BY <1>3, <1>4, <1>6
<1>8. QED
  BY <1>1, <1>2, <1>3, <1>5, <1>7 DEF ToldAs

(* Nothing is recorded below a suite of which no task is past. *)
LEMMA BelowAhead ==
  ASSUME Types, VisitInv, NEW s \in Suites, \A x \in T!Children(s) : ~Past(x) /\ ~OnStack(x)
  PROVE  \A t \in Tests : Recorded(t) => s \notin T!Range(T!Chain(t))
<1> DEFINE Y == {x \in T!Tasks : T!Collected(x) /\ s \in T!Range(T!Chain(x)) /\ (Past(x) \/ OnStack(x))}
<1>1. ASSUME NEW t \in Tests, Recorded(t), s \in T!Range(T!Chain(t)) PROVE FALSE
  <2>1. t \in Y
    <3>1. t \in T!Tasks /\ t \notin Suites
      BY TestRunFacts DEF T!Tasks
    <3>2. Past(t)
      BY <1>1, <3>1 DEF Past
    <3>3. QED
      BY <1>1, <3>1, <3>2 DEF VisitInv, WithinSuites
  <2>2. PICK y \in Y : T!ParentOf(y) \notin Y
    <3>1. decl \in Decls /\ Y \in SUBSET T!Tasks /\ Y # {} /\ \A y \in Y : T!Collected(y)
      BY <2>1 DEF Types
    <3> HIDE DEF Y
    <3>2. QED
      BY <3>1, Outermost
  <2>3. y \in T!Tasks /\ T!Collected(y) /\ s \in T!Range(T!Chain(y)) /\ (Past(y) \/ OnStack(y))
    BY <2>2
  <2>4. PICK p \in Suites : p = T!ParentOf(y)
    BY <2>3, TreeFacts DEF Types
  <2>5. y \in T!Children(p) /\ (p = Root \/ T!Collected(p))
    BY <2>3, <2>4, TreeFacts DEF Types
  <2>6. s = p \/ s \in T!Range(T!Chain(p))
    <3>1. PICK c : c = T!Chain(p)
      OBVIOUS
    <3>2. c \in Seq(Suites)
      <4>1. <<>> \in Seq(Suites)
        OBVIOUS
      <4>2. QED
        BY <2>5, <3>1, <4>1, ChainStep DEF Types
    <3>3. T!Chain(y) = Append(c, p)
      BY <2>3, <2>4, <3>1, ChainStep DEF Types
    <3>4. T!Range(Append(c, p)) = T!Range(c) \union {p}
      BY <3>2, RangeAppend
    <3>5. QED
      BY <2>3, <3>1, <3>3, <3>4
  <2>7. CASE s = p
    BY <2>3, <2>5, <2>7
  <2>8. CASE s \in T!Range(T!Chain(p))
    <3>1. p # Root
      <4>1. T!Chain(Root) = <<>>
        BY ChainStep DEF Types
      <4>2. T!Range(<<>>) = {}
        BY DEF T!Range
      <4>3. QED
        BY <2>8, <4>1, <4>2
    <3>2. p \in T!Tasks /\ T!Collected(p)
      BY <2>5, <3>1 DEF T!Tasks
    <3>3. Past(p) \/ OnStack(p)
      BY <2>3, <2>4 DEF VisitInv, WithinSuites, Past
    <3>4. QED
      BY <2>2, <2>4, <2>8, <3>2, <3>3
  <2>9. QED
    BY <2>6, <2>7, <2>8
<1>2. QED
  BY <1>1

(* The suites around the task that is next. *)
LEMMA AtPlace ==
  ASSUME Types, WalkInv, ModesInv, stack # <<>>, T!Top.next <= Len(T!tasks[T!Top.suite]),
         NEW t, t = T!Task, NEW A, A = T!Range(T!Chain(t)), NEW f, f = T!Top
  PROVE  /\ FrameMode(f) /\ A = Around(f.suite)
         /\ \A r \in A : T!Range(T!Chain(r)) \subseteq A
         /\ \A q, r \in A : OuterShut(q, A) /\ OuterShut(r, A) => q = r
<1>0. PICK n \in Nat \ {0} : n = Len(stack)
  BY StackTop
<1>1. f = stack[n] /\ n \in DOMAIN stack /\ n = Len(stack)
  <2>1. f = stack[n] /\ DOMAIN stack = 1 .. n
    BY <1>0, StackTop
  <2>2. n \in 1 .. n
    BY <1>0
  <2>3. QED
    BY <1>0, <2>1, <2>2
<1>2. FrameMode(f)
  BY <1>1 DEF ModesInv
<1>3. T!Collected(t) /\ T!ParentOf(t) = f.suite /\ f.suite \in Suites /\ decl \in Decls
  BY NextTaskFacts, TopFacts DEF WalkInv, Types
<1>4. A = Around(f.suite)
  <2>1. PICK c : c = T!Chain(f.suite)
    OBVIOUS
  <2>2. c \in Seq(Suites)
    <3>1. <<>> \in Seq(Suites)
      OBVIOUS
    <3>2. f.suite = Root \/ T!Collected(f.suite)
      BY <1>3, TreeFacts
    <3>3. QED
      BY <1>3, <2>1, <3>1, <3>2, ChainStep
  <2>3. T!Chain(t) = Append(c, f.suite)
    BY <1>3, <2>1, ChainStep
  <2>4. T!Range(Append(c, f.suite)) = T!Range(c) \union {f.suite}
    BY <1>3, <2>2, RangeAppend
  <2>5. QED
    BY <2>1, <2>3, <2>4 DEF Around
<1>5. /\ A = {stack[j].suite : j \in 1 .. n}
      /\ \A j \in 1 .. n : T!Range(T!Chain(stack[j].suite)) = {stack[k].suite : k \in 1 .. j - 1}
  <2>1. n \in 1 .. Len(stack)
    BY <1>0, <1>1
  <2>2. QED
    BY <1>0, <1>1, <1>4, <2>1, AroundFrame DEF WalkInv
<1>6. ASSUME NEW r \in A PROVE T!Range(T!Chain(r)) \subseteq A
  <2>1. PICK j \in 1 .. n : r = stack[j].suite
    BY <1>5
  <2>2. T!Range(T!Chain(r)) = {stack[k].suite : k \in 1 .. j - 1}
    BY <1>5, <2>1
  <2>3. \A k \in 1 .. j - 1 : k \in 1 .. n
    BY <1>0, <2>1
  <2>4. \A k \in 1 .. j - 1 : stack[k].suite \in A
    BY <1>5, <2>3
  <2>5. QED
    BY <2>2, <2>4
<1>7. ASSUME NEW q \in A, NEW r \in A, OuterShut(q, A), OuterShut(r, A) PROVE q = r
  <2>1. PICK i \in 1 .. n, j \in 1 .. n : q = stack[i].suite /\ r = stack[j].suite
    BY <1>5
  <2>2. ~(i < j)
    <3>1. SUFFICES ASSUME i < j PROVE FALSE
      OBVIOUS
    <3>2. i \in 1 .. j - 1
      BY <1>0, <2>1, <3>1
    <3>3. q \in T!Range(T!Chain(r))
      BY <1>5, <2>1, <3>2
    <3>4. QED
      BY <1>7, <3>3 DEF OuterShut
  <2>3. ~(j < i)
    <3>1. SUFFICES ASSUME j < i PROVE FALSE
      OBVIOUS
    <3>2. j \in 1 .. i - 1
      BY <1>0, <2>1, <3>1
    <3>3. r \in T!Range(T!Chain(q))
      BY <1>5, <2>1, <3>2
    <3>4. QED
      BY <1>7, <3>3 DEF OuterShut
  <2>4. i = j
    BY <1>0, <2>1, <2>2, <2>3
  <2>5. QED
    BY <2>1, <2>4
<1>8. QED
  BY <1>2, <1>4, <1>6, <1>7

(* What the guards of runSuite make the next test is what it must be told  *)
(* as.                                                                     *)
LEMMA ToldNext ==
  ASSUME Types, WalkInv, ModesInv, stack # <<>>, T!Top.next <= Len(T!tasks[T!Top.suite]),
         NEW t \in Tests, t = T!Task, NEW came
  PROVE  /\ T!Pending(t) => ToldAs(t, came) = "pending"
         /\ ~T!Pending(t) /\ T!LeftOut(t) => ToldAs(t, came) = IF T!Todo(t) THEN "todo" ELSE "skipped"
         /\ ~T!Pending(t) /\ ~T!LeftOut(t) /\ T!ForbiddenOnly(t) => ToldAs(t, came) = "failed"
         /\ ~T!Pending(t) /\ ~T!LeftOut(t) /\ ~T!ForbiddenOnly(t) =>
              ToldAs(t, came) =
                IF T!Last(came) = "skip" THEN "skipped"
                ELSE IF T!Last(came) = (IF t \in decl.fails THEN "error" ELSE "clean")
                       THEN "passed" ELSE "failed"
<1>1. PICK A : A = T!Range(T!Chain(t))
  OBVIOUS
<1>2. PICK f : f = T!Top
  OBVIOUS
<1>3. /\ FrameMode(f) /\ A = Around(f.suite)
      /\ \A r \in A : T!Range(T!Chain(r)) \subseteq A
      /\ \A q, r \in A : OuterShut(q, A) /\ OuterShut(r, A) => q = r
  BY <1>1, <1>2, AtPlace
<1>4. PICK m : m = T!SkipAll(f)
  OBVIOUS
<1>5. PICK last : last = IF T!Last(came) = "skip" THEN "skipped"
                         ELSE IF T!Last(came) = (IF t \in decl.fails THEN "error" ELSE "clean")
                                THEN "passed" ELSE "failed"
  OBVIOUS
<1>6. PICK told0 : told0 = ToldAs(t, came)
  OBVIOUS
<1>7. /\ T!Pending(t) <=> T!Mode(t) = "only" /\ m \in {"skip", "todo"}
      /\ T!Filtered(t) <=> m = "none" /\ t \in decl.filtered
      /\ T!Todo(t) <=> ~f.hook /\ (m = "todo" \/ (T!Mode(t) = "todo" /\ ~T!Filtered(t)))
      /\ T!LeftOut(t) <=> \/ T!Todo(t) \/ f.hook \/ m # "none" \/ T!Filtered(t)
                          \/ T!Mode(t) \in {"skip", "todo"} \/ T!NotOnly(t)
  BY <1>2, <1>4 DEF T!Pending, T!Filtered, T!Todo, T!LeftOut
<1>8. SUFFICES /\ T!Pending(t) => told0 = "pending"
               /\ ~T!Pending(t) /\ T!LeftOut(t) => told0 = IF T!Todo(t) THEN "todo" ELSE "skipped"
               /\ ~T!Pending(t) /\ ~T!LeftOut(t) /\ T!ForbiddenOnly(t) => told0 = "failed"
               /\ ~T!Pending(t) /\ ~T!LeftOut(t) /\ ~T!ForbiddenOnly(t) => told0 = last
  BY <1>5, <1>6
<1>9. CASE \E s \in A : Spoilt(s)
  <2>1. f.hook /\ m \in {"none", "hook"}
    BY <1>3, <1>4, <1>9 DEF FrameMode
  <2>2. told0 = "skipped"
    BY <1>1, <1>6, <1>9 DEF ToldAs
  <2>3. QED
    BY <1>7, <2>1, <2>2
<1>10. CASE (~\E s \in A : Spoilt(s)) /\ \E s \in A : Shut(s)
  <2>1. PICK s \in A : OuterShut(s, A) /\ m = T!OwnMode(s)
    BY <1>3, <1>4, <1>10 DEF FrameMode
  <2>2. ~f.hook /\ m \in {"skip", "todo"}
    BY <1>3, <1>10, <2>1 DEF FrameMode, OuterShut, Shut, T!OwnMode
  <2>3. OuterOf(A) = s
    <3> DEFINE shut == {r \in A : T!OwnMode(r) # "none"}
    <3>1. ASSUME NEW r \in shut PROVE shut \intersect T!Range(T!Chain(r)) = {} <=> OuterShut(r, A)
      <4>1. T!Range(T!Chain(r)) \subseteq A /\ r \in A /\ Shut(r)
        BY <1>3 DEF Shut
      <4>2. QED
        BY <4>1 DEF OuterShut, Shut
    <3>2. s \in shut /\ shut \intersect T!Range(T!Chain(s)) = {}
      <4>1. s \in shut
        BY <2>1 DEF OuterShut, Shut
      <4>2. QED
        BY <2>1, <3>1, <4>1
    <3>3. PICK r : r = CHOOSE q \in shut : shut \intersect T!Range(T!Chain(q)) = {}
      OBVIOUS
    <3>4. r \in shut /\ shut \intersect T!Range(T!Chain(r)) = {}
      BY <3>2, <3>3
    <3>5. r = s
      BY <1>3, <2>1, <3>1, <3>4
    <3>6. QED
      BY <3>3, <3>5 DEF OuterOf
  <2>4. told0 = IF T!Mode(t) = "only" THEN "pending"
                ELSE IF m = "todo" \/ T!Mode(t) = "todo" THEN "todo" ELSE "skipped"
    BY <1>1, <1>6, <1>10, <2>1, <2>3 DEF ToldAs
  <2>5. QED
    BY <1>7, <2>2, <2>4
<1>11. CASE (~\E s \in A : Spoilt(s)) /\ ~\E s \in A : Shut(s)
  <2>1. ~f.hook /\ m = "none"
    BY <1>3, <1>4, <1>11 DEF FrameMode
  <2>2. told0 = IF t \in decl.filtered THEN "skipped"
                ELSE IF T!Mode(t) = "todo" THEN "todo"
                ELSE IF T!Mode(t) = "skip" \/ T!NotOnly(t) THEN "skipped"
                ELSE IF T!ForbiddenOnly(t) THEN "failed"
                ELSE last
    BY <1>1, <1>5, <1>6, <1>11 DEF ToldAs
  <2>3. QED
    BY <1>7, <2>1, <2>2
<1>12. QED
  BY <1>9, <1>10, <1>11

(* What must be told in the next state. *)
LEMMA MustBeNext ==
  ASSUME NEW t
  PROVE  T!MustBeTold(t)' = ToldAs(t, attempts[t])'
<1>1. T!MustBeTold(t) = ToldAs(t, attempts[t])
  BY MustBe
<1>2. (T!MustBeTold(t) = ToldAs(t, attempts[t]))'
  BY <1>1, PTL
<1>3. QED
  BY <1>2

(* What must be told of a test stays once it was tried. *)
LEMMA ToldStays ==
  ASSUME UNCHANGED decl, NEW t, attempts'[t] = attempts[t],
         \A s \in T!Range(T!Chain(t)) : T!Clean(hooked'[s]["before"]) <=> T!Clean(hooked[s]["before"])
  PROVE  T!MustBeTold(t)' = T!MustBeTold(t)
<1>1. PICK came : came = attempts[t]
  OBVIOUS
<1>2. T!MustBeTold(t) = ToldAs(t, came) /\ T!MustBeTold(t)' = ToldAs(t, attempts[t])'
  BY <1>1, MustBe, MustBeNext
<1>3. ToldAs(t, came)' = ToldAs(t, came)
  BY ToldAsKept
<1>4. QED
  BY <1>1, <1>2, <1>3

(* Records stay right while what they were made from stays, ... *)
LEMMA RecordsStay ==
  ASSUME RecordsInv, UNCHANGED <<decl, records>>, TallyTypes, Types,
         \A t \in Tests : Recorded(t) =>
           /\ attempts'[t] = attempts[t]
           /\ \A s \in T!Range(T!Chain(t)) : T!Clean(hooked'[s]["before"]) <=> T!Clean(hooked[s]["before"])
  PROVE  RecordsInv'
<1>1. ASSUME NEW r \in T!Range(records) PROVE r.status = T!MustBeTold(r.test)'
  <2>1. PICK t : t = r.test
    OBVIOUS
  <2>2. t \in Tests /\ Recorded(t) /\ r.status = T!MustBeTold(t)
    <3>1. r \in Records
      <4>1. \A i \in DOMAIN records : records[i] \in Records
        BY DEF Types
      <4>2. QED
        BY <1>1, <4>1 DEF T!Range
    <3>2. QED
      BY <1>1, <2>1, <3>1 DEF Records, Recorded, RecordsInv
  <2>3. T!MustBeTold(t)' = T!MustBeTold(t)
    BY <2>2, ToldStays
  <2>4. QED
    BY <2>1, <2>2, <2>3
<1>2. QED
  BY <1>1 DEF RecordsInv

(* ... and with a right one more. *)
LEMMA RecordsMore ==
  ASSUME Types, RecordsInv, NEW t \in Tests, ~Recorded(t),
         NEW v \in {"passed", "failed", "skipped", "todo", "pending"}, T!Told(t, v),
         UNCHANGED <<decl, hooked>>, \A y \in Tests : y # t => attempts'[y] = attempts[y],
         NEW came, attempts'[t] = came, v = ToldAs(t, came)
  PROVE  RecordsInv'
<1>1. PICK r \in Records : r = [test |-> t, status |-> v] /\ r.test = t /\ r.status = v
  <2>1. [test |-> t, status |-> v] \in Records
    BY DEF Records
  <2>2. QED
    BY <2>1
<1>2. PICK n \in Nat : n = Len(records)
  BY DEF Types
<1>3. records \in Seq(Records) /\ records' = Append(records, r) /\ DOMAIN records = 1 .. n
  BY <1>1, <1>2 DEF Types, T!Told
<1>4. /\ Len(records') = n + 1 /\ DOMAIN records' = 1 .. n + 1 /\ records'[n + 1] = r
      /\ \A i \in 1 .. n : records'[i] = records[i]
  BY <1>1, <1>2, <1>3, AppendIs
<1>5. \A i \in 1 .. n + 1 : i \in 1 .. n \/ i = n + 1
  BY <1>2
<1>6. \A i \in 1 .. n : records[i].test # t
  BY <1>3 DEF Recorded, T!Range
<1>7. \A i, j \in DOMAIN records' : records'[i].test = records'[j].test => i = j
  BY <1>1, <1>3, <1>4, <1>5, <1>6 DEF RecordsInv
<1>8. ASSUME NEW y \in T!Range(records') PROVE y.status = T!MustBeTold(y.test)'
  <2>1. y \in T!Range(records) \/ y = r
    BY <1>1, <1>3, RangeAppend
  <2>2. CASE y = r
    <3>1. T!MustBeTold(t)' = ToldAs(t, attempts[t])'
      BY MustBeNext
    <3>2. T!MustBeTold(t)' = ToldAs(t, came)'
      BY <3>1
    <3>3. ToldAs(t, came)' = ToldAs(t, came)
      BY ToldAsKept
    <3>4. QED
      BY <1>1, <2>2, <3>2, <3>3
  <2>3. CASE y \in T!Range(records)
    <3>1. PICK i \in 1 .. n : y = records[i]
      BY <1>3, <2>3 DEF T!Range
    <3>7. y \in Records
      BY <1>2, <1>3, <3>1
    <3>2. PICK x \in Tests : x = y.test
      BY <3>7 DEF Records
    <3>3. x # t
      BY <1>6, <3>1, <3>2
    <3>4. T!MustBeTold(x)' = T!MustBeTold(x)
      BY <3>3, ToldStays
    <3>5. y.status = T!MustBeTold(x)
      BY <2>3, <3>2 DEF RecordsInv
    <3>6. QED
      BY <3>2, <3>4, <3>5
  <2>4. QED
    BY <2>1, <2>2, <2>3
<1>9. QED
  BY <1>7, <1>8 DEF RecordsInv

(* What is recorded was collected, in suites. *)
LEMMA RecordedWithin ==
  ASSUME Types, WalkInv, NEW t \in Tests, Recorded(t)
  PROVE  T!Collected(t) /\ T!Range(T!Chain(t)) \subseteq Suites
<1>1. T!Collected(t)
  <2>1. t \in T!Tasks /\ t \notin Suites
    BY TestRunFacts DEF T!Tasks
  <2>2. Past(t)
    BY <2>1 DEF Past
  <2>3. QED
    BY <2>1, <2>2 DEF WalkInv, VisitInv, WithinSuites
<1>2. PICK c \in Seq(Suites) : c = T!Chain(t)
  BY <1>1, ChainStep DEF Types
<1>3. \A i \in DOMAIN c : c[i] \in Suites
  BY <1>2
<1>4. QED
  BY <1>1, <1>2, <1>3 DEF T!Range

(* An afterAll hook leaves them right, ... *)
LEMMA RecordsAfterAll ==
  ASSUME Types, TallyTypes, WalkInv, RecordsInv, NEW o, T!AfterAll(o)
  PROVE  RecordsInv'
<1>1. stack # <<>> /\ o \in {"ok", "throw"} /\ UNCHANGED <<decl, records, attempts>>
  BY DEF T!AfterAll, T!TasksDone, T!AtTasks, WalkInv, NestInv
<1>2. PICK s \in Suites : s = T!Top.suite
  BY <1>1, TopFacts
<1>3. PICK w \in {"after", "undo"} : T!Hooked(s, w, o)
  BY <1>2 DEF T!AfterAll
<1>4. w \in Calls /\ w # "before" /\ "before" \in Calls
  BY CallNames
<1>5. \A r \in Suites : T!Clean(hooked'[r]["before"]) <=> T!Clean(hooked[r]["before"])
  BY <1>1, <1>3, <1>4, CleanAfter
<1>6. \A t \in Tests : Recorded(t) => T!Range(T!Chain(t)) \subseteq Suites
  BY RecordedWithin
<1>7. QED
  BY <1>1, <1>5, <1>6, RecordsStay

(* ... a beforeAll hook too: no test of its suite is recorded, ... *)
LEMMA RecordsBeforeAll ==
  ASSUME Types, TallyTypes, WalkInv, ModesInv, RecordsInv, NEW o, T!BeforeAll(o)
  PROVE  RecordsInv'
<1>1. stack # <<>> /\ T!Top.step = "beforeAll" /\ o \in {"ok", "throw"} /\ UNCHANGED <<decl, records, attempts>>
  BY DEF T!BeforeAll, WalkInv, NestInv
<1>2. PICK f \in Frames, s \in Suites : f = T!Top /\ s = f.suite
  BY <1>1, TopFacts
<1>3. PICK n \in Nat \ {0} : n = Len(stack) /\ f = stack[n]
  BY <1>1, <1>2, StackTop
<1>4. f.next = 1
  <2>1. n \in DOMAIN stack
    BY <1>3 DEF Types
  <2>2. QED
    BY <1>1, <1>2, <1>3, <2>1 DEF ModesInv
<1>5. \A x \in T!Children(s) : ~Past(x) /\ ~OnStack(x)
  <2>1. SUFFICES ASSUME NEW x \in T!Children(s) PROVE ~Past(x) /\ ~OnStack(x)
    OBVIOUS
  <2>2. PICK k \in Nat : k \in DOMAIN T!tasks[s] /\ x = T!tasks[s][k]
    BY <2>1, TreeFacts DEF Types
  <2>3. T!tasks[s] \in Seq(T!Tasks)
    BY TreeFacts DEF Types
  <2>4. ~(k < f.next)
    BY <1>4, <2>2, <2>3
  <2>5. InOrder(n)
    BY <1>1, <1>3, TopFacts
  <2>6. QED
    BY <1>2, <1>3, <2>2, <2>4, <2>5 DEF InOrder
<1>6. \A t \in Tests : Recorded(t) => s \notin T!Range(T!Chain(t))
  BY <1>5, BelowAhead DEF WalkInv
<1>7. \A r \in Suites : r # s => (T!Clean(hooked'[r]["before"]) <=> T!Clean(hooked[r]["before"]))
  BY <1>1, <1>2, CallNames, CleanAfter DEF T!BeforeAll
<1>8. \A t \in Tests : Recorded(t) => T!Range(T!Chain(t)) \subseteq Suites
  BY RecordedWithin
<1>9. QED
  BY <1>1, <1>6, <1>7, <1>8, RecordsStay

(* ... a test is told that does not run, or fails instead, ... *)
LEMMA RecordsNotTried ==
  ASSUME Types, WalkInv, ModesInv, RecordsInv, NEW t \in Tests, T!NotRun(t) \/ T!Forbidden(t)
  PROVE  RecordsInv'
<1>1. Here(t) /\ UNCHANGED <<decl, hooked, attempts>>
  BY DEF T!NotRun, T!Forbidden, T!TaskIs, T!AtTasks, Here
<1>2. stack # <<>> /\ T!Top.next <= Len(T!tasks[T!Top.suite]) /\ t = T!Task
  BY <1>1, AtTask
<1>3. ~Recorded(t)
  <2>1. ~Past(t) /\ t \notin Suites
    BY <1>2, NextTaskFacts, TestRunFacts DEF WalkInv
  <2>2. QED
    BY <2>1 DEF Past
<1>4. PICK came : came = attempts[t] /\ came = attempts'[t]
  BY <1>1
<1>5. /\ T!Pending(t) => ToldAs(t, came) = "pending"
      /\ ~T!Pending(t) /\ T!LeftOut(t) => ToldAs(t, came) = IF T!Todo(t) THEN "todo" ELSE "skipped"
      /\ ~T!Pending(t) /\ ~T!LeftOut(t) /\ T!ForbiddenOnly(t) => ToldAs(t, came) = "failed"
  BY <1>2, ToldNext
<1>6. PICK v : T!Told(t, v) /\ v = ToldAs(t, came)
  <2>1. CASE T!NotRun(t)
    BY <1>5, <2>1 DEF T!NotRun
  <2>2. CASE T!Forbidden(t)
    BY <1>5, <2>2 DEF T!Forbidden
  <2>3. QED
    BY <2>1, <2>2
<1>7. v \in {"passed", "failed", "skipped", "todo", "pending"}
  BY <1>6 DEF ToldAs
<1>8. QED
  BY <1>1, <1>3, <1>4, <1>6, <1>7, RecordsMore

(* ... and a test is told as what its attempts came to. *)
LEMMA RecordsEnd ==
  ASSUME HooksInv, TallyTypes, ModesInv, TriesInv, RecordsInv, T!EndAttempt
  PROVE  RecordsInv'
<1>1. Types /\ WalkInv /\ AttInv /\ att # T!NoAttempt /\ progress = "run" /\ UNCHANGED <<decl, hooked>>
  BY DEF HooksInv, T!EndAttempt, T!At
<1>2. PICK c \in AttemptStates, d \in [Kinds -> Seq(Steps)] : c = att /\ d = did
  BY <1>1 DEF Types
<1>3. c.step = "end" /\ Came(c, d)
  BY <1>1, <1>2 DEF TriesInv, Tried, T!EndAttempt, T!At
<1>4. PICK t \in Tests : t = c.test
  BY <1>2 DEF AttemptStates
<1>5. PICK a : a = T!Flipped(c)
  OBVIOUS
<1>6. /\ stack # <<>> /\ T!Top.next <= Len(T!tasks[T!Top.suite]) /\ t = T!Task
      /\ ~T!Pending(t) /\ ~T!LeftOut(t) /\ ~T!ForbiddenOnly(t)
  BY <1>1, <1>2, <1>4 DEF AttInv
<1>7. ~Recorded(t)
  <2>1. ~Past(t) /\ t \notin Suites
    BY <1>1, <1>6, NextTaskFacts, TestRunFacts DEF WalkInv
  <2>2. QED
    BY <2>1 DEF Past
<1>8. PICK s \in Seq({"skip", "clean", "error"}), e \in {"skip", "clean", "error"} :
        s = attempts[t] /\ e = T!CameTo(d)
  BY <1>2, <1>4, CameToIs DEF TallyTypes
<1>9. a.test = t /\ a.pending = c.pending /\ c.pending \in BOOLEAN /\ a.no = c.no
  <2>1. a = c \/ a = [c EXCEPT !.ok = TRUE, !.errors = c.mark]
        \/ a = [c EXCEPT !.ok = FALSE, !.errors = c.errors + 1]
    BY <1>5 DEF T!Flipped
  <2>2. QED
    BY <1>2, <1>4, <2>1 DEF AttemptStates
<1>10. attempts' = [attempts EXCEPT ![t] = Append(s, e)]
  BY <1>2, <1>4, <1>5, <1>8, <1>9 DEF T!EndAttempt
<1>11. PICK z : z = Append(s, e)
  OBVIOUS
<1>12. /\ attempts'[t] = z /\ \A y \in Tests : y # t => attempts'[y] = attempts[y]
       /\ T!Last(z) = e
  <2>1. attempts \in [Tests -> Seq({"skip", "clean", "error"})]
    BY DEF TallyTypes
  <2>2. T!Last(z) = e
    BY <1>8, <1>11 DEF T!Last
  <2>3. QED
    BY <1>10, <1>11, <2>1, <2>2
<1>13. ToldAs(t, z) = IF e = "skip" THEN "skipped"
                      ELSE IF e = (IF t \in decl.fails THEN "error" ELSE "clean")
                             THEN "passed" ELSE "failed"
  BY <1>1, <1>6, <1>12, ToldNext
<1>14. PICK v \in {"passed", "failed", "skipped"} :
         v = IF a.pending THEN "skipped" ELSE IF a.ok THEN "passed" ELSE "failed"
  OBVIOUS
<1>15. v = ToldAs(t, z)
  <2>1. e = IF Skipped(d) THEN "skip" ELSE IF Amiss(d) THEN "error" ELSE "clean"
    BY <1>2, <1>8, CameToIs
  <2>2. CASE c.pending
    BY <1>3, <1>9, <1>13, <1>14, <2>1, <2>2 DEF Came
  <2>3. CASE ~c.pending
    <3>1. /\ ~Skipped(d)
          /\ c.errors > c.mark <=> Amiss(d)
          /\ c.ok <=> ~Amiss(d)
      BY <1>3, <2>3 DEF Came
    <3>2. a.ok <=> IF t \in decl.fails THEN Amiss(d) ELSE ~Amiss(d)
      <4>1. CASE t \in decl.fails
        <5>1. a = IF c.errors > c.mark THEN [c EXCEPT !.ok = TRUE, !.errors = c.mark]
                  ELSE [c EXCEPT !.ok = FALSE, !.errors = c.errors + 1]
          BY <1>4, <1>5, <2>3, <4>1 DEF T!Flipped
        <5>2. a.ok <=> c.errors > c.mark
          BY <1>2, <5>1 DEF AttemptStates
        <5>3. QED
          BY <3>1, <4>1, <5>2
      <4>2. CASE t \notin decl.fails
        <5>1. a = c
          BY <1>4, <1>5, <4>2 DEF T!Flipped
        <5>2. QED
          BY <3>1, <4>2, <5>1
      <4>3. QED
        BY <4>1, <4>2
    <3>3. e = IF Amiss(d) THEN "error" ELSE "clean"
      BY <2>1, <3>1
    <3>4. QED
      BY <1>9, <1>13, <1>14, <2>3, <3>2, <3>3
  <2>4. QED
    BY <2>2, <2>3
<1>16. CASE UNCHANGED records
  <2>1. \A y \in Tests : Recorded(y) => attempts'[y] = attempts[y]
    BY <1>7, <1>12
  <2>2. QED
    BY <1>1, <1>16, <2>1, RecordsStay
<1>17. CASE T!Told(t, v)
  <2>1. v \in {"passed", "failed", "skipped", "todo", "pending"}
    BY <1>14
  <2>2. QED
    BY <1>1, <1>7, <1>12, <1>15, <1>17, <2>1, RecordsMore
<1>18. QED
  <2>1. UNCHANGED records \/ T!Told(t, v)
    BY <1>2, <1>4, <1>5, <1>9, <1>14 DEF T!EndAttempt
  <2>2. QED
    BY <1>16, <1>17, <2>1

-----------------------------------------------------------------------------
(* The counts                                                              *)

(* The cardinality that TestRun counts with is FiniteSets'. *)
LEMMA SameCounting == \A S : T!Cardinality(S) = Cardinality(S)
BY Zenon DEF Cardinality, T!Cardinality

(* The counts are the records'. *)
LEMMA OneMore ==
  ASSUME NEW rs \in Seq(Records), NEW r \in Records, NEW S, NEW more, more = Append(rs, r)
  PROVE  LET count(z) == Cardinality({i \in DOMAIN z : z[i].status \in S})
         IN count(rs) \in Nat /\ count(more) = count(rs) + (IF r.status \in S THEN 1 ELSE 0)
<1> DEFINE I(z) == {i \in DOMAIN z : z[i].status \in S}
<1>1. PICK n \in Nat : n = Len(rs)
  OBVIOUS
<1>2. /\ DOMAIN rs = 1 .. n /\ DOMAIN more = 1 .. n + 1 /\ more[n + 1] = r
      /\ \A i \in 1 .. n : more[i] = rs[i]
  BY <1>1, AppendIs
<1>3. I(rs) \subseteq 1 .. n /\ n + 1 \notin 1 .. n /\ \A i \in 1 .. n + 1 : i \in 1 .. n \/ i = n + 1
  BY <1>1, <1>2
<1>4. \A i \in 1 .. n : i \in 1 .. n + 1
  BY <1>1
<1>5. I(more) = IF r.status \in S THEN I(rs) \union {n + 1} ELSE I(rs)
  BY <1>1, <1>2, <1>3, <1>4
<1>6. IsFiniteSet(I(rs)) /\ Cardinality(I(rs)) \in Nat
  <2>1. IsFiniteSet(1 .. n)
    BY <1>1, FS_Interval
  <2>2. IsFiniteSet(I(rs))
    BY <1>3, <2>1, FS_Subset
  <2>3. QED
    BY <2>2, FS_CardinalityType
<1>7. Cardinality(I(rs) \union {n + 1}) = Cardinality(I(rs)) + 1
  <2>1. n + 1 \notin I(rs)
    BY <1>3
  <2> HIDE DEF I
  <2>2. QED
    BY <1>6, <2>1, FS_AddElement
<1>8. Cardinality(I(more)) = Cardinality(I(rs)) + (IF r.status \in S THEN 1 ELSE 0)
  <2>1. CASE r.status \in S
    <3>1. I(more) = I(rs) \union {n + 1}
      BY <1>5, <2>1
    <3> HIDE DEF I
    <3>2. QED
      BY <1>7, <2>1, <3>1
  <2>2. CASE r.status \notin S
    <3>1. I(more) = I(rs)
      BY <1>5, <2>2
    <3> HIDE DEF I
    <3>2. QED
      BY <1>6, <2>2, <3>1
  <2>3. QED
    BY <2>1, <2>2
<1>9. QED
  BY <1>6, <1>8

(* No record more. *)
LEMMA CountsStay ==
  ASSUME CountsInv, UNCHANGED records,
         sum'.passed = sum.passed, sum'.failed = sum.failed, sum'.skipped = sum.skipped
  PROVE  CountsInv'
BY DEF CountsInv, T!CountOf

(* A record more, and one more of its count. *)
LEMMA CountsMore ==
  ASSUME Types, CountsInv, NEW t \in Tests, NEW v \in {"passed", "failed", "skipped", "todo", "pending"},
         T!Told(t, v),
         sum'.passed = sum.passed + (IF v = "passed" THEN 1 ELSE 0),
         sum'.failed = sum.failed + (IF v = "failed" THEN 1 ELSE 0),
         sum'.skipped = sum.skipped + (IF v \in {"skipped", "todo"} THEN 1 ELSE 0)
  PROVE  CountsInv'
<1>1. PICK r \in Records : r = [test |-> t, status |-> v] /\ r.status = v
  <2>1. [test |-> t, status |-> v] \in Records
    BY DEF Records
  <2>2. QED
    BY <2>1
<1>2. PICK rs \in Seq(Records) : rs = records
  BY DEF Types
<1>3. PICK more : more = Append(rs, r)
  OBVIOUS
<1>4. records' = more
  BY <1>1, <1>2, <1>3 DEF T!Told
<1>5. ASSUME NEW S PROVE T!CountOf(S)' = T!CountOf(S) + (IF v \in S THEN 1 ELSE 0)
  <2> DEFINE count(z) == Cardinality({i \in DOMAIN z : z[i].status \in S})
  <2>1. count(more) = count(rs) + (IF r.status \in S THEN 1 ELSE 0)
    BY <1>1, <1>2, <1>3, OneMore
  <2>2. T!CountOf(S) = count(rs) /\ T!CountOf(S)' = count(more)
    BY <1>2, <1>4, SameCounting DEF T!CountOf
  <2> HIDE DEF count
  <2>3. QED
    BY <1>1, <2>1, <2>2
<1>6. /\ T!CountOf({"passed"})' = T!CountOf({"passed"}) + (IF v = "passed" THEN 1 ELSE 0)
      /\ T!CountOf({"failed"})' = T!CountOf({"failed"}) + (IF v = "failed" THEN 1 ELSE 0)
      /\ T!CountOf({"skipped", "todo"})'
           = T!CountOf({"skipped", "todo"}) + (IF v \in {"skipped", "todo"} THEN 1 ELSE 0)
  <2>1. v \in {"passed"} <=> v = "passed"
    OBVIOUS
  <2>2. v \in {"failed"} <=> v = "failed"
    OBVIOUS
  <2>3. QED
    BY <1>5, <2>1, <2>2
<1>7. QED
  BY <1>6 DEF CountsInv

-----------------------------------------------------------------------------
(* The failures                                                            *)

(* What the count of failures comes from. *)
LEMMA FailuresAre ==
  ASSUME FailuresInv, sum.failures \in Nat, NEW b \in BOOLEAN,
         sum'.failures = sum.failures + (IF b THEN 1 ELSE 0),
         sum.noSuite => sum'.noSuite,
         sum'.noSuite => progress' \in {"ran", "ERROR"},
         progress' \notin {"PASS", "FAIL"},
         \A i \in DOMAIN stack' :
           stack'[i].failed => T!SkipAll(stack[i])' = "none" /\ (b \/ \E j \in DOMAIN stack : stack[j].failed),
         Lasting => Lasting',
         Lasting' => Lasting \/ b \/ \E j \in DOMAIN stack : stack[j].failed,
         b => sum'.noSuite \/ Lasting' \/ \E j \in DOMAIN stack' : j > 1 /\ stack'[j].failed,
         \A i \in DOMAIN stack :
           i > 1 /\ stack[i].failed => Lasting' \/ \E j \in DOMAIN stack' : j > 1 /\ stack'[j].failed
  PROVE  FailuresInv'
<1>1. PICK k \in Nat, m \in Nat : k = sum.failures /\ m = sum'.failures /\ m = k + (IF b THEN 1 ELSE 0)
  OBVIOUS
<1>2. (k > 0 => m > 0) /\ (b => m > 0) /\ (m > 0 => b \/ k > 0)
  BY <1>1
<1>3. /\ \A i \in DOMAIN stack : stack[i].failed => k > 0
      /\ Lasting => k > 0
      /\ k > 0 => sum.noSuite \/ Lasting \/ \E j \in DOMAIN stack : j > 1 /\ stack[j].failed
  BY <1>1 DEF FailuresInv
<1>4. \A i \in DOMAIN stack' : stack'[i].failed => T!SkipAll(stack[i])' = "none" /\ sum'.failures > 0
  BY <1>1, <1>2, <1>3
<1>5. Lasting' => sum'.failures > 0
  BY <1>1, <1>2, <1>3
<1>6. sum'.failures > 0 => sum'.noSuite \/ Lasting' \/ \E j \in DOMAIN stack' : j > 1 /\ stack'[j].failed
  <2>1. CASE b
    BY <2>1
  <2>2. CASE k > 0
    BY <1>3, <2>2
  <2>3. QED
    BY <1>1, <1>2, <2>1, <2>2
<1>7. QED
  BY <1>4, <1>5, <1>6 DEF FailuresInv

(* A step of the last frame, that may fail its suite. *)
LEMMA FailuresTop ==
  ASSUME Types, TallyTypes, FailuresInv, stack # <<>>, UNCHANGED <<decl, progress>>, progress = "run",
         NEW g \in Frames, stack' = T!WithTop(g), g.suite = T!Top.suite, g.mode = T!Top.mode,
         NEW b \in BOOLEAN, sum'.failures = sum.failures + (IF b THEN 1 ELSE 0),
         sum'.noSuite = sum.noSuite,
         T!Top.failed => g.failed, g.failed => T!Top.failed \/ b,
         b => T!SkipAll(T!Top) = "none" /\ Lasting', Lasting => Lasting', Lasting' => Lasting \/ b
  PROVE  FailuresInv'
<1>1. PICK n \in Nat \ {0} : n = Len(stack)
  BY StackTop
<1>2. PICK t : t = T!Top
  OBVIOUS
<1>3. /\ Len(stack') = n /\ stack'[n] = g /\ t = stack[n] /\ stack' \in Seq(Frames)
      /\ \A i \in 1 .. n - 1 : stack'[i] = stack[i]
  BY <1>1, <1>2, StackTop
<1>4. /\ DOMAIN stack' = 1 .. n /\ DOMAIN stack = 1 .. n /\ n \in 1 .. n
      /\ \A i \in 1 .. n : i \in 1 .. n - 1 \/ i = n
  BY <1>1, <1>3 DEF Types
<1>5. ASSUME NEW i \in 1 .. n, stack'[i].failed
      PROVE  T!SkipAll(stack[i])' = "none" /\ (b \/ \E j \in DOMAIN stack : stack[j].failed)
  <2>1. PICK c, f : c = stack'[i] /\ f = stack[i]
    OBVIOUS
  <2>2. T!SkipAll(c)' = T!SkipAll(c)
    BY DeclStable
  <2>3. T!SkipAll(c) = T!SkipAll(f)
    <3>1. c.suite = f.suite /\ c.mode = f.mode
      BY <1>2, <1>3, <1>4, <2>1
    <3>2. QED
      BY <3>1, SameMode
  <2>4. f.failed \/ (i = n /\ b)
    BY <1>2, <1>3, <1>4, <1>5, <2>1
  <2>5. T!SkipAll(f) = "none"
    <3>1. CASE f.failed
      BY <1>4, <2>1, <3>1 DEF FailuresInv
    <3>2. CASE i = n /\ b
      BY <1>2, <1>3, <2>1, <3>2
    <3>3. QED
      BY <2>4, <3>1, <3>2
  <2>6. T!SkipAll(stack[i])' = T!SkipAll(c)'
    BY <2>1
  <2>7. QED
    BY <1>4, <2>1, <2>2, <2>3, <2>4, <2>5, <2>6
<1>6. \A i \in DOMAIN stack : i > 1 /\ stack[i].failed => \E j \in DOMAIN stack' : j > 1 /\ stack'[j].failed
  <2>1. \A i \in 1 .. n : stack[i].failed => stack'[i].failed
    BY <1>2, <1>3, <1>4
  <2>2. QED
    BY <1>4, <2>1
<1>7. sum.failures \in Nat
  BY DEF TallyTypes, Tallies
<1>8. ~sum.noSuite
  BY DEF FailuresInv
<1>9. QED
  BY <1>4, <1>5, <1>6, <1>7, <1>8, FailuresAre

(* A step that neither counts a failure nor leaves a frame. *)
LEMMA FailuresStay ==
  ASSUME FailuresInv, UNCHANGED <<decl, stack, sum, told, hooked>>,
         progress' = progress \/ (progress = "run" /\ progress' = "stuck")
  PROVE  FailuresInv'
<1>1. Lasting' <=> Lasting
  BY DEF Lasting, Calls, T!NoCalls
<1>2. \A f : T!SkipAll(f)' = T!SkipAll(f)
  BY DeclStable
<1>3. \A i \in DOMAIN stack' : stack'[i].failed => T!SkipAll(stack[i])' = "none" /\ sum'.failures > 0
  <2>1. SUFFICES ASSUME NEW i \in DOMAIN stack', stack'[i].failed
                 PROVE  T!SkipAll(stack[i])' = "none" /\ sum'.failures > 0
    OBVIOUS
  <2>2. PICK c : c = stack[i] /\ c = stack'[i]
    OBVIOUS
  <2>3. T!SkipAll(c) = "none" /\ sum.failures > 0
    BY <2>1, <2>2 DEF FailuresInv
  <2>4. T!SkipAll(stack[i])' = T!SkipAll(c)'
    BY <2>2
  <2>5. QED
    BY <1>2, <2>3, <2>4
<1>4. T!Ok' <=> T!Ok
  BY DEF T!Ok
<1>5. QED
  BY <1>1, <1>3, <1>4 DEF FailuresInv

(* The file's mark says whether something failed. *)
LEMMA FailuresReport ==
  ASSUME Types, NestInv, TallyTypes, FailuresInv, T!Report
  PROVE  FailuresInv'
<1>1. UNCHANGED <<decl, stack, sum, told, hooked>>
  BY DEF T!Report
<1>2. Lasting' <=> Lasting
  BY <1>1 DEF Lasting, Calls, T!NoCalls
<1>3. \A f : T!SkipAll(f)' = T!SkipAll(f)
  BY <1>1, DeclStable
<1>4. \A i \in DOMAIN stack' : stack'[i].failed => T!SkipAll(stack[i])' = "none" /\ sum'.failures > 0
  <2>1. SUFFICES ASSUME NEW i \in DOMAIN stack', stack'[i].failed
                 PROVE  T!SkipAll(stack[i])' = "none" /\ sum'.failures > 0
    OBVIOUS
  <2>2. PICK c : c = stack[i] /\ c = stack'[i]
    BY <1>1
  <2>3. T!SkipAll(c) = "none" /\ sum.failures > 0
    BY <1>1, <2>1, <2>2 DEF FailuresInv
  <2>4. T!SkipAll(stack[i])' = T!SkipAll(c)'
    BY <2>2
  <2>5. QED
    BY <1>1, <1>3, <2>3, <2>4
<1>5. T!Ok' <=> T!Ok
  BY <1>1 DEF T!Ok
<1>6. /\ sum'.noSuite => progress' = "ERROR"
      /\ progress' \in {"PASS", "FAIL"} => ~sum'.noSuite /\ (progress' = "PASS" <=> T!Ok')
  BY <1>1, <1>5 DEF T!Report
<1>7. QED
  BY <1>1, <1>2, <1>4, <1>6 DEF FailuresInv

(* A failure more, or none. *)
LEMMA FailureIs ==
  ASSUME sum \in Tallies, NEW b \in BOOLEAN, sum' = T!Failure(IF b THEN 1 ELSE 0)
  PROVE  /\ sum' \in Tallies /\ sum'.failures = sum.failures + (IF b THEN 1 ELSE 0)
         /\ sum'.passed = sum.passed /\ sum'.failed = sum.failed /\ sum'.skipped = sum.skipped
         /\ sum'.noSuite = sum.noSuite
<1>1. PICK n \in {0, 1} : n = IF b THEN 1 ELSE 0
  OBVIOUS
<1>2. PICK c \in Tallies : c = sum
  OBVIOUS
<1>3. sum' = [c EXCEPT !.failures = c.failures + n]
  BY <1>1, <1>2 DEF T!Failure
<1>4. QED
  BY <1>1, <1>2, <1>3 DEF Tallies

(* A hook that throws is a failure that lasts. *)
LEMMA LastingHooked ==
  ASSUME Types, NEW s \in Suites, NEW w \in Calls, NEW o \in {"ok", "throw"}, T!Hooked(s, w, o),
         UNCHANGED told, sum'.failed = sum.failed
  PROVE  Lasting' <=> Lasting \/ o = "throw"
<1>1. \A r \in Suites, v \in Calls :
        T!Clean(hooked'[r][v]) <=> T!Clean(hooked[r][v]) /\ (r = s /\ v = w => o = "ok")
  BY CleanAfter
<1>2. o = "throw" <=> o # "ok"
  OBVIOUS
<1>3. Calls' = Calls
  BY DEF Calls, T!NoCalls
<1>4. (\E r \in Suites, v \in Calls : ~T!Clean(hooked'[r][v]))
        <=> (\E r \in Suites, v \in Calls : ~T!Clean(hooked[r][v])) \/ o = "throw"
  BY <1>1, <1>2
<1>5. QED
  BY <1>3, <1>4 DEF Lasting

(* A beforeAll hook that throws fails its suite, ... *)
LEMMA FailuresBeforeAll ==
  ASSUME Types, TallyTypes, WalkInv, FailuresInv, NEW o, T!BeforeAll(o)
  PROVE  FailuresInv'
<1>1. /\ stack # <<>> /\ T!Top.step = "beforeAll" /\ o \in {"ok", "throw"} /\ progress = "run"
      /\ UNCHANGED <<decl, told, progress>>
  BY DEF T!BeforeAll, WalkInv, NestInv
<1>2. PICK f \in Frames, s \in Suites : f = T!Top /\ s = f.suite
  BY <1>1, TopFacts
<1>3. T!SkipAll(f) = "none"
  <2>1. FrameHooks(f)
    BY <1>1, <1>2, TopFacts
  <2>2. ~T!Quiet(f)
    BY <1>1, <1>2, <2>1 DEF FrameHooks
  <2>3. QED
    BY <2>2 DEF T!Quiet
<1>4. PICK b \in BOOLEAN : b = (o = "throw")
  OBVIOUS
<1>5. /\ sum'.failures = sum.failures + (IF b THEN 1 ELSE 0)
      /\ sum'.failed = sum.failed /\ sum'.noSuite = sum.noSuite
  <2>1. sum' = T!Failure(IF b THEN 1 ELSE 0)
    BY <1>4 DEF T!BeforeAll
  <2>2. QED
    BY <2>1, FailureIs DEF TallyTypes
<1>6. Lasting' <=> Lasting \/ b
  <2>1. T!Hooked(s, "before", o)
    BY <1>2 DEF T!BeforeAll
  <2>2. QED
    BY <1>1, <1>4, <1>5, <2>1, CallNames, LastingHooked
<1>7. PICK k \in Nat, p \in {"tasks", "beforeAll"}, h \in BOOLEAN, c \in BOOLEAN :
        /\ c = (f.failed \/ b)
        /\ stack' = T!WithTop([f EXCEPT !.calls = k, !.step = p, !.hook = h, !.failed = c])
  <2>1. PICK l \in BOOLEAN : l = (o = "throw" \/ f.calls + 1 = NHooks)
    OBVIOUS
  <2>2. PICK k : k = IF l THEN 0 ELSE f.calls + 1
    OBVIOUS
  <2>3. PICK p : p = IF l THEN "tasks" ELSE f.step
    OBVIOUS
  <2>4. PICK h : h = (f.hook \/ o = "throw")
    OBVIOUS
  <2>5. PICK c : c = (f.failed \/ o = "throw")
    OBVIOUS
  <2>6. k \in Nat /\ p \in {"tasks", "beforeAll"} /\ h \in BOOLEAN /\ c \in BOOLEAN
    BY <1>2, <2>2, <2>3, <2>4, <2>5 DEF Frames
  <2>7. stack' = T!WithTop([f EXCEPT !.calls = k, !.step = p, !.hook = h, !.failed = c])
    BY <1>2, <2>1, <2>2, <2>3, <2>4, <2>5 DEF T!BeforeAll
  <2>8. c = (f.failed \/ b)
    BY <1>4, <2>5
  <2>9. QED
    BY <2>6, <2>7, <2>8
<1>8. PICK g \in Frames :
        stack' = T!WithTop(g) /\ g.suite = f.suite /\ g.mode = f.mode /\ (g.failed <=> f.failed \/ b)
  <2>1. PICK g : g = [f EXCEPT !.calls = k, !.step = p, !.hook = h, !.failed = c]
    OBVIOUS
  <2>2. g \in Frames /\ g.suite = f.suite /\ g.mode = f.mode /\ g.failed = c
    BY <1>2, <1>7, <2>1 DEF Frames
  <2>3. QED
    BY <1>7, <2>1, <2>2
<1>9. QED
  BY <1>1, <1>2, <1>3, <1>5, <1>6, <1>8, FailuresTop

(* ... and so does an afterAll hook. *)
LEMMA FailuresAfterAll ==
  ASSUME Types, TallyTypes, WalkInv, FailuresInv, NEW o, T!AfterAll(o)
  PROVE  FailuresInv'
<1>1. /\ stack # <<>> /\ o \in {"ok", "throw"} /\ progress = "run" /\ ~T!Quiet(T!Top)
      /\ UNCHANGED <<decl, told, progress>>
  BY DEF T!AfterAll, T!TasksDone, T!AtTasks, WalkInv, NestInv
<1>2. PICK f \in Frames, s \in Suites : f = T!Top /\ s = f.suite
  BY <1>1, TopFacts
<1>3. T!SkipAll(f) = "none"
  BY <1>1, <1>2 DEF T!Quiet
<1>4. PICK b \in BOOLEAN : b = (o = "throw")
  OBVIOUS
<1>5. /\ sum'.failures = sum.failures + (IF b THEN 1 ELSE 0)
      /\ sum'.failed = sum.failed /\ sum'.noSuite = sum.noSuite
  <2>1. sum' = T!Failure(IF b THEN 1 ELSE 0)
    BY <1>4 DEF T!AfterAll
  <2>2. QED
    BY <2>1, FailureIs DEF TallyTypes
<1>6. Lasting' <=> Lasting \/ b
  <2>1. PICK w \in {"after", "undo"} : T!Hooked(s, w, o)
    BY <1>2 DEF T!AfterAll
  <2>2. w \in Calls
    BY CallNames
  <2>3. QED
    BY <1>1, <1>4, <1>5, <2>1, <2>2, LastingHooked
<1>7. NHooks \in Nat /\ f.calls \in Nat /\ T!CallsAfter(f) \in Nat /\ f.calls + 1 \in Nat /\ f.failed \in BOOLEAN
  BY <1>2, TestRunFacts DEF Frames, T!CallsAfter
<1>8. PICK k \in Nat, c \in BOOLEAN :
        k = (IF o = "ok" THEN f.calls + 1 ELSE T!CallsAfter(f)) /\ c = (f.failed \/ o = "throw")
  BY <1>7
<1>9. PICK g \in Frames : g = [f EXCEPT !.calls = k, !.failed = c]
  <2>1. [f EXCEPT !.calls = k, !.failed = c] \in Frames
    BY <1>2, <1>8 DEF Frames
  <2>2. QED
    BY <2>1
<1>10. stack' = T!WithTop(g)
  BY <1>2, <1>8, <1>9 DEF T!AfterAll
<1>11. g.suite = f.suite /\ g.mode = f.mode /\ (g.failed <=> f.failed \/ b)
  BY <1>2, <1>4, <1>8, <1>9 DEF Frames
<1>12. QED
  BY <1>1, <1>2, <1>3, <1>5, <1>6, <1>10, <1>11, FailuresTop

(* A task is done with, and may fail its suite. *)
LEMMA FailuresAdvanced ==
  ASSUME Types, TallyTypes, WalkInv, FailuresInv, NEW x, Here(x), UNCHANGED <<decl, progress>>,
         NEW b \in BOOLEAN, NEW c \in BOOLEAN, c = (T!Top.failed \/ b),
         stack' = T!WithTop([T!Advanced EXCEPT !.failed = c]),
         sum'.failures = sum.failures + (IF b THEN 1 ELSE 0), sum'.noSuite = sum.noSuite,
         b => T!SkipAll(T!Top) = "none" /\ Lasting', Lasting => Lasting', Lasting' => Lasting \/ b
  PROVE  FailuresInv'
<1>1. stack # <<>> /\ progress = "run" /\ T!Advanced \in Frames
      /\ T!Advanced.suite = T!Top.suite /\ T!Advanced.mode = T!Top.mode
  BY AtTask
<1>2. PICK a \in Frames : a = T!Advanced
  BY <1>1
<1>3. PICK g \in Frames : g = [a EXCEPT !.failed = c]
  <2>1. [a EXCEPT !.failed = c] \in Frames
    BY <1>2 DEF Frames
  <2>2. QED
    BY <2>1
<1>4. g.suite = a.suite /\ g.mode = a.mode /\ g.failed = c
  BY <1>2, <1>3 DEF Frames
<1>5. stack' = T!WithTop(g) /\ g.suite = T!Top.suite /\ g.mode = T!Top.mode
  BY <1>1, <1>2, <1>3, <1>4
<1>6. (T!Top.failed => g.failed) /\ (g.failed => T!Top.failed \/ b)
  BY <1>4
<1>7. QED
  BY <1>1, <1>5, <1>6, FailuresTop

(* A step that goes on in the last frame as it is. *)
LEMMA PlainlyAdvanced ==
  ASSUME Types, WalkInv, NEW x, Here(x)
  PROVE  \E c \in BOOLEAN : c = (T!Top.failed \/ FALSE) /\ T!Advanced = [T!Advanced EXCEPT !.failed = c]
<1>1. PICK f \in Frames, a \in Frames : f = T!Top /\ a = T!Advanced
  <2>1. T!Top \in Frames /\ T!Advanced \in Frames
    BY AtTask
  <2>2. QED
    BY <2>1
<1>2. PICK n \in Nat : n = f.next + 1
  BY <1>1 DEF Frames
<1>3. a = [f EXCEPT !.next = n]
  BY <1>1, <1>2 DEF T!Advanced
<1>4. PICK c \in BOOLEAN : c = f.failed
  BY <1>1 DEF Frames
<1>5. a.failed = c
  BY <1>1, <1>2, <1>3, <1>4 DEF Frames
<1>6. a = [a EXCEPT !.failed = c]
  BY <1>1, <1>5 DEF Frames
<1>7. QED
  BY <1>1, <1>4, <1>6

(* A test that does not run fails nothing, ... *)
LEMMA FailuresNotTried ==
  ASSUME Types, TallyTypes, WalkInv, FailuresInv, NEW t \in Tests, T!NotRun(t)
  PROVE  FailuresInv'
<1>1. Here(t) /\ UNCHANGED <<decl, told, progress, hooked>> /\ stack' = T!WithTop(T!Advanced)
  BY DEF T!NotRun, T!NextTask, T!TaskIs, T!AtTasks, Here
<1>2. PICK m \in Tallies : m = sum
  BY DEF TallyTypes
<1>3. sum' = m \/ sum' = [m EXCEPT !.skipped = m.skipped + 1]
  BY <1>2 DEF T!NotRun
<1>4. sum'.failures = m.failures /\ sum'.noSuite = m.noSuite /\ sum'.failed = m.failed
  BY <1>2, <1>3 DEF Tallies
<1>5. m.failures = m.failures + 0
  BY <1>2 DEF Tallies
<1>6. Lasting' <=> Lasting
  BY <1>1, <1>2, <1>4 DEF Lasting, Calls, T!NoCalls
<1>7. PICK b \in BOOLEAN : b = FALSE
  OBVIOUS
<1>8. PICK c \in BOOLEAN : c = (T!Top.failed \/ b) /\ stack' = T!WithTop([T!Advanced EXCEPT !.failed = c])
  BY <1>1, <1>7, PlainlyAdvanced
<1>9. sum'.failures = sum.failures + (IF b THEN 1 ELSE 0)
  BY <1>2, <1>4, <1>5, <1>7
<1>10. QED
  BY <1>1, <1>2, <1>4, <1>6, <1>7, <1>8, <1>9, FailuresAdvanced

(* ... a forbidden one its suite. *)
LEMMA FailuresForbidden ==
  ASSUME Types, TallyTypes, WalkInv, FailuresInv, NEW t \in Tests, T!Forbidden(t)
  PROVE  FailuresInv'
<1>1. Here(t) /\ UNCHANGED <<decl, told, progress, hooked>> /\ ~T!LeftOut(t)
      /\ stack' = T!WithTop([T!Advanced EXCEPT !.failed = TRUE])
  BY DEF T!Forbidden, T!TaskIs, T!AtTasks, Here
<1>2. PICK m \in Tallies : m = sum
  BY DEF TallyTypes
<1>3. sum' = [m EXCEPT !.failures = m.failures + 1, !.failed = m.failed + 1]
  <2>1. PICK e : e = T!Failure(1)
    OBVIOUS
  <2>2. e = [m EXCEPT !.failures = m.failures + 1] /\ sum' = [e EXCEPT !.failed = e.failed + 1]
    BY <1>2, <2>1 DEF T!Failure, T!Forbidden
  <2>3. e.failed = m.failed
    BY <1>2, <2>2 DEF Tallies
  <2>4. QED
    BY <1>2, <2>2, <2>3 DEF Tallies
<1>4. sum'.failures = m.failures + 1 /\ sum'.noSuite = m.noSuite /\ sum'.failed > 0
  BY <1>2, <1>3 DEF Tallies
<1>5. Lasting'
  BY <1>4 DEF Lasting
<1>6. PICK b \in BOOLEAN, c \in BOOLEAN : b = TRUE /\ c = TRUE
  OBVIOUS
<1>7. c = (T!Top.failed \/ b)
  BY <1>6
<1>8. T!SkipAll(T!Top) = "none"
  BY <1>1 DEF T!LeftOut
<1>9. sum'.failures = sum.failures + (IF b THEN 1 ELSE 0) /\ sum'.noSuite = sum.noSuite
  BY <1>2, <1>4, <1>6
<1>10. Lasting' => Lasting \/ b
  BY <1>6
<1>11. stack' = T!WithTop([T!Advanced EXCEPT !.failed = c])
  BY <1>1, <1>6
<1>12. QED
  BY <1>1, <1>5, <1>7, <1>8, <1>9, <1>10, <1>11, FailuresAdvanced

(* What an attempt ends with: another one, or the test's record. *)
LEMMA EndsHow ==
  ASSUME HooksInv, TallyTypes, T!EndAttempt
  PROVE  LET t == att.test
         IN /\ Here(t) /\ ~T!LeftOut(t) /\ UNCHANGED <<decl, told, progress, hooked>>
            /\ \/ UNCHANGED <<stack, sum, records>>
               \/ \E v \in {"passed", "failed", "skipped"}, c \in BOOLEAN :
                    /\ T!Told(t, v) /\ sum' \in Tallies
                    /\ sum'.failures = sum.failures + (IF v = "failed" THEN 1 ELSE 0)
                    /\ sum'.passed = sum.passed + (IF v = "passed" THEN 1 ELSE 0)
                    /\ sum'.failed = sum.failed + (IF v = "failed" THEN 1 ELSE 0)
                    /\ sum'.skipped = sum.skipped + (IF v = "skipped" THEN 1 ELSE 0)
                    /\ sum'.noSuite = sum.noSuite
                    /\ c = (T!Top.failed \/ v = "failed")
                    /\ stack' = T!WithTop([T!Advanced EXCEPT !.failed = c])
<1>1. Types /\ WalkInv /\ AttInv /\ att # T!NoAttempt /\ progress = "run" /\ UNCHANGED <<decl, told, progress, hooked>>
  BY DEF HooksInv, T!EndAttempt, T!At
<1>2. PICK t \in Tests : t = att.test /\ Here(t) /\ ~T!LeftOut(t)
  BY <1>1, TestTried DEF AttInv
<1>3. PICK a : a = T!Flipped(att)
  OBVIOUS
<1>4. a.test = t
  <2>1. PICK c \in AttemptStates : c = att
    BY <1>1 DEF Types
  <2>2. a = c \/ a = [c EXCEPT !.ok = TRUE, !.errors = c.mark]
        \/ a = [c EXCEPT !.ok = FALSE, !.errors = c.errors + 1]
    BY <1>3, <2>1 DEF T!Flipped
  <2>3. QED
    BY <1>2, <2>1, <2>2 DEF AttemptStates
<1>5. PICK v \in {"passed", "failed", "skipped"} :
        v = IF a.pending THEN "skipped" ELSE IF a.ok THEN "passed" ELSE "failed"
  OBVIOUS
<1>6. PICK b \in BOOLEAN : b = (v = "failed")
  OBVIOUS
<1>7. \/ UNCHANGED <<stack, sum, records>>
      \/ /\ T!Told(t, v)
         /\ sum' = [T!Failure(IF b THEN 1 ELSE 0) EXCEPT
                      !.passed = @ + (IF v = "passed" THEN 1 ELSE 0),
                      !.failed = @ + (IF b THEN 1 ELSE 0),
                      !.skipped = @ + (IF v = "skipped" THEN 1 ELSE 0)]
         /\ stack' = T!WithTop([T!Advanced EXCEPT !.failed = @ \/ b])
  BY <1>3, <1>4, <1>5, <1>6 DEF T!EndAttempt
<1>8. CASE UNCHANGED <<stack, sum, records>>
  BY <1>1, <1>2, <1>8
<1>9. CASE ~UNCHANGED <<stack, sum, records>>
  <2>1. PICK m \in Tallies : m = sum
    BY DEF TallyTypes
  <2>2. PICK i \in {0, 1}, j \in {0, 1}, k \in {0, 1} :
          /\ i = (IF b THEN 1 ELSE 0) /\ j = (IF v = "passed" THEN 1 ELSE 0)
          /\ k = (IF v = "skipped" THEN 1 ELSE 0)
    OBVIOUS
  <2>3. PICK e : e = [m EXCEPT !.failures = m.failures + i]
    OBVIOUS
  <2>4. e \in Tallies /\ e.failures = m.failures + i /\ e.passed = m.passed /\ e.failed = m.failed
        /\ e.skipped = m.skipped /\ e.noSuite = m.noSuite
    BY <2>1, <2>2, <2>3 DEF Tallies
  <2>5. sum' = [e EXCEPT !.passed = e.passed + j, !.failed = e.failed + i, !.skipped = e.skipped + k]
    BY <1>7, <1>9, <2>1, <2>2, <2>3 DEF T!Failure
  <2>6. /\ sum' \in Tallies /\ sum'.failures = m.failures + i /\ sum'.passed = m.passed + j
        /\ sum'.failed = m.failed + i /\ sum'.skipped = m.skipped + k /\ sum'.noSuite = m.noSuite
    <3>1. PICK p \in Nat, f \in Nat, s \in Nat :
            p = m.passed + j /\ f = m.failed + i /\ s = m.skipped + k
      BY <2>1, <2>2 DEF Tallies
    <3>2. sum' = [e EXCEPT !.passed = p, !.failed = f, !.skipped = s]
      BY <2>4, <2>5, <3>1
    <3>3. QED
      BY <2>4, <3>1, <3>2 DEF Tallies
  <2>7. PICK f \in Frames, g \in Frames : f = T!Top /\ g = T!Advanced
    BY <1>1, <1>2, AtTask
  <2>8. g.failed = f.failed
    BY <2>7 DEF T!Advanced, Frames
  <2>9. PICK c \in BOOLEAN : c = (f.failed \/ b)
    OBVIOUS
  <2>10. stack' = T!WithTop([g EXCEPT !.failed = c])
    BY <1>7, <1>9, <2>7, <2>8, <2>9
  <2>11. i = (IF v = "failed" THEN 1 ELSE 0) /\ T!Told(t, v) /\ c = (T!Top.failed \/ v = "failed")
    <3>1. i = (IF v = "failed" THEN 1 ELSE 0)
      BY <1>6, <2>2
    <3>2. c = (T!Top.failed \/ v = "failed")
      BY <1>6, <2>7, <2>9
    <3>3. QED
      BY <1>7, <1>9, <3>1, <3>2
  <2>12. /\ sum'.failures = sum.failures + (IF v = "failed" THEN 1 ELSE 0)
         /\ sum'.passed = sum.passed + (IF v = "passed" THEN 1 ELSE 0)
         /\ sum'.failed = sum.failed + (IF v = "failed" THEN 1 ELSE 0)
         /\ sum'.skipped = sum.skipped + (IF v = "skipped" THEN 1 ELSE 0)
         /\ sum'.noSuite = sum.noSuite
    BY <2>1, <2>2, <2>6, <2>11
  <2>13. stack' = T!WithTop([T!Advanced EXCEPT !.failed = c])
    BY <2>7, <2>10
  <2>14. QED
    BY <1>1, <1>2, <2>6, <2>11, <2>12, <2>13
<1>10. QED
  BY <1>8, <1>9

(* A test that failed fails its suite. *)
LEMMA FailuresEnd ==
  ASSUME HooksInv, TallyTypes, FailuresInv, T!EndAttempt
  PROVE  FailuresInv'
<1>1. PICK t : t = att.test
  OBVIOUS
<1>2. Here(t) /\ ~T!LeftOut(t) /\ UNCHANGED <<decl, told, progress, hooked>> /\ Types /\ WalkInv
  BY <1>1, EndsHow DEF HooksInv
<1>3. CASE UNCHANGED <<stack, sum, records>>
  BY <1>2, <1>3, FailuresStay
<1>4. CASE ~UNCHANGED <<stack, sum, records>>
  <2>1. PICK v \in {"passed", "failed", "skipped"}, c \in BOOLEAN :
          /\ sum' \in Tallies
          /\ sum'.failures = sum.failures + (IF v = "failed" THEN 1 ELSE 0)
          /\ sum'.failed = sum.failed + (IF v = "failed" THEN 1 ELSE 0)
          /\ sum'.noSuite = sum.noSuite
          /\ c = (T!Top.failed \/ v = "failed")
          /\ stack' = T!WithTop([T!Advanced EXCEPT !.failed = c])
    BY <1>4, EndsHow
  <2>2. PICK b \in BOOLEAN : b = (v = "failed")
    OBVIOUS
  <2>3. PICK m \in Tallies : m = sum
    BY DEF TallyTypes
  <2>4. m.failed \in Nat /\ sum'.failed = m.failed + (IF b THEN 1 ELSE 0)
    BY <2>1, <2>2, <2>3 DEF Tallies
  <2>5. (b => sum'.failed > 0) /\ (m.failed > 0 => sum'.failed > 0) /\ (sum'.failed > 0 => b \/ m.failed > 0)
    BY <2>4
  <2>6. (\E s \in Suites, w \in Calls : ~T!Clean(hooked[s][w]))' <=> \E s \in Suites, w \in Calls : ~T!Clean(hooked[s][w])
    BY <1>2 DEF Calls, T!NoCalls
  <2>7. (b => Lasting') /\ (Lasting => Lasting') /\ (Lasting' => Lasting \/ b)
    BY <1>2, <2>3, <2>5, <2>6 DEF Lasting
  <2>8. T!SkipAll(T!Top) = "none"
    BY <1>2 DEF T!LeftOut
  <2>9. c = (T!Top.failed \/ b) /\ sum'.failures = sum.failures + (IF b THEN 1 ELSE 0)
    <3>1. c = (T!Top.failed \/ b)
      BY <2>1, <2>2
    <3>2. QED
      BY <2>1, <2>2, <3>1
  <2>10. QED
    BY <1>2, <2>1, <2>7, <2>8, <2>9, FailuresAdvanced
<1>5. QED
  BY <1>3, <1>4

(* A frame that fails as it is entered. *)
LEMMA FrameFailed ==
  ASSUME NEW s, NEW m, NEW f, f = T!Frame(s, m)
  PROVE  /\ f.failed \in BOOLEAN /\ f.failed => T!SkipAll(f) = "none" /\ T!ForbiddenOnly(s)
         /\ T!SkipAll(f) = IF m # "none" THEN m ELSE T!OwnMode(s)
<1> DEFINE b == [suite |-> s, mode |-> m, next |-> 1, step |-> "tasks", calls |-> 0,
                 hook |-> m = "hook", failed |-> FALSE]
           d == T!SkipAll(b) = "none" /\ T!ForbiddenOnly(s)
           h == [b EXCEPT !.hook = @ \/ d, !.failed = d, !.step = IF T!Quiet(b) THEN "tasks" ELSE "beforeAll"]
<1>1. f = h
  BY DEF T!Frame
<1>2. h.suite = s /\ h.mode = m /\ b.suite = s /\ b.mode = m
  OBVIOUS
<1>3. T!SkipAll(h) = T!SkipAll(b)
  <2> HIDE DEF h, b
  <2> QED BY <1>2, SameMode
<1>4. h.failed = d
  <2> HIDE DEF d
  <2> QED OBVIOUS
<1>5. d \in BOOLEAN /\ (d => T!SkipAll(b) = "none" /\ T!ForbiddenOnly(s))
  OBVIOUS
<1>6. T!SkipAll(h) = IF m # "none" THEN m ELSE T!OwnMode(s)
  <2> HIDE DEF h
  <2> QED BY <1>2 DEF T!SkipAll
<1> HIDE DEF d, h, b
<1>7. h.failed \in BOOLEAN /\ (h.failed => T!SkipAll(h) = "none" /\ T!ForbiddenOnly(s))
  BY <1>3, <1>4, <1>5
<1>8. QED
  BY <1>1, <1>6, <1>7

(* A suite without tasks fails, ... *)
LEMMA FailuresEnterEmpty ==
  ASSUME Types, TallyTypes, WalkInv, FailuresInv, NEW s \in Suites \ {Root}, Here(s),
         UNCHANGED <<decl, progress, hooked>>, ~T!Top.hook, T!SkipAll(T!Top) = "none",
         stack' = T!WithTop([T!Advanced EXCEPT !.failed = TRUE]), sum' = T!Failure(1),
         told' = [told EXCEPT ![s] = "fail"]
  PROVE  FailuresInv'
<1>1. PICK b \in BOOLEAN, c \in BOOLEAN : b = TRUE /\ c = TRUE
  OBVIOUS
<1>2. sum' = T!Failure(IF b THEN 1 ELSE 0)
  BY <1>1
<1>3. /\ sum'.failures = sum.failures + (IF b THEN 1 ELSE 0)
      /\ sum'.failed = sum.failed /\ sum'.noSuite = sum.noSuite
  BY <1>2, FailureIs DEF TallyTypes
<1>4. told'[s] = "fail" /\ \A r \in Suites \ {Root} : told[r] = "fail" => told'[r] = "fail"
  BY DEF Types
<1>5. Lasting'
  BY <1>4 DEF Lasting
<1>6. c = (T!Top.failed \/ b) /\ (Lasting' => Lasting \/ b)
  BY <1>1
<1>7. stack' = T!WithTop([T!Advanced EXCEPT !.failed = c])
  BY <1>1
<1>8. QED
  BY <1>3, <1>5, <1>6, <1>7, FailuresAdvanced

(* ... and so does one that is entered with a forbidden .only. *)
LEMMA FailuresPushed ==
  ASSUME Types, TallyTypes, WalkInv, FailuresInv, NEW s \in Suites \ {Root}, Here(s),
         UNCHANGED <<decl, progress, hooked, told>>, NEW m \in {"none", "skip", "todo", "hook"},
         NEW f, f = T!Frame(s, m), stack' = Append(T!WithTop(T!Advanced), f),
         sum' = T!Failure(IF f.failed THEN 1 ELSE 0)
  PROVE  FailuresInv'
<1>1. /\ stack # <<>> /\ progress = "run" /\ T!Top \in Frames
      /\ T!Advanced \in Frames /\ T!Advanced.suite = T!Top.suite /\ T!Advanced.mode = T!Top.mode
  BY AtTask
<1>2. PICK t \in Frames, g \in Frames : t = T!Top /\ g = T!Advanced
  BY <1>1
<1>3. g.failed = t.failed /\ g.suite = t.suite /\ g.mode = t.mode
  <2>1. g.failed = t.failed
    BY <1>2 DEF T!Advanced, Frames
  <2>2. QED
    BY <1>1, <1>2, <2>1
<1>4. f \in Frames
  <2>1. decl \in Decls
    BY DEF Types
  <2>2. QED
    BY <2>1, FrameFacts
<1>5. PICK n \in Nat \ {0} : n = Len(stack) /\ t = stack[n] /\ DOMAIN stack = 1 .. n
  BY <1>1, <1>2, StackTop
<1>6. /\ DOMAIN stack' = 1 .. n + 1 /\ \A i \in 1 .. n - 1 : stack'[i] = stack[i]
      /\ stack'[n] = g /\ stack'[n + 1] = f
  <2>1. LET pushed == Append(T!WithTop(g), f)
        IN /\ pushed \in Seq(Frames) /\ Len(pushed) = Len(stack) + 1 /\ pushed # <<>>
           /\ DOMAIN pushed = 1 .. Len(stack) + 1
           /\ \A i \in 1 .. Len(stack) - 1 : pushed[i] = stack[i]
           /\ pushed[Len(stack)] = g /\ pushed[Len(stack) + 1] = f
    BY <1>1, <1>4, StackPushed
  <2>2. stack' = Append(T!WithTop(g), f)
    BY <1>2
  <2>3. QED
    BY <1>5, <2>1, <2>2
<1>7. PICK b \in BOOLEAN : b = f.failed
  BY <1>4 DEF Frames
<1>8. /\ sum'.failures = sum.failures + (IF b THEN 1 ELSE 0)
      /\ sum'.failed = sum.failed /\ sum'.noSuite = sum.noSuite
  <2>1. sum' = T!Failure(IF b THEN 1 ELSE 0)
    BY <1>7
  <2>2. QED
    BY <2>1, FailureIs DEF TallyTypes
<1>9. Lasting' <=> Lasting
  BY <1>8 DEF Lasting, Calls, T!NoCalls
<1>10. /\ \A i \in 1 .. n + 1 : i \in 1 .. n - 1 \/ i = n \/ i = n + 1
       /\ \A i \in 1 .. n : i \in 1 .. n + 1 /\ (i \in 1 .. n - 1 \/ i = n)
       /\ n + 1 \in 1 .. n + 1 /\ n + 1 > 1 /\ n \in 1 .. n /\ \A i \in 1 .. n - 1 : i \in 1 .. n
  BY <1>5
<1>11. ASSUME NEW i \in 1 .. n + 1, stack'[i].failed
       PROVE  T!SkipAll(stack[i])' = "none" /\ (b \/ \E j \in DOMAIN stack : stack[j].failed)
  <2>1. PICK c : c = stack'[i]
    OBVIOUS
  <2>2. T!SkipAll(stack[i])' = T!SkipAll(c)' /\ T!SkipAll(c)' = T!SkipAll(c)
    BY <2>1, DeclStable
  <2>3. CASE i = n + 1
    <3>1. c = f
      BY <1>6, <2>1, <2>3
    <3>2. T!SkipAll(c) = "none" /\ b
      BY <1>7, <1>11, <2>1, <3>1, FrameFailed
    <3>3. QED
      BY <2>2, <3>2
  <2>4. CASE i \in 1 .. n
    <3>1. PICK e : e = stack[i]
      OBVIOUS
    <3>2. c.suite = e.suite /\ c.mode = e.mode /\ c.failed = e.failed
      BY <1>3, <1>5, <1>6, <1>10, <2>1, <2>4, <3>1
    <3>3. T!SkipAll(c) = T!SkipAll(e)
      BY <3>2, SameMode
    <3>4. e.failed
      BY <1>11, <2>1, <3>2
    <3>5. T!SkipAll(e) = "none"
      BY <1>5, <2>4, <3>1, <3>4 DEF FailuresInv
    <3>6. QED
      BY <1>5, <2>2, <2>4, <3>1, <3>3, <3>4, <3>5
  <2>5. QED
    BY <1>10, <2>3, <2>4
<1>12. \A i \in DOMAIN stack : i > 1 /\ stack[i].failed => \E j \in DOMAIN stack' : j > 1 /\ stack'[j].failed
  <2>1. \A i \in 1 .. n : stack[i].failed => stack'[i].failed
    BY <1>3, <1>5, <1>6, <1>10
  <2>2. QED
    BY <1>5, <1>6, <1>10, <2>1
<1>13. b => \E j \in DOMAIN stack' : j > 1 /\ stack'[j].failed
  BY <1>6, <1>7, <1>10
<1>14. sum.failures \in Nat
  BY DEF TallyTypes, Tallies
<1>15. ~sum.noSuite
  BY <1>1 DEF FailuresInv
<1>16. \A i \in DOMAIN stack' :
         stack'[i].failed => T!SkipAll(stack[i])' = "none" /\ (b \/ \E j \in DOMAIN stack : stack[j].failed)
  BY <1>6, <1>11
<1>17. QED
  BY <1>1, <1>8, <1>9, <1>12, <1>13, <1>14, <1>15, <1>16, FailuresAre

(* A suite is entered. *)
LEMMA FailuresEnter ==
  ASSUME Types, TallyTypes, WalkInv, FailuresInv, NEW s \in Suites \ {Root}, T!EnterSuite(s)
  PROVE  FailuresInv'
<1>1. Here(s) /\ UNCHANGED <<decl, progress, hooked>>
  BY DEF T!EnterSuite, T!TaskIs, T!AtTasks, Here
<1>2. PICK t \in Frames : t = T!Top
  BY <1>1, AtTask
<1>3. PICK m \in {"none", "skip", "todo", "hook"} : m = IF t.hook THEN "hook" ELSE T!SkipAll(t)
  BY <1>2 DEF T!SkipAll, T!OwnMode, Frames
<1>4. PICK f : f = T!Frame(s, m)
  OBVIOUS
<1>5. IF T!tasks[s] = <<>> /\ T!SkipAll(f) = "none"
        THEN /\ stack' = T!WithTop([T!Advanced EXCEPT !.failed = TRUE])
             /\ sum' = T!Failure(1)
             /\ told' = [told EXCEPT ![s] = "fail"]
        ELSE /\ stack' = Append(T!WithTop(T!Advanced), f)
             /\ sum' = T!Failure(IF f.failed THEN 1 ELSE 0)
             /\ UNCHANGED told
  BY <1>2, <1>3, <1>4 DEF T!EnterSuite
<1>6. CASE T!tasks[s] = <<>> /\ T!SkipAll(f) = "none"
  <2>1. m = "none"
    BY <1>3, <1>4, <1>6, FrameFailed
  <2>2. ~T!Top.hook /\ T!SkipAll(T!Top) = "none"
    BY <1>2, <1>3, <2>1
  <2>3. QED
    BY <1>1, <1>5, <1>6, <2>2, FailuresEnterEmpty
<1>7. CASE ~(T!tasks[s] = <<>> /\ T!SkipAll(f) = "none")
  BY <1>1, <1>3, <1>4, <1>5, <1>7, FailuresPushed
<1>8. QED
  BY <1>6, <1>7

(* A suite that is left fails the one around it, and is told as failed. *)
LEMMA FailuresLeave ==
  ASSUME Types, TallyTypes, WalkInv, FailuresInv, T!Leave
  PROVE  FailuresInv'
<1>1. stack # <<>> /\ progress = "run" /\ UNCHANGED <<decl, sum, hooked>>
  BY DEF T!Leave, T!TasksDone, T!AtTasks, WalkInv, NestInv
<1>2. PICK n \in Nat \ {0}, f \in Frames : n = Len(stack) /\ f = T!Top /\ f = stack[n] /\ DOMAIN stack = 1 .. n
  BY <1>1, StackTop
<1>3. PICK b \in BOOLEAN : b = FALSE
  OBVIOUS
<1>4. sum'.failures = sum.failures + (IF b THEN 1 ELSE 0) /\ sum.failures \in Nat /\ ~sum.noSuite
  <2>1. sum.failures \in Nat
    BY DEF TallyTypes, Tallies
  <2>2. QED
    BY <1>1, <1>3, <2>1 DEF FailuresInv
<1>5. CASE n = 1
  <2>1. stack' = <<>> /\ progress' = "ran" /\ UNCHANGED told
    BY <1>2, <1>5 DEF T!Leave
  <2>2. DOMAIN stack' = {} /\ progress' \notin {"PASS", "FAIL"} /\ progress' \in {"ran", "ERROR"}
    BY <2>1
  <2>3. Lasting' <=> Lasting
    BY <1>1, <2>1 DEF Lasting, Calls, T!NoCalls
  <2>4. \A i \in DOMAIN stack : ~(i > 1)
    BY <1>2, <1>5
  <2>5. QED
    BY <1>1, <1>3, <1>4, <2>2, <2>3, <2>4, FailuresAre
<1>6. CASE n # 1
  <2>1. n > 1 /\ n - 1 \in 1 .. n /\ \A i \in 1 .. n : i \in 1 .. n - 1 \/ i = n
    BY <1>2, <1>6
  <2>2. /\ DOMAIN stack' = 1 .. n - 1
        /\ \A i \in 1 .. n - 1 :
             /\ stack'[i].suite = stack[i].suite /\ stack'[i].mode = stack[i].mode
             /\ stack'[i].failed <=> stack[i].failed \/ (i = n - 1 /\ f.failed)
    BY <1>1, <1>2, <2>1, StackLeft
  <2>3. PICK x \in Suites \ {Root} : x = f.suite
    <3>1. stack[1].suite = Root /\ 1 \in 1 .. n
      <4>1. 1 \in 1 .. n
        BY <1>2, <2>1
      <4>2. Chained(1)
        BY <1>2, <4>1 DEF WalkInv, NestInv
      <4>3. QED
        BY <4>1, <4>2 DEF Chained
    <3>2. stack[n].suite # Root
      BY <1>2, <2>1, <3>1 DEF WalkInv, VisitInv, Distinct
    <3>3. QED
      BY <1>2, <3>2 DEF Frames
  <2>4. PICK v : v = IF T!SkipAll(f) = "todo" THEN "todo" ELSE IF f.failed THEN "fail"
                     ELSE IF T!SkipAll(f) # "none" \/ ~T!Runnable(x) THEN "skip" ELSE "pass"
    OBVIOUS
  <2>5. told' = [told EXCEPT ![x] = v] /\ UNCHANGED progress
    BY <1>2, <1>6, <2>3, <2>4 DEF T!Leave
  <2>6. told'[x] = v /\ \A r \in Suites \ {Root} : r # x => told'[r] = told[r]
    BY <2>5 DEF Types
  <2>7. told[x] = "none"
    <3>1. OnStack(x)
      BY <1>2, <2>1, <2>3 DEF OnStack
    <3>2. ~Gone(x)
      BY <2>3, <3>1 DEF WalkInv, VisitInv, WholeSuites
    <3>3. QED
      BY <2>3, <3>2 DEF Gone
  <2>8. f.failed => T!SkipAll(f) = "none" /\ v = "fail" /\ f.mode = "none"
    <3>1. f.failed => T!SkipAll(f) = "none"
      BY <1>2, <2>1 DEF FailuresInv
    <3>2. T!SkipAll(f) = "none" => f.mode = "none"
      BY DEF T!SkipAll
    <3>3. QED
      BY <2>4, <3>1, <3>2
  <2>9. v = "fail" => f.failed
    BY <2>4
  <2>10. sum'.failed = sum.failed
    BY <1>1
  <2>11. (Lasting => Lasting') /\ (Lasting' => Lasting \/ f.failed) /\ (f.failed => Lasting')
    <3>1. \A r \in Suites \ {Root} : told[r] = "fail" => told'[r] = "fail"
      BY <2>6, <2>7
    <3>2. \A r \in Suites \ {Root} : told'[r] = "fail" => told[r] = "fail" \/ f.failed
      BY <2>6, <2>9
    <3>3. f.failed => told'[x] = "fail"
      BY <2>6, <2>8
    <3>4. (\E s \in Suites, w \in Calls : ~T!Clean(hooked[s][w]))' <=> \E s \in Suites, w \in Calls : ~T!Clean(hooked[s][w])
      BY <1>1 DEF Calls, T!NoCalls
    <3>5. QED
      BY <2>10, <3>1, <3>2, <3>3, <3>4 DEF Lasting
  <2>12. ASSUME NEW i \in 1 .. n - 1, stack'[i].failed
         PROVE  T!SkipAll(stack[i])' = "none" /\ \E j \in DOMAIN stack : stack[j].failed
    <3>1. PICK c, e : c = stack'[i] /\ e = stack[i]
      OBVIOUS
    <3>2. T!SkipAll(stack[i])' = T!SkipAll(c)' /\ T!SkipAll(c)' = T!SkipAll(c)
      BY <1>1, <3>1, DeclStable
    <3>3. T!SkipAll(c) = T!SkipAll(e)
      <4>1. c.suite = e.suite /\ c.mode = e.mode
        BY <2>2, <3>1
      <4>2. QED
        BY <4>1, SameMode
    <3>4. i \in 1 .. n
      BY <1>2
    <3>5. CASE e.failed
      <4>1. T!SkipAll(e) = "none"
        BY <1>2, <3>1, <3>4, <3>5 DEF FailuresInv
      <4>2. QED
        BY <1>2, <3>1, <3>2, <3>3, <3>4, <3>5, <4>1
    <3>6. CASE f.failed
      <4>1. FrameModes(n) /\ f.mode = "none"
        BY <1>1, <1>2, <2>8, <3>6, TopFacts
      <4>2. T!SkipAll(e) = "none"
        BY <1>2, <3>1, <4>1 DEF FrameModes
      <4>3. QED
        BY <1>2, <2>1, <3>2, <3>3, <3>6, <4>2
    <3>7. QED
      BY <2>2, <2>12, <3>1, <3>5, <3>6
  <2>13. \A i \in DOMAIN stack :
           i > 1 /\ stack[i].failed => Lasting' \/ \E j \in DOMAIN stack' : j > 1 /\ stack'[j].failed
    BY <1>2, <2>1, <2>2, <2>11
  <2>14. f.failed => \E j \in DOMAIN stack : stack[j].failed
    BY <1>2, <2>1
  <2>15. progress' \notin {"PASS", "FAIL"}
    BY <1>1, <2>5
  <2>16. \A i \in DOMAIN stack' :
           stack'[i].failed => T!SkipAll(stack[i])' = "none" /\ (b \/ \E j \in DOMAIN stack : stack[j].failed)
    BY <2>2, <2>12
  <2>17. ~sum'.noSuite /\ ~b
    BY <1>1, <1>3, <1>4
  <2>18. QED
    BY <1>4, <2>11, <2>13, <2>14, <2>15, <2>16, <2>17, FailuresAre
<1>7. QED
  BY <1>5, <1>6

(* The run begins, or fails for want of tests. *)
LEMMA FailuresBegin ==
  ASSUME Types, TallyTypes, WalkInv, FailuresInv, T!Begin
  PROVE  FailuresInv'
<1>1. UNCHANGED <<decl, hooked, told>> /\ progress = "start"
  BY DEF T!Begin
<1>2. stack = <<>> /\ DOMAIN stack = {}
  BY <1>1 DEF WalkInv, NestInv
<1>3. PICK m \in Tallies : m = sum
  BY DEF TallyTypes
<1>4. m.failures \in Nat /\ ~m.noSuite
  BY <1>1, <1>3 DEF FailuresInv, Tallies
<1>5. CASE UNCHANGED stack
  <2>1. sum' = [m EXCEPT !.failures = m.failures + 1, !.noSuite = TRUE] /\ progress' = "ran"
    <3>1. PICK e : e = T!Failure(1)
      OBVIOUS
    <3>2. e = [m EXCEPT !.failures = m.failures + 1] /\ sum' = [e EXCEPT !.noSuite = TRUE] /\ progress' = "ran"
      BY <1>2, <1>3, <1>5, <3>1 DEF T!Failure, T!Begin
    <3>3. QED
      BY <1>3, <3>2 DEF Tallies
  <2>2. sum'.failures = m.failures + 1 /\ sum'.noSuite = TRUE /\ sum'.failed = m.failed
    BY <1>3, <2>1 DEF Tallies
  <2>3. Lasting' <=> Lasting
    BY <1>1, <1>3, <2>2 DEF Lasting, Calls, T!NoCalls
  <2>4. DOMAIN stack' = {}
    BY <1>2, <1>5
  <2>5. PICK b \in BOOLEAN : b = TRUE
    OBVIOUS
  <2>6. sum'.failures = sum.failures + (IF b THEN 1 ELSE 0)
    BY <1>3, <2>2, <2>5
  <2>7. progress' \in {"ran", "ERROR"} /\ progress' \notin {"PASS", "FAIL"}
    BY <2>1
  <2>8. sum.failures \in Nat
    BY <1>3, <1>4
  <2>9. QED
    BY <1>2, <2>2, <2>3, <2>4, <2>6, <2>7, <2>8, FailuresAre
<1>6. CASE stack' = <<T!Frame(Root, "none")>> /\ UNCHANGED sum /\ progress' = "run"
  <2>1. PICK f : f = T!Frame(Root, "none")
    OBVIOUS
  <2>2. ~f.failed
    <3>1. ~T!ForbiddenOnly(Root)
      BY DEF T!ForbiddenOnly
    <3>2. QED
      BY <2>1, <3>1, FrameFailed
  <2>3. DOMAIN stack' = {1} /\ stack'[1] = f
    BY <1>6, <2>1
  <2>4. Lasting' <=> Lasting
    BY <1>1, <1>6 DEF Lasting, Calls, T!NoCalls
  <2>5. PICK b \in BOOLEAN : b = FALSE
    OBVIOUS
  <2>6. sum'.failures = sum.failures + (IF b THEN 1 ELSE 0) /\ ~sum'.noSuite /\ ~b
    BY <1>3, <1>4, <1>6, <2>5
  <2>7. \A i \in DOMAIN stack' : ~stack'[i].failed
    BY <2>2, <2>3
  <2>8. sum.failures \in Nat
    BY <1>3, <1>4
  <2>9. progress' \notin {"PASS", "FAIL"}
    BY <1>6
  <2>10. QED
    BY <1>2, <1>3, <1>4, <2>4, <2>6, <2>7, <2>8, <2>9, FailuresAre
<1>7. QED
  BY <1>5, <1>6 DEF T!Begin

-----------------------------------------------------------------------------
(* Together, of what is told                                               *)

(* The counts when a failure is counted, ... *)
LEMMA CountedAtFailure ==
  ASSUME TallyTypes, CountsInv, NEW b \in BOOLEAN, sum' = T!Failure(IF b THEN 1 ELSE 0),
         UNCHANGED <<records, attempts>>
  PROVE  TallyTypes' /\ CountsInv'
<1>1. /\ sum' \in Tallies /\ sum'.passed = sum.passed /\ sum'.failed = sum.failed
      /\ sum'.skipped = sum.skipped
  BY FailureIs DEF TallyTypes
<1>2. TallyTypes'
  BY <1>1 DEF TallyTypes, Tallies
<1>3. QED
  BY <1>1, <1>2, CountsStay

(* ... when nothing is, ... *)
LEMMA TalliesStill ==
  ASSUME TallyTypes, CountsInv, UNCHANGED <<sum, records, attempts>>
  PROVE  TallyTypes' /\ CountsInv'
<1>1. TallyTypes'
  BY DEF TallyTypes, Tallies
<1>2. CountsInv'
  BY CountsStay
<1>3. QED
  BY <1>1, <1>2

(* ... for a test that does not run ... *)
LEMMA CountedNotTried ==
  ASSUME Types, TallyTypes, CountsInv, NEW t \in Tests, T!NotRun(t) \/ T!Forbidden(t)
  PROVE  TallyTypes' /\ CountsInv'
<1>1. PICK m \in Tallies : m = sum
  BY DEF TallyTypes
<1>2. m.passed \in Nat /\ m.failed \in Nat /\ m.skipped \in Nat
  BY <1>1 DEF Tallies
<1>3. UNCHANGED attempts
  BY DEF T!NotRun, T!Forbidden
<1>4. \E v \in {"failed", "skipped", "todo", "pending"} :
        /\ T!Told(t, v) /\ sum' \in Tallies /\ sum'.passed = m.passed
        /\ sum'.failed = m.failed + (IF v = "failed" THEN 1 ELSE 0)
        /\ sum'.skipped = m.skipped + (IF v \in {"skipped", "todo"} THEN 1 ELSE 0)
  <2>1. CASE T!Told(t, "pending") /\ UNCHANGED sum
    <3>1. PICK v \in {"failed", "skipped", "todo", "pending"} : v = "pending"
      OBVIOUS
    <3>2. m.failed = m.failed + (IF v = "failed" THEN 1 ELSE 0)
          /\ m.skipped = m.skipped + (IF v \in {"skipped", "todo"} THEN 1 ELSE 0)
      BY <1>2, <3>1
    <3>3. QED
      BY <1>1, <2>1, <3>1, <3>2
  <2>2. CASE /\ T!Told(t, IF T!Todo(t) THEN "todo" ELSE "skipped")
             /\ sum' = [sum EXCEPT !.skipped = @ + 1]
    <3>1. PICK v \in {"failed", "skipped", "todo", "pending"} : v = IF T!Todo(t) THEN "todo" ELSE "skipped"
      OBVIOUS
    <3>2. m.failed = m.failed + (IF v = "failed" THEN 1 ELSE 0)
          /\ m.skipped + 1 = m.skipped + (IF v \in {"skipped", "todo"} THEN 1 ELSE 0)
      BY <1>2, <3>1
    <3>3. sum' \in Tallies /\ sum'.passed = m.passed /\ sum'.failed = m.failed
          /\ sum'.skipped = m.skipped + 1
      BY <1>1, <2>2 DEF Tallies
    <3>4. QED
      BY <2>2, <3>1, <3>2, <3>3
  <2>3. CASE T!Told(t, "failed") /\ sum' = [T!Failure(1) EXCEPT !.failed = @ + 1]
    <3>1. PICK v \in {"failed", "skipped", "todo", "pending"} : v = "failed"
      OBVIOUS
    <3>2. m.failed + 1 = m.failed + (IF v = "failed" THEN 1 ELSE 0)
          /\ m.skipped = m.skipped + (IF v \in {"skipped", "todo"} THEN 1 ELSE 0)
      BY <1>2, <3>1
    <3>3. PICK e : e = T!Failure(1)
      OBVIOUS
    <3>4. e = [m EXCEPT !.failures = m.failures + 1] /\ sum' = [e EXCEPT !.failed = e.failed + 1]
      BY <1>1, <2>3, <3>3 DEF T!Failure
    <3>5. e \in Tallies /\ e.passed = m.passed /\ e.failed = m.failed /\ e.skipped = m.skipped
      BY <1>1, <3>4 DEF Tallies
    <3>6. sum' \in Tallies /\ sum'.passed = m.passed /\ sum'.failed = m.failed + 1
          /\ sum'.skipped = m.skipped
      <4>1. PICK f \in Nat : f = e.failed + 1
        BY <3>5 DEF Tallies
      <4>2. sum' = [e EXCEPT !.failed = f]
        BY <3>4, <4>1
      <4>3. QED
        BY <3>5, <4>1, <4>2 DEF Tallies
    <3>7. QED
      BY <2>3, <3>1, <3>2, <3>6
  <2>4. QED
    BY <2>1, <2>2, <2>3 DEF T!NotRun, T!Forbidden
<1>5. PICK v \in {"failed", "skipped", "todo", "pending"} :
        /\ T!Told(t, v) /\ sum' \in Tallies /\ sum'.passed = m.passed
        /\ sum'.failed = m.failed + (IF v = "failed" THEN 1 ELSE 0)
        /\ sum'.skipped = m.skipped + (IF v \in {"skipped", "todo"} THEN 1 ELSE 0)
  BY <1>4
<1>6. TallyTypes'
  BY <1>3, <1>5 DEF TallyTypes, Tallies
<1>7. m.passed = m.passed + (IF v = "passed" THEN 1 ELSE 0)
  BY <1>2
<1>8. CountsInv'
  BY <1>1, <1>5, <1>7, CountsMore
<1>9. QED
  BY <1>6, <1>8

(* ... and for one that did. *)
LEMMA CountedAtEnd ==
  ASSUME HooksInv, TallyTypes, CountsInv, T!EndAttempt
  PROVE  TallyTypes' /\ CountsInv'
<1>1. Types /\ att # T!NoAttempt
  BY DEF HooksInv, T!EndAttempt, T!At
<1>2. PICK c \in AttemptStates, d \in [Kinds -> Seq(Steps)] : c = att /\ d = did
  BY <1>1 DEF Types
<1>3. PICK t \in Tests : t = c.test
  BY <1>2 DEF AttemptStates
<1>4. attempts' \in [Tests -> Seq({"skip", "clean", "error"})]
  <2>1. PICK e \in {"skip", "clean", "error"} : e = T!CameTo(d)
    BY CameToIs
  <2>2. PICK a : a = T!Flipped(c)
    OBVIOUS
  <2>3. a.test = t
    <3>1. a = c \/ a = [c EXCEPT !.ok = TRUE, !.errors = c.mark]
          \/ a = [c EXCEPT !.ok = FALSE, !.errors = c.errors + 1]
      BY <2>2 DEF T!Flipped
    <3>2. QED
      BY <1>2, <1>3, <3>1 DEF AttemptStates
  <2>4. attempts' = [attempts EXCEPT ![t] = Append(attempts[t], e)]
    BY <1>2, <2>1, <2>2, <2>3 DEF T!EndAttempt
  <2>5. PICK S : S = {"skip", "clean", "error"}
    OBVIOUS
  <2>6. PICK z : z = Append(attempts[t], e)
    OBVIOUS
  <2>7. z \in Seq(S)
    <3>1. attempts[t] \in Seq(S) /\ e \in S
      BY <2>5 DEF TallyTypes
    <3>2. QED
      BY <2>6, <3>1
  <2>8. QED
    BY <2>4, <2>5, <2>6, <2>7 DEF TallyTypes
<1>5. CASE UNCHANGED <<stack, sum, records>>
  <2>1. CountsInv'
    BY <1>5, CountsStay
  <2>2. QED
    BY <1>4, <1>5, <2>1 DEF TallyTypes, Tallies
<1>6. CASE ~UNCHANGED <<stack, sum, records>>
  <2>1. PICK v \in {"passed", "failed", "skipped"} :
          /\ T!Told(t, v) /\ sum' \in Tallies
          /\ sum'.passed = sum.passed + (IF v = "passed" THEN 1 ELSE 0)
          /\ sum'.failed = sum.failed + (IF v = "failed" THEN 1 ELSE 0)
          /\ sum'.skipped = sum.skipped + (IF v = "skipped" THEN 1 ELSE 0)
    BY <1>2, <1>3, <1>6, EndsHow
  <2>2. v = "skipped" <=> v \in {"skipped", "todo"}
    OBVIOUS
  <2>3. v \in {"passed", "failed", "skipped", "todo", "pending"}
    OBVIOUS
  <2>4. sum'.skipped = sum.skipped + (IF v \in {"skipped", "todo"} THEN 1 ELSE 0)
    BY <2>1, <2>2
  <2>5. CountsInv'
    BY <1>1, <2>1, <2>3, <2>4, CountsMore
  <2>6. QED
    BY <1>4, <2>1, <2>5 DEF TallyTypes, Tallies
<1>7. QED
  BY <1>5, <1>6

(* Records stay when nothing they are made from changes. *)
LEMMA RecordsStill ==
  ASSUME Types, TallyTypes, RecordsInv, UNCHANGED <<decl, records, attempts, hooked>>
  PROVE  RecordsInv'
BY RecordsStay

(* The invariant holds at every step through the tree, ... *)
LEMMA ToldWalk ==
  ASSUME HooksInv, HooksInv', ToldInv,
         \/ T!Begin \/ T!Leave \/ \E s \in Suites \ {Root} : T!EnterSuite(s)
         \/ \E t \in Tests : T!NotRun(t) \/ T!Forbidden(t)
         \/ \E o \in T!Outcomes : T!BeforeAll(o) \/ T!AfterAll(o)
  PROVE  ToldInv'
<1>1. /\ Types /\ WalkInv /\ WalkInv' /\ AttInv
      /\ TallyTypes /\ ModesInv /\ TriesInv /\ RecordsInv /\ CountsInv /\ FailuresInv
  BY DEF HooksInv, ToldInv
<1>2. CASE T!Begin
  <2>1. UNCHANGED <<decl, att, did, records, attempts, hooked>>
    BY <1>2 DEF T!Begin
  <2>2. TallyTypes' /\ CountsInv'
    <3>1. CASE UNCHANGED sum
      BY <1>1, <2>1, <3>1, TalliesStill
    <3>2. CASE sum' = [T!Failure(1) EXCEPT !.noSuite = TRUE]
      <4>1. PICK m \in Tallies : m = sum
        BY <1>1 DEF TallyTypes
      <4>2. PICK e : e = T!Failure(1)
        OBVIOUS
      <4>3. e = [m EXCEPT !.failures = m.failures + 1] /\ sum' = [e EXCEPT !.noSuite = TRUE]
        BY <3>2, <4>1, <4>2 DEF T!Failure
      <4>4. /\ sum' \in Tallies /\ sum'.passed = m.passed /\ sum'.failed = m.failed
            /\ sum'.skipped = m.skipped
        <5>1. PICK k \in Nat : k = m.failures + 1
          BY <4>1 DEF Tallies
        <5>2. sum' = [m EXCEPT !.failures = k, !.noSuite = TRUE]
          BY <4>1, <4>3, <5>1 DEF Tallies
        <5>3. QED
          BY <4>1, <5>1, <5>2 DEF Tallies
      <4>5. TallyTypes'
        BY <1>1, <2>1, <4>4 DEF TallyTypes, Tallies
      <4>6. QED
        BY <1>1, <2>1, <4>1, <4>4, <4>5, CountsStay
    <3>3. QED
      BY <1>2, <3>1, <3>2 DEF T!Begin
  <2>3. TriesInv'
    BY <1>1, <2>1, TriesStill DEF Recorded
  <2>4. QED
    BY <1>1, <1>2, <2>1, <2>2, <2>3, ModesBegun, RecordsStill, FailuresBegin DEF ToldInv
<1>3. CASE T!Leave
  <2>1. UNCHANGED <<decl, att, did, sum, records, attempts, hooked>>
    BY <1>3 DEF T!Leave
  <2>2. TriesInv'
    BY <1>1, <2>1, TriesStill DEF Recorded
  <2>3. QED
    BY <1>1, <1>3, <2>1, <2>2, TalliesStill, ModesLeft, RecordsStill, FailuresLeave DEF ToldInv
<1>4. ASSUME NEW s \in Suites \ {Root}, T!EnterSuite(s) PROVE ToldInv'
  <2>1. UNCHANGED <<decl, att, did, records, attempts, hooked>>
    BY <1>4 DEF T!EnterSuite
  <2>2. TriesInv'
    BY <1>1, <2>1, TriesStill DEF Recorded
  <2>3. Here(s)
    BY <1>4 DEF T!EnterSuite, T!TaskIs, T!AtTasks, Here
  <2>4. PICK t \in Frames : t = T!Top
    BY <1>1, <2>3, AtTask
  <2>5. PICK m \in {"none", "skip", "todo", "hook"} : m = IF t.hook THEN "hook" ELSE T!SkipAll(t)
    BY <2>4 DEF T!SkipAll, T!OwnMode, Frames
  <2>6. PICK f : f = T!Frame(s, m)
    OBVIOUS
  <2>7. IF T!tasks[s] = <<>> /\ T!SkipAll(f) = "none"
          THEN /\ stack' = T!WithTop([T!Advanced EXCEPT !.failed = TRUE])
               /\ sum' = T!Failure(1)
          ELSE /\ stack' = Append(T!WithTop(T!Advanced), f)
               /\ sum' = T!Failure(IF f.failed THEN 1 ELSE 0)
    BY <1>4, <2>4, <2>5, <2>6 DEF T!EnterSuite
  <2>8. PICK b \in BOOLEAN : b = ((T!tasks[s] = <<>> /\ T!SkipAll(f) = "none") \/ f.failed)
    OBVIOUS
  <2>9. TallyTypes' /\ CountsInv'
    <3>1. CASE b
      <4>1. sum' = T!Failure(1)
        BY <2>7, <2>8, <3>1
      <4>2. sum' = T!Failure(IF b THEN 1 ELSE 0)
        BY <3>1, <4>1
      <4>3. QED
        BY <1>1, <2>1, <4>2, CountedAtFailure
    <3>2. CASE ~b
      <4>1. sum' = T!Failure(0)
        BY <2>7, <2>8, <3>2
      <4>2. sum' = T!Failure(IF b THEN 1 ELSE 0)
        BY <3>2, <4>1
      <4>3. QED
        BY <1>1, <2>1, <4>2, CountedAtFailure
    <3>3. QED
      BY <3>1, <3>2
  <2>10. ModesInv'
    <3>1. CASE stack' = T!WithTop([T!Advanced EXCEPT !.failed = TRUE])
      BY <1>1, <2>1, <2>3, <3>1, ModesAdvanced
    <3>2. CASE stack' = Append(T!WithTop(T!Advanced), f)
      <4>1. stack' = Append(T!WithTop(T!Advanced), T!Frame(s, IF T!Top.hook THEN "hook" ELSE T!SkipAll(T!Top)))
        BY <2>4, <2>5, <2>6, <3>2
      <4>2. QED
        BY <1>1, <2>1, <2>3, <4>1, ModesPushed
    <3>3. QED
      BY <2>7, <3>1, <3>2
  <2>11. QED
    BY <1>1, <1>4, <2>1, <2>2, <2>9, <2>10, RecordsStill, FailuresEnter DEF ToldInv
<1>5. ASSUME NEW t \in Tests, T!NotRun(t) \/ T!Forbidden(t) PROVE ToldInv'
  <2>1. UNCHANGED <<decl, att, did, attempts, hooked>> /\ Here(t)
    BY <1>5 DEF T!NotRun, T!Forbidden, T!TaskIs, T!AtTasks, Here
  <2>2. \A y \in Tests : Recorded(y) => Recorded(y)'
    <3>1. PICK v \in {"failed", "skipped", "todo", "pending"} : T!Told(t, v)
      BY <1>5 DEF T!NotRun, T!Forbidden
    <3>2. [test |-> t, status |-> v] \in Records
      BY DEF Records
    <3>3. QED
      BY <1>1, <3>1, <3>2, NowRecorded
  <2>3. TriesInv'
    BY <1>1, <2>1, <2>2, TriesStill
  <2>4. ModesInv'
    <3>1. \/ stack' = T!WithTop(T!Advanced)
          \/ \E b \in BOOLEAN : stack' = T!WithTop([T!Advanced EXCEPT !.failed = b])
      BY <1>5 DEF T!NotRun, T!NextTask, T!Forbidden
    <3>2. QED
      BY <1>1, <2>1, <3>1, ModesAdvanced
  <2>5. FailuresInv'
    BY <1>1, <1>5, FailuresNotTried, FailuresForbidden
  <2>6. QED
    BY <1>1, <1>5, <2>3, <2>4, <2>5, CountedNotTried, RecordsNotTried DEF ToldInv
<1>6. ASSUME NEW o \in T!Outcomes, T!BeforeAll(o) \/ T!AfterAll(o) PROVE ToldInv'
  <2>1. UNCHANGED <<decl, att, did, records, attempts>> /\ sum' = T!Failure(IF o = "throw" THEN 1 ELSE 0)
    BY <1>6 DEF T!BeforeAll, T!AfterAll
  <2>2. TriesInv'
    BY <1>1, <2>1, TriesStill DEF Recorded
  <2>3. PICK b \in BOOLEAN : b = (o = "throw")
    OBVIOUS
  <2>4. sum' = T!Failure(IF b THEN 1 ELSE 0)
    BY <2>1, <2>3
  <2>5. TallyTypes' /\ CountsInv'
    BY <1>1, <2>1, <2>4, CountedAtFailure
  <2>6. CASE T!BeforeAll(o)
    BY <1>1, <2>2, <2>5, <2>6, ModesBeforeAll, RecordsBeforeAll, FailuresBeforeAll DEF ToldInv
  <2>7. CASE T!AfterAll(o)
    BY <1>1, <2>2, <2>5, <2>7, ModesAfterAll, RecordsAfterAll, FailuresAfterAll DEF ToldInv
  <2>8. QED
    BY <1>6, <2>6, <2>7
<1>7. QED
  BY <1>2, <1>3, <1>4, <1>5, <1>6

(* ... at every step of an attempt, ... *)
LEMMA ToldTried ==
  ASSUME HooksInv, HooksInv', ToldInv,
         \/ T!ZombieSkips \/ \E t \in Tests : T!StartTest(t)
         \/ \E o \in T!Outcomes : T!BeforeEach(o) \/ T!Body(o) \/ T!AfterEach(o) \/ T!Handler(o)
  PROVE  ToldInv'
<1>1. /\ Types /\ WalkInv /\ TallyTypes /\ ModesInv /\ TriesInv /\ RecordsInv /\ CountsInv /\ FailuresInv
  BY DEF HooksInv, ToldInv
<1>2. UNCHANGED <<decl, stack, sum, records, told, progress, hooked, attempts>>
  BY DEF T!StartTest, T!ZombieSkips, T!BeforeEach, T!Body, T!AfterEach, T!Handler,
     T!AttemptGoesOn
<1>3. TriesInv'
  BY TriesGoOn, TriesBegin, <1>1
<1>4. FailuresInv'
  BY <1>1, <1>2, FailuresStay
<1>5. QED
  BY <1>1, <1>2, <1>3, <1>4, TalliesStill, ModesStill, RecordsStill DEF ToldInv

(* ... at its end ... *)
LEMMA ToldEnded ==
  ASSUME HooksInv, HooksInv', ToldInv, T!EndAttempt
  PROVE  ToldInv'
<1>1. /\ Types /\ WalkInv /\ TallyTypes /\ ModesInv /\ TriesInv /\ RecordsInv /\ CountsInv /\ FailuresInv
  BY DEF HooksInv, ToldInv
<1>2. ModesInv'
  <2>1. PICK t : t = att.test
    OBVIOUS
  <2>2. Here(t) /\ UNCHANGED <<decl, hooked>>
    BY <1>1, <2>1, EndsHow
  <2>3. UNCHANGED stack \/ \E b \in BOOLEAN : stack' = T!WithTop([T!Advanced EXCEPT !.failed = b])
    BY <1>1, EndsHow
  <2>4. QED
    BY <1>1, <2>2, <2>3, ModesStill, ModesAdvanced
<1>3. QED
  BY <1>1, <1>2, TriesEnd, RecordsEnd, CountedAtEnd, FailuresEnd DEF ToldInv

(* ... and when the run hangs or is reported: ... *)
LEMMA ToldRests ==
  ASSUME HooksInv, ToldInv, T!Hang \/ T!Report \/ UNCHANGED T!vars
  PROVE  ToldInv'
<1>1. /\ Types /\ WalkInv /\ TallyTypes /\ ModesInv /\ TriesInv /\ RecordsInv /\ CountsInv /\ FailuresInv
  BY DEF HooksInv, ToldInv
<1>2. UNCHANGED <<decl, stack, att, sum, records, told, did, hooked, attempts>>
  BY DEF T!Hang, T!Report, T!vars
<1>3. TriesInv'
  BY <1>1, <1>2, TriesStill DEF Recorded
<1>4. FailuresInv'
  <2>1. CASE T!Report
    BY <1>1, <2>1, FailuresReport DEF WalkInv
  <2>2. CASE T!Hang \/ UNCHANGED T!vars
    BY <1>1, <1>2, <2>2, FailuresStay DEF T!Hang, T!vars
  <2>3. QED
    BY <2>1, <2>2
<1>5. QED
  BY <1>1, <1>2, <1>3, <1>4, TalliesStill, ModesStill, RecordsStill DEF ToldInv

(* ... at every step. *)
LEMMA ToldKept ==
  ASSUME HooksInv, HooksInv', ToldInv, [T!Next]_(T!vars)
  PROVE  ToldInv'
BY ToldWalk, ToldTried, ToldEnded, ToldRests DEF T!Next

(* ... and at the start. *)
LEMMA ToldAtStart ==
  ASSUME T!Init
  PROVE  ToldInv
<1>1. /\ stack = <<>> /\ att = T!NoAttempt /\ records = <<>> /\ progress = "start"
      /\ told = [s \in Suites \ {Root} |-> "none"] /\ hooked = [s \in Suites |-> T!NoCalls]
      /\ attempts = [t \in Tests |-> <<>>]
      /\ sum = [passed |-> 0, failed |-> 0, skipped |-> 0, failures |-> 0, noSuite |-> FALSE]
  BY DEF T!Init
<1>2. decl.retry \in {0, 1}
  <2>1. decl.retry \in 0 .. 1
    BY DEF T!Init
  <2>2. QED
    BY <2>1
<1>3. DOMAIN stack = {} /\ DOMAIN records = {} /\ T!Range(records) = {}
  BY <1>1 DEF T!Range
<1>4. TallyTypes
  <2>1. sum \in Tallies
    BY <1>1 DEF Tallies
  <2>2. PICK S : S = {"skip", "clean", "error"}
    OBVIOUS
  <2>3. <<>> \in Seq(S)
    OBVIOUS
  <2>4. attempts \in [Tests -> Seq(S)]
    BY <1>1, <2>3
  <2>5. QED
    BY <2>1, <2>2, <2>4 DEF TallyTypes
<1>5. ModesInv
  BY <1>3 DEF ModesInv
<1>6. TriesInv
  <2>1. ASSUME NEW t \in Tests PROVE Tries(t)
    <3>1. attempts[t] = <<>>
      BY <1>1
    <3>2. Len(attempts[t]) = 0
      BY <3>1
    <3>3. QED
      BY <1>2, <3>1, <3>2 DEF Tries
  <2>2. QED
    BY <1>1, <2>1 DEF TriesInv
<1>7. RecordsInv
  BY <1>3 DEF RecordsInv
<1>8. CountsInv
  <2>1. ASSUME NEW S PROVE T!CountOf(S) = 0
    <3>1. {i \in DOMAIN records : records[i].status \in S} = {}
      BY <1>3
    <3>2. QED
      BY <3>1, FS_EmptySet, SameCounting DEF T!CountOf
  <2>2. sum.passed = 0 /\ sum.failed = 0 /\ sum.skipped = 0
    BY <1>1
  <2>3. QED
    BY <2>1, <2>2 DEF CountsInv
<1>9. FailuresInv
  <2>1. sum.failed = 0 /\ sum.failures = 0 /\ sum.noSuite = FALSE
    BY <1>1
  <2>2. \A s \in Suites, w \in Calls : T!Clean(hooked[s][w])
    <3>1. \A s \in Suites, w \in Calls : hooked[s][w] = <<>>
      BY <1>1 DEF Calls, T!NoCalls
    <3>2. T!Clean(<<>>)
      BY DEF T!Clean, T!Range
    <3>3. QED
      BY <3>1, <3>2
  <2>3. \A s \in Suites \ {Root} : told[s] # "fail"
    BY <1>1
  <2>4. ~Lasting
    BY <2>1, <2>2, <2>3 DEF Lasting
  <2>5. QED
    BY <1>1, <1>3, <2>1, <2>4 DEF FailuresInv
<1>10. QED
  BY <1>4, <1>5, <1>6, <1>7, <1>8, <1>9 DEF ToldInv

-----------------------------------------------------------------------------
(* What each test is told as                                               *)

(* All that was collected is in the file's suite. *)
LEMMA RootAround ==
  ASSUME decl \in Decls, NEW t, T!Collected(t)
  PROVE  Root \in T!Range(T!Chain(t))
<1> DEFINE Y == {y \in T!Tasks : T!Collected(y) /\ Root \notin T!Range(T!Chain(y))}
<1>1. SUFFICES ASSUME Root \notin T!Range(T!Chain(t)) PROVE FALSE
  OBVIOUS
<1>2. t \in Y
  BY <1>1, TreeFacts
<1>3. Y \in SUBSET T!Tasks /\ Y # {} /\ \A y \in Y : T!Collected(y)
  BY <1>2
<1>4. PICK y \in Y : T!ParentOf(y) \notin Y
  <2> HIDE DEF Y
  <2>1. QED
    BY <1>3, Outermost
<1>5. PICK p \in Suites : p = T!ParentOf(y) /\ (p = Root \/ T!Collected(p))
  BY TreeFacts
<1>6. PICK c \in Seq(Suites) : c = T!Chain(p)
  <2>1. <<>> \in Seq(Suites)
    OBVIOUS
  <2>2. QED
    BY <1>5, <2>1, ChainStep
<1>7. T!Chain(y) = Append(c, p)
  BY <1>5, <1>6, ChainStep
<1>8. T!Range(T!Chain(y)) = T!Range(c) \union {p}
  BY <1>7, RangeAppend
<1>9. CASE p = Root
  BY <1>8, <1>9
<1>10. CASE p # Root
  <2>1. T!Collected(p) /\ p \in T!Tasks
    BY <1>5, <1>10, TreeFacts
  <2>2. Root \in T!Range(c)
    BY <1>4, <1>5, <1>6, <2>1
  <2>3. QED
    BY <1>8, <2>2
<1>11. QED
  BY <1>9, <1>10

(* When the file has passed or failed, what was collected is recorded. *)
LEMMA AllRecorded ==
  ASSUME Types, WalkInv, progress \in {"PASS", "FAIL"}, NEW t \in Tests
  PROVE  Recorded(t) <=> T!Collected(t)
<1>1. Root \in Suites /\ decl \in Decls
  BY TestRunFacts DEF Types
<1>2. Gone(Root)
  BY DEF Gone, WalkInv, NestInv
<1>3. \A x \in T!Children(Root) : Past(x)
  BY <1>1, <1>2 DEF WalkInv, VisitInv, WholeSuites
<1>4. T!Collected(t) => t \in T!Below(Root)
  BY <1>1, RootAround DEF T!Below
<1>5. QED
  BY <1>1, <1>3, <1>4, BelowPast, RecordedWithin DEF WalkInv

(* ... once. *)
LEMMA ToldOnce ==
  ASSUME RecordsInv, NEW t
  PROVE  Cardinality({i \in DOMAIN records : records[i].test = t}) = (IF Recorded(t) THEN 1 ELSE 0)
<1> DEFINE I == {i \in DOMAIN records : records[i].test = t}
<1>1. CASE Recorded(t)
  <2>1. PICK k \in DOMAIN records : records[k].test = t
    BY <1>1 DEF Recorded, T!Range
  <2>2. I = {k}
    BY <2>1 DEF RecordsInv
  <2>3. Cardinality({k}) = 1
    BY FS_Singleton
  <2>4. QED
    BY <1>1, <2>2, <2>3
<1>2. CASE ~Recorded(t)
  <2>1. I = {}
    BY <1>2 DEF Recorded, T!Range
  <2>2. Cardinality({}) = 0
    BY FS_EmptySet
  <2>3. QED
    BY <1>2, <2>1, <2>2
<1>3. QED
  BY <1>1, <1>2

(* ... and it passes when nothing has failed for good. *)
LEMMA PassMeans ==
  ASSUME Types, TallyTypes, WalkInv, FailuresInv, progress \in {"PASS", "FAIL"}
  PROVE  progress = "PASS" <=>
           /\ sum.failed = 0
           /\ \A s \in Suites, w \in DOMAIN T!NoCalls : T!Clean(hooked[s][w])
           /\ \A s \in Suites \ {Root} : T!Collected(s) => told[s] # "fail"
<1>1. DOMAIN stack = {}
  BY DEF WalkInv, NestInv
<1>2. sum.failed \in Nat /\ sum.failures \in Nat
  BY DEF TallyTypes, Tallies
<1>3. sum.failures > 0 <=> Lasting
  BY <1>1 DEF FailuresInv
<1>4. progress = "PASS" <=> sum.failed = 0 /\ sum.failures = 0
  BY DEF FailuresInv, T!Ok
<1>5. progress = "PASS" <=> ~Lasting
  <2>1. sum.failed > 0 => Lasting
    BY DEF Lasting
  <2>2. QED
    BY <1>2, <1>3, <1>4, <2>1
<1>6. \A s \in Suites \ {Root} : told[s] = "fail" => T!Collected(s)
  <2>1. SUFFICES ASSUME NEW s \in Suites \ {Root}, told[s] = "fail" PROVE T!Collected(s)
    OBVIOUS
  <2>2. Past(s) /\ s \in T!Tasks
    BY <2>1 DEF Past, Gone, T!Tasks
  <2>3. QED
    BY <2>2 DEF WalkInv, VisitInv, WithinSuites
<1>7. sum.failed = 0 <=> ~(sum.failed > 0)
  BY <1>2
<1>8. QED
  BY <1>5, <1>6, <1>7 DEF Lasting, Calls

(* The invariant says how each test is told. *)
LEMMA EachTold ==
  ASSUME HooksInv, ToldInv
  PROVE  EachTestTold
<1>1. /\ Types /\ WalkInv /\ TallyTypes /\ TriesInv /\ RecordsInv /\ CountsInv /\ FailuresInv
  BY DEF HooksInv, ToldInv
<1>2. \A t \in Tests :
        /\ Len(attempts[t]) <= decl.retry + 1
        /\ \A i \in 1 .. Len(attempts[t]) - 1 :
             attempts[t][i] = IF t \in decl.fails THEN "clean" ELSE "error"
  BY <1>1 DEF TriesInv, Tries, Again
<1>3. ASSUME progress \in {"PASS", "FAIL"}
      PROVE  /\ \A t \in Tests : Cardinality({i \in DOMAIN records : records[i].test = t}) =
                                   (IF T!Collected(t) THEN 1 ELSE 0)
             /\ \A i \in DOMAIN records : records[i].status = T!MustBeTold(records[i].test)
             /\ progress = "PASS" <=>
                  /\ sum.failed = 0
                  /\ \A s \in Suites, w \in DOMAIN T!NoCalls : T!Clean(hooked[s][w])
                  /\ \A s \in Suites \ {Root} : T!Collected(s) => told[s] # "fail"
  <2>1. \A t \in Tests : Cardinality({i \in DOMAIN records : records[i].test = t}) =
                           (IF T!Collected(t) THEN 1 ELSE 0)
    BY <1>1, <1>3, AllRecorded, ToldOnce
  <2>2. \A i \in DOMAIN records : records[i].status = T!MustBeTold(records[i].test)
    BY <1>1 DEF RecordsInv, T!Range
  <2>3. QED
    BY <1>1, <1>3, <2>1, <2>2, PassMeans
<1>4. progress \in {"ERROR", "PASS", "FAIL"} /\ progress # "ERROR" => progress \in {"PASS", "FAIL"}
  OBVIOUS
<1>5. QED
  BY <1>1, <1>2, <1>3, <1>4, SameCounting DEF EachTestTold, T!EachTestTold, CountsInv

(* In any file, whatever its tests and hooks come to, a test is tried      *)
(* again only after an attempt that did not do and at most retry times;    *)
(* when the file passes or fails, every test that was collected is told    *)
(* once, as its declarations, the hooks of the suites around it and its    *)
(* last attempt make it, the counts are the records', and the file passes  *)
(* when no test, no hook and no suite failed: of what runSuite, __tt.run   *)
(* and file_result keep of it.                                             *)
THEOREM EachTestToldHolds == T!Spec => []EachTestTold
<1>1. T!Init => HooksInv /\ ToldInv
  BY HooksAtStart, ToldAtStart
<1>2. HooksInv /\ ToldInv /\ [T!Next]_(T!vars) => (HooksInv /\ ToldInv)'
  BY HooksKept, ToldKept
<1>3. HooksInv /\ ToldInv => EachTestTold
  BY EachTold
<1>4. QED
  BY <1>1, <1>2, <1>3, PTL DEF T!Spec

-----------------------------------------------------------------------------
(* The machines of MCRun together                                          *)

(* A behaviour of MCRun is one of the pool, of a worker and of the tests   *)
(* of a file, none of which changes anything of another.                   *)
THEOREM MachinesApart == MCSpec => (Init /\ [][Next]_vars) /\ W!Spec /\ T!Spec
<1>1. MCInit => Init /\ W!Init /\ T!Init
  BY DEF MCInit
<1>2. [MCNext]_all => [Next]_vars
  BY DEF MCNext, all, vars
<1>3. [MCNext]_all => [W!Next]_(W!vars)
  BY DEF MCNext, all, worker, W!vars
<1>4. [MCNext]_all => [T!Next]_(T!vars)
  BY DEF MCNext, all, tests, T!vars
<1>5. QED
  BY <1>1, <1>2, <1>3, <1>4, PTL DEF MCSpec, W!Spec, T!Spec

(* What is proved of the components holds of the composition that the run  *)
(* checks.                                                                 *)
THEOREM RunSafe ==
  ASSUME W!ExecuteAssumption
  PROVE  MCSpec => [](RunOnce /\ BailOvershoot /\ NoSilentSkip /\ RunsAlone /\ Verdict
                      /\ HooksAround /\ EachTestTold)
BY MachinesApart, RunOnceHolds, BailOvershootHolds, NoSilentSkipHolds, RunsAloneHolds,
   VerdictHolds, HooksAroundHolds, EachTestToldHolds, PTL DEF Spec
=============================================================================
