------------------------ MODULE AffectedTestsProofs ------------------------
(***************************************************************************)
(* Affected-test detection's inductive invariant and what follows from it, *)
(* for every import graph, every list of tests and every change: nothing   *)
(* unaffected is selected, the memo and the selection are exact without    *)
(* import cycles, and the first visit is exact with them.                  *)
(***************************************************************************)
EXTENDS AffectedTests, TLAPS, SequenceTheorems

Frame == [file : Files, left : Seq(Files), set : SUBSET Files]

(* The files of a sequence. *)
Elements(q) == {q[k] : k \in 1 .. Len(q)}

-----------------------------------------------------------------------------
(* Reachability                                                            *)

(* Reach and what it is made of depend on the import graph alone. *)
LEMMA SameGraph ==
  imports' = imports =>
    /\ \A f : Reach(f)' = Reach(f) /\ Imported(f)' = Imported(f)
    /\ Acyclic' <=> Acyclic
    /\ changed' = changed => \A f : TrulyAffected(f)' <=> TrulyAffected(f)
<1>1. imports' = imports => \A f : Reach(f)' = Reach(f) /\ Imported(f)' = Imported(f)
  BY DEF Reach, Imported, Closed
<1>2. QED
  BY <1>1 DEF Acyclic, TrulyAffected

(* What a file imports is a set of files. *)
LEMMA ImportedType ==
  ASSUME imports \in [Files -> Seq(Files)], NEW f \in Files
  PROVE  /\ Imported(f) \subseteq Files
         /\ f \notin Leaves => Imported(f) = Elements(imports[f])
         /\ f \in Leaves => Imported(f) = {}
<1>1. imports[f] \in Seq(Files)
  OBVIOUS
<1>2. \A k \in 1 .. Len(imports[f]) : imports[f][k] \in Files
  BY <1>1, ElementOfSeq
<1>3. QED
  BY <1>2 DEF Imported, Elements

(* Reach is closed, ... *)
LEMMA ReachClosed ==
  ASSUME imports \in [Files -> Seq(Files)], NEW f \in Files
  PROVE  /\ Reach(f) \subseteq Files
         /\ Imported(f) \subseteq Reach(f)
         /\ Closed(Reach(f))
<1>1. \A g \in Files : Imported(g) \subseteq Files
  BY ImportedType
<1>2. Reach(f) \subseteq Files /\ Imported(f) \subseteq Reach(f)
  BY <1>1 DEF Reach
<1>3. ASSUME NEW g \in Reach(f), NEW h \in Imported(g)
      PROVE  h \in Reach(f)
  <2>1. h \in Files
    BY <1>1, <1>2
  <2>2. ASSUME NEW S \in SUBSET Files, Imported(f) \subseteq S, Closed(S)
        PROVE  h \in S
    <3>1. g \in S
      BY <2>2 DEF Reach
    <3>2. QED
      BY <2>2, <3>1 DEF Closed
  <2>3. QED
    BY <2>1, <2>2 DEF Reach
<1>4. QED
  BY <1>2, <1>3 DEF Closed

(* ... is the least such set, ... *)
LEMMA ReachLeast ==
  ASSUME NEW f \in Files, NEW S \in SUBSET Files, Imported(f) \subseteq S, Closed(S)
  PROVE  Reach(f) \subseteq S
BY DEF Reach

(* ... and is transitive; a leaf reaches nothing. *)
LEMMA ReachSteps ==
  ASSUME imports \in [Files -> Seq(Files)], NEW f \in Files
  PROVE  /\ \A g \in Reach(f) : Reach(g) \subseteq Reach(f)
         /\ \A g \in Imported(f) : g \in Files /\ g \in Reach(f) /\ Reach(g) \subseteq Reach(f)
         /\ f \in Leaves => Reach(f) = {}
<1>1. ASSUME NEW g \in Reach(f)
      PROVE  Reach(g) \subseteq Reach(f)
  <2>1. g \in Files /\ Imported(g) \subseteq Reach(f) /\ Reach(f) \in SUBSET Files
    BY ReachClosed DEF Closed
  <2>2. QED
    BY <2>1, ReachLeast, ReachClosed
<1>2. ASSUME f \in Leaves
      PROVE  Reach(f) = {}
  <2>1. Imported(f) \subseteq {} /\ Closed({})
    BY <1>2, ImportedType DEF Closed
  <2>2. QED
    BY <2>1, ReachLeast
<1>3. QED
  BY <1>1, <1>2, ReachClosed

(* A set with a file's imports and with all that its files reach has all   *)
(* the file reaches.                                                       *)
LEMMA ReachWhole ==
  ASSUME imports \in [Files -> Seq(Files)], NEW f \in Files, NEW S \in SUBSET Files,
         Imported(f) \subseteq S, \A g \in S : Reach(g) \subseteq S
  PROVE  Reach(f) \subseteq S
<1>1. Closed(S)
  BY ReachClosed DEF Closed
<1>2. QED
  BY <1>1, ReachLeast

-----------------------------------------------------------------------------
(* The stack                                                               *)

(* The specifiers of a sequence are its first and the others. *)
LEMMA HeadAndOthers ==
  ASSUME NEW q \in Seq(Files), q # <<>>
  PROVE  /\ Head(q) \in Files /\ Tail(q) \in Seq(Files)
         /\ Head(q) \in Elements(q)
         /\ Elements(Tail(q)) \subseteq Elements(q)
         /\ Elements(q) \subseteq {Head(q)} \union Elements(Tail(q))
<1>1. /\ Head(q) \in Files /\ Tail(q) \in Seq(Files)
      /\ Len(q) \in Nat \ {0} /\ Len(Tail(q)) = Len(q) - 1
      /\ \A i \in 1 .. Len(Tail(q)) : Tail(q)[i] = q[i + 1]
  BY HeadTailProperties, EmptySeq
<1>2. Head(q) = q[1]
  OBVIOUS
<1>3. Head(q) \in Elements(q)
  BY <1>1, <1>2 DEF Elements
<1>4. Elements(Tail(q)) \subseteq Elements(q)
  BY <1>1 DEF Elements
<1>5. ASSUME NEW k \in 1 .. Len(q)
      PROVE  q[k] = Head(q) \/ q[k] \in Elements(Tail(q))
  <2>1. CASE k = 1
    BY <2>1, <1>2
  <2>2. CASE k # 1
    <3>1. k - 1 \in 1 .. Len(Tail(q)) /\ Tail(q)[k - 1] = q[k]
      BY <1>1, <2>2
    <3>2. QED
      BY <3>1 DEF Elements
  <2>3. QED
    BY <2>1, <2>2
<1>6. QED
  BY <1>1, <1>3, <1>4, <1>5 DEF Elements

(* The top of the stack, and what is below it. *)
LEMMA TopAndBelow ==
  ASSUME stack \in Seq(Frame), stack # <<>>
  PROVE  /\ Len(stack) \in Nat \ {0}
         /\ Top \in Frame
         /\ Below \in Seq(Frame)
         /\ Len(Below) = Len(stack) - 1
         /\ \A i \in 1 .. Len(stack) - 1 : Below[i] = stack[i]
<1>1. Len(stack) \in Nat \ {0}
  BY EmptySeq
<1>2. \A i \in 1 .. Len(stack) : stack[i] \in Frame
  BY ElementOfSeq
<1>3. Top \in Frame
  BY <1>1, <1>2 DEF Top
<1>4. \A i \in 1 .. Len(stack) - 1 : stack[i] \in Frame
  BY <1>1, <1>2
<1>5. /\ Below \in Seq(Frame)
      /\ Len(Below) = IF 1 <= Len(stack) - 1 THEN Len(stack) - 1 - 1 + 1 ELSE 0
      /\ \A i \in 1 .. Len(stack) - 1 - 1 + 1 : Below[i] = stack[1 + i - 1]
  <2>1. Len(stack) - 1 \in Int /\ 1 \in Int
    BY <1>1
  <2>2. QED
    BY <1>4, <2>1, SubSeqProperties DEF Below
<1>6. Len(Below) = Len(stack) - 1
  <2>1. CASE Len(stack) = 1
    BY <1>5, <2>1
  <2>2. CASE Len(stack) # 1
    <3>1. \A n \in Nat \ {0} : n # 1 => 1 <= n - 1 /\ n - 1 - 1 + 1 = n - 1
      OBVIOUS
    <3>2. 1 <= Len(stack) - 1 /\ Len(stack) - 1 - 1 + 1 = Len(stack) - 1
      BY <1>1, <2>2, <3>1, Zenon
    <3>3. QED
      BY <1>5, <3>2
  <2>3. QED
    BY <2>1, <2>2
<1>7. ASSUME NEW i \in 1 .. Len(stack) - 1
      PROVE  Below[i] = stack[i]
  <2>1. i \in 1 .. Len(stack) - 1 - 1 + 1 /\ 1 + i - 1 = i
    BY <1>1
  <2>2. QED
    BY <1>5, <2>1
<1>8. QED
  BY <1>1, <1>3, <1>5, <1>6, <1>7

(* The top is replaced, once it has read a specifier. *)
LEMMA AdvanceShape ==
  ASSUME stack \in Seq(Frame), stack # <<>>, NEW read \in Frame,
         NEW new, new = Append(Below, read)
  PROVE  /\ new \in Seq(Frame)
         /\ Len(new) = Len(stack)
         /\ \A i \in 1 .. Len(stack) - 1 : new[i] = stack[i]
         /\ new[Len(stack)] = read
<1>1. Below \in Seq(Frame) /\ Len(stack) \in Nat \ {0}
      /\ Len(Below) = Len(stack) - 1
      /\ \A i \in 1 .. Len(stack) - 1 : Below[i] = stack[i]
  BY TopAndBelow
<1>2. /\ new \in Seq(Frame) /\ Len(new) = Len(Below) + 1
      /\ \A i \in 1 .. Len(Below) : new[i] = Below[i]
      /\ new[Len(Below) + 1] = read
  BY <1>1, AppendProperties
<1>3. Len(Below) + 1 = Len(stack)
  BY <1>1
<1>4. new[Len(stack)] = read
  BY <1>2, <1>3
<1>5. \A i \in 1 .. Len(stack) - 1 : new[i] = stack[i]
  BY <1>1, <1>2
<1>6. QED
  BY <1>2, <1>3, <1>4, <1>5

(* A file is visited on top of the frames. *)
LEMMA EnterShape ==
  ASSUME imports \in [Files -> Seq(Files)], NEW f \in Files,
         NEW frames \in Seq(Frame), Enter(f, frames)
  PROVE  /\ visited' = visited \union {f}
         /\ stack' \in Seq(Frame)
         /\ Len(stack') = Len(frames) + 1
         /\ \A i \in 1 .. Len(frames) : stack'[i] = frames[i]
         /\ stack'[Len(frames) + 1] = [file |-> f, left |-> imports[f], set |-> {}]
<1> DEFINE top == [file |-> f, left |-> imports[f], set |-> {}]
<1>1. top \in Frame
  BY DEF Frame
<1>2. visited' = visited \union {f} /\ stack' = Append(frames, top)
  BY DEF Enter
<1> HIDE DEF top
<1>3. QED
  BY <1>1, <1>2, AppendProperties DEF top

(* The top returned its set to the frame below it. *)
LEMMA ReturnShape ==
  ASSUME stack \in Seq(Frame), stack # <<>>, Len(stack) # 1,
         NEW new, new = [Below EXCEPT ![Len(stack) - 1].set = @ \union Top.set]
  PROVE  /\ new \in Seq(Frame)
         /\ Len(new) = Len(stack) - 1
         /\ Len(stack) - 1 \in 1 .. Len(stack) - 1
         /\ \A i \in 1 .. Len(stack) - 2 : new[i] = stack[i]
         /\ new[Len(stack) - 1] =
              [stack[Len(stack) - 1] EXCEPT !.set = @ \union Top.set]
<1> DEFINE m == Len(stack) - 1
           low == [stack[m] EXCEPT !.set = @ \union Top.set]
<1>1. Top \in Frame /\ Below \in Seq(Frame) /\ Len(stack) \in Nat \ {0}
      /\ Len(Below) = m
      /\ \A i \in 1 .. m : Below[i] = stack[i]
  BY TopAndBelow
<1>2. m \in 1 .. m /\ m \in Nat
  BY <1>1
<1>3. stack[m] \in Frame
  BY <1>1, <1>2, ElementOfSeq
<1>4. low \in Frame
  BY <1>1, <1>3 DEF Frame
<1>5. Below \in [1 .. m -> Frame]
  BY <1>1, LenProperties
<1>6. new = [Below EXCEPT ![m] = low]
  BY <1>1, <1>2
<1> HIDE DEF low
<1>7. new \in [1 .. m -> Frame] /\ new[m] = low /\ \A i \in 1 .. m : i # m => new[i] = Below[i]
  BY <1>2, <1>4, <1>5, <1>6
<1>8. new \in Seq(Frame) /\ Len(new) = m
  BY <1>1, <1>2, <1>4, <1>6, ExceptSeq
<1>9. \A i \in 1 .. Len(stack) - 2 : new[i] = stack[i]
  BY <1>1, <1>7
<1>10. QED
  BY <1>2, <1>7, <1>8, <1>9 DEF low

-----------------------------------------------------------------------------
(* Each step keeps the invariant                                           *)

(* The invariant's types, in the form the lemmas above take them. *)
LEMMA Types ==
  ASSUME Inductive
  PROVE  /\ imports \in [Files -> Seq(Files)]
         /\ stack \in Seq(Frame)
         /\ tested \in Nat
         /\ Tests \in Seq(Files)
         /\ \A k \in 1 .. Len(Tests) : Tests[k] \in Files \ Leaves
<1>1. \A k \in 1 .. Len(Tests) : Tests[k] \in Files \ Leaves
  BY AffectedAssumption, ElementOfSeq
<1>2. Tests \in Seq(Files)
  BY AffectedAssumption, SeqMonotonic
<1>3. QED
  BY <1>1, <1>2 DEF Inductive, AffectedTypeOK, Frame

(* The start of a run satisfies it. *)
LEMMA InductiveInit == AffectedInit => Inductive
<1> SUFFICES ASSUME AffectedInit
             PROVE  Inductive
  OBVIOUS
<1> USE DEF AffectedInit
<1>1. Frames = {}
  BY EmptySeq DEF Frames
<1>2. Len(Tests) \in Nat
  BY AffectedAssumption, LenProperties
<1>3. AffectedTypeOK
  <2>1. imports \in [Files -> Seq(Files)] /\ changed \subseteq Files
    BY AffectedAssumption
  <2>2. stack \in Seq([file : Files, left : Seq(Files), set : SUBSET Files])
    BY EmptySeq
  <2>3. tested \in 0 .. Len(Tests)
    BY <1>2
  <2>4. QED
    BY <2>1, <2>2, <2>3 DEF AffectedTypeOK
<1>4. FrameInv /\ PathInv /\ MemoInv /\ RootInv /\ SelectedInv
  BY <1>1 DEF FrameInv, PathInv, MemoInv, RootInv, SelectedInv
<1>5. ExactInv /\ FirstInv /\ FirstVisitExact
  BY <1>1 DEF ExactInv, FirstInv, FirstVisitExact
<1>6. QED
  BY <1>3, <1>4, <1>5 DEF Inductive

(* The verdict on a test: it is sound if the set it is based on is part of *)
(* the test's closure, complete if it has every change the closure has.    *)
LEMMA SelectStep ==
  ASSUME Inductive, tested < Len(Tests), UNCHANGED <<imports, changed>>,
         NEW deps \in SUBSET Files, Select(Tests[tested + 1], deps),
         deps \intersect changed # {} => TrulyAffected(Tests[tested + 1]),
         /\ TrulyAffected(Tests[tested + 1])
         /\ Acyclic \/ \A j \in 1 .. tested : Tests[j] \in changed
         => deps \intersect changed # {}
  PROVE  /\ tested' = tested + 1
         /\ tested' \in 0 .. Len(Tests)
         /\ affected' \subseteq Files
         /\ SelectedInv'
         /\ Acyclic => \A k \in 1 .. tested' :
              TrulyAffected(Tests[k]) => Tests[k] \in affected'
         /\ FirstVisitExact'
<1> DEFINE t == Tests[tested + 1]
<1>1. /\ Len(Tests) \in Nat /\ tested \in Nat
      /\ tested + 1 \in 1 .. Len(Tests) /\ t \in Files
  <2>1. Len(Tests) \in Nat /\ tested \in Nat
    BY Types, LenProperties
  <2>2. tested + 1 \in 1 .. Len(Tests)
    BY <2>1
  <2>3. QED
    BY <2>1, <2>2, Types
<1>2. tested' = tested + 1 /\ tested' \in 0 .. Len(Tests)
  BY <1>1 DEF Select
<1>3. /\ affected' \subseteq affected \union {t}
      /\ affected \subseteq affected'
      /\ t \in affected' => t \in affected \/ deps \intersect changed # {}
  BY DEF Select
<1>4. deps \intersect changed # {} => t \in affected'
  BY DEF Select
<1>5. \A f : TrulyAffected(f)' <=> TrulyAffected(f)
  BY SameGraph
<1>6. affected' \subseteq Files
  BY <1>1, <1>3 DEF Inductive, AffectedTypeOK
<1>7. SelectedInv'
  BY <1>3, <1>5 DEF Inductive, SelectedInv
<1>8. ASSUME Acyclic, NEW k \in 1 .. tested', TrulyAffected(Tests[k])
      PROVE  Tests[k] \in affected'
  <2>1. CASE k = tested + 1
    BY <1>4, <1>8, <2>1
  <2>2. CASE k # tested + 1
    <3>1. k \in 1 .. tested
      BY <1>1, <1>2, <2>2
    <3>2. QED
      BY <1>3, <1>8, <3>1 DEF Inductive, ExactInv
  <2>3. QED
    BY <2>1, <2>2
<1>9. ASSUME NEW k \in 1 .. tested', TrulyAffected(Tests[k]),
             \A j \in 1 .. k - 1 : Tests[j] \in changed
      PROVE  Tests[k] \in affected'
  <2>1. CASE k = tested + 1
    <3>1. \A j \in 1 .. tested : Tests[j] \in changed
      BY <1>1, <1>9, <2>1
    <3>2. QED
      BY <1>4, <1>9, <2>1, <3>1
  <2>2. CASE k # tested + 1
    <3>1. k \in 1 .. tested
      BY <1>1, <1>2, <2>2
    <3>2. QED
      BY <1>3, <1>9, <3>1 DEF Inductive, FirstVisitExact
  <2>3. QED
    BY <2>1, <2>2
<1>10. FirstVisitExact'
  BY <1>5, <1>9 DEF FirstVisitExact
<1>11. QED
  BY <1>2, <1>6, <1>7, <1>8, <1>10

(* Between two tests there is no frame. *)
LEMMA NoFrames ==
  ASSUME stack' = <<>>
  PROVE  /\ Frames' = {}
         /\ \A f : ~OnStack(f)'
         /\ FrameInv' /\ PathInv' /\ RootInv'
<1>1. Frames' = {}
  BY EmptySeq DEF Frames
<1>2. QED
  BY <1>1 DEF OnStack, FrameInv, PathInv, RootInv

(* A test that changed, or whose closure an earlier test left in the memo. *)
LEMMA KnownTestStep ==
  ASSUME Inductive, stack = <<>>, tested < Len(Tests),
         NEW deps \in SUBSET Files, Select(Tests[tested + 1], deps),
         \/ Tests[tested + 1] \in changed /\ deps = {Tests[tested + 1]}
         \/ /\ Tests[tested + 1] \notin changed
            /\ Tests[tested + 1] \in visited
            /\ deps = memo[Tests[tested + 1]],
         UNCHANGED <<imports, changed, memo, visited, stack>>
  PROVE  Inductive'
<1> DEFINE t == Tests[tested + 1]
<1>1. /\ Len(Tests) \in Nat /\ tested \in Nat /\ t \in Files
      /\ stack' = <<>> /\ imports' = imports /\ changed' = changed
      /\ memo' = memo /\ visited' = visited
  <2>1. Len(Tests) \in Nat /\ tested \in Nat
    BY Types, LenProperties
  <2>2. tested + 1 \in 1 .. Len(Tests)
    BY <2>1
  <2>3. QED
    BY <2>1, <2>2, Types
<1>2. Frames = {} /\ \A f : ~OnStack(f)
  BY EmptySeq DEF Frames, OnStack
<1>3. /\ Frames' = {} /\ \A f : ~OnStack(f)'
      /\ FrameInv' /\ PathInv' /\ RootInv'
  BY <1>1, NoFrames
<1>4. /\ \A f : Reach(f)' = Reach(f) /\ Imported(f)' = Imported(f)
      /\ Acyclic' <=> Acyclic
      /\ \A f : TrulyAffected(f)' <=> TrulyAffected(f)
  BY <1>1, SameGraph
<1>5. deps \intersect changed # {} => TrulyAffected(t)
  BY <1>1 DEF Inductive, MemoInv, TrulyAffected
<1>6. ASSUME TrulyAffected(t), Acyclic \/ \A j \in 1 .. tested : Tests[j] \in changed
      PROVE  deps \intersect changed # {}
  <2>1. CASE t \in changed
    BY <2>1
  <2>2. CASE t \notin changed
    <3>1. t \in visited /\ deps = memo[t]
      BY <2>2
    <3>2. Acyclic
      BY <1>6, <3>1 DEF Inductive, FirstInv
    <3>3. memo[t] = Reach(t)
      BY <1>2, <3>1, <3>2 DEF Inductive, ExactInv
    <3>4. QED
      BY <1>6, <2>2, <3>1, <3>3 DEF TrulyAffected
  <2>3. QED
    BY <2>1, <2>2
<1>7. /\ tested' = tested + 1 /\ tested' \in 0 .. Len(Tests)
      /\ affected' \subseteq Files
      /\ SelectedInv' /\ FirstVisitExact'
      /\ Acyclic => \A k \in 1 .. tested' : TrulyAffected(Tests[k]) => Tests[k] \in affected'
  BY <1>1, <1>5, <1>6, SelectStep
<1>8. AffectedTypeOK'
  BY <1>1, <1>7 DEF Inductive, AffectedTypeOK
<1>9. MemoInv'
  BY <1>1, <1>4 DEF Inductive, MemoInv
<1>10. Acyclic' => ExactInv'
  BY <1>1, <1>2, <1>3, <1>4, <1>7 DEF Inductive, ExactInv
<1>11. FirstInv'
  <2> SUFFICES ASSUME (\A j \in 1 .. tested : Tests[j] \in changed)'
               PROVE  visited' = {}
    BY <1>3 DEF FirstInv
  <2>1. t \in changed /\ \A j \in 1 .. tested : Tests[j] \in changed
    BY <1>1, <1>7
  <2>2. QED
    BY <1>1, <2>1 DEF Inductive, FirstInv
<1>12. QED
  BY <1>3, <1>7, <1>8, <1>9, <1>10, <1>11 DEF Inductive

(* A test whose visit begins. *)
LEMMA NewTestStep ==
  ASSUME Inductive, stack = <<>>, tested < Len(Tests),
         NEW t, t = Tests[tested + 1], t \notin changed, t \notin visited,
         Enter(t, <<>>),
         UNCHANGED <<imports, changed, memo, tested, affected>>
  PROVE  Inductive'
<1>1. /\ imports \in [Files -> Seq(Files)] /\ t \in Files \ Leaves
      /\ imports' = imports /\ changed' = changed /\ memo' = memo
      /\ tested' = tested /\ affected' = affected
  <2>1. Len(Tests) \in Nat /\ tested \in Nat
    BY Types, LenProperties
  <2>2. tested + 1 \in 1 .. Len(Tests)
    BY <2>1
  <2>3. QED
    BY <2>2, Types
<1>2. Frames = {} /\ \A f : ~OnStack(f)
  BY EmptySeq DEF Frames, OnStack
<1>3. /\ visited' = visited \union {t}
      /\ stack' \in Seq(Frame)
      /\ Len(stack') = 1
      /\ stack'[1] = [file |-> t, left |-> imports[t], set |-> {}]
  <2>1. <<>> \in Seq(Frame) /\ Len(<<>>) + 1 = 1
    BY EmptySeq
  <2>2. /\ visited' = visited \union {t}
        /\ stack' \in Seq(Frame)
        /\ Len(stack') = Len(<<>>) + 1
        /\ stack'[Len(<<>>) + 1] = [file |-> t, left |-> imports[t], set |-> {}]
    BY <1>1, <2>1, EnterShape
  <2>3. QED
    BY <2>1, <2>2
<1>4. Frames' = {1} /\ stack' # <<>>
  BY <1>3, EmptySeq DEF Frames
<1>5. /\ \A f : Reach(f)' = Reach(f) /\ Imported(f)' = Imported(f)
      /\ Acyclic' <=> Acyclic
      /\ \A f : TrulyAffected(f)' <=> TrulyAffected(f)
  BY <1>1, SameGraph
<1>6. stack'[1].file = t /\ stack'[1].left = imports[t] /\ stack'[1].set = {}
  BY <1>3
<1>7. Left(1)' = Imported(t)
  <2>1. Imported(t) = Elements(imports[t])
    BY <1>1, ImportedType
  <2>2. QED
    BY <1>6, <2>1 DEF Left, Elements
<1>8. AffectedTypeOK'
  BY <1>1, <1>3 DEF Inductive, AffectedTypeOK, Frame
<1>9. FrameInv'
  BY <1>1, <1>3, <1>4, <1>5, <1>6, <1>7 DEF FrameInv
<1>10. PathInv'
  BY <1>4 DEF PathInv
<1>11. MemoInv'
  BY <1>1, <1>3, <1>5 DEF Inductive, MemoInv
<1>12. RootInv'
  BY <1>1, <1>6 DEF RootInv
<1>13. SelectedInv' /\ FirstVisitExact'
  BY <1>1, <1>5 DEF Inductive, SelectedInv, FirstVisitExact
<1>14. OnStack(t)'
  BY <1>4, <1>6 DEF OnStack
<1>15. Acyclic' => ExactInv'
  BY <1>1, <1>2, <1>3, <1>4, <1>5, <1>6, <1>7, <1>14 DEF Inductive, ExactInv
<1>16. FirstInv'
  <2> SUFFICES ASSUME \A j \in 1 .. tested : Tests[j] \in changed
               PROVE  /\ \A f \in visited' : f = t
                      /\ Imported(t) \subseteq Left(1)'
    BY <1>1, <1>4, <1>5, <1>6, <1>14 DEF FirstInv
  <2>1. visited = {}
    BY DEF Inductive, FirstInv
  <2>2. QED
    BY <1>3, <1>7, <2>1
<1>17. QED
  BY <1>8, <1>9, <1>10, <1>11, <1>12, <1>13, <1>15, <1>16 DEF Inductive

(* The next test is looked at. *)
LEMMA NextTestStep ==
  ASSUME Inductive, NextTest
  PROVE  Inductive'
<1> DEFINE t == Tests[tested + 1]
<1>1. stack = <<>> /\ tested < Len(Tests) /\ UNCHANGED <<imports, changed, memo>>
  BY DEF NextTest
<1>2. t \in Files
  <2>1. Len(Tests) \in Nat /\ tested \in Nat
    BY Types, LenProperties
  <2>2. tested + 1 \in 1 .. Len(Tests)
    BY <1>1, <2>1
  <2>3. QED
    BY <2>2, Types
<1>3. CASE t \in changed /\ Select(t, {t}) /\ UNCHANGED <<visited, stack>>
  BY <1>1, <1>2, <1>3, KnownTestStep
<1>4. CASE t \notin changed /\ t \in visited /\ Select(t, memo[t]) /\ UNCHANGED <<visited, stack>>
  <2>1. memo[t] \in SUBSET Files
    BY <1>2 DEF Inductive, AffectedTypeOK
  <2>2. QED
    BY <1>1, <1>4, <2>1, KnownTestStep
<1>5. CASE t \notin changed /\ t \notin visited /\ Enter(t, <<>>) /\ UNCHANGED <<tested, affected>>
  BY <1>1, <1>5, NewTestStep
<1>6. QED
  BY <1>3, <1>4, <1>5 DEF NextTest

(* What the invariant says of the file on top. *)
LEMMA TopFacts ==
  ASSUME Inductive, stack # <<>>, NEW n, n = Len(stack), NEW top, top = Top
  PROVE  /\ n \in Nat \ {0} /\ Frames = 1 .. n /\ top = stack[n]
         /\ top \in Frame
         /\ top.file \in Files \ Leaves /\ top.file \in visited
         /\ Left(n) = Elements(top.left)
         /\ Elements(top.left) \subseteq Imported(top.file)
         /\ top.set \subseteq Reach(top.file)
         /\ top.set \subseteq visited \union Leaves
<1>1. n \in Nat \ {0} /\ top \in Frame /\ Frames = 1 .. n /\ top = stack[n]
  BY Types, TopAndBelow DEF Frames, Top
<1>2. n \in Frames
  BY <1>1
<1>3. /\ top.file \in visited \ Leaves /\ Left(n) \subseteq Imported(top.file)
      /\ top.set \subseteq Reach(top.file) /\ top.set \subseteq visited \union Leaves
  BY <1>1, <1>2 DEF Inductive, FrameInv
<1>4. Left(n) = Elements(top.left)
  BY <1>1 DEF Left, Elements
<1>5. QED
  BY <1>1, <1>3, <1>4 DEF Frame

(* ... and of the specifier it reads next.  Without cycles, that import is *)
(* not being visited.                                                      *)
LEMMA NextImport ==
  ASSUME Inductive, stack # <<>>, NEW top, top = Top, top.left # <<>>,
         NEW dep, dep = Head(top.left)
  PROVE  /\ dep \in Files /\ dep \in Reach(top.file) /\ Reach(dep) \subseteq Reach(top.file)
         /\ Tail(top.left) \in Seq(Files)
         /\ Elements(Tail(top.left)) \subseteq Elements(top.left)
         /\ Elements(top.left) \subseteq {dep} \union Elements(Tail(top.left))
         /\ Acyclic => ~OnStack(dep)
<1> DEFINE n == Len(stack)
<1>1. /\ n \in Nat \ {0} /\ Frames = 1 .. n /\ top = stack[n] /\ top \in Frame
      /\ top.file \in Files /\ Elements(top.left) \subseteq Imported(top.file)
  BY TopFacts
<1>2. /\ dep \in Elements(top.left) /\ Tail(top.left) \in Seq(Files)
      /\ Elements(Tail(top.left)) \subseteq Elements(top.left)
      /\ Elements(top.left) \subseteq {dep} \union Elements(Tail(top.left))
  BY <1>1, HeadAndOthers DEF Frame
<1>3. dep \in Files /\ dep \in Reach(top.file) /\ Reach(dep) \subseteq Reach(top.file)
  BY <1>1, <1>2, Types, ReachSteps
<1>4. ASSUME Acyclic, NEW i \in Frames, stack[i].file = dep
      PROVE  FALSE
  <2>1. CASE i = n
    BY <1>1, <1>3, <1>4, <2>1 DEF Acyclic
  <2>2. CASE i # n
    <3>1. n \in Frames /\ i \in 1 .. n - 1
      BY <1>1, <2>2
    <3>2. top.file \in Reach(dep)
      BY <1>1, <1>4, <3>1 DEF Inductive, PathInv
    <3>3. dep \in Reach(dep)
      BY <1>3, <3>2, Types, ReachSteps
    <3>4. QED
      BY <1>3, <1>4, <3>3 DEF Acyclic
  <2>3. QED
    BY <2>1, <2>2
<1>5. QED
  BY <1>2, <1>3, <1>4 DEF OnStack

(* An import is counted in its importer: the top frame is done with it,    *)
(* and its set has what the import adds.                                   *)
LEMMA ImportCounted ==
  ASSUME Inductive, stack # <<>>, NEW top, top = Top, top.left # <<>>,
         NEW dep, dep = Head(top.left), NEW n, n = Len(stack),
         NEW s \in SUBSET Files, s \subseteq Reach(top.file), s \subseteq visited \union Leaves,
         top.set \subseteq s, dep \in s, Acyclic => \A g \in s : Reach(g) \subseteq s,
         stack' \in Seq(Frame), Len(stack') = n, \A i \in 1 .. n - 1 : stack'[i] = stack[i],
         stack'[n].file = top.file, stack'[n].left = Tail(top.left), stack'[n].set = s,
         UNCHANGED <<imports, changed, memo, visited, tested, affected>>
  PROVE  Inductive'
<1>2. /\ n \in Nat \ {0} /\ Frames = 1 .. n /\ top = stack[n] /\ top \in Frame
      /\ top.file \in Files \ Leaves /\ top.file \in visited
      /\ Left(n) = Elements(top.left)
      /\ Elements(top.left) \subseteq Imported(top.file)
      /\ top.set \subseteq Reach(top.file) /\ top.set \subseteq visited \union Leaves
  BY TopFacts
<1>3. /\ dep \in Files /\ dep \in Reach(top.file) /\ Reach(dep) \subseteq Reach(top.file)
      /\ Tail(top.left) \in Seq(Files)
      /\ Elements(Tail(top.left)) \subseteq Elements(top.left)
      /\ Elements(top.left) \subseteq {dep} \union Elements(Tail(top.left))
      /\ Acyclic => ~OnStack(dep)
  BY NextImport
<1>5. /\ s \subseteq Reach(top.file) /\ s \subseteq visited \union Leaves
      /\ top.set \subseteq s /\ dep \in s
  OBVIOUS
<1>6. /\ stack' \in Seq(Frame) /\ Len(stack') = n
      /\ \A i \in 1 .. n - 1 : stack'[i] = stack[i]
      /\ stack'[n].file = top.file /\ stack'[n].left = Tail(top.left) /\ stack'[n].set = s
  OBVIOUS
<1>7. Frames' = 1 .. n
  BY <1>6 DEF Frames
<1>8. \A i \in 1 .. n : i \in 1 .. n - 1 \/ i = n
  BY <1>2
<1>9. \A i \in 1 .. n : stack'[i].file = stack[i].file /\ stack[i].set \subseteq stack'[i].set
  <2>1. stack'[n].file = stack[n].file /\ stack[n].set \subseteq stack'[n].set
    BY <1>2, <1>5, <1>6
  <2>2. \A i \in 1 .. n - 1 : stack'[i].file = stack[i].file /\ stack[i].set \subseteq stack'[i].set
    BY <1>6
  <2>3. QED
    BY <1>8, <2>1, <2>2
<1>10. /\ \A i \in 1 .. n - 1 : Left(i)' = Left(i)
       /\ Left(n)' = Elements(Tail(top.left))
  BY <1>6 DEF Left, Elements
<1>11. /\ \A f : Reach(f)' = Reach(f) /\ Imported(f)' = Imported(f)
       /\ Acyclic' <=> Acyclic
       /\ \A f : TrulyAffected(f)' <=> TrulyAffected(f)
  BY SameGraph
<1>12. \A f : OnStack(f)' <=> OnStack(f)
  BY <1>2, <1>7, <1>9 DEF OnStack
<1>13. AffectedTypeOK'
  BY <1>6 DEF Inductive, AffectedTypeOK, Frame
<1>14. FrameInv'
  <2>1. ASSUME NEW i \in 1 .. n
        PROVE  /\ stack'[i].file \in visited \ Leaves
               /\ Left(i)' \subseteq Imported(stack'[i].file)
               /\ stack'[i].set \subseteq Reach(stack'[i].file)
               /\ stack'[i].set \subseteq visited \union Leaves
    <3>1. CASE i = n
      BY <1>2, <1>3, <1>5, <1>6, <1>10, <3>1
    <3>2. CASE i \in 1 .. n - 1
      BY <1>2, <1>6, <1>10, <3>2 DEF Inductive, FrameInv
    <3>3. QED
      BY <1>8, <3>1, <3>2
  <2>2. QED
    BY <1>7, <1>11, <2>1 DEF FrameInv
<1>15. PathInv'
  <2>1. ASSUME NEW j \in 1 .. n, NEW i \in 1 .. j - 1
        PROVE  stack'[j].file \in Reach(stack'[i].file)
    <3>1. i \in 1 .. n
      BY <1>2
    <3>2. stack[j].file \in Reach(stack[i].file)
      BY <1>2 DEF Inductive, PathInv
    <3>3. QED
      BY <1>9, <3>1, <3>2
  <2>2. QED
    BY <1>7, <1>11, <2>1 DEF PathInv
<1>16. MemoInv' /\ SelectedInv' /\ FirstVisitExact'
  BY <1>11 DEF Inductive, MemoInv, SelectedInv, FirstVisitExact
<1>17. RootInv'
  BY <1>2, <1>9 DEF Inductive, RootInv
<1>18. ASSUME Acyclic
       PROVE  ExactInv'
  <2>3. ASSUME NEW i \in 1 .. n
        PROVE  /\ \A g \in stack'[i].set :
                    Reach(g) \subseteq stack'[i].set \/ (i < n /\ stack'[i + 1].file = g)
               /\ Imported(stack'[i].file) \subseteq stack'[i].set \union Left(i)'
    <3>1. CASE i = n
      BY <1>2, <1>3, <1>5, <1>6, <1>10, <1>18, <3>1 DEF Inductive, ExactInv
    <3>2. CASE i \in 1 .. n - 1
      <4>1. i \in 1 .. n /\ i + 1 \in 1 .. n
        BY <1>2, <3>2
      <4>2. QED
        BY <1>2, <1>6, <1>9, <1>10, <1>18, <3>2, <4>1 DEF Inductive, ExactInv
    <3>3. QED
      BY <1>8, <3>1, <3>2
  <2>4. /\ \A f \in visited : OnStack(f) \/ memo[f] = Reach(f)
        /\ \A k \in 1 .. tested : TrulyAffected(Tests[k]) => Tests[k] \in affected
    BY <1>18 DEF Inductive, ExactInv
  <2>5. QED
    BY <1>6, <1>7, <1>11, <1>12, <2>3, <2>4 DEF ExactInv
<1>19. FirstInv'
  <2>1. ASSUME NEW g \in Gathered
        PROVE  g \in Gathered'
    <3>1. PICK i \in 1 .. n : g \in stack[i].set
      BY <1>2 DEF Gathered
    <3>2. i \in Frames' /\ g \in stack'[i].set
      BY <1>7, <1>9, <3>1
    <3>3. QED
      BY <3>2 DEF Gathered
  <2>2. stack'[1].file = stack[1].file /\ stack' # <<>>
    BY <1>2, <1>6, <1>9, EmptySeq
  <2>3. dep \in Gathered'
    BY <1>2, <1>5, <1>6, <1>7 DEF Gathered
  <2>4. \A i \in 1 .. n : Left(i) \subseteq Left(i)' \union Gathered'
    BY <1>2, <1>3, <1>8, <1>10, <2>3
  <2>5. QED
    BY <1>2, <1>7, <1>9, <1>11, <1>12, <2>1, <2>2, <2>4 DEF Inductive, FirstInv
<1>20. QED
  BY <1>11, <1>13, <1>14, <1>15, <1>16, <1>17, <1>18, <1>19 DEF Inductive

(* An import that is known: counted already, a leaf, or in the memo. *)
LEMMA KnownImportStep ==
  ASSUME Inductive, stack # <<>>, NEW top, top = Top, top.left # <<>>,
         NEW dep, dep = Head(top.left), dep \in top.set \/ dep \in Leaves \/ dep \in visited,
         NEW s, s = top.set \union {dep} \union
                      (IF dep \in top.set \/ dep \in Leaves THEN {} ELSE memo[dep]),
         stack' = Append(Below, [file |-> top.file, left |-> Tail(top.left), set |-> s]),
         UNCHANGED <<imports, changed, memo, visited, tested, affected>>
  PROVE  Inductive'
<1>1. PICK n : n = Len(stack)
  OBVIOUS
<1>2. /\ n \in Nat \ {0} /\ Frames = 1 .. n /\ top = stack[n] /\ top \in Frame
      /\ top.file \in Files \ Leaves /\ top.file \in visited
      /\ Left(n) = Elements(top.left)
      /\ Elements(top.left) \subseteq Imported(top.file)
      /\ top.set \subseteq Reach(top.file) /\ top.set \subseteq visited \union Leaves
  BY <1>1, TopFacts
<1>3. /\ dep \in Files /\ dep \in Reach(top.file) /\ Reach(dep) \subseteq Reach(top.file)
      /\ Tail(top.left) \in Seq(Files)
      /\ Elements(Tail(top.left)) \subseteq Elements(top.left)
      /\ Elements(top.left) \subseteq {dep} \union Elements(Tail(top.left))
      /\ Acyclic => ~OnStack(dep)
  BY NextImport
<1>4. memo[dep] \subseteq Reach(dep) /\ memo[dep] \subseteq visited \union Leaves
  BY <1>3 DEF Inductive, MemoInv
<1>5. /\ s \subseteq Reach(top.file) /\ s \subseteq visited \union Leaves
      /\ top.set \subseteq s /\ dep \in s /\ s \in SUBSET Files
  <2>1. Reach(top.file) \subseteq Files
    BY <1>2, Types, ReachClosed
  <2>2. QED
    BY <1>2, <1>3, <1>4, <2>1
<1>6. /\ stack' \in Seq(Frame) /\ Len(stack') = n
      /\ \A i \in 1 .. n - 1 : stack'[i] = stack[i]
      /\ stack'[n].file = top.file /\ stack'[n].left = Tail(top.left) /\ stack'[n].set = s
  <2> DEFINE frame == [file |-> top.file, left |-> Tail(top.left), set |-> s]
  <2>1. frame \in Frame
    BY <1>2, <1>3, <1>5 DEF Frame
  <2>2. stack' = Append(Below, frame)
    OBVIOUS
  <2> HIDE DEF frame
  <2>3. stack \in Seq(Frame)
    BY Types
  <2>4. stack' \in Seq(Frame) /\ Len(stack') = Len(stack)
    BY <2>1, <2>2, <2>3, AdvanceShape
  <2>5. \A i \in 1 .. Len(stack) - 1 : stack'[i] = stack[i]
    BY <2>1, <2>2, <2>3, AdvanceShape
  <2>6. stack'[Len(stack)] = frame
    BY <2>1, <2>2, <2>3, AdvanceShape
  <2>7. frame.file = top.file /\ frame.left = Tail(top.left) /\ frame.set = s
    BY DEF frame
  <2>8. QED
    BY <1>1, <2>4, <2>5, <2>6, <2>7
<1>7. ASSUME Acyclic
      PROVE  \A g \in s : Reach(g) \subseteq s
  <2>1. \A g \in top.set : Reach(g) \subseteq top.set
    BY <1>1, <1>2, <1>7 DEF Inductive, ExactInv
  <2>2. QED
    <3>1. CASE dep \in top.set
      BY <2>1, <3>1
    <3>2. CASE dep \notin top.set /\ dep \in Leaves
      BY <1>3, <2>1, <3>2, Types, ReachSteps
    <3>3. CASE dep \notin top.set /\ dep \notin Leaves
      <4>1. s = top.set \union {dep} \union Reach(dep)
        BY <1>3, <1>7, <3>3 DEF Inductive, ExactInv
      <4>2. \A g \in Reach(dep) : Reach(g) \subseteq Reach(dep)
        BY <1>3, Types, ReachSteps
      <4>3. QED
        BY <2>1, <4>1, <4>2
    <3>4. QED
      BY <3>1, <3>2, <3>3
<1>8. /\ Inductive /\ stack # <<>> /\ top = Top /\ top.left # <<>> /\ dep = Head(top.left)
      /\ UNCHANGED <<imports, changed, memo, visited, tested, affected>>
  OBVIOUS
<1>9. QED
  BY ONLY <1>1, <1>5, <1>6, <1>7, <1>8, ImportCounted

(* A new import: the importer waits for its set. *)
LEMMA NewImportStep ==
  ASSUME Inductive, stack # <<>>, NEW top, top = Top, top.left # <<>>,
         NEW dep, dep = Head(top.left),
         dep \notin top.set, dep \notin Leaves, dep \notin visited,
         NEW frame, frame = [file |-> top.file, left |-> Tail(top.left),
                             set |-> top.set \union {dep}],
         Enter(dep, Append(Below, frame)),
         UNCHANGED <<imports, changed, memo, tested, affected>>
  PROVE  Inductive'
<1> DEFINE s == top.set \union {dep}
<1>1. PICK n : n = Len(stack)
  OBVIOUS
<1>2. /\ n \in Nat \ {0} /\ Frames = 1 .. n /\ top = stack[n] /\ top \in Frame
      /\ top.file \in Files \ Leaves /\ top.file \in visited
      /\ Left(n) = Elements(top.left)
      /\ Elements(top.left) \subseteq Imported(top.file)
      /\ top.set \subseteq Reach(top.file) /\ top.set \subseteq visited \union Leaves
  BY <1>1, TopFacts
<1>3. /\ dep \in Files /\ dep \in Reach(top.file) /\ Reach(dep) \subseteq Reach(top.file)
      /\ Tail(top.left) \in Seq(Files)
      /\ Elements(Tail(top.left)) \subseteq Elements(top.left)
      /\ Elements(top.left) \subseteq {dep} \union Elements(Tail(top.left))
  BY NextImport
<1>4. s \subseteq Reach(top.file) /\ s \in SUBSET Files
  <2>1. Reach(top.file) \subseteq Files
    BY <1>2, Types, ReachClosed
  <2>2. QED
    BY <1>2, <1>3, <2>1
<1>5. frame \in Frame
  BY <1>2, <1>3, <1>4 DEF Frame
<1>6. PICK frames : frames = Append(Below, frame)
  OBVIOUS
<1>7. /\ frames \in Seq(Frame) /\ Len(frames) = n
      /\ \A i \in 1 .. n - 1 : frames[i] = stack[i]
      /\ frames[n] = frame
  <2>1. stack \in Seq(Frame)
    BY Types
  <2>2. frames \in Seq(Frame) /\ Len(frames) = Len(stack)
    BY <1>5, <1>6, <2>1, AdvanceShape
  <2>3. \A i \in 1 .. Len(stack) - 1 : frames[i] = stack[i]
    BY <1>5, <1>6, <2>1, AdvanceShape
  <2>4. frames[Len(stack)] = frame
    BY <1>5, <1>6, <2>1, AdvanceShape, SMTT(30)
  <2>5. QED
    BY <1>1, <2>2, <2>3, <2>4
<1>8. /\ visited' = visited \union {dep}
      /\ stack' \in Seq(Frame) /\ Len(stack') = n + 1
      /\ \A i \in 1 .. n : stack'[i] = frames[i]
      /\ stack'[n + 1] = [file |-> dep, left |-> imports[dep], set |-> {}]
  <2>1. Enter(dep, frames) /\ frames \in Seq(Frame)
    BY <1>6, <1>7
  <2>2. imports \in [Files -> Seq(Files)]
    BY Types
  <2>3. visited' = visited \union {dep}
    BY <1>3, <2>1, <2>2, EnterShape
  <2>4. stack' \in Seq(Frame) /\ Len(stack') = Len(frames) + 1
    BY <1>3, <2>1, <2>2, EnterShape
  <2>5. \A i \in 1 .. Len(frames) : stack'[i] = frames[i]
    BY <1>3, <2>1, <2>2, EnterShape
  <2>6. stack'[Len(frames) + 1] = [file |-> dep, left |-> imports[dep], set |-> {}]
    BY <1>3, <2>1, <2>2, EnterShape
  <2>7. QED
    BY <1>7, <2>3, <2>4, <2>5, <2>6
<1>9. Frames' = 1 .. n + 1
  BY <1>8 DEF Frames
<1>10. \A i \in 1 .. n + 1 : i \in 1 .. n - 1 \/ i = n \/ i = n + 1
  BY <1>2
<1>11. /\ \A i \in 1 .. n - 1 : stack'[i] = stack[i]
       /\ stack'[n].file = top.file /\ stack'[n].left = Tail(top.left) /\ stack'[n].set = s
       /\ stack'[n + 1].file = dep /\ stack'[n + 1].left = imports[dep]
       /\ stack'[n + 1].set = {}
  <2>1. \A i \in 1 .. n - 1 : stack'[i] = stack[i]
    BY <1>2, <1>7, <1>8
  <2>2. n \in 1 .. n
    BY <1>2
  <2>3. stack'[n] = frame
    BY <1>7, <1>8, <2>2
  <2>4. stack'[n].file = top.file /\ stack'[n].left = Tail(top.left) /\ stack'[n].set = s
    BY <2>3
  <2>5. stack'[n + 1].file = dep /\ stack'[n + 1].left = imports[dep]
        /\ stack'[n + 1].set = {}
    BY <1>8
  <2>6. QED
    BY <2>1, <2>4, <2>5
<1> HIDE DEF s
<1>12. \A i \in 1 .. n : stack'[i].file = stack[i].file /\ stack[i].set \subseteq stack'[i].set
  BY <1>2, <1>10, <1>11, SMTT(30) DEF s
<1>13. /\ \A i \in 1 .. n - 1 : Left(i)' = Left(i)
       /\ Left(n)' = Elements(Tail(top.left))
  BY <1>11 DEF Left, Elements
<1>14. Left(n + 1)' = Imported(dep)
  <2>1. Imported(dep) = Elements(imports[dep])
    BY <1>3, Types, ImportedType
  <2>2. QED
    BY <1>11, <2>1 DEF Left, Elements
<1>15. /\ \A f : Reach(f)' = Reach(f) /\ Imported(f)' = Imported(f)
       /\ Acyclic' <=> Acyclic
       /\ \A f : TrulyAffected(f)' <=> TrulyAffected(f)
  BY SameGraph
<1>16. /\ \A f : OnStack(f) => OnStack(f)'
       /\ OnStack(dep)'
  <2>1. n + 1 \in 1 .. n + 1 /\ \A i \in 1 .. n : i \in 1 .. n + 1
    BY <1>2
  <2>2. QED
    BY <1>2, <1>9, <1>11, <1>12, <2>1 DEF OnStack
<1>17. AffectedTypeOK'
  BY <1>3, <1>8 DEF Inductive, AffectedTypeOK, Frame
<1>18. FrameInv'
  <2>1. ASSUME NEW i \in 1 .. n + 1
        PROVE  /\ stack'[i].file \in visited' \ Leaves
               /\ Left(i)' \subseteq Imported(stack'[i].file)
               /\ stack'[i].set \subseteq Reach(stack'[i].file)
               /\ stack'[i].set \subseteq visited' \union Leaves
    <3>1. CASE i = n
      BY <1>2, <1>3, <1>4, <1>8, <1>11, <1>13, <3>1 DEF s
    <3>2. CASE i = n + 1
      BY <1>8, <1>11, <1>14, <3>2
    <3>3. CASE i \in 1 .. n - 1
      BY <1>2, <1>8, <1>11, <1>13, <3>3 DEF Inductive, FrameInv
    <3>4. QED
      BY <1>10, <3>1, <3>2, <3>3
  <2>2. QED
    BY <1>9, <1>15, <2>1 DEF FrameInv
<1>19. PathInv'
  <2>1. ASSUME NEW j \in 1 .. n + 1, NEW i \in 1 .. j - 1
        PROVE  stack'[j].file \in Reach(stack'[i].file)
    <3>1. i \in 1 .. n
      BY <1>2
    <3>2. CASE j \in 1 .. n
      <4>1. stack[j].file \in Reach(stack[i].file)
        BY <1>2, <3>2 DEF Inductive, PathInv
      <4>2. QED
        BY <1>12, <3>1, <3>2, <4>1
    <3>3. CASE j = n + 1
      <4>1. CASE i = n
        BY <1>3, <1>11, <3>3, <4>1
      <4>2. CASE i # n
        <5>1. n \in 1 .. n /\ i \in 1 .. n - 1 /\ i \in 1 .. n
          BY <1>2, <3>1, <4>2
        <5>2. top.file \in Reach(stack[i].file) /\ stack[i].file \in Files
          BY <1>2, <5>1, Types, ElementOfSeq DEF Inductive, PathInv, FrameInv, AffectedTypeOK
        <5>3. Reach(top.file) \subseteq Reach(stack[i].file)
          BY <5>2, Types, ReachSteps
        <5>4. QED
          BY <1>3, <1>11, <3>3, <5>1, <5>3
      <4>3. QED
        BY <4>1, <4>2
    <3>4. QED
      BY <1>2, <3>2, <3>3
  <2>2. QED
    BY <1>9, <1>15, <2>1 DEF PathInv
<1>20. MemoInv' /\ SelectedInv' /\ FirstVisitExact'
  BY <1>8, <1>15 DEF Inductive, MemoInv, SelectedInv, FirstVisitExact
<1>21. stack'[1].file = stack[1].file /\ stack' # <<>>
  BY <1>2, <1>8, <1>12, EmptySeq
<1>22. RootInv'
  BY <1>21 DEF Inductive, RootInv
<1>23. ASSUME Acyclic
       PROVE  ExactInv'
  <2>1. \A g \in top.set : Reach(g) \subseteq top.set
    BY <1>1, <1>2, <1>23 DEF Inductive, ExactInv
  <2>2. ASSUME NEW i \in 1 .. n + 1
        PROVE  /\ \A g \in stack'[i].set :
                    \/ Reach(g) \subseteq stack'[i].set
                    \/ i < n + 1 /\ stack'[i + 1].file = g
               /\ Imported(stack'[i].file) \subseteq stack'[i].set \union Left(i)'
    <3>1. CASE i = n
      <4>1. ASSUME NEW g \in s
            PROVE  Reach(g) \subseteq s \/ stack'[n + 1].file = g
        BY <1>11, <2>1 DEF s
      <4>2. Imported(top.file) \subseteq top.set \union Left(n)
        BY <1>2, <1>23 DEF Inductive, ExactInv
      <4>3. Imported(top.file) \subseteq s \union Left(n)'
        BY <1>2, <1>3, <1>13, <4>2 DEF s
      <4>4. i < n + 1
        BY <1>2, <3>1
      <4>5. QED
        BY <1>11, <3>1, <4>1, <4>3, <4>4
    <3>2. CASE i = n + 1
      BY <1>11, <1>14, <3>2
    <3>3. CASE i \in 1 .. n - 1
      <4>1. i \in 1 .. n /\ i + 1 \in 1 .. n /\ i < n + 1
        BY <1>2, <3>3
      <4>2. QED
        BY <1>1, <1>2, <1>11, <1>12, <1>13, <1>23, <3>3, <4>1 DEF Inductive, ExactInv
    <3>4. QED
      BY <1>10, <3>1, <3>2, <3>3
  <2>3. /\ \A f \in visited : OnStack(f) \/ memo[f] = Reach(f)
        /\ \A k \in 1 .. tested : TrulyAffected(Tests[k]) => Tests[k] \in affected
    BY <1>23 DEF Inductive, ExactInv
  <2>4. QED
    BY <1>8, <1>9, <1>15, <1>16, <2>2, <2>3 DEF ExactInv
<1>24. FirstInv'
  <2>1. ASSUME NEW i \in 1 .. n, NEW g \in stack'[i].set
        PROVE  g \in Gathered'
    <3>1. i \in Frames'
      BY <1>2, <1>9
    <3>2. QED
      BY <3>1 DEF Gathered
  <2>2. ASSUME NEW g \in Gathered
        PROVE  g \in Gathered'
    <3>1. PICK i \in 1 .. n : g \in stack[i].set
      BY <1>2 DEF Gathered
    <3>2. QED
      BY <1>12, <2>1, <3>1
  <2>3. dep \in Gathered'
    <3>1. n \in 1 .. n
      BY <1>2
    <3>2. dep \in stack'[n].set
      BY <1>11 DEF s
    <3>3. QED
      BY <2>1, <3>1, <3>2
  <2>4. ASSUME \A j \in 1 .. tested : Tests[j] \in changed, NEW i \in 1 .. n + 1
        PROVE  Imported(stack'[i].file) \subseteq Gathered' \union Left(i)'
    <3>1. CASE i = n + 1
      BY <1>11, <1>14, <3>1
    <3>2. CASE i \in 1 .. n
      <4>1. Imported(stack[i].file) \subseteq Gathered \union Left(i)
        BY <1>2, <2>4, <3>2 DEF Inductive, FirstInv
      <4>2. Left(i) \subseteq Left(i)' \union Gathered'
        BY <1>2, <1>3, <1>10, <1>13, <2>3, <3>2
      <4>3. QED
        BY <1>12, <2>2, <3>2, <4>1, <4>2
    <3>3. QED
      BY <1>2, <3>1, <3>2
  <2>5. ASSUME \A j \in 1 .. tested : Tests[j] \in changed, NEW f \in visited'
        PROVE  /\ f = stack'[1].file \/ f \in Gathered'
               /\ OnStack(f)' \/ Imported(f) \subseteq Gathered'
    <3>1. CASE f = dep
      BY <1>16, <2>3, <3>1
    <3>2. CASE f \in visited
      BY <1>16, <1>21, <2>2, <2>5, <3>2 DEF Inductive, FirstInv
    <3>3. QED
      BY <1>8, <3>1, <3>2
  <2>6. QED
    BY <1>9, <1>15, <1>21, <2>4, <2>5 DEF FirstInv
<1>25. QED
  BY <1>15, <1>17, <1>18, <1>19, <1>20, <1>22, <1>23, <1>24 DEF Inductive

(* The next specifier is read. *)
LEMMA ImportStep ==
  ASSUME Inductive, Import
  PROVE  Inductive'
<1>1. PICK top, dep : top = Top /\ dep = Head(top.left)
  OBVIOUS
<1>2. /\ stack # <<>> /\ top.left # <<>>
      /\ UNCHANGED <<imports, changed, memo, tested, affected>>
  BY <1>1 DEF Import
<1>3. CASE dep \in top.set \/ dep \in Leaves \/ dep \in visited
  <2>1. PICK s : s = top.set \union {dep} \union
                       (IF dep \in top.set \/ dep \in Leaves THEN {} ELSE memo[dep])
    OBVIOUS
  <2>2. /\ stack' = Append(Below, [file |-> top.file, left |-> Tail(top.left), set |-> s])
        /\ UNCHANGED visited
    BY <1>1, <1>3, <2>1 DEF Import
  <2>3. QED
    BY <1>1, <1>2, <1>3, <2>1, <2>2, KnownImportStep
<1>4. CASE ~(dep \in top.set \/ dep \in Leaves \/ dep \in visited)
  <2>1. PICK frame : frame = [file |-> top.file, left |-> Tail(top.left),
                              set |-> top.set \union {dep}]
    OBVIOUS
  <2>2. Enter(dep, Append(Below, frame))
    BY <1>1, <1>4, <2>1 DEF Import
  <2>3. QED
    BY <1>1, <1>2, <1>4, <2>1, <2>2, NewImportStep
<1>5. QED
  BY <1>3, <1>4

(* What the invariant says of a return: the file's set goes into the memo. *)
LEMMA ReturnFacts ==
  ASSUME Inductive, stack # <<>>, NEW n, n = Len(stack), NEW top, top = Top,
         top.left = <<>>, memo' = [memo EXCEPT ![top.file] = top.set],
         UNCHANGED <<imports, visited>>
  PROVE  /\ top.set \in SUBSET Files
         /\ Left(n) = {}
         /\ memo' \in [Files -> SUBSET Files]
         /\ MemoInv'
         /\ Acyclic => /\ \A g \in top.set : Reach(g) \subseteq top.set
                       /\ top.set = Reach(top.file)
                       /\ \A f \in visited : \/ memo'[f] = Reach(f)
                                             \/ \E i \in 1 .. n - 1 : stack[i].file = f
<1>1. /\ n \in Nat \ {0} /\ Frames = 1 .. n /\ top = stack[n] /\ top \in Frame
      /\ top.file \in Files /\ top.file \in visited
      /\ Left(n) = Elements(top.left)
      /\ top.set \subseteq Reach(top.file) /\ top.set \subseteq visited \union Leaves
  BY TopFacts
<1>2. Left(n) = {}
  BY <1>1, EmptySeq DEF Elements
<1>3. top.set \in SUBSET Files /\ memo \in [Files -> SUBSET Files] /\ visited \subseteq Files
  BY <1>1 DEF Frame, Inductive, AffectedTypeOK
<1>4. \A f \in Files : memo'[f] = IF f = top.file THEN top.set ELSE memo[f]
  BY <1>3
<1>5. memo' \in [Files -> SUBSET Files]
  BY <1>1, <1>3
<1>6. MemoInv'
  <2>1. \A f \in Files : memo'[f] \subseteq Reach(f) /\ memo'[f] \subseteq visited \union Leaves
    BY <1>1, <1>4 DEF Inductive, MemoInv
  <2>2. QED
    BY <2>1, SameGraph DEF MemoInv
<1>7. ASSUME Acyclic
      PROVE  /\ \A g \in top.set : Reach(g) \subseteq top.set
             /\ top.set = Reach(top.file)
             /\ \A f \in visited : \/ memo'[f] = Reach(f)
                                   \/ \E i \in 1 .. n - 1 : stack[i].file = f
  <2>1. n \in Frames /\ ~(n < Len(stack))
    BY <1>1
  <2>2. \A g \in top.set : Reach(g) \subseteq top.set
    BY <1>1, <1>7, <2>1 DEF Inductive, ExactInv
  <2>3. Imported(top.file) \subseteq top.set
    BY <1>1, <1>2, <1>7, <2>1 DEF Inductive, ExactInv
  <2>4. Reach(top.file) \subseteq top.set
    BY <1>1, <1>3, <2>2, <2>3, Types, ReachWhole
  <2>5. ASSUME NEW f \in visited
        PROVE  memo'[f] = Reach(f) \/ \E i \in 1 .. n - 1 : stack[i].file = f
    <3>1. CASE f = top.file
      <4>1. memo'[top.file] = top.set
        BY <1>1, <1>4
      <4>2. top.set = Reach(top.file)
        BY <1>1, <2>4
      <4>3. QED
        BY <3>1, <4>1, <4>2
    <3>2. CASE f # top.file /\ OnStack(f)
      <4>1. PICK i \in 1 .. n : stack[i].file = f
        BY <1>1, <3>2 DEF OnStack
      <4>2. i \in 1 .. n - 1
        BY <1>1, <3>2, <4>1
      <4>3. QED
        BY <4>1, <4>2
    <3>3. CASE f # top.file /\ ~OnStack(f)
      <4>1. memo[f] = Reach(f)
        BY <1>7, <3>3 DEF Inductive, ExactInv
      <4>2. f \in Files
        BY <1>3
      <4>3. memo'[f] = memo[f]
        BY <1>4, <3>3, <4>2
      <4>4. QED
        BY <4>1, <4>3
    <3>4. QED
      BY <3>1, <3>2, <3>3
  <2>6. QED
    BY <1>1, <2>2, <2>4, <2>5
<1>8. QED
  BY <1>2, <1>3, <1>5, <1>6, <1>7

(* The visit of a test ends: its set is complete without cycles, and in    *)
(* the first visit even with them, but for the test itself.                *)
LEMMA LastReturnStep ==
  ASSUME Inductive, stack # <<>>, Len(stack) = 1, NEW top, top = Top,
         top.left = <<>>, memo' = [memo EXCEPT ![top.file] = top.set],
         stack' = <<>>, Select(top.file, top.set),
         UNCHANGED <<imports, changed, visited>>
  PROVE  Inductive'
<1> DEFINE t == Tests[tested + 1]
<1>1. /\ Frames = 1 .. 1 /\ top = stack[1] /\ top.file \in Files
      /\ top.set \subseteq Reach(top.file) /\ top.set \subseteq visited \union Leaves
  BY TopFacts
<1>2. /\ top.set \in SUBSET Files /\ Left(1) = {}
      /\ memo' \in [Files -> SUBSET Files] /\ MemoInv'
      /\ Acyclic => top.set = Reach(top.file)
      /\ Acyclic => \A f \in visited : memo'[f] = Reach(f)
  <2>1. \A i \in 1 .. 1 - 1 : FALSE
    OBVIOUS
  <2>2. QED
    BY <2>1, ReturnFacts, ZenonT(60)
<1>3. tested < Len(Tests) /\ top.file = t /\ t \notin changed
  BY <1>1 DEF Inductive, RootInv
<1>4. /\ Frames' = {} /\ \A f : ~OnStack(f)'
      /\ FrameInv' /\ PathInv' /\ RootInv'
  BY NoFrames
<1>5. /\ \A f : Reach(f)' = Reach(f) /\ Imported(f)' = Imported(f)
      /\ Acyclic' <=> Acyclic
  BY SameGraph
<1>6. ASSUME \A j \in 1 .. tested : Tests[j] \in changed
      PROVE  Reach(t) \subseteq top.set \union {t}
  <2>1. Gathered = top.set
    BY <1>1 DEF Gathered
  <2>2. Imported(t) \subseteq top.set
    BY <1>1, <1>2, <1>3, <1>6, <2>1 DEF Inductive, FirstInv
  <2>3. ASSUME NEW f \in top.set
        PROVE  Imported(f) \subseteq top.set \union {t}
    <3>1. CASE f \in Leaves
      BY <3>1 DEF Imported
    <3>2. CASE f \in visited
      <4>1. OnStack(f) \/ Imported(f) \subseteq top.set
        BY <1>6, <2>1, <3>2 DEF Inductive, FirstInv
      <4>2. OnStack(f) => f = t
        BY <1>1, <1>3 DEF OnStack
      <4>3. QED
        BY <2>2, <4>1, <4>2
    <3>3. QED
      BY <1>1, <3>1, <3>2
  <2>4. Closed(top.set \union {t})
    BY <2>2, <2>3 DEF Closed
  <2>5. QED
    BY <1>1, <1>2, <1>3, <2>2, <2>4, ReachLeast
<1>7. /\ top.set \intersect changed # {} => TrulyAffected(t)
      /\ /\ TrulyAffected(t)
         /\ Acyclic \/ \A j \in 1 .. tested : Tests[j] \in changed
         => top.set \intersect changed # {}
  BY <1>1, <1>2, <1>3, <1>6 DEF TrulyAffected
<1>8. /\ tested' = tested + 1 /\ tested' \in 0 .. Len(Tests) /\ affected' \subseteq Files
      /\ SelectedInv' /\ FirstVisitExact'
      /\ Acyclic => \A k \in 1 .. tested' :
           TrulyAffected(Tests[k]) => Tests[k] \in affected'
  BY <1>2, <1>3, <1>7, SelectStep
<1>9. AffectedTypeOK'
  <2>1. stack' \in Seq([file : Files, left : Seq(Files), set : SUBSET Files])
    BY EmptySeq
  <2>2. QED
    BY <1>2, <1>8, <2>1 DEF Inductive, AffectedTypeOK
<1>10. Acyclic' => ExactInv'
  <2>1. \A f : TrulyAffected(f)' <=> TrulyAffected(f)
    BY SameGraph
  <2>2. QED
    BY <1>2, <1>4, <1>5, <1>8, <2>1 DEF ExactInv
<1>11. FirstInv'
  <2>1. tested + 1 \in 1 .. tested'
    BY <1>8, Types
  <2>2. ~ \A j \in 1 .. tested' : Tests[j] \in changed'
    BY <1>3, <2>1
  <2>3. QED
    BY <2>2 DEF FirstInv
<1>12. QED
  BY <1>2, <1>4, <1>8, <1>9, <1>10, <1>11 DEF Inductive

(* An imported file's visit ends: the importer has its set. *)
LEMMA InnerReturnStep ==
  ASSUME Inductive, stack # <<>>, Len(stack) # 1, NEW top, top = Top,
         top.left = <<>>, memo' = [memo EXCEPT ![top.file] = top.set],
         stack' = [Below EXCEPT ![Len(stack) - 1].set = @ \union Top.set],
         UNCHANGED <<imports, changed, visited, tested, affected>>
  PROVE  Inductive'
<1>1. PICK n : n = Len(stack)
  OBVIOUS
<1>2. PICK m : m = n - 1
  OBVIOUS
<1>3. /\ n \in Nat \ {0} /\ Frames = 1 .. n /\ top = stack[n] /\ top \in Frame
      /\ top.file \in Files \ Leaves /\ top.file \in visited
      /\ top.set \subseteq Reach(top.file) /\ top.set \subseteq visited \union Leaves
  BY <1>1, TopFacts
<1>4. /\ m \in Nat \ {0} /\ n = m + 1
      /\ \A i \in 1 .. n : i \in 1 .. m - 1 \/ i = m \/ i = n
      /\ \A i \in 1 .. m : i \in 1 .. n /\ (i \in 1 .. m - 1 \/ i = m)
      /\ m \in 1 .. m /\ m \in 1 .. n /\ n \in 1 .. n
  BY <1>1, <1>2, <1>3
<1>5. /\ top.set \in SUBSET Files
      /\ Left(n) = {}
      /\ memo' \in [Files -> SUBSET Files]
      /\ MemoInv'
      /\ Acyclic => /\ \A g \in top.set : Reach(g) \subseteq top.set
                    /\ top.set = Reach(top.file)
                    /\ \A f \in visited : \/ memo'[f] = Reach(f)
                                          \/ \E i \in 1 .. m : stack[i].file = f
  BY <1>1, <1>2, ReturnFacts
<1>6. /\ stack' \in Seq(Frame) /\ Len(stack') = m
      /\ \A i \in 1 .. m - 1 : stack'[i] = stack[i]
      /\ stack'[m] = [stack[m] EXCEPT !.set = @ \union top.set]
  <2>1. stack \in Seq(Frame)
    BY Types
  <2>2. stack' \in Seq(Frame) /\ Len(stack') = Len(stack) - 1
    BY <2>1, ReturnShape
  <2>3. \A i \in 1 .. Len(stack) - 2 : stack'[i] = stack[i]
    BY <2>1, ReturnShape
  <2>4. stack'[Len(stack) - 1] = [stack[Len(stack) - 1] EXCEPT !.set = @ \union Top.set]
    BY <2>1, ReturnShape
  <2>5. m - 1 = Len(stack) - 2
    BY <1>1, <1>2, <1>3
  <2>6. QED
    BY <1>1, <1>2, <2>2, <2>3, <2>4, <2>5
<1>7. stack[m] \in Frame /\ stack[m].file \in Files
  <2>1. stack \in Seq(Frame)
    BY Types
  <2>2. stack[m] \in Frame
    BY <1>1, <1>4, <2>1, ElementOfSeq
  <2>3. QED
    BY <2>2 DEF Frame
<1>8. /\ stack'[m].file = stack[m].file /\ stack'[m].left = stack[m].left
      /\ stack'[m].set = stack[m].set \union top.set
  <2>1. \A fr \in Frame : LET low == [fr EXCEPT !.set = @ \union top.set]
                          IN /\ low.file = fr.file /\ low.left = fr.left
                             /\ low.set = fr.set \union top.set
    BY DEF Frame
  <2>2. QED
    BY <1>6, <1>7, <2>1
<1>9. Frames' = 1 .. m
  BY <1>6 DEF Frames
<1>10. \A i \in 1 .. m : /\ stack'[i].file = stack[i].file
                         /\ stack[i].set \subseteq stack'[i].set
  BY <1>4, <1>6, <1>8
<1>11. \A i \in 1 .. m : Left(i)' = Left(i)
  <2>1. \A i \in 1 .. m : stack'[i].left = stack[i].left
    BY <1>4, <1>6, <1>8
  <2>2. QED
    BY <2>1 DEF Left
<1>12. /\ \A f : Reach(f)' = Reach(f) /\ Imported(f)' = Imported(f)
       /\ Acyclic' <=> Acyclic
       /\ \A f : TrulyAffected(f)' <=> TrulyAffected(f)
  BY SameGraph
<1>13. AffectedTypeOK'
  BY <1>5, <1>6 DEF Inductive, AffectedTypeOK, Frame
<1>14. FrameInv'
  <2>1. ASSUME NEW i \in 1 .. m
        PROVE  /\ stack'[i].file \in visited \ Leaves
               /\ Left(i)' \subseteq Imported(stack'[i].file)
               /\ stack'[i].set \subseteq Reach(stack'[i].file)
               /\ stack'[i].set \subseteq visited \union Leaves
    <3>1. /\ stack[i].file \in visited \ Leaves
          /\ Left(i) \subseteq Imported(stack[i].file)
          /\ stack[i].set \subseteq Reach(stack[i].file)
          /\ stack[i].set \subseteq visited \union Leaves
      BY <1>3, <1>4 DEF Inductive, FrameInv
    <3>2. CASE i = m
      <4>1. m \in 1 .. n - 1
        BY <1>2, <1>4
      <4>2. top.file \in Reach(stack[m].file)
        BY <1>3, <1>4, <4>1 DEF Inductive, PathInv
      <4>3. Reach(top.file) \subseteq Reach(stack[m].file)
        BY <1>7, <4>2, Types, ReachSteps
      <4>4. QED
        BY <1>3, <1>8, <1>11, <3>1, <3>2, <4>3
    <3>3. CASE i \in 1 .. m - 1
      BY <1>6, <1>11, <3>1, <3>3
    <3>4. QED
      BY <1>4, <3>2, <3>3
  <2>2. QED
    BY <1>9, <1>12, <2>1 DEF FrameInv
<1>15. PathInv'
  <2>1. ASSUME NEW j \in 1 .. m, NEW i \in 1 .. j - 1
        PROVE  stack'[j].file \in Reach(stack'[i].file)
    <3>1. i \in 1 .. m
      BY <1>4
    <3>2. stack[j].file \in Reach(stack[i].file)
      BY <1>3, <1>4 DEF Inductive, PathInv
    <3>3. QED
      BY <1>10, <3>1, <3>2
  <2>2. QED
    BY <1>9, <1>12, <2>1 DEF PathInv
<1>16. SelectedInv' /\ FirstVisitExact'
  BY <1>12 DEF Inductive, SelectedInv, FirstVisitExact
<1>17. stack'[1].file = stack[1].file /\ stack' # <<>>
  <2>1. 1 \in 1 .. m
    BY <1>4
  <2>2. QED
    BY <1>4, <1>6, <1>10, <2>1, EmptySeq
<1>18. RootInv'
  BY <1>17 DEF Inductive, RootInv
<1>19. ASSUME Acyclic
       PROVE  ExactInv'
  <2>1. ASSUME NEW i \in 1 .. m
        PROVE  /\ \A g \in stack'[i].set :
                    Reach(g) \subseteq stack'[i].set \/ (i < m /\ stack'[i + 1].file = g)
               /\ Imported(stack'[i].file) \subseteq stack'[i].set \union Left(i)'
    <3>1. /\ \A g \in stack[i].set :
               Reach(g) \subseteq stack[i].set \/ stack[i + 1].file = g
          /\ Imported(stack[i].file) \subseteq stack[i].set \union Left(i)
      BY <1>3, <1>4, <1>19 DEF Inductive, ExactInv
    <3>2. Imported(stack'[i].file) \subseteq stack'[i].set \union Left(i)'
      BY <1>10, <1>11, <3>1
    <3>3. CASE i = m
      <4>1. stack[i + 1] = top
        BY <1>3, <1>4, <3>3
      <4>2. \A g \in stack[m].set \union top.set :
              Reach(g) \subseteq stack[m].set \union top.set
        BY <1>5, <1>19, <3>1, <3>3, <4>1
      <4>3. QED
        BY <1>8, <3>2, <3>3, <4>2
    <3>4. CASE i \in 1 .. m - 1
      <4>1. i < m /\ i + 1 \in 1 .. m
        BY <1>4, <3>4
      <4>2. QED
        BY <1>6, <1>10, <3>1, <3>2, <3>4, <4>1
    <3>5. QED
      BY <1>4, <3>3, <3>4
  <2>2. ASSUME NEW f \in visited
        PROVE  OnStack(f)' \/ memo'[f] = Reach(f)
    BY <1>5, <1>9, <1>10, <1>19 DEF OnStack
  <2>3. \A k \in 1 .. tested : TrulyAffected(Tests[k]) => Tests[k] \in affected
    BY <1>19 DEF Inductive, ExactInv
  <2>4. QED
    BY <1>6, <1>9, <1>12, <2>1, <2>2, <2>3 DEF ExactInv
<1>20. FirstInv'
  <2>1. ASSUME NEW i \in 1 .. m, NEW g \in stack'[i].set
        PROVE  g \in Gathered'
    <3>1. i \in Frames'
      BY <1>9
    <3>2. QED
      BY <3>1 DEF Gathered
  <2>2. ASSUME NEW g \in Gathered
        PROVE  g \in Gathered'
    <3>1. PICK i \in 1 .. n : g \in stack[i].set
      BY <1>3 DEF Gathered
    <3>2. CASE i = n
      BY <1>3, <1>4, <1>8, <2>1, <3>1, <3>2
    <3>3. CASE i \in 1 .. m
      BY <1>10, <2>1, <3>1, <3>3
    <3>4. QED
      BY <1>4, <3>2, <3>3
  <2>3. ASSUME \A j \in 1 .. tested : Tests[j] \in changed, NEW i \in 1 .. m
        PROVE  Imported(stack'[i].file) \subseteq Gathered' \union Left(i)'
    <3>1. Imported(stack[i].file) \subseteq Gathered \union Left(i)
      BY <1>3, <1>4, <2>3 DEF Inductive, FirstInv
    <3>2. QED
      BY <1>10, <1>11, <2>2, <3>1
  <2>4. ASSUME \A j \in 1 .. tested : Tests[j] \in changed, NEW f \in visited
        PROVE  /\ f = stack'[1].file \/ f \in Gathered'
               /\ OnStack(f)' \/ Imported(f) \subseteq Gathered'
    <3>1. f = stack'[1].file \/ f \in Gathered'
      BY <1>17, <2>2, <2>4 DEF Inductive, FirstInv
    <3>2. CASE OnStack(f)
      <4>1. PICK i \in 1 .. n : stack[i].file = f
        BY <1>3, <3>2 DEF OnStack
      <4>2. CASE i = n
        <5>1. Imported(f) \subseteq Gathered \union Left(n)
          BY <1>3, <1>4, <2>4, <4>1, <4>2 DEF Inductive, FirstInv
        <5>2. QED
          BY <1>5, <2>2, <3>1, <5>1
      <4>3. CASE i \in 1 .. m
        BY <1>9, <1>10, <3>1, <4>1, <4>3 DEF OnStack
      <4>4. QED
        BY <1>4, <4>2, <4>3
    <3>3. CASE ~OnStack(f)
      BY <2>2, <2>4, <3>1, <3>3 DEF Inductive, FirstInv
    <3>4. QED
      BY <3>2, <3>3
  <2>5. QED
    BY <1>9, <1>12, <1>17, <2>3, <2>4 DEF FirstInv
<1>21. QED
  BY <1>5, <1>12, <1>13, <1>14, <1>15, <1>16, <1>18, <1>19, <1>20 DEF Inductive

(* The return of a visit. *)
LEMMA ReturnStep ==
  ASSUME Inductive, Return
  PROVE  Inductive'
<1>1. PICK top : top = Top
  OBVIOUS
<1>2. /\ stack # <<>> /\ top.left = <<>>
      /\ memo' = [memo EXCEPT ![top.file] = top.set]
      /\ UNCHANGED <<imports, changed, visited>>
  BY <1>1 DEF Return
<1>3. CASE Len(stack) = 1
  <2>1. stack' = <<>> /\ Select(top.file, top.set)
    BY <1>1, <1>3 DEF Return
  <2>2. QED
    BY <1>1, <1>2, <1>3, <2>1, LastReturnStep
<1>4. CASE Len(stack) # 1
  <2>1. /\ stack' = [Below EXCEPT ![Len(stack) - 1].set = @ \union Top.set]
        /\ UNCHANGED <<tested, affected>>
    BY <1>4 DEF Return
  <2>2. QED
    BY <1>1, <1>2, <1>4, <2>1, InnerReturnStep
<1>5. QED
  BY <1>3, <1>4

(* A stuttering step. *)
LEMMA UnchangedStep ==
  ASSUME Inductive, UNCHANGED affectedVars
  PROVE  Inductive'
<1>1. /\ \A f : Reach(f)' = Reach(f) /\ Imported(f)' = Imported(f)
      /\ Acyclic' <=> Acyclic
      /\ \A f : TrulyAffected(f)' <=> TrulyAffected(f)
  BY SameGraph DEF affectedVars
<1>2. /\ Frames' = Frames /\ Gathered' = Gathered
      /\ \A i : Left(i)' = Left(i)
      /\ \A f : OnStack(f)' <=> OnStack(f)
  BY DEF affectedVars, Frames, Gathered, Left, OnStack
<1>3. AffectedTypeOK' /\ FrameInv' /\ PathInv' /\ MemoInv' /\ RootInv' /\ SelectedInv'
  BY <1>1, <1>2 DEF affectedVars, Inductive, AffectedTypeOK, FrameInv, PathInv, MemoInv, RootInv, SelectedInv
<1>4. (Acyclic => ExactInv)' /\ FirstInv' /\ FirstVisitExact'
  BY <1>1, <1>2 DEF affectedVars, Inductive, ExactInv, FirstInv, FirstVisitExact
<1>5. QED
  BY <1>3, <1>4 DEF Inductive

-----------------------------------------------------------------------------
(* Theorems                                                                *)

(* The invariant holds throughout every visit of every test. *)
THEOREM InductiveInvariance == AffectedSpec => []Inductive
<1>1. AffectedInit => Inductive
  BY InductiveInit
<1>2. Inductive /\ [AffectedNext]_affectedVars => Inductive'
  <2> SUFFICES ASSUME Inductive, [AffectedNext]_affectedVars
               PROVE  Inductive'
    OBVIOUS
  <2>1. CASE NextTest
    BY <2>1, NextTestStep
  <2>2. CASE Import
    BY <2>2, ImportStep
  <2>3. CASE Return
    BY <2>3, ReturnStep
  <2>4. CASE UNCHANGED affectedVars
    BY <2>4, UnchangedStep
  <2>5. QED
    BY <2>1, <2>2, <2>3, <2>4 DEF AffectedNext
<1>3. QED
  BY <1>1, <1>2, PTL DEF AffectedSpec

(* Type correctness. *)
THEOREM AffectedTypeCorrect == AffectedSpec => []AffectedTypeOK
<1>1. Inductive => AffectedTypeOK
  BY DEF Inductive
<1>2. QED
  BY <1>1, InductiveInvariance, PTL

(* affected_tests selects no test whose imports did not change, and the    *)
(* memo holds for no file what it does not import.                         *)
THEOREM NeverOverSelects == AffectedSpec => []NoOverSelection
<1>1. Inductive => NoOverSelection
  BY DEF Inductive, AffectedTypeOK, SelectedInv, MemoInv, NoOverSelection
<1>2. QED
  BY <1>1, InductiveInvariance, PTL

(* Without import cycles the memo shared by the tests costs nothing: it    *)
(* and the selection are exact.                                            *)
THEOREM ExactSelection == AffectedSpec => []ExactWithoutCycles
<1>1. Inductive => ExactWithoutCycles
  <2> SUFFICES ASSUME Inductive, BetweenTests, Acyclic
               PROVE  /\ \A f \in visited : memo[f] = Reach(f)
                      /\ \A k \in 1 .. tested : TrulyAffected(Tests[k]) => Tests[k] \in affected
    BY DEF ExactWithoutCycles
  <2>1. \A f : ~OnStack(f)
    BY EmptySeq DEF BetweenTests, OnStack, Frames
  <2>2. QED
    BY <2>1 DEF Inductive, ExactInv
<1>2. QED
  BY <1>1, InductiveInvariance, PTL

(* The first test that is visited is selected if anything it imports       *)
(* changed, whatever the cycles it is on.                                  *)
THEOREM FirstVisitSelects == AffectedSpec => []FirstVisitExact
<1>1. Inductive => FirstVisitExact
  BY DEF Inductive
<1>2. QED
  BY <1>1, InductiveInvariance, PTL

=============================================================================
