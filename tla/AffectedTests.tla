--------------------------- MODULE AffectedTests ---------------------------
(***************************************************************************)
(* Affected-test detection (graph.rs): for each test file in turn, the     *)
(* depth-first closure of its imports, with one memo for all of them whose *)
(* empty entry for a file being visited is the cycle guard; a test is      *)
(* selected when it, or a file of its closure, changed.                    *)
(*                                                                         *)
(* The recursion of transitive_imports is a stack of frames, a step is one *)
(* import specifier or a return.  A file that cannot be read imports       *)
(* nothing; a specifier that does not resolve is no import.                *)
(***************************************************************************)
EXTENDS Naturals, Sequences

CONSTANTS
  Files,
  Leaves,                 \* files under node_modules
  Tests,                  \* the test files, in the order given
  Graphs,                 \* the import graphs: each file's imports, in order
  Changes                 \* the sets of files that may have changed

ASSUME AffectedAssumption ==
  /\ Leaves \subseteq Files
  /\ Tests \in Seq(Files \ Leaves)
  /\ Graphs \subseteq [Files -> Seq(Files)]
  /\ Changes \subseteq SUBSET Files

VARIABLES
  imports, changed,       \* the input
  memo,                   \* closures, for the files in visited
  visited,
  stack,                  \* the calls under way: file, specifiers left, set
  tested,                 \* tests looked at
  affected                \* tests selected

affectedVars == <<imports, changed, memo, visited, stack, tested, affected>>

AffectedInit ==
  /\ imports \in Graphs
  /\ changed \in Changes
  /\ memo = [f \in Files |-> {}]
  /\ visited = {}
  /\ stack = <<>>
  /\ tested = 0
  /\ affected = {}

Top == stack[Len(stack)]

Below == SubSeq(stack, 1, Len(stack) - 1)

(* transitive_imports of a file without a memo entry: guard, and a frame. *)
Enter(f, frames) ==
  /\ visited' = visited \union {f}
  /\ stack' = Append(frames, [file |-> f, left |-> imports[f], set |-> {}])

(* Select, mutated: a test with few imports is selected, to be safe. *)
SelectUnknown(t, deps) ==
  /\ affected' = IF deps \intersect changed # {} \/ Len(imports[t]) < 2
                  THEN affected \union {t} ELSE affected
  /\ tested' = tested + 1

(* A test's closure is known: the verdict of affected_tests. *)
Select(t, deps) ==
  /\ affected' = IF deps \intersect changed # {} THEN affected \union {t} ELSE affected
  /\ tested' = tested + 1

(* affected_tests, the next test: changed itself, known already (an        *)
(* earlier test imports it), or to be visited.                             *)
NextTest ==
  /\ stack = <<>>
  /\ tested < Len(Tests)
  /\ LET t == Tests[tested + 1]
     IN \/ /\ t \in changed
           /\ Select(t, {t})
           /\ UNCHANGED <<visited, stack>>
        \/ /\ t \notin changed /\ t \in visited
           /\ Select(t, memo[t])
           /\ UNCHANGED <<visited, stack>>
        \/ /\ t \notin changed /\ t \notin visited
           /\ Enter(t, <<>>)
           /\ UNCHANGED <<tested, affected>>
  /\ UNCHANGED <<imports, changed, memo>>

(* The next specifier of the file on top: a new import adds itself and,    *)
(* unless it is a leaf, its closure.                                       *)
Import ==
  /\ stack # <<>>
  /\ Top.left # <<>>
  /\ LET dep == Head(Top.left)
         Advance(set) ==
           Append(Below, [file |-> Top.file, left |-> Tail(Top.left), set |-> set])
     IN IF dep \in Top.set \/ dep \in Leaves \/ dep \in visited
          THEN /\ stack' = Advance(
                    Top.set \union {dep} \union
                      (IF dep \in Top.set \/ dep \in Leaves THEN {} ELSE memo[dep]))
               /\ UNCHANGED visited
          ELSE Enter(dep, Advance(Top.set \union {dep}))
  /\ UNCHANGED <<imports, changed, memo, tested, affected>>

(* Return, mutated: the importer is not given the set it asked for. *)
ReturnNothing ==
  /\ stack # <<>>
  /\ Top.left = <<>>
  /\ memo' = [memo EXCEPT ![Top.file] = Top.set]
  /\ IF Len(stack) = 1
       THEN /\ stack' = <<>>
            /\ Select(Top.file, Top.set)
       ELSE /\ stack' = Below
            /\ UNCHANGED <<tested, affected>>
  /\ UNCHANGED <<imports, changed, visited>>

(* The file on top has no specifier left: memoize its set, and return it   *)
(* to the importer, or to affected_tests.                                  *)
Return ==
  /\ stack # <<>>
  /\ Top.left = <<>>
  /\ memo' = [memo EXCEPT ![Top.file] = Top.set]
  /\ IF Len(stack) = 1
       THEN /\ stack' = <<>>
            /\ Select(Top.file, Top.set)
       ELSE /\ stack' = [Below EXCEPT ![Len(stack) - 1].set = @ \union Top.set]
            /\ UNCHANGED <<tested, affected>>
  /\ UNCHANGED <<imports, changed, visited>>

AffectedNext == NextTest \/ Import \/ Return

AffectedSpec == AffectedInit /\ [][AffectedNext]_affectedVars

-----------------------------------------------------------------------------
(* The reference: reachability in the import graph                         *)

Imported(f) == IF f \in Leaves THEN {} ELSE {imports[f][k] : k \in 1 .. Len(imports[f])}

Closed(S) == \A f \in S : Imported(f) \subseteq S

(* The files f transitively imports: the least closed set of its imports. *)
Reach(f) ==
  {g \in Files : \A S \in SUBSET Files : Imported(f) \subseteq S /\ Closed(S) => g \in S}

TrulyAffected(t) == t \in changed \/ Reach(t) \intersect changed # {}

Acyclic == \A f \in Files : f \notin Reach(f)

Done == tested = Len(Tests)

-----------------------------------------------------------------------------
(* What must hold                                                          *)

(* The types of the variables. *)
AffectedTypeOK ==
  /\ imports \in [Files -> Seq(Files)]
  /\ changed \subseteq Files
  /\ memo \in [Files -> SUBSET Files]
  /\ visited \subseteq Files
  /\ stack \in Seq([file : Files, left : Seq(Files), set : SUBSET Files])
  /\ tested \in 0 .. Len(Tests)
  /\ affected \subseteq Files

BetweenTests == stack = <<>>

(* A test is selected only if a file it imports, or itself, changed.       *)
NoOverSelection ==
  /\ \A t \in affected : TrulyAffected(t)
  /\ \A f \in visited : memo[f] \subseteq Reach(f)

(* Without import cycles the memo is exact, whatever was visited before,   *)
(* and so is the selection.                                                *)
ExactWithoutCycles ==
  BetweenTests /\ Acyclic =>
    /\ \A f \in visited : memo[f] = Reach(f)
    /\ \A k \in 1 .. tested : TrulyAffected(Tests[k]) => Tests[k] \in affected

(* Cycles or not, the first test that is visited gets its whole closure:   *)
(* what the guard hides from one file on a cycle, a file above it has.     *)
FirstVisitExact ==
  \A k \in 1 .. tested :
    (\A j \in 1 .. k - 1 : Tests[j] \in changed) /\ TrulyAffected(Tests[k])
      => Tests[k] \in affected

(* The parts of the inductive invariant. *)

Frames == 1 .. Len(stack)

OnStack(f) == \E i \in Frames : stack[i].file = f

Left(i) == {stack[i].left[k] : k \in 1 .. Len(stack[i].left)}

(* A frame's specifiers and set come from the imports of its file; every   *)
(* file it has is a leaf, or was visited.                                  *)
FrameInv ==
  \A i \in Frames :
    /\ stack[i].file \in visited \ Leaves
    /\ Left(i) \subseteq Imported(stack[i].file)
    /\ stack[i].set \subseteq Reach(stack[i].file)
    /\ stack[i].set \subseteq visited \union Leaves

(* The stack is a path of imports. *)
PathInv ==
  \A j \in Frames : \A i \in 1 .. j - 1 : stack[j].file \in Reach(stack[i].file)

(* What a file has in the memo it imports, and was visited. *)
MemoInv ==
  \A f \in Files : memo[f] \subseteq Reach(f) /\ memo[f] \subseteq visited \union Leaves

(* The bottom of the stack is the test that is looked at. *)
RootInv ==
  stack # <<>> =>
    /\ tested < Len(Tests)
    /\ stack[1].file = Tests[tested + 1]
    /\ stack[1].file \notin changed

SelectedInv == \A t \in affected : TrulyAffected(t)

(* Without cycles: a frame has the closure of every file in its set but    *)
(* the one it is waiting for, and every import it has read; the memo of a  *)
(* file that is not on the stack is its closure.                           *)
ExactInv ==
  /\ \A i \in Frames :
       /\ \A g \in stack[i].set :
            Reach(g) \subseteq stack[i].set \/ (i < Len(stack) /\ stack[i + 1].file = g)
       /\ Imported(stack[i].file) \subseteq stack[i].set \union Left(i)
  /\ \A f \in visited : OnStack(f) \/ memo[f] = Reach(f)
  /\ \A k \in 1 .. tested : TrulyAffected(Tests[k]) => Tests[k] \in affected

(* Cycles or not, during the first visit: what was visited, and what it    *)
(* imports, is in the set of some frame.                                   *)
Gathered == UNION {stack[i].set : i \in Frames}

FirstInv ==
  (\A j \in 1 .. tested : Tests[j] \in changed) =>
    /\ stack = <<>> => visited = {}
    /\ \A f \in visited : /\ f = stack[1].file \/ f \in Gathered
                          /\ OnStack(f) \/ Imported(f) \subseteq Gathered
    /\ \A i \in Frames : Imported(stack[i].file) \subseteq Gathered \union Left(i)

(* The inductive invariant: what a visit in progress must satisfy for the  *)
(* memo and the selection to be right at its end.                          *)
Inductive ==
  /\ AffectedTypeOK
  /\ FrameInv
  /\ PathInv
  /\ MemoInv
  /\ RootInv
  /\ SelectedInv
  /\ Acyclic => ExactInv
  /\ FirstInv
  /\ FirstVisitExact

(* graph.rs: "Guaranteed superset of the truly-affected set". *)
NeverUnderSelects ==
  BetweenTests => \A k \in 1 .. tested : TrulyAffected(Tests[k]) => Tests[k] \in affected
=============================================================================
