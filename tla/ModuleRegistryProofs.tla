------------------------ MODULE ModuleRegistryProofs ------------------------
(***************************************************************************)
(* The module registry, for any modules, import graph, mocks, files and    *)
(* factories, whether exports are accessors or not: an import of a mocked  *)
(* module is served the mock declared last (if it was not put over         *)
(* accessors), no mock outlives its file but setup's, importers hold the   *)
(* object of the mock in force, and packages that of a load.               *)
(*                                                                         *)
(* The steps fall into groups, each with a lemma that it keeps the         *)
(* invariant: a body is given what is there (Serves), a module is loaded   *)
(* (Loads), a mock is registered (Registers), a body ends, records go      *)
(* (Drops), the file goes on (Quiet), the next file comes.                 *)
(***************************************************************************)
EXTENDS ModuleRegistry, TLAPS, FiniteSetTheorems, SequenceTheorems, WellFoundedInduction

-----------------------------------------------------------------------------
(* The closure of a set                                                    *)

(* Closure adds to a set what its elements lead to, and nothing else. *)
LEMMA ClosureIs ==
  ASSUME NEW X, IsFiniteSet(X), NEW F \in [X -> SUBSET X], NEW S \in SUBSET X
  PROVE  /\ S \subseteq Closure(F, S) /\ Closure(F, S) \subseteq X
         /\ \A x \in Closure(F, S) : F[x] \subseteq Closure(F, S)
         /\ \A T \in SUBSET X : S \subseteq T /\ (\A x \in T : F[x] \subseteq T) =>
              Closure(F, S) \subseteq T
<1> DEFINE More(T) == T \union UNION {F[x] : x \in T}
           Closed(T) == \A x \in T : F[x] \subseteq T
           Def(c) == c = [T \in SUBSET X |-> IF More(T) = T THEN T ELSE c[More(T)]]
           least == [T \in SUBSET X |->
                       {x \in X : \A U \in SUBSET X : T \subseteq U /\ Closed(U) => x \in U}]
           clos == CHOOSE c : Def(c)
           Good(T) == /\ T \subseteq clos[T] /\ clos[T] \subseteq X /\ Closed(clos[T])
                      /\ \A U \in SUBSET X : T \subseteq U /\ Closed(U) => clos[T] \subseteq U
<1>1. \A T \in SUBSET X : T \subseteq More(T) /\ More(T) \in SUBSET X
  OBVIOUS
<1>2. \A T \in SUBSET X : More(T) = T <=> Closed(T)
  OBVIOUS
<1>3. \A T, U \in SUBSET X : Closed(U) => (T \subseteq U <=> More(T) \subseteq U)
  OBVIOUS
<1> HIDE DEF More, Closed
<1>4. Def(least)
  <2>1. ASSUME NEW T \in SUBSET X
        PROVE  least[T] = IF More(T) = T THEN T ELSE least[More(T)]
    <3>1. CASE More(T) = T
      BY <3>1, <1>2
    <3>2. CASE More(T) # T
      <4>1. More(T) \in SUBSET X
        BY <1>1
      <4>2. least[T] = least[More(T)]
        BY <4>1, <1>3
      <4>3. QED
        BY <4>2, <3>2
    <3>3. QED
      BY <3>1, <3>2
  <2>2. QED
    BY <2>1
<1> HIDE DEF least
<1>5. Def(clos)
  BY <1>4
<1>6. Closure(F, S) = clos[S]
  <2>1. DOMAIN F = X
    OBVIOUS
  <2>2. QED
    BY <2>1 DEF Closure, More
<1> HIDE DEF clos
<1>7. \A T \in SUBSET X : clos[T] = IF More(T) = T THEN T ELSE clos[More(T)]
  BY <1>5
<1>8. \A T \in SUBSET X : Good(T)
  <2> DEFINE bad == {T \in SUBSET X : ~Good(T)}
             left == {X \ T : T \in bad}
             smaller == StrictSubsetOrdering(X)
  <2>1. SUFFICES ASSUME bad # {}
                 PROVE  FALSE
    OBVIOUS
  <2>2. left \subseteq FiniteSubsetsOf(X) /\ left # {}
    <3>1. \A T : IsFiniteSet(X \ T)
      BY FS_Difference
    <3>2. \A T : X \ T \in FiniteSubsetsOf(X)
      BY <3>1 DEF FiniteSubsetsOf
    <3> HIDE DEF Good, bad
    <3>3. PICK T \in bad : TRUE
      BY <2>1
    <3>4. X \ T \in left
      OBVIOUS
    <3>5. QED
      BY <3>2, <3>4
  <2>3. IsWellFoundedOn(smaller, FiniteSubsetsOf(X))
    BY FS_StrictSubsetOrderingWellFounded
  <2>4. PICK l \in left : \A k \in left : ~(<<k, l>> \in smaller)
    <3> HIDE DEF left, smaller
    <3>1. QED
      BY <2>2, <2>3, WFMin
  <2>5. PICK T \in bad : l = X \ T
    BY <2>4
  <2>6. T \in SUBSET X /\ More(T) \in SUBSET X /\ T \subseteq More(T)
    BY <2>5, <1>1
  <2>7. More(T) # T
    <3>1. SUFFICES ASSUME More(T) = T
                   PROVE  FALSE
      OBVIOUS
    <3>2. clos[T] = T /\ Closed(T)
      BY <3>1, <2>6, <1>7, <1>2
    <3>3. QED
      BY <3>2, <2>5, <2>6
  <2>8. clos[T] = clos[More(T)]
    BY <2>7, <2>6, <1>7
  <2>9. Good(More(T))
    <3>1. SUFFICES ASSUME More(T) \in bad
                   PROVE  FALSE
      BY <2>6
    <3>2. X \ More(T) \in left
      BY <3>1
    <3>3. X \ More(T) \subseteq l /\ X \ More(T) # l
      BY <2>5, <2>6, <2>7
    <3>4. QED
      BY <2>4, <2>5, <3>2, <3>3 DEF StrictSubsetOrdering
  <2>10. Good(T)
    BY <2>6, <2>8, <2>9, <1>3
  <2>11. QED
    BY <2>5, <2>10
<1>9. QED
  BY <1>6, <1>8 DEF Closed

-----------------------------------------------------------------------------
(* The invariant                                                           *)

Refs == Modules \X (1 .. MaxHeap)
At(h, r) == h[r[1]][r[2]]
Used(h, r) == DOMAIN At(h, r).val # {}

(* What a name holds: the file whose mock it is of, and which; or Real.    *)
Values == (0 .. MaxFiles) \X Nat
NameValues == UNION {[S -> Values] : S \in SUBSET Names}
Objects == [mock : BOOLEAN, over : BOOLEAN, val : NameValues, bound : Seq(References)]
Frames == [mod : Modules, obj : Refs, next : Nat, saved : References, retried : BOOLEAN]

(* A mock made the object, or was put over it; neither, and its names hold *)
(* what the load gave them.                                                *)
Mocked(o) == o.mock \/ o.over
Genuine(o) == ~Mocked(o) /\ \A n \in DOMAIN o.val : o.val[n] = Real

(* What the load of a module gave is kept but where a mock was put over it. *)
Kept(m, o) ==
  ~o.mock /\ (~o.over \/ m \in GetterOnly) => \A n \in DOMAIN o.val : o.val[n] = Real

Types ==
  /\ heap \in [Modules -> [1 .. MaxHeap -> Objects]]
  /\ exports \in [Modules -> References] /\ real \in [Modules -> References]
  /\ mocks \subseteq Mockable /\ edges \subseteq Modules \X Modules
  /\ stack \in Seq(Frames)
  /\ phase \in {"setup", "prepass", "drain", "run"} /\ file \in 1 .. MaxFiles /\ made \in Nat
  /\ setupMocks \subseteq Mockable /\ snapshot \in [Modules -> NameValues]
  /\ queue \in Seq(Mockable) /\ waits \in [Modules -> 0 .. MaxFiles]
  /\ declared \in [Modules -> NameValues] /\ touched \subseteq Modules
  /\ loads \in [Pkgs -> 0 .. 2]

(* What is held of a path is an object of its own, in use. *)
OfPath(h, m, r) == r # None => r[1] = m /\ Used(h, r)
HeldInv ==
  /\ \A m \in Modules : OfPath(heap, m, exports[m]) /\ OfPath(heap, m, real[m])
  /\ \A i \in DOMAIN stack :
       OfPath(heap, stack[i].mod, stack[i].obj) /\ OfPath(heap, stack[i].mod, stack[i].saved)

(* Imports are bound to objects in use, each with its edge; those of       *)
(* packages to no mock's object.                                           *)
LinksOf(h, es) ==
  \A r \in Refs :
    /\ ~Used(h, r) => At(h, r) = Free
    /\ Kept(r[1], At(h, r))
    /\ \A to \in Bounds(At(h, r)) :
         Used(h, to) /\ <<to[1], r[1]>> \in es /\ (r[1] \in Pkgs => ~At(h, to).mock)
LinkInv == LinksOf(heap, edges)

(* The bodies executing require each other in turn; none is mocked, and    *)
(* only packages make the load of a mocked module necessary.               *)
StackOf(ms, es, st) ==
  \A i \in DOMAIN st :
    /\ st[i].mod \notin ms
    /\ st[i].saved # None => st[i].mod \in Mockable
    /\ \A j \in DOMAIN st : st[i].mod = st[j].mod => i = j
    /\ i > 1 =>
         /\ st[i].mod \in Range(Imports[st[i - 1].mod])
         /\ <<st[i].mod, st[i - 1].mod>> \in es
         /\ st[i].saved # None => st[i - 1].mod \in Pkgs
    /\ \A S \in SUBSET Modules :
         ImportsClosed(S) /\ st[i].mod \in S => \A j \in i .. Len(st) : st[j].mod \in S
StackInv == StackOf(mocks, edges, stack)

(* The mock in force of a path, which a load of its module puts aside.     *)
MockIn(ms, es, st, m) ==
  IF m \in ms THEN es[m]
  ELSE IF \E i \in DOMAIN st : st[i].mod = m
    THEN st[CHOOSE i \in DOMAIN st : st[i].mod = m].saved
  ELSE None
MockOf(m) == MockIn(mocks, exports, stack, m)

(* A mock is an object that holds what was declared last.                  *)
MockInv ==
  \A m \in Modules :
    /\ m \in mocks => exports[m] # None
    /\ MockOf(m) # None => Mocked(At(heap, MockOf(m)))
    /\ DOMAIN declared[m] # {} =>
         /\ MockOf(m) # None
         /\ \A n \in DOMAIN declared[m] : At(heap, MockOf(m)).val[n] = declared[m][n]

(* What a module's own load made is no mock's, and is as it was made while *)
(* no mock is in force.                                                    *)
RealInv ==
  /\ \A m \in Modules : real[m] # None => ~At(heap, real[m]).mock
  /\ \A m \in Modules \ mocks : exports[m] # None => Genuine(At(heap, exports[m]))
  /\ \A i \in DOMAIN stack : Genuine(At(heap, stack[i].obj))

(* A body that has not begun is bound to nothing. *)
FreshInv == \A i \in DOMAIN stack : stack[i].next = 0 => Bounds(At(heap, stack[i].obj)) = {}

(* Setup's mocks stay in force; the others are of the file that runs.      *)
OwnerInv ==
  /\ phase = "setup" => setupMocks = {} /\ waits = [m \in Modules |-> 0]
  /\ \A m \in Modules : waits[m] \in {0, file}
  /\ \A m \in Modules :
       /\ DOMAIN snapshot[m] # {} => m \in setupMocks
       /\ m \in setupMocks => MockOf(m) # None
       /\ m \notin setupMocks /\ MockOf(m) # None =>
            \A n \in DOMAIN At(heap, MockOf(m)).val :
              At(heap, MockOf(m)).val[n] = Real \/ At(heap, MockOf(m)).val[n][1] = Owner

(* A package that ran is kept until a test mocks it.                       *)
OnceInv ==
  /\ phase # "setup" => \A m \in Modules \ setupMocks : MockOf(m) # None => m \in touched
  /\ \A m \in Pkgs \ touched :
       loads[m] # 0 => loads[m] = 1 /\ real[m] # None /\ exports[m] # None /\ ~IsLoading(m)

(* S has what the registry serves of the app's modules and what executes,  *)
(* and what these lead to short of mocks; all of it is bound to the mocks  *)
(* in force.                                                               *)
Sees(S) ==
  /\ \A x \in App \ mocks : exports[x] # None => exports[x] \in S
  /\ \A i \in DOMAIN stack : stack[i].mod \in App => stack[i].obj \in S
  /\ \A r \in S :
       /\ r[1] \in App
       /\ \A to \in Bounds(At(heap, r)) :
            IF MockOf(to[1]) # None THEN to = MockOf(to[1])
            ELSE to[1] \in App /\ ~Mocked(At(heap, to)) => to \in S
SeesInv == \E S \in SUBSET Refs : Sees(S)

RegistryInv ==
  /\ Types /\ HeldInv /\ LinkInv /\ StackInv /\ MockInv /\ RealInv /\ FreshInv
  /\ OwnerInv /\ OnceInv

-----------------------------------------------------------------------------
(* Objects                                                                 *)

HeapType(h) == h \in [Modules -> [1 .. MaxHeap -> Objects]]

(* A reference is a path's, with a number; None is none. *)
LEMMA RefFacts ==
  /\ References = {None} \union Refs
  /\ \A r \in Refs : r = <<r[1], r[2]>> /\ r[1] \in Modules /\ r[2] \in 1 .. MaxHeap /\ r # None
  /\ \A m \in Modules, i \in 1 .. MaxHeap : <<m, i>> \in Refs
<1>1. \A r \in Refs : r = <<r[1], r[2]>> /\ r[1] \in Modules /\ r[2] \in 1 .. MaxHeap
  BY DEF Refs
<1>2. None \notin Refs
  <2>1. None[2] = 0 /\ 0 \notin 1 .. MaxHeap
    BY RegistryAssumption DEF None
  <2>2. QED
    BY <1>1, <2>1
<1>3. QED
  BY <1>1, <1>2 DEF References, Refs

(* What an object's imports are bound to are references. *)
LEMMA BoundsType ==
  ASSUME NEW o \in Objects
  PROVE  /\ Bounds(o) \subseteq Refs
         /\ \A to : to \in Bounds(o) <=> to # None /\ \E k \in DOMAIN o.bound : o.bound[k] = to
<1>1. o.bound \in Seq(References)
  BY DEF Objects
<1>2. \A k \in DOMAIN o.bound : o.bound[k] \in References
  BY <1>1
<1>3. QED
  BY <1>2, RefFacts DEF Bounds, Range

(* An object of a heap. *)
LEMMA ObjectType ==
  ASSUME NEW h, HeapType(h), NEW r \in Refs
  PROVE  /\ At(h, r) \in Objects
         /\ At(h, r).mock \in BOOLEAN /\ At(h, r).val \in NameValues
         /\ At(h, r).bound \in Seq(References)
         /\ Bounds(At(h, r)) \subseteq Refs
<1>1. At(h, r) \in Objects
  BY RefFacts DEF HeapType, At
<1>2. QED
  BY <1>1, BoundsType DEF Objects

(* A name's values. *)
LEMMA ValuesType ==
  ASSUME NEW v \in NameValues
  PROVE  /\ v = [n \in DOMAIN v |-> v[n]] /\ DOMAIN v \subseteq Names
         /\ \A n \in DOMAIN v : v[n] \in Values
BY DEF NameValues

(* One cell is written, and the others are as they were. *)
LEMMA WriteFacts ==
  ASSUME HeapType(heap), NEW ref \in Refs, NEW o \in Objects
  PROVE  /\ HeapType(Write(ref, o))
         /\ \A r \in Refs : At(Write(ref, o), r) = IF r = ref THEN o ELSE At(heap, r)
<1>1. /\ ref[1] \in Modules /\ ref[2] \in 1 .. MaxHeap
      /\ \A r \in Refs : /\ r[1] \in Modules /\ r[2] \in 1 .. MaxHeap
                         /\ r = ref <=> r[1] = ref[1] /\ r[2] = ref[2]
  BY RefFacts
<1> DEFINE cells == [heap[ref[1]] EXCEPT ![ref[2]] = o]
<1>2. Write(ref, o) = [heap EXCEPT ![ref[1]] = cells]
  BY DEF Write
<1>3. /\ cells \in [1 .. MaxHeap -> Objects]
      /\ \A i \in 1 .. MaxHeap : cells[i] = IF i = ref[2] THEN o ELSE heap[ref[1]][i]
  BY <1>1 DEF HeapType
<1> HIDE DEF cells
<1>4. /\ HeapType(Write(ref, o))
      /\ \A m \in Modules : Write(ref, o)[m] = IF m = ref[1] THEN cells ELSE heap[m]
  BY <1>1, <1>2, <1>3 DEF HeapType
<1>5. QED
  BY <1>1, <1>3, <1>4 DEF At

(* An import is bound. *)
LEMMA BindFacts ==
  ASSUME HeapType(heap), NEW ref \in Refs, NEW k, NEW to \in Refs
  PROVE  /\ HeapType(Bind(ref, k, to))
         /\ \A r \in Refs :
              /\ At(Bind(ref, k, to), r).mock = At(heap, r).mock
              /\ At(Bind(ref, k, to), r).over = At(heap, r).over
              /\ At(Bind(ref, k, to), r).val = At(heap, r).val
              /\ Bounds(At(Bind(ref, k, to), r)) \subseteq
                   Bounds(At(heap, r)) \union (IF r = ref THEN {to} ELSE {})
              /\ r # ref => At(Bind(ref, k, to), r) = At(heap, r)
<1> DEFINE o == At(heap, ref)
           b == [o.bound EXCEPT ![k] = to]
           p == [mock |-> o.mock, over |-> o.over, val |-> o.val, bound |-> b]
<1>1. /\ o \in Objects /\ o.mock \in BOOLEAN /\ o.over \in BOOLEAN
      /\ o.val \in NameValues /\ o.bound \in Seq(References)
  BY ObjectType DEF Objects
<1>2. b \in Seq(References) /\ DOMAIN b = DOMAIN o.bound
      /\ \A j \in DOMAIN b : b[j] = to \/ b[j] = o.bound[j]
  <2>1. to \in References
    BY RefFacts
  <2>2. CASE k \in 1 .. Len(o.bound)
    BY <1>1, <2>1, <2>2, ExceptSeq, LenProperties
  <2>3. CASE k \notin 1 .. Len(o.bound)
    <3>1. DOMAIN o.bound = 1 .. Len(o.bound) /\ o.bound \in [1 .. Len(o.bound) -> References]
      BY <1>1, LenProperties
    <3>2. b = o.bound
      BY <2>3, <3>1
    <3>3. QED
      BY <1>1, <3>2
  <2>4. QED
    BY <2>2, <2>3
<1>3. p \in Objects
  BY <1>1, <1>2 DEF Objects
<1>4. Bind(ref, k, to) = Write(ref, p)
  <2>1. o = [mock |-> o.mock, over |-> o.over, val |-> o.val, bound |-> o.bound]
    BY <1>1 DEF Objects
  <2>2. [o EXCEPT !.bound[k] = to] = p
    BY <2>1
  <2>3. Bind(ref, k, to) = [heap EXCEPT ![ref[1]][ref[2]] = [o EXCEPT !.bound[k] = to]]
    BY DEF Bind, At
  <2>4. QED
    BY <2>2, <2>3 DEF Write
<1>5. Bounds(p) \subseteq Bounds(o) \union {to}
  BY <1>1, <1>2, <1>3, BoundsType
<1> HIDE DEF p, b
<1>6. p.mock = o.mock /\ p.over = o.over /\ p.val = o.val
  BY DEF p
<1>7. QED
  BY <1>3, <1>4, <1>5, <1>6, WriteFacts


(* A free cell holds no name and is bound to nothing. *)
LEMMA FreeFacts ==
  /\ Free \in Objects /\ Bounds(Free) = {} /\ DOMAIN Free.val = {}
  /\ ~Free.mock /\ Genuine(Free) /\ \A x : Kept(x, Free)
<1>1. NoNames \in [{} -> Values] /\ DOMAIN NoNames = {}
  BY DEF NoNames
<1>2. NoNames \in NameValues
  BY <1>1 DEF NameValues
<1>3. Free \in Objects
  BY <1>2 DEF Free, Objects
<1>4. QED
  BY <1>1, <1>3, BoundsType DEF Free, Genuine, Mocked, Kept

(* There are finitely many references. *)
LEMMA RefsFinite == IsFiniteSet(Refs)
<1>1. IsFiniteSet(1 .. MaxHeap)
  BY RegistryAssumption, FS_Interval
<1>2. QED
  BY <1>1, RegistryAssumption, FS_Product DEF Refs

(* A collection leaves what the registry and the executing bodies hold,    *)
(* and what that is bound to.                                              *)
LEMMA LiveFacts ==
  ASSUME NEW h, HeapType(h),
         exports' \in [Modules -> References], real' \in [Modules -> References],
         stack' \in Seq(Frames)
  PROVE  /\ HeapType(Live(h))
         /\ \A r \in Refs :
              /\ At(Live(h), r) = At(h, r) \/ At(Live(h), r) = Free
              /\ (\E m \in Modules : r = exports'[m] \/ r = real'[m])
                   => At(Live(h), r) = At(h, r)
              /\ (\E i \in DOMAIN stack' : r = stack'[i].obj \/ r = stack'[i].saved)
                   => At(Live(h), r) = At(h, r)
              /\ \A to \in Bounds(At(Live(h), r)) : At(Live(h), to) = At(h, to)
<1> DEFINE roots == {exports'[m] : m \in Modules} \union {real'[m] : m \in Modules}
                    \union {stack'[i].obj : i \in DOMAIN stack'}
                    \union {stack'[i].saved : i \in DOMAIN stack'}
           F == [r \in Refs |-> Bounds(At(h, r))]
           held == Closure(F, roots \ {None})
<1>1. F \in [Refs -> SUBSET Refs]
  BY ObjectType
<1>2. roots \ {None} \in SUBSET Refs
  <2>1. \A i \in DOMAIN stack' : stack'[i] \in Frames
    OBVIOUS
  <2>2. \A i \in DOMAIN stack' : stack'[i].obj \in References /\ stack'[i].saved \in References
    BY <2>1, RefFacts DEF Frames
  <2>3. QED
    BY <2>2, RefFacts
<1>3. /\ roots \ {None} \subseteq held /\ held \subseteq Refs
      /\ \A x \in held : F[x] \subseteq held
  <2> HIDE DEF F, roots
  <2>1. QED
    BY <1>1, <1>2, ClosureIs, RefsFinite
<1>4. Held(h) = held
  BY DEF Held, At, Refs
<1> HIDE DEF held, roots
<1>5. \A r \in Refs : At(Live(h), r) = IF r \in held THEN At(h, r) ELSE Free
  BY <1>4, RefFacts DEF Live, At
<1>6. HeapType(Live(h))
  <2>1. \A m \in Modules, i \in 1 .. MaxHeap : h[m][i] \in Objects /\ Free \in Objects
    BY FreeFacts DEF HeapType
  <2>2. QED
    BY <2>1 DEF HeapType, Live
<1>7. ASSUME NEW r \in Refs, r \in roots
      PROVE  At(Live(h), r) = At(h, r)
  BY <1>3, <1>5, <1>7, RefFacts
<1>8. ASSUME NEW r \in Refs, NEW to \in Bounds(At(Live(h), r))
      PROVE  At(Live(h), to) = At(h, to)
  <2>1. r \in held /\ to \in Bounds(At(h, r))
    BY <1>5, <1>8, FreeFacts
  <2>2. to \in held
    BY <2>1, <1>3
  <2>3. QED
    BY <2>2, <1>3, <1>5
<1>9. QED
  BY <1>5, <1>6, <1>7, <1>8 DEF roots

-----------------------------------------------------------------------------
(* The stack                                                               *)

(* The frames of a stack have their types. *)
LEMMA FrameFacts ==
  ASSUME NEW st \in Seq(Frames)
  PROVE  /\ DOMAIN st = 1 .. Len(st) /\ Len(st) \in Nat
         /\ \A i \in DOMAIN st :
              /\ st[i] \in Frames /\ st[i].mod \in Modules /\ st[i].obj \in Refs
              /\ st[i].next \in Nat /\ st[i].saved \in References /\ st[i].retried \in BOOLEAN
         /\ st # <<>> => Len(st) > 0 /\ Len(st) \in DOMAIN st
<1>1. DOMAIN st = 1 .. Len(st) /\ Len(st) \in Nat
  BY LenProperties
<1>2. \A i \in DOMAIN st : st[i] \in Frames
  OBVIOUS
<1>3. st # <<>> => Len(st) \in Nat \ {0}
  BY EmptySeq
<1>4. QED
  BY <1>1, <1>2, <1>3 DEF Frames

(* Frames that differ in where they are in their body, and in what they    *)
(* filled so far.                                                          *)
SameFrame(f, g) == f.mod = g.mod /\ f.obj = g.obj /\ f.saved = g.saved

(* The body on top goes on in its frame. *)
LEMMA NextFrame ==
  ASSUME NEW st \in Seq(Frames), st # <<>>, NEW k \in Nat
  PROVE  LET new == [st EXCEPT ![Len(st)].next = k]
         IN  /\ new \in Seq(Frames) /\ Len(new) = Len(st)
             /\ \A i \in DOMAIN st : SameFrame(new[i], st[i])
             /\ \A i \in DOMAIN st : i # Len(st) => new[i] = st[i]
             /\ new[Len(st)].next = k
<1> DEFINE f == [st[Len(st)] EXCEPT !.next = k]
<1>1. Len(st) \in 1 .. Len(st) /\ st[Len(st)] \in Frames
  BY FrameFacts
<1>2. f \in Frames /\ SameFrame(f, st[Len(st)]) /\ f.next = k
  BY <1>1 DEF Frames, SameFrame
<1>3. [st EXCEPT ![Len(st)].next = k] = [st EXCEPT ![Len(st)] = f]
  OBVIOUS
<1> HIDE DEF f
<1> DEFINE new == [st EXCEPT ![Len(st)] = f]
<1>4. /\ new \in Seq(Frames) /\ Len(new) = Len(st)
      /\ \A i \in 1 .. Len(st) : new[i] = IF i = Len(st) THEN f ELSE st[i]
  BY <1>1, <1>2, ExceptSeq
<1> HIDE DEF new
<1>5. [st EXCEPT ![Len(st)].next = k] = new
  BY <1>3 DEF new
<1>6. DOMAIN st = 1 .. Len(st)
  BY FrameFacts
<1>7. \A i \in DOMAIN st : SameFrame(new[i], st[i])
  BY <1>2, <1>4, <1>6 DEF SameFrame
<1>8. QED
  BY <1>1, <1>2, <1>4, <1>5, <1>6, <1>7

(* What is left when the body on top ends. *)
Popped == IF Below = <<>> THEN <<>> ELSE [Below EXCEPT ![Len(Below)].next = @ + 1]

(* What is left are the frames below; the one on top of them goes on. *)
LEMMA PoppedFrames ==
  ASSUME stack \in Seq(Frames), stack # <<>>,
         stack' = Popped
  PROVE  /\ stack' \in Seq(Frames) /\ Len(stack') = Len(stack) - 1
         /\ DOMAIN stack' = 1 .. Len(stack) - 1
         /\ \A i \in DOMAIN stack' : SameFrame(stack'[i], stack[i])
         /\ \A i \in DOMAIN stack' : stack'[i].next = 0 => stack[i].next = 0 /\ i # Len(stack) - 1
         /\ Below = <<>> => stack' = <<>>
         /\ Below # <<>> => Len(stack) > 1 /\ Len(Below) = Len(stack) - 1 /\ Below[Len(Below)] = stack[Len(stack) - 1]
<1>1. Len(stack) \in Nat /\ Len(stack) > 0
  BY FrameFacts
<1>2. \A i \in 1 .. Len(stack) - 1 : stack[i] \in Frames
  BY <1>1, FrameFacts
<1>3. /\ Below \in Seq(Frames) /\ Len(Below) = Len(stack) - 1
      /\ \A i \in 1 .. Len(stack) - 1 : Below[i] = stack[i]
  <2>1. /\ Below \in Seq(Frames)
        /\ Len(Below) = IF 1 <= Len(stack) - 1 THEN (Len(stack) - 1) - 1 + 1 ELSE 0
        /\ \A i \in 1 .. (Len(stack) - 1) - 1 + 1 : Below[i] = stack[1 + i - 1]
    BY <1>1, <1>2, SubSeqProperties DEF Below
  <2>2. Len(Below) = Len(stack) - 1
    <3>1. \A n \in Nat : n > 0 => (IF 1 <= n - 1 THEN (n - 1) - 1 + 1 ELSE 0) = n - 1
      OBVIOUS
    <3>2. QED
      BY <2>1, <1>1, <3>1
  <2>3. ASSUME NEW i \in 1 .. Len(stack) - 1
        PROVE  Below[i] = stack[i]
    <3>1. i \in 1 .. (Len(stack) - 1) - 1 + 1 /\ 1 + i - 1 = i
      BY <1>1
    <3>2. QED
      BY <2>1, <3>1
  <2>4. QED
    BY <2>1, <2>2, <2>3
<1>4. CASE Below = <<>>
  <2>1. Len(stack) - 1 = 0 /\ stack' = <<>>
    BY <1>3, <1>4 DEF Popped
  <2>2. \A i \in 1 .. Len(stack) - 1 : FALSE
    <3>1. \A n \in Nat : n = 0 => \A i \in 1 .. n : FALSE
      OBVIOUS
    <3>2. QED
      BY <2>1, <3>1
  <2>3. DOMAIN stack' = 1 .. Len(stack) - 1
    <3>1. stack' \in Seq(Frames) /\ Len(stack') = Len(stack) - 1
      BY <2>1, EmptySeq
    <3>2. QED
      BY <3>1, FrameFacts
  <2>4. QED
    BY <1>4, <2>1, <2>2, <2>3, EmptySeq
<1>5. CASE Below # <<>>
  <2>1. Len(Below) > 0 /\ Len(Below) \in DOMAIN Below /\ Below[Len(Below)].next \in Nat
    BY <1>3, <1>5, FrameFacts
  <2>2. stack' = [Below EXCEPT ![Len(Below)].next = Below[Len(Below)].next + 1]
    BY <1>5 DEF Popped
  <2>3. Below[Len(Below)].next + 1 \in Nat
    BY <2>1
  <2>4. /\ stack' \in Seq(Frames) /\ Len(stack') = Len(Below)
        /\ \A i \in DOMAIN Below : SameFrame(stack'[i], Below[i])
        /\ \A i \in DOMAIN Below : i # Len(Below) => stack'[i] = Below[i]
        /\ stack'[Len(Below)].next = Below[Len(Below)].next + 1
    BY <1>3, <1>5, <2>2, <2>3, NextFrame
  <2>5. DOMAIN Below = 1 .. Len(stack) - 1
    BY <1>3, FrameFacts
  <2>6. DOMAIN stack' = DOMAIN Below
    BY <1>3, <2>4, FrameFacts
  <2>11. \A i \in DOMAIN stack' : SameFrame(stack'[i], stack[i])
    BY <1>3, <2>4, <2>5, <2>6
  <2>7. Len(stack) > 1 /\ Below[Len(Below)] = stack[Len(stack) - 1]
    BY <1>1, <1>3, <2>1, <2>5
  <2>8. stack'[Len(stack) - 1].next # 0
    <3>1. \A k \in Nat : k + 1 # 0
      OBVIOUS
    <3>2. QED
      BY <1>3, <2>1, <2>4, <3>1
  <2>9. \A i \in DOMAIN stack' : stack'[i].next = 0 => stack[i].next = 0 /\ i # Len(stack) - 1
    BY <1>3, <2>4, <2>5, <2>6, <2>8
  <2>10. QED
    BY <1>3, <1>5, <2>4, <2>5, <2>6, <2>7, <2>9, <2>11
<1>6. QED
  BY <1>4, <1>5

(* A part of the stack is as the whole.                                    *)
LEMMA StackPart ==
  ASSUME NEW ms, NEW es, NEW ms2, NEW es2, es \subseteq es2,
         NEW st \in Seq(Frames), NEW st2 \in Seq(Frames), StackOf(ms, es, st),
         Len(st2) <= Len(st),
         \A i \in DOMAIN st2 : /\ st2[i].mod = st[i].mod /\ st2[i].saved = st[i].saved
                               /\ st2[i].mod \notin ms2
  PROVE  StackOf(ms2, es2, st2)
<1>1. DOMAIN st = 1 .. Len(st) /\ DOMAIN st2 = 1 .. Len(st2) /\ Len(st) \in Nat /\ Len(st2) \in Nat
  BY FrameFacts
<1>2. SUFFICES ASSUME NEW i \in DOMAIN st2
               PROVE  /\ st2[i].saved # None => st2[i].mod \in Mockable
                      /\ \A j \in DOMAIN st2 : st2[i].mod = st2[j].mod => i = j
                      /\ i > 1 =>
                           /\ st2[i].mod \in Range(Imports[st2[i - 1].mod])
                           /\ <<st2[i].mod, st2[i - 1].mod>> \in es2
                           /\ st2[i].saved # None => st2[i - 1].mod \in Pkgs
                      /\ \A S \in SUBSET Modules :
                           ImportsClosed(S) /\ st2[i].mod \in S =>
                             \A j \in i .. Len(st2) : st2[j].mod \in S
  BY DEF StackOf
<1>3. i \in DOMAIN st /\ (i > 1 => i - 1 \in DOMAIN st2 /\ i - 1 \in DOMAIN st)
  BY <1>1
<1>4. \A j \in i .. Len(st2) : j \in DOMAIN st2 /\ j \in i .. Len(st)
  BY <1>1
<1>5. \A j \in DOMAIN st2 : j \in DOMAIN st /\ st2[j].mod = st[j].mod /\ st2[j].saved = st[j].saved
  BY <1>1
<1>6. ASSUME NEW S \in SUBSET Modules, ImportsClosed(S), st2[i].mod \in S
      PROVE  \A j \in i .. Len(st2) : st2[j].mod \in S
  <2>1. \A j \in i .. Len(st) : st[j].mod \in S
    BY <1>3, <1>5, <1>6 DEF StackOf
  <2>2. QED
    BY <1>4, <1>5, <2>1
<1>7. i > 1 =>
        /\ st2[i].mod \in Range(Imports[st2[i - 1].mod])
        /\ <<st2[i].mod, st2[i - 1].mod>> \in es2
        /\ st2[i].saved # None => st2[i - 1].mod \in Pkgs
  BY <1>3, <1>5 DEF StackOf
<1>8. /\ st2[i].saved # None => st2[i].mod \in Mockable
      /\ \A j \in DOMAIN st2 : st2[i].mod = st2[j].mod => i = j
  BY <1>3, <1>5 DEF StackOf
<1>9. QED
  BY <1>6, <1>7, <1>8

(* The module that the body on top requires is loaded next.                *)
LEMMA StackPush ==
  ASSUME NEW ms, NEW es, NEW ms2, NEW es2, ms2 \subseteq ms, es \subseteq es2,
         NEW st \in Seq(Frames), StackOf(ms, es, st), NEW f \in Frames,
         f.mod \notin ms2, \A i \in DOMAIN st : st[i].mod # f.mod,
         f.saved # None => f.mod \in Mockable,
         st # <<>> => LET g == st[Len(st)]
                      IN  /\ f.mod \in Range(Imports[g.mod]) /\ <<f.mod, g.mod>> \in es2
                          /\ f.saved # None => g.mod \in Pkgs
  PROVE  StackOf(ms2, es2, Append(st, f))
<1> DEFINE n == Len(st)
           new == Append(st, f)
<1>1. /\ new \in Seq(Frames) /\ Len(new) = n + 1 /\ n \in Nat
      /\ DOMAIN st = 1 .. n /\ DOMAIN new = 1 .. n + 1
      /\ \A i \in 1 .. n : new[i] = st[i]
      /\ new[n + 1] = f
  BY AppendProperties, FrameFacts
<1> HIDE DEF new
<1>2. ASSUME NEW i \in 1 .. n
      PROVE  /\ new[i].mod \notin ms2
             /\ new[i].saved # None => new[i].mod \in Mockable
             /\ \A j \in 1 .. n + 1 : new[i].mod = new[j].mod => i = j
             /\ i > 1 =>
                  /\ new[i].mod \in Range(Imports[new[i - 1].mod])
                  /\ <<new[i].mod, new[i - 1].mod>> \in es2
                  /\ new[i].saved # None => new[i - 1].mod \in Pkgs
             /\ \A S \in SUBSET Modules :
                  ImportsClosed(S) /\ new[i].mod \in S =>
                    \A j \in i .. n + 1 : new[j].mod \in S
  <2>1. new[i] = st[i] /\ i \in DOMAIN st
    BY <1>1
  <2>2. \A j \in 1 .. n + 1 : j = n + 1 \/ j \in 1 .. n
    <3>1. n \in Nat
      BY <1>1
    <3> HIDE DEF n
    <3>2. QED
      BY <3>1
  <2>3. \A j \in 1 .. n + 1 : new[i].mod = new[j].mod => i = j
    BY <1>1, <2>1, <2>2 DEF StackOf
  <2>4. i > 1 => i - 1 \in 1 .. n
    BY <1>1
  <2>5. ASSUME NEW S \in SUBSET Modules, ImportsClosed(S), new[i].mod \in S
        PROVE  \A j \in i .. n + 1 : new[j].mod \in S
    <3>1. \A j \in i .. n : st[j].mod \in S
      BY <1>1, <2>1, <2>5 DEF StackOf
    <3>2. n \in i .. n /\ st # <<>>
      BY <1>1, EmptySeq
    <3>3. f.mod \in S
      BY <2>5, <3>1, <3>2 DEF ImportsClosed
    <3>4. QED
      BY <1>1, <3>1, <3>3
  <2>6. QED
    BY <1>1, <2>1, <2>3, <2>4, <2>5 DEF StackOf
<1>3. /\ f.mod \notin ms2 /\ (f.saved # None => f.mod \in Mockable)
      /\ \A j \in 1 .. n + 1 : new[j].mod = f.mod => j = n + 1
      /\ \A S \in SUBSET Modules : f.mod \in S => \A j \in n + 1 .. n + 1 : new[j].mod \in S
  BY <1>1
<1>4. n + 1 > 1 => /\ st # <<>> /\ n \in 1 .. n /\ new[n] = st[n]
  BY <1>1, EmptySeq
<1>5. QED
  <2>1. SUFFICES ASSUME NEW i \in 1 .. n + 1
                 PROVE  /\ new[i].mod \notin ms2
                        /\ new[i].saved # None => new[i].mod \in Mockable
                        /\ \A j \in 1 .. n + 1 : new[i].mod = new[j].mod => i = j
                        /\ i > 1 =>
                             /\ new[i].mod \in Range(Imports[new[i - 1].mod])
                             /\ <<new[i].mod, new[i - 1].mod>> \in es2
                             /\ new[i].saved # None => new[i - 1].mod \in Pkgs
                        /\ \A S \in SUBSET Modules :
                             ImportsClosed(S) /\ new[i].mod \in S =>
                               \A j \in i .. n + 1 : new[j].mod \in S
    BY <1>1 DEF StackOf, new
  <2>2. CASE i \in 1 .. n
    BY <1>2, <2>2
  <2>3. CASE i = n + 1
    <3>1. i - 1 = n
      BY <1>1, <2>3
    <3>2. QED
      BY <1>1, <1>3, <1>4, <2>3, <3>1
  <2>4. QED
    BY <1>1, <2>2, <2>3

-----------------------------------------------------------------------------
(* What a step makes of the heap                                           *)

(* A set of numbers that is not empty has a smallest one. *)
LEMMA SmallestNumber ==
  ASSUME NEW S, S \subseteq Nat, S # {}
  PROVE  \E x \in S : \A y \in S : x <= y
<1>1. PICK x \in S : \A y \in S : ~ (<<y, x>> \in OpToRel(<, Nat))
  BY NatLessThanWellFounded, WFMin
<1>2. ASSUME NEW y \in S
      PROVE  x <= y
  <2>1. x \in Nat /\ y \in Nat
    OBVIOUS
  <2>2. <<y, x>> \in OpToRel(<, Nat) <=> y < x
    BY <2>1 DEF OpToRel
  <2>3. ~ (y < x)
    BY <1>1, <2>2
  <2>4. QED
    BY <2>1, <2>3
<1>3. QED
  BY <1>2

(* A new object's cell was in no use. *)
LEMMA NewCellFacts ==
  ASSUME NEW m \in Modules, FreeCells(m) # {}
  PROVE  NewCell(m) \in Refs /\ NewCell(m)[1] = m /\ At(heap, NewCell(m)) = Free
                            /\ ~Used(heap, NewCell(m))
<1>1. FreeCells(m) \subseteq 1 .. MaxHeap /\ FreeCells(m) \subseteq Nat
  BY RegistryAssumption DEF FreeCells
<1>2. PICK i \in FreeCells(m) : NewCell(m) = <<m, i>>
  BY <1>1, SmallestNumber DEF NewCell
<1>3. At(heap, NewCell(m)) = Free
  BY <1>2 DEF At, FreeCells
<1>4. QED
  BY <1>1, <1>2, <1>3, RefFacts, FreeFacts DEF Used

(* The object of a load: it holds what the module exports, and is bound to *)
(* nothing yet.                                                            *)
LEMMA RealObjectFacts ==
  ASSUME NEW m \in Modules
  PROVE  /\ RealObject(m) \in Objects /\ Genuine(RealObject(m)) /\ Bounds(RealObject(m)) = {}
         /\ DOMAIN RealObject(m).val # {} /\ ~RealObject(m).mock /\ \A x : Kept(x, RealObject(m))
<1> DEFINE v == [n \in Names |-> Real]
           b == [i \in DOMAIN Imports[m] |-> None]
<1>1. v \in [Names -> Values]
  BY RegistryAssumption DEF Values, Real
<1>2. v \in NameValues
  BY <1>1 DEF NameValues
<1>3. Imports[m] \in Seq(Modules)
  BY RegistryAssumption
<1>4. DOMAIN Imports[m] = 1 .. Len(Imports[m]) /\ Len(Imports[m]) \in Nat
  BY <1>3, LenProperties
<1>5. b \in [1 .. Len(Imports[m]) -> References]
  BY <1>4, RefFacts
<1>6. b \in Seq(References)
  BY <1>4, <1>5, SeqDef
<1>7. RealObject(m) \in Objects
  BY <1>2, <1>6 DEF RealObject, Objects
<1>8. /\ RealObject(m).val = v /\ RealObject(m).bound = b
      /\ RealObject(m).mock = FALSE /\ RealObject(m).over = FALSE
      /\ DOMAIN v = Names /\ \A n \in Names : v[n] = Real
      /\ \A k \in DOMAIN b : b[k] = None
  BY DEF RealObject
<1>9. Names # {}
  BY RegistryAssumption
<1> HIDE DEF v, b
<1>10. QED
  BY <1>7, <1>8, <1>9, BoundsType DEF Genuine, Mocked, Kept

(* An object of a mock alone. *)
LEMMA MockObjectFacts ==
  ASSUME NEW v \in NameValues
  PROVE  /\ MockObject(v) \in Objects /\ MockObject(v).val = v /\ MockObject(v).mock
         /\ Bounds(MockObject(v)) = {} /\ \A x : Kept(x, MockObject(v))
<1>1. <<>> \in Seq(References)
  OBVIOUS
<1>2. MockObject(v) \in Objects
  BY <1>1 DEF MockObject, Objects
<1>3. MockObject(v).bound = <<>> /\ MockObject(v).val = v /\ MockObject(v).mock
  BY DEF MockObject
<1>4. \A to : to \notin Bounds(MockObject(v))
  BY <1>2, <1>3, BoundsType
<1>5. QED
  BY <1>2, <1>3, <1>4 DEF Kept

(* A new object is bound to nothing, and nothing to it. *)
LEMMA NewObjectLinks ==
  ASSUME HeapType(heap), LinkInv, NEW cell \in Refs, ~Used(heap, cell), NEW es, edges \subseteq es,
         NEW o \in Objects, DOMAIN o.val # {}, Bounds(o) = {}, Kept(cell[1], o)
  PROVE  LinksOf(Write(cell, o), es)
<1>1. \A r \in Refs : At(Write(cell, o), r) = IF r = cell THEN o ELSE At(heap, r)
  BY WriteFacts
<1>2. \A r \in Refs : \A to \in Bounds(At(heap, r)) :
        to \in Refs /\ Used(heap, to) /\ to # cell /\ <<to[1], r[1]>> \in es
  BY ObjectType DEF LinkInv, LinksOf
<1>3. QED
  BY <1>1, <1>2 DEF LinkInv, LinksOf, Used

(* An import bound to an object in use, over its edge. *)
LEMMA BoundLinks ==
  ASSUME HeapType(heap), LinkInv, NEW es, edges \subseteq es,
         NEW ref \in Refs, Used(heap, ref), NEW k, NEW to \in Refs, Used(heap, to),
         <<to[1], ref[1]>> \in es, ref[1] \in Pkgs => ~At(heap, to).mock
  PROVE  LinksOf(Bind(ref, k, to), es)
<1> DEFINE h == Bind(ref, k, to)
<1>1. \A r \in Refs :
        /\ At(h, r).mock = At(heap, r).mock /\ At(h, r).over = At(heap, r).over
        /\ At(h, r).val = At(heap, r).val
        /\ Bounds(At(h, r)) \subseteq Bounds(At(heap, r)) \union (IF r = ref THEN {to} ELSE {})
        /\ r # ref => At(h, r) = At(heap, r)
  BY BindFacts
<1> HIDE DEF h
<1>2. \A r \in Refs : Used(h, r) <=> Used(heap, r)
  BY <1>1 DEF Used
<1>3. ASSUME NEW r \in Refs, NEW x \in Bounds(At(h, r))
      PROVE  Used(h, x) /\ <<x[1], r[1]>> \in es /\ (r[1] \in Pkgs => ~At(h, x).mock)
  <2>1. CASE x \in Bounds(At(heap, r))
    <3>1. x \in Refs
      BY <2>1, ObjectType
    <3>2. QED
      BY <1>1, <1>2, <2>1, <3>1 DEF LinkInv, LinksOf
  <2>2. CASE x = to /\ r = ref
    BY <1>1, <1>2, <2>2
  <2>3. QED
    BY <1>1, <1>3, <2>1, <2>2
<1>4. ASSUME NEW r \in Refs, ~Used(h, r)
      PROVE  At(h, r) = Free
  BY <1>1, <1>2, <1>4 DEF LinkInv, LinksOf
<1>5. \A r \in Refs : Kept(r[1], At(h, r))
  BY <1>1 DEF LinkInv, LinksOf, Kept
<1>6. QED
  BY <1>3, <1>4, <1>5 DEF LinksOf, h

(* Other values in place of those of an object in use. *)
LEMMA WrittenLinks ==
  ASSUME HeapType(heap), LinkInv, NEW ref \in Refs, NEW o \in Objects,
         DOMAIN o.val # {}, o.mock = At(heap, ref).mock, Bounds(o) = Bounds(At(heap, ref)),
         Used(heap, ref), Kept(ref[1], o)
  PROVE  LinksOf(Write(ref, o), edges)
<1>1. \A r \in Refs : At(Write(ref, o), r) = IF r = ref THEN o ELSE At(heap, r)
  BY WriteFacts
<1>2. \A r \in Refs : /\ Used(Write(ref, o), r) <=> Used(heap, r)
                      /\ At(Write(ref, o), r).mock = At(heap, r).mock
                      /\ Bounds(At(Write(ref, o), r)) = Bounds(At(heap, r))
  BY <1>1 DEF Used
<1>3. \A r \in Refs : \A to \in Bounds(At(heap, r)) : to \in Refs
  BY ObjectType
<1>4. QED
  BY <1>1, <1>2, <1>3 DEF LinkInv, LinksOf

(* A collection leaves no import without its object. *)
LEMMA LiveLinks ==
  ASSUME NEW h, HeapType(h), NEW es, LinksOf(h, es),
         exports' \in [Modules -> References], real' \in [Modules -> References],
         stack' \in Seq(Frames)
  PROVE  LinksOf(Live(h), es)
<1>1. /\ HeapType(Live(h))
      /\ \A r \in Refs :
           /\ At(Live(h), r) = At(h, r) \/ At(Live(h), r) = Free
           /\ \A to \in Bounds(At(Live(h), r)) : At(Live(h), to) = At(h, to)
  BY LiveFacts
<1>2. ASSUME NEW r \in Refs, ~Used(Live(h), r)
      PROVE  At(Live(h), r) = Free
  BY <1>1, <1>2 DEF LinksOf, Used
<1>3. ASSUME NEW r \in Refs, NEW to \in Bounds(At(Live(h), r))
      PROVE  Used(Live(h), to) /\ <<to[1], r[1]>> \in es /\ (r[1] \in Pkgs => ~At(Live(h), to).mock)
  <2>1. At(Live(h), to) = At(h, to) /\ to \in Bounds(At(h, r))
    BY <1>1, <1>3, FreeFacts
  <2>2. QED
    BY <2>1 DEF LinksOf, Used
<1>4. \A r \in Refs : Kept(r[1], At(Live(h), r))
  BY <1>1, FreeFacts DEF LinksOf
<1>5. QED
  BY <1>2, <1>3, <1>4 DEF LinksOf

-----------------------------------------------------------------------------
(* Mocks that a step leaves as they are                                    *)

(* Which mock is in force: the one put aside, the one served, or none. *)
LEMMA MockOfFacts ==
  ASSUME StackInv
  PROVE  /\ \A i \in DOMAIN stack : \A m : stack[i].mod = m => MockOf(m) = stack[i].saved
         /\ \A m \in mocks : MockOf(m) = exports[m]
         /\ \A m : m \notin mocks /\ ~IsLoading(m) => MockOf(m) = None
<1>1. ASSUME NEW i \in DOMAIN stack, NEW m, stack[i].mod = m
      PROVE  MockOf(m) = stack[i].saved
  <2>1. m \notin mocks /\ \A j \in DOMAIN stack : stack[j].mod = m => i = j
    BY <1>1 DEF StackInv, StackOf
  <2>2. i = CHOOSE j \in DOMAIN stack : stack[j].mod = m
    BY <1>1, <2>1
  <2>3. QED
    BY <1>1, <2>1, <2>2 DEF MockOf, MockIn
<1>2. QED
  BY <1>1 DEF MockOf, MockIn, IsLoading

(* The same of the state after a step. *)
LEMMA MockOfNextFacts ==
  ASSUME StackInv'
  PROVE  /\ \A i \in DOMAIN stack' : \A m : stack'[i].mod = m => MockOf(m)' = stack'[i].saved
         /\ \A m \in mocks' : MockOf(m)' = exports'[m]
         /\ \A m : m \notin mocks' /\ ~IsLoading(m)' => MockOf(m)' = None
<1>1. ASSUME NEW i \in DOMAIN stack', NEW m, stack'[i].mod = m
      PROVE  MockOf(m)' = stack'[i].saved
  <2>1. m \notin mocks' /\ \A j \in DOMAIN stack' : stack'[j].mod = m => i = j
    BY <1>1 DEF StackInv, StackOf
  <2>2. i = CHOOSE j \in DOMAIN stack' : stack'[j].mod = m
    BY <1>1, <2>1
  <2>3. QED
    BY <1>1, <2>1, <2>2 DEF MockOf, MockIn
<1>2. QED
  BY <1>1 DEF MockOf, MockIn, IsLoading

(* The references of the registry and of the stack. *)
LEMMA HeldTypes ==
  ASSUME RegistryInv
  PROVE  /\ HeapType(heap)
         /\ \A m \in Modules : exports[m] \in References /\ real[m] \in References
         /\ \A m \in Modules : exports[m] # None => exports[m] \in Refs
         /\ \A m \in Modules : real[m] # None => real[m] \in Refs
         /\ \A m \in Modules :
              /\ MockOf(m) \in References
              /\ MockOf(m) # None => MockOf(m) \in Refs /\ MockOf(m)[1] = m /\ Used(heap, MockOf(m))
<1>1. stack \in Seq(Frames) /\ exports \in [Modules -> References] /\ HeapType(heap)
      /\ real \in [Modules -> References]
  BY DEF RegistryInv, Types, HeapType
<1>2. ASSUME NEW m \in Modules
      PROVE  /\ MockOf(m) \in References
             /\ MockOf(m) # None => MockOf(m) \in Refs /\ MockOf(m)[1] = m /\ Used(heap, MockOf(m))
  <2>1. CASE m \in mocks
    BY <1>1, <2>1, RefFacts DEF RegistryInv, HeldInv, OfPath, MockOf, MockIn
  <2>2. CASE m \notin mocks
    <3>1. CASE \E i \in DOMAIN stack : stack[i].mod = m
      <4>1. PICK i \in DOMAIN stack : stack[i].mod = m
        BY <3>1
      <4>2. MockOf(m) = stack[i].saved
        BY <4>1, MockOfFacts DEF RegistryInv
      <4>3. stack[i].saved \in References
        BY <1>1, <4>1, FrameFacts
      <4>4. OfPath(heap, m, stack[i].saved)
        BY <4>1 DEF RegistryInv, HeldInv
      <4>5. QED
        BY <4>2, <4>3, <4>4, RefFacts DEF OfPath
    <3>2. CASE ~ \E i \in DOMAIN stack : stack[i].mod = m
      BY <2>2, <3>2, RefFacts DEF MockOf, MockIn
    <3>3. QED
      BY <3>1, <3>2
  <2>3. QED
    BY <2>1, <2>2
<1>3. QED
  BY <1>1, <1>2, RefFacts

(* Objects that differ in what they are bound to at most. *)
Alike(o, p) == o.mock = p.mock /\ o.over = p.over /\ o.val = p.val

(* The mocks in force are the same and hold the same.                      *)
SameMocks ==
  /\ \A m \in Modules :
       /\ MockOf(m)' = MockOf(m)
       /\ MockOf(m) # None => Alike(At(heap', MockOf(m)), At(heap, MockOf(m)))
  /\ \A m \in mocks' : MockOf(m) # None
  /\ UNCHANGED <<phase, file, setupMocks, snapshot, waits, declared, touched>>

(* Then what the invariant says of mocks is kept. *)
LEMMA SameMocksKeep ==
  ASSUME RegistryInv, SameMocks, mocks' \subseteq Modules
  PROVE  /\ MockInv' /\ OwnerInv'
         /\ phase' # "setup" => \A m \in Modules \ setupMocks' : MockOf(m)' # None => m \in touched'
<1>1. \A m \in mocks' : MockOf(m)' = exports'[m]
  BY DEF MockOf, MockIn
<1>2. \A m \in Modules : MockOf(m) # None => Mocked(At(heap', MockOf(m)))
  BY DEF SameMocks, RegistryInv, MockInv, Mocked, Alike
<1>3. MockInv'
  BY <1>1, <1>2 DEF SameMocks, RegistryInv, MockInv, Alike
<1>4. Owner' = Owner
  BY DEF Owner, SameMocks
<1>5. OwnerInv'
  BY <1>4 DEF SameMocks, RegistryInv, OwnerInv, Alike
<1>6. QED
  BY <1>3, <1>5 DEF SameMocks, RegistryInv, OnceInv

-----------------------------------------------------------------------------
(* A body requires what is there                                           *)

(* What is served at once to a package or to a module of the app. *)
LEMMA ServedFacts ==
  ASSUME RegistryInv, NEW m \in Modules, NEW package \in BOOLEAN, Served(m, package) # None
  PROVE  /\ Served(m, package) \in Refs /\ Served(m, package)[1] = m
         /\ Used(heap, Served(m, package))
         /\ package => ~At(heap, Served(m, package)).mock
         /\ IsLoading(m) => \E i \in DOMAIN stack : stack[i].mod = m /\ Served(m, package) = stack[i].obj
         /\ ~IsLoading(m) /\ m \in mocks /\ package => Served(m, package) = real[m]
         /\ ~IsLoading(m) /\ ~(m \in mocks /\ package) => Served(m, package) = exports[m]
<1>1. stack \in Seq(Frames)
  BY DEF RegistryInv, Types
<1>2. CASE IsLoading(m)
  <2>1. PICK i \in DOMAIN stack : stack[i].mod = m
    BY <1>2 DEF IsLoading
  <2>2. \A f \in {stack[j] : j \in DOMAIN stack} : f.mod = m => f = stack[i]
    BY <2>1 DEF RegistryInv, StackInv, StackOf
  <2>3. LoadingObject(m) = stack[i].obj
    BY <2>1, <2>2 DEF LoadingObject
  <2>4. Served(m, package) = stack[i].obj
    BY <1>2, <2>3 DEF Served
  <2>5. stack[i].obj \in Refs /\ OfPath(heap, m, stack[i].obj) /\ Genuine(At(heap, stack[i].obj))
    BY <1>1, <2>1, FrameFacts DEF RegistryInv, HeldInv, RealInv
  <2>6. QED
    BY <1>2, <2>1, <2>4, <2>5, RefFacts DEF OfPath, Genuine, Mocked
<1>3. CASE ~IsLoading(m)
  <2>1. CASE package /\ m \in mocks
    BY <1>3, <2>1, HeldTypes DEF Served, RegistryInv, HeldInv, OfPath, RealInv
  <2>2. CASE ~(package /\ m \in mocks)
    <3>1. Served(m, package) = exports[m]
      BY <1>3, <2>2 DEF Served
    <3>2. package => m \notin mocks /\ Genuine(At(heap, exports[m]))
      BY <2>2, <3>1 DEF RegistryInv, RealInv
    <3>3. QED
      BY <1>3, <2>2, <3>1, <3>2, HeldTypes DEF RegistryInv, HeldInv, OfPath, Genuine, Mocked
  <2>3. QED
    BY <2>1, <2>2
<1>4. QED
  BY <1>2, <1>3

-----------------------------------------------------------------------------
(* The heap after a step                                                   *)

(* What is held is as in h; the rest of h may have been collected.         *)
NextHeap(h) ==
  /\ HeapType(heap')
  /\ \A r \in Refs :
       /\ At(heap', r) = At(h, r) \/ At(heap', r) = Free
       /\ \A to \in Bounds(At(heap', r)) : At(heap', to) = At(h, to)
  /\ \A m \in Modules :
       /\ exports'[m] # None => exports'[m] \in Refs /\ At(heap', exports'[m]) = At(h, exports'[m])
       /\ real'[m] # None => real'[m] \in Refs /\ At(heap', real'[m]) = At(h, real'[m])
  /\ \A i \in DOMAIN stack' :
       /\ stack'[i].obj \in Refs /\ At(heap', stack'[i].obj) = At(h, stack'[i].obj)
       /\ stack'[i].saved # None =>
            stack'[i].saved \in Refs /\ At(heap', stack'[i].saved) = At(h, stack'[i].saved)

NextTypes ==
  exports' \in [Modules -> References] /\ real' \in [Modules -> References] /\ stack' \in Seq(Frames)

(* What the registry and the stack hold is in the heap after the step. *)
LEMMA NextHeapHolds ==
  ASSUME NextTypes, NEW h, HeapType(h), LinksOf(h, edges'), heap' = h \/ heap' = Live(h),
         \A m \in Modules : OfPath(h, m, exports'[m]) /\ OfPath(h, m, real'[m]),
         \A i \in DOMAIN stack' :
           OfPath(h, stack'[i].mod, stack'[i].obj) /\ OfPath(h, stack'[i].mod, stack'[i].saved)
  PROVE  NextHeap(h) /\ HeldInv' /\ LinkInv'
<1>1. /\ \A m \in Modules : /\ exports'[m] # None => exports'[m] \in Refs
                            /\ real'[m] # None => real'[m] \in Refs
      /\ \A i \in DOMAIN stack' : /\ stack'[i].obj \in Refs
                                  /\ stack'[i].saved # None => stack'[i].saved \in Refs
  BY RefFacts, FrameFacts DEF NextTypes
<1>2. NextHeap(h)
  <2>1. CASE heap' = h
    BY <1>1, <2>1 DEF NextHeap
  <2>2. CASE heap' = Live(h)
    <3>1. /\ HeapType(heap')
          /\ \A r \in Refs :
               /\ At(heap', r) = At(h, r) \/ At(heap', r) = Free
               /\ (\E m \in Modules : r = exports'[m] \/ r = real'[m]) => At(heap', r) = At(h, r)
               /\ (\E i \in DOMAIN stack' : r = stack'[i].obj \/ r = stack'[i].saved)
                    => At(heap', r) = At(h, r)
               /\ \A to \in Bounds(At(heap', r)) : At(heap', to) = At(h, to)
      BY <2>2, LiveFacts DEF NextTypes
    <3>2. QED
      BY <1>1, <3>1 DEF NextHeap
  <2>3. QED
    BY <2>1, <2>2
<1>3. HeldInv'
  BY <1>1, <1>2 DEF HeldInv, OfPath, NextHeap, Used
<1>4. LinkInv'
  <2>1. LinksOf(heap', edges')
    BY LiveLinks DEF NextTypes
  <2>2. QED
    BY <2>1 DEF LinkInv
<1>5. QED
  BY <1>2, <1>3, <1>4

(* A mock in force is held. *)
LEMMA MockHeld ==
  ASSUME StackInv', NEW h, NextHeap(h), NEW m \in Modules, MockOf(m)' # None
  PROVE  MockOf(m)' \in Refs /\ At(heap', MockOf(m)') = At(h, MockOf(m)')
<1>1. CASE m \in mocks'
  BY <1>1, MockOfNextFacts DEF NextHeap
<1>2. CASE m \notin mocks' /\ IsLoading(m)'
  <2>1. PICK i \in DOMAIN stack' : stack'[i].mod = m
    BY <1>2 DEF IsLoading
  <2>2. MockOf(m)' = stack'[i].saved
    BY <2>1, MockOfNextFacts
  <2>3. QED
    BY <2>1, <2>2 DEF NextHeap
<1>3. QED
  BY <1>1, <1>2, MockOfNextFacts

(* The objects a step leads to are in a set that the heap before the       *)
(* collection is closed under.                                             *)
LEMMA SeesNext ==
  ASSUME NEW h, NextHeap(h), HeapType(h), NEW S \in SUBSET Refs,
         \A x \in App \ mocks' : exports'[x] # None => exports'[x] \in S,
         \A i \in DOMAIN stack' : stack'[i].mod \in App => stack'[i].obj \in S,
         \A r \in S :
           /\ r[1] \in App
           /\ \A to \in Bounds(At(h, r)) :
                IF MockOf(to[1])' # None THEN to = MockOf(to[1])'
                ELSE to[1] \in App /\ ~Mocked(At(h, to)) => to \in S
  PROVE  SeesInv'
<1>1. ASSUME NEW r \in S, NEW to \in Bounds(At(heap', r))
      PROVE  to \in Bounds(At(h, r)) /\ At(heap', to) = At(h, to)
  BY <1>1, FreeFacts DEF NextHeap
<1>2. Sees(S)'
  BY <1>1 DEF Sees
<1>3. QED
  BY <1>2 DEF SeesInv


(* The body on top is given the object that it required. *)
Serves(m) ==
  /\ stack # <<>> /\ Top.next \in DOMAIN Imports[Top.mod] /\ m = Imports[Top.mod][Top.next]
  /\ Served(m, Top.mod \in Pkgs) # None
  /\ edges' = edges \union {<<m, Top.mod>>}
  /\ heap' = Bind(Top.obj, Top.next, Served(m, Top.mod \in Pkgs))
  /\ stack' = [stack EXCEPT ![Len(stack)].next = @ + 1]
  /\ UNCHANGED <<registry, fileVars, history, made, queue, waits>>

(* The invariant, when a body is given what it required. *)
LEMMA ServesKeeps ==
  ASSUME RegistryInv, NEW m, Serves(m)
  PROVE  RegistryInv' /\ (NoCycleThroughMocks /\ SeesInv => SeesInv')
<1> DEFINE package == Top.mod \in Pkgs
           got == Served(m, package)
           n == Len(stack)
<1>1. /\ stack \in Seq(Frames) /\ n \in DOMAIN stack /\ DOMAIN stack = 1 .. n
      /\ Top = stack[n] /\ Top \in Frames
      /\ Top.mod \in Modules /\ Top.obj \in Refs /\ Top.next \in Nat /\ HeapType(heap)
  BY FrameFacts, HeldTypes DEF Serves, RegistryInv, Types, Top
<1>2. m \in Modules /\ m \in Range(Imports[Top.mod])
  BY <1>1, RegistryAssumption DEF Serves, Range
<1>3. /\ got # None /\ got \in Refs /\ got[1] = m /\ Used(heap, got)
      /\ package => ~At(heap, got).mock
      /\ IsLoading(m) => \E i \in DOMAIN stack : stack[i].mod = m /\ got = stack[i].obj
      /\ ~IsLoading(m) /\ m \in mocks /\ package => got = real[m]
      /\ ~IsLoading(m) /\ ~(m \in mocks /\ package) => got = exports[m]
  <2>1. package \in BOOLEAN /\ got # None
    BY DEF Serves
  <2> HIDE DEF package
  <2>2. QED
    BY <1>2, <2>1, ServedFacts
<1>4. Top.obj[1] = Top.mod /\ Used(heap, Top.obj)
  BY <1>1, RefFacts DEF RegistryInv, HeldInv, OfPath
<1>5. /\ HeapType(heap')
      /\ \A r \in Refs :
           /\ At(heap', r).mock = At(heap, r).mock /\ At(heap', r).over = At(heap, r).over
           /\ At(heap', r).val = At(heap, r).val
           /\ Bounds(At(heap', r)) \subseteq
                Bounds(At(heap, r)) \union (IF r = Top.obj THEN {got} ELSE {})
           /\ r # Top.obj => At(heap', r) = At(heap, r)
  <2>1. heap' = Bind(Top.obj, Top.next, got)
    BY DEF Serves
  <2> HIDE DEF got
  <2>2. QED
    BY <1>1, <1>3, <2>1, BindFacts
<1>6. LinksOf(heap', edges')
  <2>1. edges \subseteq edges' /\ <<got[1], Top.obj[1]>> \in edges'
    BY <1>3, <1>4 DEF Serves
  <2>2. Top.obj[1] \in Pkgs => ~At(heap, got).mock
    BY <1>3, <1>4
  <2>3. heap' = Bind(Top.obj, Top.next, got)
    BY DEF Serves
  <2> HIDE DEF got
  <2>4. QED
    BY <1>1, <1>3, <1>4, <2>1, <2>2, <2>3, BoundLinks DEF RegistryInv
<1> HIDE DEF got
<1>7. /\ stack' \in Seq(Frames) /\ Len(stack') = n
      /\ \A i \in DOMAIN stack : SameFrame(stack'[i], stack[i])
      /\ \A i \in DOMAIN stack : i # n => stack'[i] = stack[i]
      /\ stack'[n].next = Top.next + 1
  <2>1. stack' = [stack EXCEPT ![Len(stack)].next = Top.next + 1] /\ Top.next + 1 \in Nat
    BY <1>1 DEF Serves, Top
  <2>2. stack # <<>>
    BY DEF Serves
  <2>3. QED
    BY <1>1, <2>1, <2>2, NextFrame
<1>8. DOMAIN stack' = DOMAIN stack
  BY <1>1, <1>7, FrameFacts
<1>9. UNCHANGED <<exports, real, mocks, phase, file, setupMocks, snapshot, declared, touched, loads,
                  made, queue, waits>>
  BY DEF Serves, registry, fileVars, history
<1>10. Types'
  <2>1. edges' \subseteq Modules \X Modules
    BY <1>1, <1>2 DEF Serves, RegistryInv, Types
  <2>2. QED
    BY <1>5, <1>7, <1>9, <2>1 DEF RegistryInv, Types, HeapType
<1>11. \A r : Used(heap', r) /\ r \in Refs <=> Used(heap, r) /\ r \in Refs
  BY <1>5 DEF Used
<1>12. NextHeap(heap') /\ HeldInv' /\ LinkInv'
  <2>1. \A x \in Modules : OfPath(heap', x, exports'[x]) /\ OfPath(heap', x, real'[x])
    BY <1>9, <1>11, HeldTypes DEF RegistryInv, HeldInv, OfPath
  <2>2. \A i \in DOMAIN stack' :
          OfPath(heap', stack'[i].mod, stack'[i].obj) /\ OfPath(heap', stack'[i].mod, stack'[i].saved)
    BY <1>1, <1>7, <1>8, <1>11, FrameFacts, RefFacts DEF RegistryInv, HeldInv, OfPath, SameFrame
  <2>3. NextTypes
    BY <1>10 DEF Types, NextTypes
  <2>4. QED
    BY <1>5, <1>6, <2>1, <2>2, <2>3, NextHeapHolds
<1>13. StackInv'
  <2>1. edges \subseteq edges' /\ Len(stack') <= Len(stack)
    BY <1>1, <1>7 DEF Serves
  <2>2. \A i \in DOMAIN stack' : /\ stack'[i].mod = stack[i].mod /\ stack'[i].saved = stack[i].saved
                                 /\ stack'[i].mod \notin mocks'
    BY <1>7, <1>8, <1>9 DEF SameFrame, RegistryInv, StackInv, StackOf
  <2>3. QED
    BY <1>1, <1>7, <2>1, <2>2, StackPart DEF RegistryInv, StackInv
<1>14. \A x : IsLoading(x)' <=> IsLoading(x)
  BY <1>7, <1>8 DEF IsLoading, SameFrame
<1>15. \A x \in Modules : MockOf(x)' = MockOf(x)
  BY <1>7, <1>8, <1>9, <1>13, <1>14, MockOfFacts, MockOfNextFacts
     DEF RegistryInv, IsLoading, SameFrame
<1>16. SameMocks
  <2>1. \A x \in Modules : MockOf(x) # None => Alike(At(heap', MockOf(x)), At(heap, MockOf(x)))
    BY <1>5, HeldTypes DEF Alike
  <2>2. \A x \in mocks' : MockOf(x) # None
    <3>1. mocks \subseteq Modules
      BY RegistryAssumption DEF RegistryInv, Types
    <3>2. QED
      BY <1>9, <3>1, MockOfFacts DEF RegistryInv, MockInv
  <2>3. QED
    BY <1>9, <1>15, <2>1, <2>2 DEF SameMocks
<1>17. \A o, p : Alike(o, p) /\ Genuine(p) => Genuine(o)
  BY DEF Genuine, Mocked, Alike
<1>18. RealInv'
  <2>1. \A x \in Modules : real'[x] # None => ~At(heap', real'[x]).mock
    BY <1>5, <1>9, HeldTypes DEF RegistryInv, RealInv
  <2>2. \A x \in Modules \ mocks' : exports'[x] # None => Genuine(At(heap', exports'[x]))
    BY <1>5, <1>9, <1>17, HeldTypes DEF RegistryInv, RealInv, Alike
  <2>3. \A i \in DOMAIN stack' : Genuine(At(heap', stack'[i].obj))
    <3>1. ASSUME NEW i \in DOMAIN stack'
          PROVE  Genuine(At(heap', stack'[i].obj))
      <4>1. i \in DOMAIN stack /\ stack'[i].obj = stack[i].obj /\ stack[i].obj \in Refs
        BY <1>1, <1>7, <1>8, <3>1, FrameFacts DEF SameFrame
      <4>2. Alike(At(heap', stack'[i].obj), At(heap, stack[i].obj))
        BY <1>5, <4>1 DEF Alike
      <4>3. QED
        BY <1>17, <4>1, <4>2 DEF RegistryInv, RealInv
    <3>2. QED
      BY <3>1
  <2>4. QED
    BY <2>1, <2>2, <2>3 DEF RealInv
<1>19. FreshInv'
  <2>1. ASSUME NEW i \in DOMAIN stack', stack'[i].next = 0
        PROVE  Bounds(At(heap', stack'[i].obj)) = {}
    <3>1. i # n
      BY <1>1, <1>7, <2>1
    <3>2. stack[i].mod # Top.mod
      BY <1>1, <1>8, <3>1 DEF RegistryInv, StackInv, StackOf
    <3>3. stack[i].obj # Top.obj /\ stack[i].obj \in Refs /\ stack'[i] = stack[i]
      BY <1>1, <1>4, <1>7, <1>8, <3>1, <3>2, FrameFacts, RefFacts DEF RegistryInv, HeldInv,
         OfPath
    <3>4. QED
      BY <1>5, <1>8, <2>1, <3>3 DEF RegistryInv, FreshInv
  <2>2. QED
    BY <2>1 DEF FreshInv
<1>20. MockInv' /\ OwnerInv' /\ OnceInv'
  <2>1. mocks' \subseteq Modules
    BY <1>10, RegistryAssumption DEF Types
  <2>2. /\ MockInv' /\ OwnerInv'
        /\ phase' # "setup" =>
             \A x \in Modules \ setupMocks' : MockOf(x)' # None => x \in touched'
    BY <1>16, <2>1, SameMocksKeep
  <2>3. QED
    BY <1>9, <1>14, <2>2 DEF RegistryInv, OnceInv
<1>21. RegistryInv'
  BY <1>10, <1>12, <1>13, <1>18, <1>19, <1>20 DEF RegistryInv
<1>22. ASSUME NoCycleThroughMocks, SeesInv
       PROVE  SeesInv'
  <2>1. PICK S \in SUBSET Refs : Sees(S)
    BY <1>22 DEF SeesInv
  <2>2. \A x \in App \ mocks' : exports'[x] # None => exports'[x] \in S
    BY <1>9, <2>1 DEF Sees
  <2>3. \A i \in DOMAIN stack' : stack'[i].mod \in App => stack'[i].obj \in S
    BY <1>7, <1>8, <2>1 DEF Sees, SameFrame
  <2>4. Top.mod \in App => IF MockOf(m) # None THEN got = MockOf(m)
                           ELSE m \in App /\ ~Mocked(At(heap, got)) => got \in S
    <3>1. SUFFICES ASSUME Top.mod \in App
                   PROVE  IF MockOf(m) # None THEN got = MockOf(m)
                          ELSE m \in App /\ ~Mocked(At(heap, got)) => got \in S
      OBVIOUS
    <3>2. ~package
      BY <3>1, RegistryAssumption
    <3>3. CASE IsLoading(m)
      <4>1. PICK i \in DOMAIN stack : stack[i].mod = m /\ got = stack[i].obj
        BY <1>3, <3>3
      <4>2. MockOf(m) = stack[i].saved
        BY <4>1, MockOfFacts DEF RegistryInv
      <4>3. stack[i].saved = None
        <5>1. SUFFICES ASSUME stack[i].saved # None
                       PROVE  FALSE
          OBVIOUS
        <5>2. m \in Mockable
          BY <4>1, <5>1 DEF RegistryInv, StackInv, StackOf
        <5>3. PICK C \in SUBSET Modules : m \in C /\ Top.mod \notin C /\ ImportsClosed(C)
          BY <1>2, <1>22, <3>1, <5>2 DEF NoCycleThroughMocks, Unreached
        <5>4. n \in i .. n
          BY <1>1, <4>1
        <5>5. QED
          BY <1>1, <4>1, <5>3, <5>4 DEF RegistryInv, StackInv, StackOf
      <4>4. m \in App => got \in S
        BY <2>1, <4>1 DEF Sees
      <4>5. QED
        BY <4>2, <4>3, <4>4
    <3>4. CASE ~IsLoading(m)
      <4>1. got = exports[m]
        BY <1>3, <3>2, <3>4
      <4>2. m \in mocks => got = MockOf(m)
        BY <4>1, MockOfFacts DEF RegistryInv
      <4>3. m \notin mocks => MockOf(m) = None
        BY <3>4, MockOfFacts DEF RegistryInv
      <4>4. m \in App \ mocks => got \in S
        BY <1>3, <2>1, <4>1 DEF Sees
      <4>5. QED
        BY <4>2, <4>3, <4>4, <1>3
    <3>5. QED
      BY <3>3, <3>4
  <2>5. ASSUME NEW r \in S, NEW to \in Bounds(At(heap', r))
        PROVE  IF MockOf(to[1])' # None THEN to = MockOf(to[1])'
               ELSE to[1] \in App /\ ~Mocked(At(heap', to)) => to \in S
    <3>1. to \in Refs /\ to[1] \in Modules
      BY <1>5, <2>5, ObjectType, RefFacts
    <3>2. Mocked(At(heap', to)) <=> Mocked(At(heap, to))
      BY <1>5, <3>1 DEF Mocked
    <3>3. r[1] \in App
      BY <2>1 DEF Sees
    <3>4. to \in Bounds(At(heap, r)) \/ (r = Top.obj /\ to = got)
      BY <1>5, <2>5
    <3>5. CASE to \in Bounds(At(heap, r))
      BY <1>15, <2>1, <3>1, <3>2, <3>5 DEF Sees
    <3>6. CASE r = Top.obj /\ to = got
      BY <1>3, <1>4, <1>15, <2>4, <3>1, <3>2, <3>3, <3>6
    <3>7. QED
      BY <3>4, <3>5, <3>6
  <2>6. \A r \in S : r[1] \in App
    BY <2>1 DEF Sees
  <2>7. QED
    BY <1>5, <1>12, <2>2, <2>3, <2>5, <2>6, SeesNext
<1>23. QED
  BY <1>21, <1>22

-----------------------------------------------------------------------------
(* A module is loaded                                                      *)

(* Of no mocked module, LoadActual is the plain start of the body. *)
Loads(m) ==
  /\ m \in Modules /\ LoadActual(m) /\ ~IsLoading(m)
  /\ edges \subseteq edges' /\ edges' \subseteq Modules \X Modules
  /\ stack # <<>> => /\ m \in Range(Imports[Top.mod]) /\ <<m, Top.mod>> \in edges'
                     /\ m \in mocks => Top.mod \in Pkgs
  /\ exports[m] = None \/ real[m] = None
  /\ UNCHANGED <<fileVars, history, made, queue, waits>>

(* The invariant, when a module is loaded. *)
LEMMA LoadsKeeps ==
  ASSUME RegistryInv, NEW m, Loads(m)
  PROVE  RegistryInv' /\ (SeesInv => SeesInv')
<1> DEFINE saved == IF m \in mocks THEN exports[m] ELSE None
           cell == NewCell(m)
           f == [mod |-> m, obj |-> cell, next |-> 0, saved |-> saved, retried |-> FALSE]
           n == Len(stack)
<1>1. /\ stack \in Seq(Frames) /\ DOMAIN stack = 1 .. n /\ n \in Nat
      /\ mocks \subseteq Mockable /\ HeapType(heap) /\ m \in Modules
  BY FrameFacts, HeldTypes DEF Loads, RegistryInv, Types
<1>2. /\ FreeCells(m) # {} /\ heap' = Write(cell, RealObject(m)) /\ stack' = Append(stack, f)
      /\ mocks' = mocks \ {m} /\ real' = real
      /\ exports' = IF m \in mocks THEN [exports EXCEPT ![m] = None] ELSE exports
      /\ \A i \in DOMAIN stack : stack[i].mod # m
  BY DEF Loads, LoadActual, Start, IsLoading
<1>3. UNCHANGED <<real, phase, file, setupMocks, snapshot, declared, touched, loads, made, queue, waits>>
  BY <1>2 DEF Loads, fileVars, history
<1>4. cell \in Refs /\ cell[1] = m /\ ~Used(heap, cell)
  BY <1>1, <1>2, NewCellFacts
<1>5. saved \in References
  BY <1>1, HeldTypes, RefFacts
<1> HIDE DEF saved, cell
<1>6. f \in Frames /\ f.mod = m /\ f.obj = cell /\ f.saved = saved /\ f.next = 0
  BY <1>1, <1>4, <1>5 DEF Frames
<1> HIDE DEF f
<1>7. /\ stack' \in Seq(Frames) /\ Len(stack') = n + 1 /\ DOMAIN stack' = 1 .. n + 1
      /\ \A i \in DOMAIN stack : i \in DOMAIN stack' /\ stack'[i] = stack[i]
      /\ \A i \in DOMAIN stack' : i \in DOMAIN stack \/ i = n + 1
      /\ n + 1 \in DOMAIN stack' /\ stack'[n + 1] = f
  <2>1. /\ stack' \in Seq(Frames) /\ Len(stack') = n + 1
        /\ \A i \in 1 .. n : stack'[i] = stack[i]
        /\ stack'[n + 1] = f
    BY <1>1, <1>2, <1>6, AppendProperties
  <2>2. DOMAIN stack' = 1 .. n + 1
    BY <2>1, FrameFacts
  <2> HIDE DEF n
  <2>3. QED
    BY <1>1, <2>1, <2>2
<1> HIDE DEF n
<1>8. /\ HeapType(heap')
      /\ \A r \in Refs : At(heap', r) = IF r = cell THEN RealObject(m) ELSE At(heap, r)
  BY <1>1, <1>2, <1>4, RealObjectFacts, WriteFacts
<1>9. LinksOf(heap', edges')
  <2>1. edges \subseteq edges'
    BY DEF Loads
  <2>2. QED
    BY <1>1, <1>2, <1>4, <2>1, RealObjectFacts, NewObjectLinks DEF RegistryInv
<1>10. \A x \in Modules : exports'[x] # None => exports'[x] = exports[x] /\ (x \in mocks => x \in mocks')
  BY <1>1, <1>2 DEF RegistryInv, Types
<1>11. Types'
  <2>1. exports' \in [Modules -> References]
    BY <1>2, RefFacts DEF RegistryInv, Types
  <2>2. edges' \subseteq Modules \X Modules /\ mocks' \subseteq Mockable
    BY <1>1, <1>2 DEF Loads
  <2>3. QED
    BY <1>3, <1>7, <1>8, <2>1, <2>2 DEF RegistryInv, Types, HeapType
<1>12. \A r \in Refs : Used(heap, r) => r # cell /\ At(heap', r) = At(heap, r) /\ Used(heap', r)
  BY <1>4, <1>8 DEF Used
<1>13. NextHeap(heap') /\ HeldInv' /\ LinkInv'
  <2>1. \A x \in Modules : OfPath(heap', x, exports'[x]) /\ OfPath(heap', x, real'[x])
    BY <1>3, <1>10, <1>12, HeldTypes DEF RegistryInv, HeldInv, OfPath
  <2>2. ASSUME NEW i \in DOMAIN stack
        PROVE  OfPath(heap', stack'[i].mod, stack'[i].obj) /\ OfPath(heap', stack'[i].mod, stack'[i].saved)
    BY <1>1, <1>7, <1>12, FrameFacts, RefFacts DEF RegistryInv, HeldInv, OfPath
  <2>3. OfPath(heap', m, cell)
    BY <1>1, <1>4, <1>8, RealObjectFacts DEF OfPath, Used
  <2>4. OfPath(heap', m, saved)
    BY <1>1, <1>12, HeldTypes DEF RegistryInv, HeldInv, OfPath, saved
  <2>5. \A i \in DOMAIN stack' :
          OfPath(heap', stack'[i].mod, stack'[i].obj) /\ OfPath(heap', stack'[i].mod, stack'[i].saved)
    BY <1>6, <1>7, <2>2, <2>3, <2>4
  <2>6. NextTypes
    BY <1>11 DEF Types, NextTypes
  <2>7. QED
    BY <1>8, <1>9, <2>1, <2>5, <2>6, NextHeapHolds
<1>14. StackInv'
  <2>1. f.saved # None => m \in mocks /\ f.mod \in Mockable
    BY <1>1, <1>6 DEF saved
  <2>2. stack # <<>> => LET g == stack[Len(stack)]
                        IN  /\ f.mod \in Range(Imports[g.mod]) /\ <<f.mod, g.mod>> \in edges'
                            /\ f.saved # None => g.mod \in Pkgs
    BY <1>6, <2>1 DEF Loads, Top
  <2>3. StackOf(mocks', edges', Append(stack, f))
    <3>1. mocks' \subseteq mocks /\ edges \subseteq edges' /\ f.mod \notin mocks'
      BY <1>2, <1>6 DEF Loads
    <3>2. QED
      BY <1>1, <1>2, <1>6, <2>1, <2>2, <3>1, StackPush DEF RegistryInv, StackInv
  <2>4. QED
    BY <1>2, <2>3 DEF StackInv
<1>15. \A x : IsLoading(x)' <=> IsLoading(x) \/ x = m
  BY <1>6, <1>7 DEF IsLoading
<1>16. ASSUME NEW x \in Modules
       PROVE  MockOf(x)' = MockOf(x)
  <2>1. CASE x = m
    <3>1. MockOf(x)' = saved
      BY <1>6, <1>7, <1>14, <2>1, MockOfNextFacts
    <3>2. MockOf(x) = saved
      BY <1>2, <2>1, MockOfFacts DEF RegistryInv, IsLoading, saved
    <3>3. QED
      BY <3>1, <3>2
  <2>2. CASE x # m /\ IsLoading(x)
    BY <1>7, <1>14, <2>2, MockOfFacts, MockOfNextFacts DEF RegistryInv, IsLoading
  <2>3. CASE x # m /\ ~IsLoading(x)
    <3>1. CASE x \in mocks
      <4>1. x \in mocks' /\ exports'[x] = exports[x]
        BY <1>2, <2>3, <3>1 DEF RegistryInv, Types
      <4>2. QED
        BY <1>14, <3>1, <4>1, MockOfFacts, MockOfNextFacts DEF RegistryInv
    <3>2. CASE x \notin mocks
      BY <1>2, <1>14, <1>15, <2>3, <3>2, MockOfFacts, MockOfNextFacts DEF RegistryInv
    <3>3. QED
      BY <3>1, <3>2
  <2>4. QED
    BY <2>1, <2>2, <2>3
<1>17. SameMocks
  <2>1. \A x \in Modules : MockOf(x) # None => Alike(At(heap', MockOf(x)), At(heap, MockOf(x)))
    BY <1>12, HeldTypes DEF Alike
  <2>2. \A x \in mocks' : MockOf(x) # None
    <3>1. mocks' \subseteq mocks /\ mocks \subseteq Modules
      BY <1>1, <1>2, RegistryAssumption
    <3>2. QED
      BY <3>1, MockOfFacts DEF RegistryInv, MockInv
  <2>3. QED
    BY <1>3, <1>16, <2>1, <2>2 DEF SameMocks
<1>18. RealInv'
  <2>1. \A x \in Modules : real'[x] # None => ~At(heap', real'[x]).mock
    BY <1>3, <1>12, HeldTypes DEF RegistryInv, RealInv, HeldInv, OfPath
  <2>2. \A x \in Modules \ mocks' : exports'[x] # None => Genuine(At(heap', exports'[x]))
    BY <1>10, <1>12, HeldTypes DEF RegistryInv, RealInv, HeldInv, OfPath
  <2>3. \A i \in DOMAIN stack : Genuine(At(heap', stack'[i].obj))
    BY <1>1, <1>7, <1>12, FrameFacts, RefFacts DEF RegistryInv, RealInv, HeldInv, OfPath
  <2>4. Genuine(At(heap', f.obj))
    BY <1>1, <1>4, <1>6, <1>8, RealObjectFacts
  <2>5. \A i \in DOMAIN stack' : Genuine(At(heap', stack'[i].obj))
    BY <1>7, <2>3, <2>4
  <2>6. QED
    BY <2>1, <2>2, <2>5 DEF RealInv
<1>19. FreshInv'
  <2>1. Bounds(At(heap', f.obj)) = {}
    BY <1>1, <1>4, <1>6, <1>8, RealObjectFacts
  <2>2. \A i \in DOMAIN stack : stack'[i].next = 0 => Bounds(At(heap', stack'[i].obj)) = {}
    <3>1. \A i \in DOMAIN stack : At(heap', stack[i].obj) = At(heap, stack[i].obj)
      BY <1>1, <1>12, FrameFacts, RefFacts DEF RegistryInv, HeldInv, OfPath
    <3>2. QED
      BY <1>7, <3>1 DEF RegistryInv, FreshInv
  <2>3. QED
    BY <1>7, <2>1, <2>2 DEF FreshInv
<1>20. MockInv' /\ OwnerInv' /\ OnceInv'
  <2>1. mocks' \subseteq Modules
    BY <1>11, RegistryAssumption DEF Types
  <2>2. /\ MockInv' /\ OwnerInv'
        /\ phase' # "setup" =>
             \A x \in Modules \ setupMocks' : MockOf(x)' # None => x \in touched'
    BY <1>17, <2>1, SameMocksKeep
  <2>3. ASSUME NEW x \in Pkgs \ touched', loads'[x] # 0
        PROVE  loads'[x] = 1 /\ real'[x] # None /\ exports'[x] # None /\ ~IsLoading(x)'
    <3>1. loads[x] = 1 /\ real[x] # None /\ exports[x] # None /\ ~IsLoading(x)
      BY <1>3, <2>3 DEF RegistryInv, OnceInv
    <3>2. x # m
      BY <3>1 DEF Loads
    <3>3. exports'[x] = exports[x]
      BY <1>2, <3>2 DEF RegistryInv, Types
    <3>4. QED
      BY <1>3, <1>15, <3>1, <3>2, <3>3
  <2>4. QED
    BY <2>2, <2>3 DEF OnceInv
<1>21. RegistryInv'
  BY <1>11, <1>13, <1>14, <1>18, <1>19, <1>20 DEF RegistryInv
<1>22. ASSUME SeesInv
       PROVE  SeesInv'
  <2>1. PICK S \in SUBSET Refs : Sees(S)
    BY <1>22 DEF SeesInv
  <2>2. PICK N \in SUBSET Refs : N = (S \ {cell}) \union {r \in {cell} : m \in App}
    BY <1>4
  <2>3. \A x \in App \ mocks' : exports'[x] # None => exports'[x] \in N
    <3>1. \A x \in App \ mocks' : exports'[x] # None => exports'[x] \in S /\ exports'[x] # cell
      BY <1>10, <1>12, <2>1, HeldTypes DEF Sees, RegistryInv, HeldInv, OfPath, Modules
    <3>2. QED
      BY <2>2, <3>1
  <2>4. \A i \in DOMAIN stack : stack[i].mod \in App => stack[i].obj \in N
    BY <1>1, <1>12, <2>1, <2>2, FrameFacts, RefFacts DEF Sees, RegistryInv, HeldInv, OfPath
  <2>5. \A i \in DOMAIN stack' : stack'[i].mod \in App => stack'[i].obj \in N
    BY <1>6, <1>7, <2>2, <2>4
  <2>6. ASSUME NEW r \in N
        PROVE  /\ r[1] \in App
               /\ \A to \in Bounds(At(heap', r)) :
                    IF MockOf(to[1])' # None THEN to = MockOf(to[1])'
                    ELSE to[1] \in App /\ ~Mocked(At(heap', to)) => to \in N
    <3>1. CASE r = cell
      BY <1>1, <1>4, <1>8, <2>2, <3>1, RealObjectFacts
    <3>2. CASE r # cell
      <4>1. r \in S /\ r \in Refs /\ At(heap', r) = At(heap, r)
        BY <1>8, <2>2, <3>2
      <4>2. r[1] \in App
        BY <2>1, <4>1 DEF Sees
      <4>3. ASSUME NEW to \in Bounds(At(heap', r))
            PROVE  IF MockOf(to[1])' # None THEN to = MockOf(to[1])'
                   ELSE to[1] \in App /\ ~Mocked(At(heap', to)) => to \in N
        <5>1. to \in Refs /\ to[1] \in Modules /\ to \in Bounds(At(heap, r))
          BY <1>1, <4>1, <4>3, ObjectType, RefFacts
        <5>2. Used(heap, to)
          BY <4>1, <5>1 DEF RegistryInv, LinkInv, LinksOf
        <5>3. to # cell /\ At(heap', to) = At(heap, to)
          BY <1>12, <5>1, <5>2
        <5>4. IF MockOf(to[1]) # None THEN to = MockOf(to[1])
              ELSE to[1] \in App /\ ~Mocked(At(heap, to)) => to \in S
          BY <2>1, <4>1, <5>1 DEF Sees
        <5>5. QED
          BY <1>16, <2>2, <5>1, <5>3, <5>4
      <4>4. QED
        BY <4>2, <4>3
    <3>3. QED
      BY <3>1, <3>2
  <2>7. QED
    BY <1>8, <1>13, <2>3, <2>5, <2>6, SeesNext
<1>23. QED
  BY <1>21, <1>22

-----------------------------------------------------------------------------
(* A mock is registered                                                    *)

(* What a factory returns is a mock's, of the file that runs it. *)
LEMMA ReturnsFacts ==
  ASSUME Types, NEW k \in Nat \ {0}, NEW v \in Returns(Owner, k)
  PROVE  /\ v \in NameValues /\ DOMAIN v # {}
         /\ \A n \in DOMAIN v : v[n][1] = Owner /\ v[n] # Real
<1>1. PICK D \in (SUBSET Names) \ {{}} : v \in [D -> {<<Owner, k>>}]
  BY DEF Returns
<1>2. Owner \in 0 .. MaxFiles
  BY RegistryAssumption DEF Owner, Types
<1>3. <<Owner, k>> \in Values /\ <<Owner, k>>[1] = Owner /\ <<Owner, k>> # Real
  BY <1>2 DEF Values, Real
<1>4. DOMAIN v = D /\ \A n \in D : v[n] = <<Owner, k>>
  BY <1>1
<1>5. v \in [D -> Values]
  BY <1>1, <1>3
<1>6. v \in NameValues
  BY <1>1, <1>5 DEF NameValues
<1>7. QED
  BY <1>1, <1>3, <1>4, <1>6

(* What assigning names leaves of an object: all but values, and those too *)
(* where they are accessors.                                               *)
Assigned(p, m, o, v) ==
  /\ p \in Objects /\ p.mock = o.mock /\ p.over = o.over /\ Bounds(p) = Bounds(o)
  /\ \A n \in DOMAIN p.val :
       \/ n \in DOMAIN v /\ p.val[n] = v[n]
       \/ n \in DOMAIN o.val /\ p.val[n] = o.val[n]
  /\ \A n \in DOMAIN o.val : n \in DOMAIN p.val
  /\ ~Accessors(m, o) => \A n \in DOMAIN v : n \in DOMAIN p.val /\ p.val[n] = v[n]
  /\ DOMAIN v = {} \/ Accessors(m, o) => p = o

LEMMA AssignFacts ==
  ASSUME NEW m, NEW o \in Objects, NEW v \in NameValues
  PROVE  Assigned(Assign(m, o, v), m, o, v)
<1> DEFINE w == [n \in DOMAIN o.val \union DOMAIN v |-> IF n \in DOMAIN v THEN v[n] ELSE o.val[n]]
           p == [mock |-> o.mock, over |-> o.over, val |-> w, bound |-> o.bound]
<1>1. /\ o.mock \in BOOLEAN /\ o.over \in BOOLEAN /\ o.val \in NameValues
      /\ o.bound \in Seq(References)
      /\ o = [mock |-> o.mock, over |-> o.over, val |-> o.val, bound |-> o.bound]
  BY DEF Objects
<1>2. Assign(m, o, v) = IF Accessors(m, o) THEN o ELSE p
  BY <1>1 DEF Assign
<1>3. /\ o.val = [n \in DOMAIN o.val |-> o.val[n]]
      /\ DOMAIN o.val \subseteq Names /\ DOMAIN v \subseteq Names
      /\ \A n \in DOMAIN o.val : o.val[n] \in Values
      /\ \A n \in DOMAIN v : v[n] \in Values
  BY <1>1, ValuesType
<1>4. w \in [DOMAIN o.val \union DOMAIN v -> Values]
  BY <1>3
<1>5. w \in NameValues
  BY <1>3, <1>4 DEF NameValues
<1>6. p \in Objects
  BY <1>1, <1>5 DEF Objects
<1>7. DOMAIN v = {} => w = o.val
  BY <1>3
<1>8. /\ DOMAIN w = DOMAIN o.val \union DOMAIN v
      /\ \A n \in DOMAIN o.val \union DOMAIN v : w[n] = IF n \in DOMAIN v THEN v[n] ELSE o.val[n]
  OBVIOUS
<1> HIDE DEF w
<1>9. p.mock = o.mock /\ p.over = o.over /\ p.val = w /\ p.bound = o.bound
  OBVIOUS
<1>10. Bounds(p) = Bounds(o)
  BY <1>9 DEF Bounds
<1> HIDE DEF p
<1>11. DOMAIN v = {} => p = o
  BY <1>1, <1>7 DEF p
<1>12. CASE Accessors(m, o)
  BY <1>2, <1>12 DEF Assigned
<1>13. CASE ~Accessors(m, o)
  <2>1. Assign(m, o, v) = p
    BY <1>2, <1>13
  <2>2. /\ \A n \in DOMAIN w : \/ n \in DOMAIN v /\ w[n] = v[n]
                               \/ n \in DOMAIN o.val /\ w[n] = o.val[n]
        /\ \A n \in DOMAIN o.val : n \in DOMAIN w
        /\ \A n \in DOMAIN v : n \in DOMAIN w /\ w[n] = v[n]
    BY <1>8
  <2>3. QED
    BY <1>6, <1>9, <1>10, <1>11, <1>13, <2>1, <2>2 DEF Assigned
<1>14. QED
  BY <1>12, <1>13

(* A mock that is put over the object of a load marks it, one over the     *)
(* object of a mock does not.                                              *)
LEMMA PutOverFacts ==
  ASSUME NEW m, NEW o \in Objects, NEW v \in NameValues, Kept(m, o),
         NEW p, p = PutOver(m, o, v)
  PROVE  /\ p \in Objects /\ p.mock = o.mock /\ Bounds(p) = Bounds(o)
         /\ Mocked(p) /\ Kept(m, p)
         /\ \A n \in DOMAIN p.val :
              \/ n \in DOMAIN v /\ p.val[n] = v[n]
              \/ n \in DOMAIN o.val /\ p.val[n] = o.val[n]
         /\ \A n \in DOMAIN o.val : n \in DOMAIN p.val
         /\ ~Accessors(m, o) => \A n \in DOMAIN v : n \in DOMAIN p.val /\ p.val[n] = v[n]
<1> DEFINE a == Assign(m, o, v)
           q == [a EXCEPT !.over = ~o.mock]
<1>1. Assigned(a, m, o, v)
  BY AssignFacts
<1> HIDE DEF a
<1>2. /\ a \in Objects
      /\ a.mock \in BOOLEAN /\ a.val \in NameValues /\ a.bound \in Seq(References)
      /\ o.mock \in BOOLEAN
  BY <1>1 DEF Assigned, Objects
<1>3. /\ q \in Objects /\ q.mock = a.mock /\ q.over = ~o.mock /\ q.val = a.val /\ q.bound = a.bound
  BY <1>2 DEF Objects
<1> HIDE DEF q
<1>4. p = q
  BY DEF PutOver, a, q
<1>5. Bounds(p) = Bounds(a)
  BY <1>3, <1>4 DEF Bounds
<1>6. Mocked(p)
  BY <1>1, <1>2, <1>3, <1>4 DEF Mocked, Assigned
<1>7. Kept(m, p)
  <2>1. SUFFICES ASSUME ~p.mock, m \in GetterOnly
                 PROVE  \A n \in DOMAIN p.val : p.val[n] = Real
    BY <1>1, <1>3, <1>4 DEF Kept, Assigned
  <2>2. a = o
    BY <1>1, <1>3, <1>4, <2>1 DEF Assigned, Accessors
  <2>3. QED
    BY <1>3, <1>4, <2>1, <2>2 DEF Kept
<1>8. QED
  BY <1>1, <1>3, <1>4, <1>5, <1>6, <1>7 DEF Assigned

(* The importers of a module are of the app and not mocked, and so are all *)
(* that their own importers reach.                                         *)
LEMMA ImportersFacts ==
  ASSUME NEW m \in Modules, NEW mocked
  PROVE  /\ Importers(m, mocked) \subseteq App \ mocked
         /\ \A x \in Importers(m, mocked) \union {m}, y \in App \ mocked :
              <<x, y>> \in edges /\ y # m => y \in Importers(m, mocked)
<1> DEFINE F == [x \in Modules |-> DirectImporters(x, mocked)]
           C == Closure(F, {m})
<1>1. F \in [Modules -> SUBSET Modules]
  BY DEF DirectImporters, Modules
<1>2. \A x \in Modules : F[x] = {y \in App \ mocked : <<x, y>> \in edges}
  BY DEF DirectImporters
<1>3. {m} \in SUBSET Modules /\ IsFiniteSet(Modules)
  BY RegistryAssumption
<1> HIDE DEF F
<1>4. /\ {m} \subseteq C /\ C \subseteq Modules
      /\ \A x \in C : F[x] \subseteq C
      /\ \A T \in SUBSET Modules : {m} \subseteq T /\ (\A x \in T : F[x] \subseteq T) => C \subseteq T
  BY <1>1, <1>3, ClosureIs
<1> HIDE DEF C
<1>5. C \subseteq {m} \union (App \ mocked)
  <2>1. {m} \union (App \ mocked) \in SUBSET Modules
    BY DEF Modules
  <2>2. \A x \in {m} \union (App \ mocked) : F[x] \subseteq {m} \union (App \ mocked)
    BY <1>2, <2>1
  <2>3. QED
    BY <1>4, <2>1, <2>2
<1>6. Importers(m, mocked) = C \ {m}
  BY DEF Importers, C, F
<1>7. QED
  BY <1>2, <1>4, <1>5, <1>6

(* No body that mocks a module is run by the load of that module. *)
LEMMA DeclaredApart ==
  ASSUME RegistryInv, DeclaresApart, stack # <<>>, NEW m \in Declares[Top.mod]
  PROVE  ~IsLoading(m)
<1>1. stack \in Seq(Frames) /\ Len(stack) \in DOMAIN stack /\ DOMAIN stack = 1 .. Len(stack)
      /\ Top.mod \in Modules
  BY FrameFacts DEF RegistryInv, Types, Top
<1>2. PICK C \in SUBSET Modules : m \in C /\ Top.mod \notin C /\ ImportsClosed(C)
  BY <1>1 DEF DeclaresApart, Unreached
<1>3. ASSUME NEW i \in DOMAIN stack, stack[i].mod = m
      PROVE  FALSE
  <2>1. Len(stack) \in i .. Len(stack)
    BY <1>1
  <2>2. stack[Len(stack)].mod \in C
    BY <1>2, <1>3, <2>1 DEF RegistryInv, StackInv, StackOf
  <2>3. QED
    BY <1>2, <2>2 DEF Top
<1>4. QED
  BY <1>3 DEF IsLoading


Registers(m, k) ==
  /\ m \in Mockable /\ ~IsLoading(m) /\ k \in Nat \ {0}
  /\ \E v \in Returns(Owner, k) :
       RegisterMock(m, v) /\ declared' = [declared EXCEPT ![m] = InForce(m, v)]
  /\ touched' = IF phase = "setup" THEN touched ELSE touched \union {m}
  /\ waits' = waits \/ waits' = [waits EXCEPT ![m] = 0]
  /\ \/ stack' = stack
     \/ /\ stack # <<>> /\ Top.next = 0 /\ Declares[Top.mod] # {}
        /\ stack' = [stack EXCEPT ![Len(stack)].next = 1]
  /\ queue' \in Seq(Mockable) /\ made' \in Nat
  /\ UNCHANGED <<edges, fileVars, loads>>

(* The invariant, when a mock is registered, in place or anew. *)
LEMMA RegistersKeeps ==
  ASSUME RegistryInv, NEW m, NEW k, Registers(m, k)
  PROVE  /\ RegistryInv'
         /\ OnlyEntriesDeclare /\ (stack # <<>> => stack' # stack) /\ SeesInv => SeesInv'
<1> DEFINE n == Len(stack)
           mocked == mocks \union {m}
           gone == Importers(m, mocked)
           placed == IF exports[m] # None THEN exports[m] ELSE NewCell(m)
<1>1. PICK v \in Returns(Owner, k) :
        RegisterMock(m, v) /\ declared' = [declared EXCEPT ![m] = InForce(m, v)]
  BY DEF Registers
<1> DEFINE o == IF exports[m] # None THEN PutOver(m, At(heap, placed), v) ELSE MockObject(v)
           h == Write(placed, o)
<1>2. /\ exports[m] # None \/ FreeCells(m) # {}
      /\ mocks' = mocked /\ exports' = [Evict(exports, gone) EXCEPT ![m] = placed]
      /\ real' = Evict(real, gone) /\ heap' = Live(h)
  BY <1>1 DEF RegisterMock, Object, At
<1>3. /\ stack \in Seq(Frames) /\ DOMAIN stack = 1 .. n /\ n \in Nat
      /\ mocks \subseteq Mockable /\ Mockable \subseteq Modules /\ HeapType(heap) /\ m \in Modules
      /\ \A i \in DOMAIN stack : stack[i].mod # m
  BY FrameFacts, HeldTypes, RegistryAssumption DEF Registers, RegistryInv, Types, IsLoading
<1>4. UNCHANGED <<edges, phase, file, setupMocks, snapshot, loads>>
  BY DEF Registers, fileVars
<1>5. v \in NameValues /\ DOMAIN v # {} /\ \A x \in DOMAIN v : v[x][1] = Owner /\ v[x] # Real
  BY ReturnsFacts DEF Registers, RegistryInv
<1>6. /\ placed \in Refs /\ placed[1] = m
      /\ exports[m] # None => Used(heap, placed)
      /\ exports[m] = None => ~Used(heap, placed)
  BY <1>2, <1>3, HeldTypes, NewCellFacts DEF RegistryInv, HeldInv, OfPath
<1> HIDE DEF placed
<1>7. /\ o \in Objects /\ DOMAIN o.val # {} /\ Mocked(o) /\ Kept(m, o)
      /\ InForce(m, v) \in NameValues
      /\ \A x \in DOMAIN InForce(m, v) : x \in DOMAIN o.val /\ o.val[x] = InForce(m, v)[x]
      /\ \A x \in DOMAIN o.val :
           \/ x \in DOMAIN v /\ o.val[x] = v[x]
           \/ /\ exports[m] # None /\ x \in DOMAIN At(heap, placed).val
              /\ o.val[x] = At(heap, placed).val[x]
      /\ exports[m] # None => o.mock = At(heap, placed).mock /\ Bounds(o) = Bounds(At(heap, placed))
      /\ exports[m] = None => Bounds(o) = {}
  <2>1. CASE exports[m] # None
    <3>1. At(heap, placed) \in Objects /\ Kept(m, At(heap, placed)) /\ placed[1] = m
      BY <1>3, <1>6, ObjectType DEF RegistryInv, LinkInv, LinksOf
    <3>2. o = PutOver(m, At(heap, placed), v)
      BY <2>1
    <3>3. InForce(m, v) = IF Accessors(m, At(heap, placed)) THEN NoNames ELSE v
      BY <2>1 DEF InForce, placed, Object, At
    <3>4. DOMAIN At(heap, placed).val # {}
      BY <1>6, <2>1 DEF Used
    <3> HIDE DEF o
    <3>5. /\ o \in Objects /\ o.mock = At(heap, placed).mock
          /\ Bounds(o) = Bounds(At(heap, placed)) /\ Mocked(o) /\ Kept(m, o)
          /\ \A x \in DOMAIN o.val :
               \/ x \in DOMAIN v /\ o.val[x] = v[x]
               \/ x \in DOMAIN At(heap, placed).val /\ o.val[x] = At(heap, placed).val[x]
          /\ \A x \in DOMAIN At(heap, placed).val : x \in DOMAIN o.val
          /\ ~Accessors(m, At(heap, placed)) =>
               \A x \in DOMAIN v : x \in DOMAIN o.val /\ o.val[x] = v[x]
      BY <1>5, <3>1, <3>2, PutOverFacts
    <3>6. NoNames \in NameValues /\ DOMAIN NoNames = {}
      BY DEF NoNames, NameValues
    <3>7. QED
      BY <1>5, <2>1, <3>3, <3>4, <3>5, <3>6
  <2>2. CASE exports[m] = None
    <3>1. o = MockObject(v) /\ InForce(m, v) = v
      BY <2>2 DEF InForce
    <3> HIDE DEF o
    <3>2. QED
      BY <1>5, <2>2, <3>1, MockObjectFacts DEF Mocked
  <2>3. QED
    BY <2>1, <2>2
<1> HIDE DEF o
<1>8. HeapType(h) /\ \A r \in Refs : At(h, r) = IF r = placed THEN o ELSE At(heap, r)
  BY <1>3, <1>6, <1>7, WriteFacts
<1>9. LinksOf(h, edges')
  <2>1. CASE exports[m] # None
    BY <1>3, <1>4, <1>6, <1>7, <2>1, WrittenLinks DEF RegistryInv
  <2>2. CASE exports[m] = None
    BY <1>3, <1>4, <1>6, <1>7, <2>2, NewObjectLinks DEF RegistryInv
  <2>3. QED
    BY <2>1, <2>2
<1> HIDE DEF h
<1>10. /\ stack' \in Seq(Frames) /\ Len(stack') = n /\ DOMAIN stack' = DOMAIN stack
       /\ \A i \in DOMAIN stack : /\ SameFrame(stack'[i], stack[i])
                                  /\ stack'[i].next = 0 => stack[i].next = 0
  <2>1. CASE stack' = stack
    BY <1>3, <2>1 DEF SameFrame
  <2>2. CASE stack # <<>> /\ stack' = [stack EXCEPT ![Len(stack)].next = 1]
    <3>1. /\ stack' \in Seq(Frames) /\ Len(stack') = Len(stack)
          /\ \A i \in DOMAIN stack : SameFrame(stack'[i], stack[i])
          /\ \A i \in DOMAIN stack : i # Len(stack) => stack'[i] = stack[i]
          /\ stack'[Len(stack)].next = 1
      BY <1>3, <2>2, NextFrame
    <3>2. DOMAIN stack' = DOMAIN stack
      BY <1>3, <3>1, FrameFacts
    <3>3. QED
      BY <3>1, <3>2
  <2>3. QED
    BY <2>1, <2>2 DEF Registers
<1>11. /\ gone \subseteq App \ mocked
       /\ \A x \in gone \union {m}, y \in App \ mocked : <<x, y>> \in edges /\ y # m => y \in gone
  <2> HIDE DEF mocked
  <2>1. QED
    BY <1>3, ImportersFacts
<1> HIDE DEF gone
<1>12. /\ \A x \in Modules : exports'[x] = IF x = m THEN placed ELSE IF x \in gone THEN None ELSE exports[x]
       /\ \A x \in Modules : real'[x] = IF x \in gone THEN None ELSE real[x]
       /\ exports' \in [Modules -> References] /\ real' \in [Modules -> References]
  <2>1. exports \in [Modules -> References] /\ real \in [Modules -> References]
    BY DEF RegistryInv, Types
  <2>2. QED
    BY <1>2, <1>3, <1>6, <2>1, RefFacts DEF Evict
<1>13. Types'
  <2>1. mocks' \subseteq Mockable /\ touched' \subseteq Modules
    BY <1>2, <1>3 DEF Registers, RegistryInv, Types
  <2>2. declared' \in [Modules -> NameValues] /\ waits' \in [Modules -> 0 .. MaxFiles]
    <3>1. 0 \in 0 .. MaxFiles /\ waits \in [Modules -> 0 .. MaxFiles]
      BY RegistryAssumption DEF RegistryInv, Types
    <3>2. waits' \in [Modules -> 0 .. MaxFiles]
      BY <3>1 DEF Registers
    <3>3. declared' \in [Modules -> NameValues]
      BY <1>1, <1>7 DEF RegistryInv, Types
    <3>4. QED
      BY <3>2, <3>3
  <2>3. HeapType(heap')
    <3>1. HeapType(Live(h))
      BY <1>8, <1>10, <1>12, LiveFacts
    <3>2. QED
      BY <1>2, <3>1
  <2>4. QED
    BY <1>4, <1>10, <1>12, <2>1, <2>2, <2>3 DEF Registers, RegistryInv, Types, HeapType
<1>14. \A r \in Refs : /\ r # placed => At(h, r) = At(heap, r)
                       /\ Used(heap, r) => Used(h, r) /\ At(h, r).mock = At(heap, r).mock
  BY <1>6, <1>7, <1>8 DEF Used
<1>15. NextHeap(h) /\ HeldInv' /\ LinkInv'
  <2>1. Used(h, placed) /\ placed # None
    BY <1>6, <1>7, <1>8, RefFacts DEF Used
  <2>2. \A x \in Modules : OfPath(h, x, exports'[x]) /\ OfPath(h, x, real'[x])
    BY <1>6, <1>12, <1>14, <2>1, HeldTypes DEF RegistryInv, HeldInv, OfPath
  <2>3. \A i \in DOMAIN stack' :
          OfPath(h, stack'[i].mod, stack'[i].obj) /\ OfPath(h, stack'[i].mod, stack'[i].saved)
    BY <1>3, <1>10, <1>14, FrameFacts, RefFacts DEF RegistryInv, HeldInv, OfPath, SameFrame
  <2>4. NextTypes
    BY <1>13 DEF Types, NextTypes
  <2>5. QED
    BY <1>2, <1>8, <1>9, <2>2, <2>3, <2>4, NextHeapHolds
<1>16. StackInv'
  <2>1. \A i \in DOMAIN stack' : /\ stack'[i].mod = stack[i].mod /\ stack'[i].saved = stack[i].saved
                                 /\ stack'[i].mod \notin mocks'
    BY <1>2, <1>3, <1>10 DEF SameFrame, RegistryInv, StackInv, StackOf
  <2>2. edges \subseteq edges' /\ Len(stack') <= Len(stack)
    BY <1>3, <1>4, <1>10
  <2>3. QED
    BY <1>3, <1>10, <2>1, <2>2, StackPart DEF RegistryInv, StackInv
<1>17. \A x : IsLoading(x)' <=> IsLoading(x)
  BY <1>10 DEF IsLoading, SameFrame
<1>18. MockOf(m)' = placed /\ placed # None
  BY <1>2, <1>3, <1>6, <1>12, <1>16, MockOfNextFacts, RefFacts
<1>19. ASSUME NEW x \in Modules, x # m
       PROVE  MockOf(x)' = MockOf(x)
  <2>1. CASE IsLoading(x)
    BY <1>10, <1>16, <2>1, MockOfFacts, MockOfNextFacts DEF RegistryInv, IsLoading, SameFrame
  <2>2. CASE x \in mocks
    BY <1>2, <1>11, <1>12, <1>16, <1>19, <2>2, MockOfFacts, MockOfNextFacts DEF RegistryInv
  <2>3. CASE ~IsLoading(x) /\ x \notin mocks
    BY <1>2, <1>16, <1>17, <1>19, <2>3, MockOfFacts, MockOfNextFacts DEF RegistryInv
  <2>4. QED
    BY <2>1, <2>2, <2>3
<1>20. ASSUME NEW x \in Modules, MockOf(x)' # None
       PROVE  At(heap', MockOf(x)') = IF x = m THEN o ELSE At(heap, MockOf(x))
  <2>1. MockOf(x)' \in Refs /\ At(heap', MockOf(x)') = At(h, MockOf(x)')
    BY <1>15, <1>16, <1>20, MockHeld
  <2>2. CASE x = m
    BY <1>8, <1>18, <2>1, <2>2
  <2>3. CASE x # m
    BY <1>6, <1>14, <1>19, <1>20, <2>1, <2>3, HeldTypes
  <2>4. QED
    BY <2>2, <2>3
<1>21. MockInv'
  <2>1. \A x \in mocks' : exports'[x] # None
    BY <1>2, <1>3, <1>11, <1>12, <1>18 DEF RegistryInv, MockInv
  <2>2. Mocked(o)
    BY <1>7
  <2>3. \A x \in Modules : MockOf(x)' # None => Mocked(At(heap', MockOf(x)'))
    BY <1>19, <1>20, <2>2 DEF RegistryInv, MockInv
  <2>4. ASSUME NEW x \in Modules, DOMAIN declared'[x] # {}
        PROVE  /\ MockOf(x)' # None
               /\ \A y \in DOMAIN declared'[x] : At(heap', MockOf(x)').val[y] = declared'[x][y]
    <3>1. declared'[x] = IF x = m THEN InForce(m, v) ELSE declared[x]
      BY <1>1 DEF RegistryInv, Types
    <3>2. CASE x = m
      BY <1>7, <1>18, <1>20, <3>1, <3>2
    <3>3. CASE x # m
      BY <1>19, <1>20, <2>4, <3>1, <3>3 DEF RegistryInv, MockInv
    <3>4. QED
      BY <3>2, <3>3
  <2>5. QED
    BY <2>1, <2>3, <2>4 DEF MockInv
<1>22. RealInv'
  <2>1. \A x \in Modules : real'[x] # None => ~At(heap', real'[x]).mock
    BY <1>12, <1>14, <1>15, HeldTypes DEF RegistryInv, RealInv, NextHeap, HeldInv, OfPath
  <2>2. ASSUME NEW x \in Modules \ mocks', exports'[x] # None
        PROVE  Genuine(At(heap', exports'[x]))
    <3>1. x # m /\ x \notin mocks /\ exports'[x] = exports[x] /\ exports[x] \in Refs
      BY <1>2, <1>12, <2>2, HeldTypes
    <3>2. exports[x] # placed
      BY <1>6, <2>2, <3>1 DEF RegistryInv, HeldInv, OfPath
    <3>3. QED
      BY <1>14, <1>15, <2>2, <3>1, <3>2 DEF RegistryInv, RealInv, NextHeap
  <2>3. ASSUME NEW i \in DOMAIN stack'
        PROVE  /\ Genuine(At(heap', stack'[i].obj))
               /\ At(heap', stack'[i].obj) = At(heap, stack[i].obj)
    <3>1. stack[i].obj \in Refs /\ stack[i].obj # placed /\ stack'[i].obj = stack[i].obj
      <4>1. i \in DOMAIN stack /\ stack'[i].obj = stack[i].obj /\ stack[i].mod # m
        BY <1>3, <1>10 DEF SameFrame
      <4>2. stack[i].obj \in Refs /\ stack[i].obj # None
        BY <1>3, <4>1, FrameFacts, RefFacts
      <4>3. stack[i].obj[1] # m
        BY <4>1, <4>2 DEF RegistryInv, HeldInv, OfPath
      <4>4. QED
        BY <1>6, <4>1, <4>2, <4>3
    <3>2. QED
      BY <1>10, <1>14, <1>15, <3>1 DEF RegistryInv, RealInv, NextHeap
  <2>4. QED
    BY <2>1, <2>2, <2>3 DEF RealInv
<1>23. FreshInv'
  <2>1. ASSUME NEW i \in DOMAIN stack'
        PROVE  At(heap', stack'[i].obj) = At(heap, stack[i].obj)
    <3>1. stack[i].obj \in Refs /\ stack[i].obj # placed /\ stack'[i].obj = stack[i].obj
      <4>1. i \in DOMAIN stack /\ stack'[i].obj = stack[i].obj /\ stack[i].mod # m
        BY <1>3, <1>10 DEF SameFrame
      <4>2. stack[i].obj \in Refs /\ stack[i].obj # None
        BY <1>3, <4>1, FrameFacts, RefFacts
      <4>3. stack[i].obj[1] # m
        BY <4>1, <4>2 DEF RegistryInv, HeldInv, OfPath
      <4>4. QED
        BY <1>6, <4>1, <4>2, <4>3
    <3>2. QED
      BY <1>10, <1>14, <1>15, <3>1 DEF NextHeap
  <2>2. QED
    BY <1>10, <2>1 DEF RegistryInv, FreshInv
<1>24. OwnerInv'
  <2>1. Owner' = Owner
    BY <1>4 DEF Owner
  <2>2. phase' = "setup" => setupMocks' = {} /\ waits' = [x \in Modules |-> 0]
    BY <1>3, <1>4 DEF Registers, RegistryInv, OwnerInv
  <2>3. \A x \in Modules : waits'[x] \in {0, file'}
    BY <1>4 DEF Registers, RegistryInv, OwnerInv, Types
  <2>4. \A x \in Modules : x \in setupMocks' => MockOf(x)' # None
    BY <1>4, <1>18, <1>19 DEF RegistryInv, OwnerInv
  <2>5. ASSUME NEW x \in Modules \ setupMocks', MockOf(x)' # None,
               NEW y \in DOMAIN At(heap', MockOf(x)').val
        PROVE  At(heap', MockOf(x)').val[y] = Real \/ At(heap', MockOf(x)').val[y][1] = Owner'
    <3>1. CASE x # m
      BY <1>4, <1>19, <1>20, <2>1, <2>5, <3>1 DEF RegistryInv, OwnerInv
    <3>2. CASE x = m
      <4>1. y \in DOMAIN o.val /\ At(heap', MockOf(x)').val[y] = o.val[y]
        BY <1>20, <2>5, <3>2
      <4>2. CASE y \in DOMAIN v /\ o.val[y] = v[y]
        BY <1>5, <1>7, <2>1, <4>1, <4>2
      <4>3. CASE ~(y \in DOMAIN v /\ o.val[y] = v[y])
        <5>1. /\ exports[m] # None /\ placed = exports[m] /\ y \in DOMAIN At(heap, placed).val
              /\ o.val[y] = At(heap, placed).val[y]
          BY <1>7, <4>1, <4>3 DEF placed
        <5>2. CASE m \in mocks
          <6>1. MockOf(m) = placed
            BY <5>1, <5>2, MockOfFacts DEF RegistryInv
          <6>2. QED
            BY <1>3, <1>4, <2>1, <2>5, <3>2, <4>1, <5>1, <6>1 DEF RegistryInv, OwnerInv
        <5>3. CASE m \notin mocks
          BY <1>3, <4>1, <5>1, <5>3 DEF RegistryInv, RealInv, Genuine, Mocked
        <5>4. QED
          BY <5>2, <5>3
      <4>4. QED
        BY <4>2, <4>3
    <3>3. QED
      BY <3>1, <3>2
  <2>6. \A x \in Modules :
          DOMAIN snapshot'[x] # {} => x \in setupMocks'
    BY <1>4 DEF RegistryInv, OwnerInv
  <2>7. QED
    BY <2>2, <2>3, <2>4, <2>5, <2>6 DEF OwnerInv
<1>25. OnceInv'
  <2>1. phase' # "setup" => \A x \in Modules \ setupMocks' : MockOf(x)' # None => x \in touched'
    BY <1>4, <1>19 DEF Registers, RegistryInv, OnceInv
  <2>2. ASSUME NEW x \in Pkgs \ touched', loads'[x] # 0
        PROVE  loads'[x] = 1 /\ real'[x] # None /\ exports'[x] # None /\ ~IsLoading(x)'
    <3>1. x \notin gone /\ x \in Modules /\ x \notin touched
      BY <1>11, RegistryAssumption DEF Registers, Modules
    <3>2. QED
      BY <1>4, <1>12, <1>17, <1>18, <2>2, <3>1 DEF RegistryInv, OnceInv
  <2>3. QED
    BY <2>1, <2>2 DEF OnceInv
<1>26. RegistryInv'
  BY <1>13, <1>15, <1>16, <1>21, <1>22, <1>23, <1>24, <1>25 DEF RegistryInv
<1>27. ASSUME OnlyEntriesDeclare, stack # <<>> => stack' # stack, SeesInv
       PROVE  SeesInv'
  <2>1. PICK S \in SUBSET Refs : Sees(S)
    BY <1>27 DEF SeesInv
  <2> DEFINE bodies == {stack[i].obj : i \in {j \in DOMAIN stack : stack[j].mod \in App}}
  <2>2. PICK N \in SUBSET Refs :
          N = {r \in S : r[1] \notin gone \union mocked} \union bodies
    BY <1>3, FrameFacts
  <2>3. \A x \in App \ mocks' : exports'[x] # None => exports'[x] \in N
    <3>1. ASSUME NEW x \in App \ mocks', exports'[x] # None
          PROVE  exports'[x] \in S /\ exports'[x][1] = x /\ x \notin gone \union mocked
      <4>1. x \in Modules /\ x \notin mocked /\ exports'[x] = exports[x] /\ x \notin gone
        BY <1>2, <1>12, <3>1 DEF Modules
      <4>2. QED
        BY <2>1, <3>1, <4>1 DEF Sees, RegistryInv, HeldInv, OfPath
    <3>2. QED
      BY <2>2, <3>1
  <2>4. \A i \in DOMAIN stack' : stack'[i].mod \in App => stack'[i].obj \in N
    BY <1>10, <2>2 DEF SameFrame
  <2>5. ASSUME NEW r \in S, r[1] \notin gone \union mocked, NEW to \in Bounds(At(h, r))
        PROVE  IF MockOf(to[1])' # None THEN to = MockOf(to[1])'
               ELSE to[1] \in App /\ ~Mocked(At(h, to)) => to \in N
    <3>1. r \in Refs /\ r # placed /\ r[1] \in App /\ At(h, r) = At(heap, r)
      BY <1>6, <1>14, <2>1, <2>5 DEF Sees
    <3>2. to \in Refs /\ to[1] \in Modules /\ to \in Bounds(At(heap, r)) /\ <<to[1], r[1]>> \in edges
      BY <1>3, <2>5, <3>1, ObjectType, RefFacts DEF RegistryInv, LinkInv, LinksOf
    <3>3. to[1] \notin gone /\ to[1] # m
      BY <1>11, <2>5, <3>1, <3>2
    <3>4. At(h, to) = At(heap, to) /\ MockOf(to[1])' = MockOf(to[1])
      BY <1>6, <1>14, <1>19, <3>2, <3>3
    <3>5. IF MockOf(to[1]) # None THEN to = MockOf(to[1])
          ELSE to[1] \in App /\ ~Mocked(At(heap, to)) => to \in S
      BY <2>1, <3>2 DEF Sees
    <3>6. MockOf(to[1]) = None => to[1] \notin mocked
      BY <3>2, <3>3, MockOfFacts DEF RegistryInv, MockInv
    <3>7. QED
      BY <2>2, <3>3, <3>4, <3>5, <3>6
  <2>6. ASSUME NEW r \in bodies
        PROVE  r[1] \in App /\ Bounds(At(h, r)) = {}
    <3>1. PICK i \in DOMAIN stack : stack[i].mod \in App /\ r = stack[i].obj
      BY <2>6
    <3>2. stack # <<>> /\ Top.next = 0 /\ Declares[Top.mod] # {}
      BY <1>3, <1>27, <3>1, EmptySeq DEF Registers
    <3>3. /\ Len(stack) \in DOMAIN stack /\ Top = stack[Len(stack)] /\ stack[Len(stack)] \in Frames
          /\ \A j \in DOMAIN stack : stack[j].mod \in Modules
      BY <1>3, <3>2, FrameFacts DEF Top
    <3>4. n = 1
      <4>1. SUFFICES ASSUME n # 1
                     PROVE  FALSE
        OBVIOUS
      <4>2. n > 1 /\ n - 1 \in DOMAIN stack
        BY <1>3, <3>3, <4>1
      <4>3. stack[n].mod \in Range(Imports[stack[n - 1].mod])
        BY <3>3, <4>2 DEF RegistryInv, StackInv, StackOf
      <4>4. QED
        BY <1>27, <3>2, <3>3, <4>2, <4>3 DEF OnlyEntriesDeclare
    <3>5. i = n
      BY <1>3, <3>4
    <3>6. Bounds(At(heap, r)) = {}
      BY <3>1, <3>2, <3>3, <3>5 DEF RegistryInv, FreshInv
    <3>7. r \in Refs /\ r[1] = stack[i].mod /\ r # placed
      BY <1>3, <1>6, <3>1, FrameFacts, RefFacts DEF RegistryInv, HeldInv, OfPath
    <3>8. QED
      BY <1>14, <3>1, <3>6, <3>7
  <2>7. ASSUME NEW r \in N
        PROVE  /\ r[1] \in App
               /\ \A to \in Bounds(At(h, r)) :
                    IF MockOf(to[1])' # None THEN to = MockOf(to[1])'
                    ELSE to[1] \in App /\ ~Mocked(At(h, to)) => to \in N
    <3>1. CASE r \in bodies
      BY <2>6, <3>1
    <3>2. CASE r \notin bodies
      <4>1. r \in S /\ r[1] \notin gone \union mocked
        BY <2>2, <3>2
      <4>2. r[1] \in App
        BY <2>1, <4>1 DEF Sees
      <4>3. QED
        BY <2>5, <4>1, <4>2
    <3>3. QED
      BY <3>1, <3>2
  <2>8. QED
    BY <1>8, <1>15, <2>3, <2>4, <2>7, SeesNext
<1>28. QED
  BY <1>26, <1>27

-----------------------------------------------------------------------------
(* A body ends                                                             *)

(* The mock that a load put aside is in force again. *)
LEMMA EndsFacts ==
  ASSUME RegistryInv, stack # <<>>, NEW f, f = Top, edges' = edges, mocks' = Remocked(f),
         stack' = Popped,
         \A x \in Modules \ {f.mod} : exports'[x] = exports[x],
         f.saved # None => exports'[f.mod] = f.saved
  PROVE  /\ f.mod \in Modules /\ f.obj \in Refs /\ f.saved \in References
         /\ OfPath(heap, f.mod, f.obj) /\ OfPath(heap, f.mod, f.saved)
         /\ Genuine(At(heap, f.obj)) /\ f.mod \notin mocks
         /\ \E i \in DOMAIN stack : stack[i] = f
         /\ mocks' = (IF f.saved = None THEN mocks ELSE mocks \union {f.mod})
         /\ mocks' \subseteq Mockable
         /\ stack' \in Seq(Frames)
         /\ \A i \in DOMAIN stack' :
              /\ i \in DOMAIN stack /\ SameFrame(stack'[i], stack[i]) /\ stack[i].mod # f.mod
              /\ stack'[i].next = 0 => stack[i].next = 0 /\ i # Len(stack) - 1
         /\ StackInv'
         /\ \A x \in Modules : MockOf(x)' = MockOf(x)
         /\ IsLoading(f.mod) /\ \A x : IsLoading(x)' => IsLoading(x) /\ x # f.mod
<1> DEFINE n == Len(stack)
<1>1. /\ stack \in Seq(Frames) /\ DOMAIN stack = 1 .. n /\ n \in DOMAIN stack /\ n \in Nat
      /\ n = Len(stack) /\ f = stack[n] /\ mocks \subseteq Mockable /\ Mockable \subseteq Modules
  BY FrameFacts, RegistryAssumption DEF RegistryInv, Types, Top
<1> HIDE DEF n
<1>2. /\ f \in Frames /\ f.mod \in Modules /\ f.obj \in Refs /\ f.saved \in References
  BY <1>1, FrameFacts
<1>3. /\ OfPath(heap, f.mod, f.obj) /\ OfPath(heap, f.mod, f.saved)
      /\ Genuine(At(heap, f.obj)) /\ f.mod \notin mocks
      /\ f.saved # None => f.mod \in Mockable
      /\ \A i \in DOMAIN stack : stack[i].mod = f.mod => i = n
  BY <1>1 DEF RegistryInv, HeldInv, RealInv, StackInv, StackOf
<1>4. mocks' = IF f.saved = None THEN mocks ELSE mocks \union {f.mod}
  BY DEF Remocked
<1>5. /\ stack' \in Seq(Frames) /\ Len(stack') = n - 1 /\ DOMAIN stack' = 1 .. n - 1
      /\ \A i \in DOMAIN stack' : SameFrame(stack'[i], stack[i])
      /\ \A i \in DOMAIN stack' : stack'[i].next = 0 => stack[i].next = 0 /\ i # n - 1
  BY <1>1, PoppedFrames
<1>6. \A i \in DOMAIN stack' : i \in DOMAIN stack /\ i # n
  BY <1>1, <1>5
<1>7. \A i \in DOMAIN stack' :
        /\ i \in DOMAIN stack /\ i # n /\ SameFrame(stack'[i], stack[i]) /\ stack[i].mod # f.mod
        /\ stack'[i].next = 0 => stack[i].next = 0 /\ i # n - 1
  BY <1>3, <1>5, <1>6
<1>8. \A i \in DOMAIN stack : i # n => i \in DOMAIN stack'
  BY <1>1, <1>5
<1>9. StackInv'
  <2>1. \A i \in DOMAIN stack' : /\ stack'[i].mod = stack[i].mod /\ stack'[i].saved = stack[i].saved
                                 /\ stack'[i].mod \notin mocks'
    <3>1. \A i \in DOMAIN stack : stack[i].mod \notin mocks
      BY DEF RegistryInv, StackInv, StackOf
    <3>2. QED
      BY <1>4, <1>7, <3>1 DEF SameFrame
  <2>2. edges \subseteq edges' /\ Len(stack') <= Len(stack)
    BY <1>1, <1>5
  <2>3. StackOf(mocks, edges, stack)
    BY DEF RegistryInv, StackInv
  <2>4. StackOf(mocks', edges', stack')
    <3>1. stack \in Seq(Frames) /\ stack' \in Seq(Frames)
      BY <1>1, <1>5
    <3>2. QED
      BY <2>1, <2>2, <2>3, <3>1, StackPart
  <2>5. QED
    BY <2>4 DEF StackInv
<1>10. \A x : IsLoading(x)' => IsLoading(x) /\ x # f.mod
  BY <1>7 DEF IsLoading, SameFrame
<1>11. \A x : IsLoading(x) => IsLoading(x)' \/ x = f.mod
  BY <1>1, <1>7, <1>8 DEF IsLoading, SameFrame
<1>12. ASSUME NEW x \in Modules
       PROVE  MockOf(x)' = MockOf(x)
  <2>1. CASE x = f.mod
    <3>1. MockOf(x) = f.saved
      BY <1>1, <2>1, MockOfFacts DEF RegistryInv
    <3>2. CASE f.saved = None
      BY <1>3, <1>4, <1>9, <1>10, <2>1, <3>1, <3>2, MockOfNextFacts
    <3>3. CASE f.saved # None
      BY <1>4, <1>9, <2>1, <3>1, <3>3, MockOfNextFacts
    <3>4. QED
      BY <3>2, <3>3
  <2>2. CASE x # f.mod /\ x \in mocks
    <3>1. exports'[x] = exports[x]
      BY <2>2
    <3>2. QED
      BY <1>4, <1>9, <2>2, <3>1, MockOfFacts, MockOfNextFacts DEF RegistryInv
  <2>3. CASE x # f.mod /\ IsLoading(x)
    <3>1. PICK i \in DOMAIN stack' : stack'[i].mod = x
      BY <1>11, <2>3 DEF IsLoading
    <3>2. MockOf(x)' = stack'[i].saved /\ stack[i].mod = x /\ stack'[i].saved = stack[i].saved
      BY <1>7, <1>9, <3>1, MockOfNextFacts DEF SameFrame
    <3>3. QED
      BY <1>7, <3>1, <3>2, MockOfFacts DEF RegistryInv
  <2>4. CASE x # f.mod /\ x \notin mocks /\ ~IsLoading(x)
    BY <1>4, <1>9, <1>10, <2>4, MockOfFacts, MockOfNextFacts DEF RegistryInv
  <2>5. QED
    BY <2>1, <2>2, <2>3, <2>4
<1>13. IsLoading(f.mod) /\ \E i \in DOMAIN stack : stack[i] = f
  BY <1>1 DEF IsLoading
<1>14. mocks' \subseteq Mockable
  BY <1>1, <1>3, <1>4
<1>15. \A i \in DOMAIN stack' :
         /\ i \in DOMAIN stack /\ SameFrame(stack'[i], stack[i]) /\ stack[i].mod # f.mod
         /\ stack'[i].next = 0 => stack[i].next = 0 /\ i # Len(stack) - 1
  BY <1>1, <1>7
<1>16. OfPath(heap, f.mod, f.obj) /\ OfPath(heap, f.mod, f.saved)
       /\ Genuine(At(heap, f.obj)) /\ f.mod \notin mocks
  BY <1>3
<1>17. stack' \in Seq(Frames)
  BY <1>5
<1>18. QED
  BY <1>2, <1>4, <1>9, <1>10, <1>12, <1>13, <1>14, <1>15, <1>16, <1>17

(* The invariant, when a body returns. *)
LEMMA FinishesKeeps ==
  ASSUME RegistryInv, Finishes
  PROVE  RegistryInv' /\ (SeesInv => SeesInv')
<1>0. PICK f : f = Top
  OBVIOUS
<1> DEFINE g == Below[Len(Below)]
           h == IF Below = <<>> THEN heap ELSE Bind(g.obj, g.next, f.obj)
<1>1. /\ stack # <<>> /\ mocks' = Remocked(f) /\ real' = [real EXCEPT ![f.mod] = f.obj]
      /\ exports' = Restored([exports EXCEPT ![f.mod] = f.obj], f)
      /\ stack' = Popped
      /\ heap' = Live(h)
      /\ loads' = IF f.mod \in Pkgs /\ loads[f.mod] < 2 THEN [loads EXCEPT ![f.mod] = @ + 1] ELSE loads
      /\ UNCHANGED <<edges, phase, file, setupMocks, snapshot, made, queue, waits, declared, touched>>
  BY <1>0 DEF Finishes, fileVars, Popped
<1>2. exports \in [Modules -> References] /\ real \in [Modules -> References]
      /\ stack \in Seq(Frames) /\ HeapType(heap)
  BY DEF RegistryInv, Types, HeapType
<1>3. f.mod \in Modules
  BY <1>0, <1>1, <1>2, FrameFacts DEF Top
<1>4. \A x \in Modules : /\ exports'[x] = IF x # f.mod THEN exports[x]
                                          ELSE IF f.saved = None THEN f.obj ELSE f.saved
                         /\ real'[x] = IF x = f.mod THEN f.obj ELSE real[x]
  BY <1>1, <1>2, <1>3 DEF Restored
<1>5. /\ f.obj \in Refs /\ f.saved \in References
      /\ OfPath(heap, f.mod, f.obj) /\ OfPath(heap, f.mod, f.saved)
      /\ Genuine(At(heap, f.obj)) /\ f.mod \notin mocks
      /\ \E i \in DOMAIN stack : stack[i] = f
      /\ mocks' = (IF f.saved = None THEN mocks ELSE mocks \union {f.mod})
      /\ mocks' \subseteq Mockable
      /\ stack' \in Seq(Frames)
      /\ \A i \in DOMAIN stack' :
           /\ i \in DOMAIN stack /\ SameFrame(stack'[i], stack[i]) /\ stack[i].mod # f.mod
           /\ stack'[i].next = 0 => stack[i].next = 0 /\ i # Len(stack) - 1
      /\ StackInv'
      /\ \A x \in Modules : MockOf(x)' = MockOf(x)
      /\ IsLoading(f.mod) /\ \A x : IsLoading(x)' => IsLoading(x) /\ x # f.mod
  <2>1. /\ RegistryInv /\ stack # <<>> /\ f = Top /\ edges' = edges /\ mocks' = Remocked(f)
        /\ stack' = Popped
        /\ \A x \in Modules \ {f.mod} : exports'[x] = exports[x]
        /\ f.saved # None => exports'[f.mod] = f.saved
    BY <1>0, <1>1, <1>3, <1>4
  <2>2. QED
    BY <2>1, EndsFacts
<1>6. Below # <<>> =>
        \E i \in DOMAIN stack : i = Len(stack) - 1 /\ i + 1 \in DOMAIN stack
                                /\ stack[i] = g /\ stack[i + 1] = f
  BY <1>0, <1>1, <1>2, PoppedFrames, FrameFacts DEF Top
<1>7. Below # <<>> =>
        /\ g \in Frames /\ g.obj \in Refs /\ g.mod \in Modules /\ g.obj[1] = g.mod /\ Used(heap, g.obj)
        /\ <<f.mod, g.mod>> \in edges /\ (f.saved # None => g.mod \in Pkgs)
        /\ \E i \in DOMAIN stack : stack[i] = g
  <2>1. SUFFICES ASSUME Below # <<>>
                 PROVE  /\ g \in Frames /\ g.obj \in Refs /\ g.mod \in Modules
                        /\ g.obj[1] = g.mod /\ Used(heap, g.obj)
                        /\ <<f.mod, g.mod>> \in edges /\ (f.saved # None => g.mod \in Pkgs)
                        /\ \E i \in DOMAIN stack : stack[i] = g
    OBVIOUS
  <2>2. PICK i \in DOMAIN stack : i + 1 \in DOMAIN stack /\ stack[i] = g /\ stack[i + 1] = f
    BY <1>6, <2>1
  <2> HIDE DEF g
  <2>3. g \in Frames /\ g.obj \in Refs /\ g.mod \in Modules
    BY <1>2, <2>2, FrameFacts
  <2>4. g.obj[1] = g.mod /\ Used(heap, g.obj)
    BY <2>2, <2>3, RefFacts DEF RegistryInv, HeldInv, OfPath
  <2>5. i \in Nat /\ i + 1 > 1 /\ (i + 1) - 1 = i
    BY <1>2, <2>2, FrameFacts
  <2>6. <<f.mod, g.mod>> \in edges /\ (f.saved # None => g.mod \in Pkgs)
    BY <2>2, <2>5 DEF RegistryInv, StackInv, StackOf
  <2>7. QED
    BY <2>2, <2>3, <2>4, <2>6
<1> HIDE DEF g
<1>8. f.obj[1] = f.mod /\ Used(heap, f.obj) /\ ~At(heap, f.obj).mock
  BY <1>5, RefFacts DEF OfPath, Genuine, Mocked
<1>9. /\ HeapType(h) /\ LinksOf(h, edges')
      /\ \A r \in Refs :
           /\ At(h, r).mock = At(heap, r).mock /\ At(h, r).over = At(heap, r).over
           /\ At(h, r).val = At(heap, r).val
           /\ \A to \in Bounds(At(h, r)) :
                to \in Bounds(At(heap, r)) \/ (Below # <<>> /\ r = g.obj /\ to = f.obj)
           /\ \A i \in DOMAIN stack' : stack'[i].next = 0 /\ r = stack'[i].obj => At(h, r) = At(heap, r)
  <2>1. CASE Below = <<>>
    BY <1>1, <1>2, <2>1 DEF RegistryInv, LinkInv
  <2>2. CASE Below # <<>>
    <3>1. h = Bind(g.obj, g.next, f.obj)
      BY <2>2
    <3> HIDE DEF h
    <3>2. /\ HeapType(h)
          /\ \A r \in Refs :
               /\ At(h, r).mock = At(heap, r).mock /\ At(h, r).over = At(heap, r).over
               /\ At(h, r).val = At(heap, r).val
               /\ Bounds(At(h, r)) \subseteq
                    Bounds(At(heap, r)) \union (IF r = g.obj THEN {f.obj} ELSE {})
               /\ r # g.obj => At(h, r) = At(heap, r)
      BY <1>2, <1>5, <1>7, <2>2, <3>1, BindFacts
    <3>3. LinksOf(h, edges')
      BY <1>1, <1>2, <1>5, <1>7, <1>8, <2>2, <3>1, BoundLinks DEF RegistryInv
    <3>4. ASSUME NEW i \in DOMAIN stack', stack'[i].next = 0
          PROVE  stack'[i].obj # g.obj
      <4>1. i # Len(stack) - 1 /\ i \in DOMAIN stack
        BY <1>5, <3>4
      <4>2. stack[i].mod # g.mod
        BY <1>6, <2>2, <4>1 DEF RegistryInv, StackInv, StackOf
      <4>3. stack[i].obj[1] = stack[i].mod
        BY <1>2, <4>1, FrameFacts, RefFacts DEF RegistryInv, HeldInv, OfPath
      <4>4. QED
        BY <1>5, <1>7, <2>2, <3>4, <4>2, <4>3 DEF SameFrame
    <3>5. QED
      BY <2>2, <3>2, <3>3, <3>4
  <2>3. QED
    BY <2>1, <2>2
<1> HIDE DEF h
<1>10. Types'
  <2>1. exports' \in [Modules -> References] /\ real' \in [Modules -> References]
    BY <1>1, <1>2, <1>3, <1>5, RefFacts DEF Restored
  <2>2. HeapType(heap')
    BY <1>1, <1>5, <1>9, <2>1, LiveFacts
  <2>3. loads' \in [Pkgs -> 0 .. 2]
    <3>1. loads \in [Pkgs -> 0 .. 2]
      BY DEF RegistryInv, Types
    <3>2. \A k \in 0 .. 2 : k < 2 => k + 1 \in 0 .. 2
      OBVIOUS
    <3>3. QED
      BY <1>1, <3>1, <3>2
  <2>4. QED
    BY <1>1, <1>5, <2>1, <2>2, <2>3 DEF RegistryInv, Types, HeapType
<1>11. \A r \in Refs : Used(heap, r) => Used(h, r)
  BY <1>9 DEF Used
<1>12. NextHeap(h) /\ HeldInv' /\ LinkInv'
  <2>1. \A x \in Modules : OfPath(h, x, exports'[x]) /\ OfPath(h, x, real'[x])
    BY <1>4, <1>5, <1>11, HeldTypes, RefFacts DEF RegistryInv, HeldInv, OfPath
  <2>2. \A i \in DOMAIN stack' :
          OfPath(h, stack'[i].mod, stack'[i].obj) /\ OfPath(h, stack'[i].mod, stack'[i].saved)
    BY <1>2, <1>5, <1>11, FrameFacts, RefFacts DEF RegistryInv, HeldInv, OfPath, SameFrame
  <2>3. NextTypes
    BY <1>10 DEF Types, NextTypes
  <2>4. QED
    BY <1>1, <1>9, <2>1, <2>2, <2>3, NextHeapHolds
<1>13. SameMocks
  <2>1. ASSUME NEW x \in Modules, MockOf(x) # None
        PROVE  Alike(At(heap', MockOf(x)), At(heap, MockOf(x)))
    BY <1>5, <1>9, <1>12, <2>1, MockHeld DEF Alike
  <2>2. \A x \in mocks' : MockOf(x) # None
    <3>1. \A x \in mocks' : exports'[x] # None /\ x \in Modules
      BY <1>4, <1>5, RegistryAssumption DEF RegistryInv, MockInv
    <3>2. QED
      BY <1>5, <3>1, MockOfNextFacts
  <2>3. QED
    BY <1>1, <1>5, <2>1, <2>2 DEF SameMocks
<1>14. \A o, p : Alike(o, p) /\ Genuine(p) => Genuine(o)
  BY DEF Genuine, Mocked, Alike
<1>15. RealInv'
  <2>1. \A x \in Modules : real'[x] # None => ~At(heap', real'[x]).mock
    BY <1>4, <1>8, <1>9, <1>12 DEF RegistryInv, RealInv, NextHeap
  <2>2. ASSUME NEW x \in Modules \ mocks', exports'[x] # None
        PROVE  Genuine(At(heap', exports'[x]))
    <3>1. exports'[x] \in Refs /\ At(heap', exports'[x]) = At(h, exports'[x])
      BY <1>12, <2>2 DEF NextHeap
    <3>2. Genuine(At(heap, exports'[x]))
      BY <1>4, <1>5, <2>2 DEF RegistryInv, RealInv
    <3>3. QED
      BY <1>9, <1>14, <3>1, <3>2 DEF Alike
  <2>3. ASSUME NEW i \in DOMAIN stack'
        PROVE  Genuine(At(heap', stack'[i].obj))
    <3>1. stack'[i].obj \in Refs /\ At(heap', stack'[i].obj) = At(h, stack'[i].obj)
      BY <1>12 DEF NextHeap
    <3>2. Genuine(At(heap, stack'[i].obj))
      BY <1>5 DEF RegistryInv, RealInv, SameFrame
    <3>3. QED
      BY <1>9, <1>14, <3>1, <3>2 DEF Alike
  <2>4. QED
    BY <2>1, <2>2, <2>3 DEF RealInv
<1>16. FreshInv'
  <2>1. ASSUME NEW i \in DOMAIN stack', stack'[i].next = 0
        PROVE  Bounds(At(heap', stack'[i].obj)) = {}
    <3>1. stack'[i].obj \in Refs /\ At(heap', stack'[i].obj) = At(h, stack'[i].obj)
      BY <1>12 DEF NextHeap
    <3>2. At(h, stack'[i].obj) = At(heap, stack[i].obj)
      BY <1>5, <1>9, <2>1, <3>1 DEF SameFrame
    <3>3. QED
      BY <1>5, <2>1, <3>1, <3>2 DEF RegistryInv, FreshInv
  <2>2. QED
    BY <2>1 DEF FreshInv
<1>17. MockInv' /\ OwnerInv' /\ OnceInv'
  <2>1. mocks' \subseteq Modules
    BY <1>10, RegistryAssumption DEF Types
  <2>2. /\ MockInv' /\ OwnerInv'
        /\ phase' # "setup" =>
             \A x \in Modules \ setupMocks' : MockOf(x)' # None => x \in touched'
    BY <1>13, <2>1, SameMocksKeep
  <2>3. ASSUME NEW x \in Pkgs \ touched', loads'[x] # 0
        PROVE  loads'[x] = 1 /\ real'[x] # None /\ exports'[x] # None /\ ~IsLoading(x)'
    <3>1. loads \in [Pkgs -> 0 .. 2] /\ x \in Modules
      BY DEF RegistryInv, Types, Modules
    <3>2. CASE x = f.mod
      <4>1. loads[x] = 0
        BY <1>1, <1>5, <2>3, <3>2 DEF RegistryInv, OnceInv
      <4>2. loads'[x] = 1
        BY <1>1, <2>3, <3>1, <3>2, <4>1
      <4>3. QED
        <5>1. real'[x] = f.obj /\ f.obj # None /\ ~IsLoading(x)'
          BY <1>4, <1>5, <3>1, <3>2, RefFacts
        <5>2. exports'[x] # None
          BY <1>4, <3>1, <3>2, <5>1
        <5>3. QED
          BY <4>2, <5>1, <5>2
    <3>3. CASE x # f.mod
      <4>1. loads'[x] = loads[x]
        BY <1>1, <3>1, <3>3
      <4>2. loads[x] = 1 /\ real[x] # None /\ exports[x] # None /\ ~IsLoading(x)
        BY <1>1, <2>3, <4>1 DEF RegistryInv, OnceInv
      <4>3. real'[x] = real[x] /\ exports'[x] = exports[x]
        BY <1>4, <3>1, <3>3
      <4>4. ~IsLoading(x)'
        BY <1>5, <4>2
      <4>5. QED
        BY <4>1, <4>2, <4>3, <4>4
    <3>4. QED
      BY <3>2, <3>3
  <2>4. QED
    BY <2>2, <2>3 DEF OnceInv
<1>18. RegistryInv'
  BY <1>5, <1>10, <1>12, <1>15, <1>16, <1>17 DEF RegistryInv
<1>19. ASSUME SeesInv
       PROVE  SeesInv'
  <2>1. PICK S \in SUBSET Refs : Sees(S)
    BY <1>19 DEF SeesInv
  <2>2. f.mod \in App => f.obj \in S
    BY <1>5, <2>1 DEF Sees
  <2>3. \A x \in App \ mocks' : exports'[x] # None => exports'[x] \in S
    BY <1>4, <1>5, <2>1, <2>2 DEF Sees, Modules
  <2>4. \A i \in DOMAIN stack' : stack'[i].mod \in App => stack'[i].obj \in S
    BY <1>5, <2>1 DEF Sees, SameFrame
  <2>5. ASSUME NEW r \in S, NEW to \in Bounds(At(h, r))
        PROVE  IF MockOf(to[1])' # None THEN to = MockOf(to[1])'
               ELSE to[1] \in App /\ ~Mocked(At(h, to)) => to \in S
    <3>1. to \in Refs /\ to[1] \in Modules
      BY <1>9, <2>5, ObjectType, RefFacts
    <3>2. Mocked(At(h, to)) <=> Mocked(At(heap, to))
      BY <1>9, <3>1 DEF Mocked
    <3>3. r[1] \in App
      BY <2>1 DEF Sees
    <3>4. CASE to \in Bounds(At(heap, r))
      BY <1>5, <2>1, <3>1, <3>2, <3>4 DEF Sees
    <3>5. CASE Below # <<>> /\ r = g.obj /\ to = f.obj
      <4>1. g.mod \in App /\ f.saved = None
        BY <1>7, <3>3, <3>5, RegistryAssumption
      <4>2. MockOf(f.mod) = None
        BY <1>5, <4>1, MockOfFacts DEF RegistryInv
      <4>3. QED
        BY <1>3, <1>5, <1>8, <2>2, <3>5, <4>2
    <3>6. QED
      BY <1>9, <2>5, <3>4, <3>5
  <2>6. \A r \in S : r[1] \in App
    BY <2>1 DEF Sees
  <2>7. QED
    BY <1>9, <1>12, <2>3, <2>4, <2>5, <2>6, SeesNext
<1>20. QED
  BY <1>18, <1>19


(* The invariant, when a body throws. *)
LEMMA ThrowsKeeps ==
  ASSUME RegistryInv, Throws
  PROVE  RegistryInv' /\ (SeesInv => SeesInv')
<1>0. PICK f : f = Top
  OBVIOUS
<1>1. /\ stack # <<>> /\ f.mod \in App /\ mocks' = Remocked(f) /\ exports' = Restored(exports, f)
      /\ stack' = Popped /\ heap' = Live(heap)
      /\ UNCHANGED <<real, edges, phase, file, setupMocks, snapshot, made, queue, waits, declared,
                     touched, loads>>
  BY <1>0, RegistryAssumption DEF Throws, fileVars, history, Popped
<1>2. exports \in [Modules -> References] /\ real \in [Modules -> References]
      /\ stack \in Seq(Frames) /\ HeapType(heap) /\ f.mod \in Modules
  BY <1>1 DEF RegistryInv, Types, HeapType, Modules
<1>3. \A x \in Modules : exports'[x] = IF x = f.mod /\ f.saved # None THEN f.saved ELSE exports[x]
  BY <1>1, <1>2 DEF Restored
<1>4. /\ f.obj \in Refs /\ f.saved \in References
      /\ OfPath(heap, f.mod, f.obj) /\ OfPath(heap, f.mod, f.saved)
      /\ Genuine(At(heap, f.obj)) /\ f.mod \notin mocks
      /\ mocks' = (IF f.saved = None THEN mocks ELSE mocks \union {f.mod})
      /\ mocks' \subseteq Mockable
      /\ stack' \in Seq(Frames)
      /\ \A i \in DOMAIN stack' :
           /\ i \in DOMAIN stack /\ SameFrame(stack'[i], stack[i]) /\ stack[i].mod # f.mod
           /\ stack'[i].next = 0 => stack[i].next = 0 /\ i # Len(stack) - 1
      /\ StackInv'
      /\ \A x \in Modules : MockOf(x)' = MockOf(x)
      /\ IsLoading(f.mod) /\ \A x : IsLoading(x)' => IsLoading(x) /\ x # f.mod
  <2>1. /\ RegistryInv /\ stack # <<>> /\ f = Top /\ edges' = edges /\ mocks' = Remocked(f)
        /\ stack' = Popped
        /\ \A x \in Modules \ {f.mod} : exports'[x] = exports[x]
        /\ f.saved # None => exports'[f.mod] = f.saved
    BY <1>0, <1>1, <1>2, <1>3
  <2>2. QED
    BY <2>1, EndsFacts
<1>5. Types'
  <2>1. exports' \in [Modules -> References] /\ real' \in [Modules -> References]
    BY <1>1, <1>2, <1>4 DEF Restored
  <2>2. HeapType(heap')
    BY <1>1, <1>2, <1>4, <2>1, LiveFacts
  <2>3. QED
    BY <1>1, <1>4, <2>1, <2>2 DEF RegistryInv, Types, HeapType
<1>6. NextHeap(heap) /\ HeldInv' /\ LinkInv'
  <2>1. \A x \in Modules : OfPath(heap, x, exports'[x]) /\ OfPath(heap, x, real'[x])
    BY <1>1, <1>3, <1>4 DEF RegistryInv, HeldInv
  <2>2. \A i \in DOMAIN stack' :
          OfPath(heap, stack'[i].mod, stack'[i].obj) /\ OfPath(heap, stack'[i].mod, stack'[i].saved)
    BY <1>4 DEF RegistryInv, HeldInv, SameFrame
  <2>3. NextTypes
    BY <1>5 DEF Types, NextTypes
  <2>4. LinksOf(heap, edges')
    BY <1>1 DEF RegistryInv, LinkInv
  <2>5. QED
    BY <1>1, <1>2, <2>1, <2>2, <2>3, <2>4, NextHeapHolds
<1>7. SameMocks
  <2>1. ASSUME NEW x \in Modules, MockOf(x) # None
        PROVE  Alike(At(heap', MockOf(x)), At(heap, MockOf(x)))
    BY <1>4, <1>6, <2>1, MockHeld DEF Alike
  <2>2. \A x \in mocks' : MockOf(x) # None
    <3>1. \A x \in mocks' : exports'[x] # None /\ x \in Modules
      BY <1>3, <1>4, RegistryAssumption DEF RegistryInv, MockInv
    <3>2. QED
      BY <1>4, <3>1, MockOfNextFacts
  <2>3. QED
    BY <1>1, <1>4, <2>1, <2>2 DEF SameMocks
<1>8. RealInv'
  <2>1. \A x \in Modules : real'[x] # None => ~At(heap', real'[x]).mock
    BY <1>1, <1>6 DEF RegistryInv, RealInv, NextHeap
  <2>2. ASSUME NEW x \in Modules \ mocks', exports'[x] # None
        PROVE  Genuine(At(heap', exports'[x]))
    <3>1. At(heap', exports'[x]) = At(heap, exports'[x])
      BY <1>6, <2>2 DEF NextHeap
    <3>2. x \notin mocks /\ exports'[x] = exports[x]
      BY <1>3, <1>4, <2>2
    <3>3. QED
      BY <2>2, <3>1, <3>2 DEF RegistryInv, RealInv
  <2>3. \A i \in DOMAIN stack' : Genuine(At(heap', stack'[i].obj))
    BY <1>4, <1>6 DEF RegistryInv, RealInv, SameFrame, NextHeap
  <2>4. QED
    BY <2>1, <2>2, <2>3 DEF RealInv
<1>9. FreshInv'
  BY <1>4, <1>6 DEF RegistryInv, FreshInv, NextHeap, SameFrame
<1>10. MockInv' /\ OwnerInv' /\ OnceInv'
  <2>1. mocks' \subseteq Modules
    BY <1>5, RegistryAssumption DEF Types
  <2>2. /\ MockInv' /\ OwnerInv'
        /\ phase' # "setup" =>
             \A x \in Modules \ setupMocks' : MockOf(x)' # None => x \in touched'
    BY <1>7, <2>1, SameMocksKeep
  <2>3. ASSUME NEW x \in Pkgs \ touched', loads'[x] # 0
        PROVE  loads'[x] = 1 /\ real'[x] # None /\ exports'[x] # None /\ ~IsLoading(x)'
    <3>1. loads[x] = 1 /\ real[x] # None /\ exports[x] # None /\ ~IsLoading(x)
      BY <1>1, <2>3 DEF RegistryInv, OnceInv
    <3>2. x # f.mod /\ x \in Modules
      BY <1>1, RegistryAssumption DEF Modules
    <3>3. exports'[x] = exports[x] /\ ~IsLoading(x)'
      BY <1>3, <1>4, <3>1, <3>2
    <3>4. QED
      BY <1>1, <3>1, <3>3
  <2>4. QED
    BY <2>2, <2>3 DEF OnceInv
<1>11. RegistryInv'
  BY <1>4, <1>5, <1>6, <1>8, <1>9, <1>10 DEF RegistryInv
<1>12. ASSUME SeesInv
       PROVE  SeesInv'
  <2>1. PICK S \in SUBSET Refs : Sees(S)
    BY <1>12 DEF SeesInv
  <2>2. ASSUME NEW x \in App \ mocks', exports'[x] # None
        PROVE  exports'[x] \in S
    <3>1. x \in Modules /\ x \notin mocks /\ exports'[x] = exports[x]
      BY <1>3, <1>4, <2>2 DEF Modules
    <3>2. QED
      BY <2>1, <2>2, <3>1 DEF Sees
  <2>3. \A i \in DOMAIN stack' : stack'[i].mod \in App => stack'[i].obj \in S
    BY <1>4, <2>1 DEF Sees, SameFrame
  <2>4. ASSUME NEW r \in S, NEW to \in Bounds(At(heap, r))
        PROVE  IF MockOf(to[1])' # None THEN to = MockOf(to[1])'
               ELSE to[1] \in App /\ ~Mocked(At(heap, to)) => to \in S
    <3>1. to[1] \in Modules
      BY <1>2, <2>4, ObjectType, RefFacts
    <3>2. QED
      BY <1>4, <2>1, <3>1 DEF Sees
  <2>5. \A r \in S : r[1] \in App
    BY <2>1 DEF Sees
  <2>6. QED
    BY <1>2, <1>6, <2>2, <2>3, <2>4, <2>5, SeesNext
<1>13. QED
  BY <1>11, <1>12

(* The invariant, when a body that threw runs again. *)
LEMMA RunsAgainKeeps ==
  ASSUME RegistryInv, RunsAgain
  PROVE  RegistryInv' /\ (SeesInv => SeesInv')
<1>0. PICK f : f = Top
  OBVIOUS
<1>a. PICK cell : cell = NewCell(f.mod)
  OBVIOUS
<1> DEFINE n == Len(stack)
           h == Write(cell, RealObject(f.mod))
<1>1. /\ stack # <<>> /\ FreeCells(f.mod) # {} /\ heap' = Live(h)
      /\ stack' = [stack EXCEPT ![Len(stack)].obj = cell, ![Len(stack)].next = 0,
                                ![Len(stack)].retried = TRUE]
      /\ UNCHANGED <<exports, real, mocks, edges, phase, file, setupMocks, snapshot, made, queue,
                     waits, declared, touched, loads>>
  BY <1>0, <1>a DEF RunsAgain, registry, fileVars, history
<1>2. /\ stack \in Seq(Frames) /\ DOMAIN stack = 1 .. n /\ n \in DOMAIN stack /\ n \in Nat
      /\ n = Len(stack) /\ f = stack[n] /\ f \in Frames
      /\ HeapType(heap) /\ f.mod \in Modules
      /\ exports \in [Modules -> References] /\ real \in [Modules -> References]
  BY <1>0, <1>1, FrameFacts DEF RegistryInv, Types, HeapType, Top
<1>3. cell \in Refs /\ cell[1] = f.mod /\ ~Used(heap, cell)
  BY <1>a, <1>1, <1>2, NewCellFacts
<1>4. /\ HeapType(h)
      /\ \A r \in Refs : At(h, r) = IF r = cell THEN RealObject(f.mod) ELSE At(heap, r)
  BY <1>2, <1>3, RealObjectFacts, WriteFacts
<1>5. LinksOf(h, edges')
  BY <1>1, <1>2, <1>3, RealObjectFacts, NewObjectLinks DEF RegistryInv
<1> HIDE DEF h
<1>6. PICK again \in Frames : again.mod = f.mod /\ again.saved = f.saved /\ again.obj = cell
                              /\ stack' = [stack EXCEPT ![n] = again]
  <2> DEFINE g == [stack[n] EXCEPT !.obj = cell, !.next = 0, !.retried = TRUE]
  <2>1. g \in Frames /\ g.mod = f.mod /\ g.saved = f.saved /\ g.obj = cell
    BY <1>2, <1>3 DEF Frames
  <2>2. stack' = [stack EXCEPT ![n] = g]
    BY <1>1
  <2>3. QED
    BY <2>1, <2>2
<1> HIDE DEF n
<1>7. /\ stack' \in Seq(Frames) /\ Len(stack') = n /\ DOMAIN stack' = DOMAIN stack
      /\ \A i \in DOMAIN stack : stack'[i] = IF i = n THEN again ELSE stack[i]
  <2>1. /\ stack' \in Seq(Frames) /\ Len(stack') = Len(stack)
        /\ \A i \in 1 .. Len(stack) : stack'[i] = IF i = n THEN again ELSE stack[i]
    BY <1>2, <1>6, ExceptSeq
  <2>2. DOMAIN stack' = DOMAIN stack
    BY <1>2, <2>1, FrameFacts
  <2>3. QED
    BY <1>2, <2>1, <2>2
<1>8. \A i \in DOMAIN stack' : stack'[i].mod = stack[i].mod /\ stack'[i].saved = stack[i].saved
  BY <1>2, <1>6, <1>7
<1>9. Types'
  <2>1. HeapType(heap')
    BY <1>1, <1>2, <1>4, <1>7, LiveFacts
  <2>2. QED
    BY <1>1, <1>7, <2>1 DEF RegistryInv, Types, HeapType
<1>10. \A r \in Refs : Used(heap, r) => r # cell /\ At(h, r) = At(heap, r) /\ Used(h, r)
  BY <1>3, <1>4 DEF Used
<1>11. Used(h, cell) /\ Genuine(At(h, cell)) /\ Bounds(At(h, cell)) = {}
  BY <1>2, <1>3, <1>4, RealObjectFacts DEF Used
<1>12. NextHeap(h) /\ HeldInv' /\ LinkInv'
  <2>1. \A x \in Modules : OfPath(h, x, exports'[x]) /\ OfPath(h, x, real'[x])
    BY <1>1, <1>10, HeldTypes DEF RegistryInv, HeldInv, OfPath
  <2>2. ASSUME NEW i \in DOMAIN stack'
        PROVE  OfPath(h, stack'[i].mod, stack'[i].obj) /\ OfPath(h, stack'[i].mod, stack'[i].saved)
    <3>1. OfPath(h, stack'[i].mod, stack'[i].saved)
      BY <1>2, <1>7, <1>8, <1>10, FrameFacts, RefFacts DEF RegistryInv, HeldInv, OfPath
    <3>2. CASE i = n
      BY <1>2, <1>3, <1>6, <1>7, <1>11, <3>1, <3>2 DEF OfPath
    <3>3. CASE i # n
      BY <1>2, <1>7, <1>10, <3>1, <3>3, FrameFacts, RefFacts DEF RegistryInv, HeldInv, OfPath
    <3>4. QED
      BY <3>2, <3>3
  <2>3. NextTypes
    BY <1>9 DEF Types, NextTypes
  <2>4. QED
    BY <1>1, <1>4, <1>5, <2>1, <2>2, <2>3, NextHeapHolds
<1>13. StackInv'
  <2>1. \A i \in DOMAIN stack' : /\ stack'[i].mod = stack[i].mod /\ stack'[i].saved = stack[i].saved
                                 /\ stack'[i].mod \notin mocks'
    <3>1. \A i \in DOMAIN stack : stack[i].mod \notin mocks
      BY DEF RegistryInv, StackInv, StackOf
    <3>2. mocks' = mocks
      BY <1>1
    <3>3. QED
      BY <1>7, <1>8, <3>1, <3>2
  <2>2. edges \subseteq edges' /\ Len(stack') <= Len(stack)
    BY <1>1, <1>2, <1>7
  <2>3. StackOf(mocks, edges, stack) /\ stack \in Seq(Frames) /\ stack' \in Seq(Frames)
    BY <1>2, <1>7 DEF RegistryInv, StackInv
  <2>4. StackOf(mocks', edges', stack')
    BY <2>1, <2>2, <2>3, StackPart
  <2>5. QED
    BY <2>4 DEF StackInv
<1>14. \A x : IsLoading(x)' <=> IsLoading(x)
  BY <1>7, <1>8 DEF IsLoading
<1>15. \A x \in Modules : MockOf(x)' = MockOf(x)
  <2>1. mocks' = mocks /\ exports' = exports
    BY <1>1
  <2>2. ASSUME NEW x \in Modules
        PROVE  MockOf(x)' = MockOf(x)
    <3>1. CASE IsLoading(x)
      <4>1. PICK i \in DOMAIN stack : stack[i].mod = x
        BY <3>1 DEF IsLoading
      <4>2. i \in DOMAIN stack' /\ stack'[i].mod = x /\ stack'[i].saved = stack[i].saved
        BY <1>7, <1>8, <4>1
      <4>3. MockOf(x)' = stack'[i].saved
        BY <1>13, <4>2, MockOfNextFacts
      <4>4. MockOf(x) = stack[i].saved
        BY <4>1, MockOfFacts DEF RegistryInv
      <4>5. QED
        BY <4>2, <4>3, <4>4
    <3>2. CASE x \in mocks
      BY <1>13, <2>1, <3>2, MockOfFacts, MockOfNextFacts DEF RegistryInv
    <3>3. CASE x \notin mocks /\ ~IsLoading(x)
      BY <1>13, <1>14, <2>1, <3>3, MockOfFacts, MockOfNextFacts DEF RegistryInv
    <3>4. QED
      BY <3>1, <3>2, <3>3
  <2>3. QED
    BY <2>2
<1>16. SameMocks
  <2>1. ASSUME NEW x \in Modules, MockOf(x) # None
        PROVE  Alike(At(heap', MockOf(x)), At(heap, MockOf(x)))
    BY <1>10, <1>12, <1>13, <1>15, <2>1, MockHeld, HeldTypes DEF Alike
  <2>2. \A x \in mocks' : MockOf(x) # None
    <3>1. mocks \subseteq Modules
      BY RegistryAssumption DEF RegistryInv, Types
    <3>2. QED
      BY <1>1, <3>1, MockOfFacts DEF RegistryInv, MockInv
  <2>3. QED
    BY <1>1, <1>15, <2>1, <2>2 DEF SameMocks
<1>17. ASSUME NEW i \in DOMAIN stack'
       PROVE  IF i = n THEN stack'[i].obj = cell /\ At(heap', stack'[i].obj) = At(h, cell)
              ELSE stack'[i] = stack[i] /\ At(heap', stack'[i].obj) = At(heap, stack[i].obj)
  <2>1. At(heap', stack'[i].obj) = At(h, stack'[i].obj)
    BY <1>12 DEF NextHeap
  <2>2. CASE i = n
    BY <1>2, <1>6, <1>7, <2>1, <2>2
  <2>3. CASE i # n
    <3>1. stack[i].obj \in Refs /\ Used(heap, stack[i].obj) /\ stack'[i] = stack[i]
      BY <1>2, <1>7, <2>3, FrameFacts, RefFacts DEF RegistryInv, HeldInv, OfPath
    <3>2. QED
      BY <1>10, <2>1, <2>3, <3>1
  <2>4. QED
    BY <2>2, <2>3
<1>18. RealInv'
  <2>1. \A x \in Modules : real'[x] # None => ~At(heap', real'[x]).mock
    BY <1>1, <1>10, <1>12, HeldTypes DEF RegistryInv, RealInv, NextHeap, HeldInv, OfPath
  <2>2. \A x \in Modules \ mocks' : exports'[x] # None => Genuine(At(heap', exports'[x]))
    BY <1>1, <1>10, <1>12, HeldTypes DEF RegistryInv, RealInv, NextHeap, HeldInv, OfPath
  <2>3. \A i \in DOMAIN stack' : Genuine(At(heap', stack'[i].obj))
    BY <1>7, <1>11, <1>17 DEF RegistryInv, RealInv
  <2>4. QED
    BY <2>1, <2>2, <2>3 DEF RealInv
<1>19. FreshInv'
  BY <1>7, <1>11, <1>17 DEF RegistryInv, FreshInv
<1>20. MockInv' /\ OwnerInv' /\ OnceInv'
  <2>1. mocks' \subseteq Modules
    BY <1>9, RegistryAssumption DEF Types
  <2>2. /\ MockInv' /\ OwnerInv'
        /\ phase' # "setup" =>
             \A x \in Modules \ setupMocks' : MockOf(x)' # None => x \in touched'
    BY <1>16, <2>1, SameMocksKeep
  <2>3. QED
    BY <1>1, <1>14, <2>2 DEF RegistryInv, OnceInv
<1>21. RegistryInv'
  BY <1>9, <1>12, <1>13, <1>18, <1>19, <1>20 DEF RegistryInv
<1>22. ASSUME SeesInv
       PROVE  SeesInv'
  <2>1. PICK S \in SUBSET Refs : Sees(S)
    BY <1>22 DEF SeesInv
  <2>2. PICK N \in SUBSET Refs : N = (S \ {cell}) \union {r \in {cell} : f.mod \in App}
    BY <1>3
  <2>3. \A x \in App \ mocks' : exports'[x] # None => exports'[x] \in N
    <3>1. \A x \in App \ mocks' : exports'[x] # None => exports'[x] \in S /\ exports'[x] # cell
      BY <1>1, <1>10, <2>1, HeldTypes DEF Sees, RegistryInv, HeldInv, OfPath, Modules
    <3>2. QED
      BY <2>2, <3>1
  <2>4. ASSUME NEW i \in DOMAIN stack', stack'[i].mod \in App
        PROVE  stack'[i].obj \in N
    <3>1. CASE i = n
      BY <1>2, <1>6, <1>7, <2>2, <2>4, <3>1
    <3>2. CASE i # n
      <4>1. stack'[i] = stack[i] /\ i \in DOMAIN stack
        BY <1>7, <3>2
      <4>2. stack[i].obj \in S
        BY <2>1, <2>4, <4>1 DEF Sees
      <4>3. stack[i].obj # cell
        BY <1>2, <1>10, <4>1, FrameFacts, RefFacts DEF RegistryInv, HeldInv, OfPath
      <4>4. QED
        BY <2>2, <4>1, <4>2, <4>3
    <3>3. QED
      BY <3>1, <3>2
  <2>5. ASSUME NEW r \in N
        PROVE  /\ r[1] \in App
               /\ \A to \in Bounds(At(h, r)) :
                    IF MockOf(to[1])' # None THEN to = MockOf(to[1])'
                    ELSE to[1] \in App /\ ~Mocked(At(h, to)) => to \in N
    <3>1. CASE r = cell
      BY <1>3, <1>11, <2>2, <3>1
    <3>2. CASE r # cell
      <4>1. r \in S /\ r \in Refs /\ At(h, r) = At(heap, r)
        BY <1>4, <2>2, <3>2
      <4>2. r[1] \in App
        BY <2>1, <4>1 DEF Sees
      <4>3. ASSUME NEW to \in Bounds(At(h, r))
            PROVE  IF MockOf(to[1])' # None THEN to = MockOf(to[1])'
                   ELSE to[1] \in App /\ ~Mocked(At(h, to)) => to \in N
        <5>1. to \in Refs /\ to[1] \in Modules /\ to \in Bounds(At(heap, r))
          BY <1>2, <4>1, <4>3, ObjectType, RefFacts
        <5>2. Used(heap, to)
          BY <4>1, <5>1 DEF RegistryInv, LinkInv, LinksOf
        <5>3. to # cell /\ At(h, to) = At(heap, to)
          BY <1>10, <5>1, <5>2
        <5>4. IF MockOf(to[1]) # None THEN to = MockOf(to[1])
              ELSE to[1] \in App /\ ~Mocked(At(heap, to)) => to \in S
          BY <2>1, <4>1, <5>1 DEF Sees
        <5>5. QED
          BY <1>15, <2>2, <5>1, <5>3, <5>4
      <4>4. QED
        BY <4>2, <4>3
    <3>3. QED
      BY <3>1, <3>2
  <2>6. QED
    BY <1>4, <1>12, <2>3, <2>4, <2>5, SeesNext
<1>23. QED
  BY <1>21, <1>22

-----------------------------------------------------------------------------
(* No body executes                                                        *)

(* While no body executes, the mock in force of a path is the one served. *)
LEMMA IdleFacts ==
  ASSUME stack = <<>>
  PROVE  \A x : ~IsLoading(x) /\ MockOf(x) = IF x \in mocks THEN exports[x] ELSE None
BY DEF IsLoading, MockOf, MockIn

(* The same after a step, and what is said of the stack holds of none. *)
LEMMA IdleNextFacts ==
  ASSUME stack' = <<>>
  PROVE  /\ \A x : ~IsLoading(x)' /\ MockOf(x)' = IF x \in mocks' THEN exports'[x] ELSE None
         /\ StackInv' /\ FreshInv'
<1>1. DOMAIN stack' = {}
  OBVIOUS
<1>2. QED
  BY <1>1 DEF IsLoading, MockOf, MockIn, StackInv, StackOf, FreshInv

(* Some records go, of no mock in force that setup made.                   *)
Drops ==
  /\ stack = <<>> /\ phase # "setup"
  /\ exports' \in [Modules -> References] /\ real' \in [Modules -> References]
  /\ \A x \in Modules : exports'[x] \in {exports[x], None} /\ real'[x] \in {real[x], None}
  /\ mocks' \subseteq mocks
  /\ \A x \in mocks' : exports'[x] = exports[x]
  /\ \A x \in mocks \ mocks' : exports'[x] = None /\ x \notin setupMocks /\ DOMAIN declared'[x] = {}
  /\ \A x \in Modules : declared'[x] = declared[x] \/ DOMAIN declared'[x] = {}
  /\ declared' \in [Modules -> NameValues]
  /\ touched \subseteq touched' /\ touched' \subseteq Modules
  /\ \A x \in Pkgs \ touched' : exports'[x] = exports[x] /\ real'[x] = real[x]
  /\ waits' \in [Modules -> 0 .. MaxFiles] /\ \A x \in Modules : waits'[x] \in {0, waits[x]}
  /\ heap' = Live(heap)
  /\ UNCHANGED <<edges, stack, fileVars, made, queue, loads>>

(* The invariant, when records go. *)
LEMMA DropsKeeps ==
  ASSUME RegistryInv, Drops
  PROVE  RegistryInv' /\ (SeesInv => SeesInv')
<1>1. stack' = <<>> /\ UNCHANGED <<edges, stack, phase, file, setupMocks, snapshot, made, queue, loads>>
  BY DEF Drops, fileVars
<1>2. HeapType(heap) /\ stack' \in Seq(Frames) /\ mocks \subseteq Modules /\ mocks' \subseteq mocks
  BY <1>1, RegistryAssumption DEF RegistryInv, Types, HeapType, Drops
<1>3. NextHeap(heap) /\ HeldInv' /\ LinkInv'
  <2>1. \A x \in Modules : OfPath(heap, x, exports'[x]) /\ OfPath(heap, x, real'[x])
    BY DEF Drops, RegistryInv, HeldInv, OfPath
  <2>2. \A i \in DOMAIN stack' :
          OfPath(heap, stack'[i].mod, stack'[i].obj) /\ OfPath(heap, stack'[i].mod, stack'[i].saved)
    BY <1>1
  <2>3. NextTypes
    BY <1>2 DEF Drops, NextTypes
  <2>4. LinksOf(heap, edges') /\ heap' = Live(heap)
    BY <1>1 DEF Drops, RegistryInv, LinkInv
  <2>5. QED
    BY <1>2, <2>1, <2>2, <2>3, <2>4, NextHeapHolds
<1>4. Types'
  <2>1. HeapType(heap')
    BY <1>3 DEF NextHeap
  <2>2. mocks' \subseteq Mockable
    BY <1>2 DEF RegistryInv, Types
  <2>3. QED
    BY <1>1, <1>2, <2>1, <2>2 DEF Drops, RegistryInv, Types, HeapType
<1>5. StackInv' /\ FreshInv'
  BY <1>1, IdleNextFacts
<1>6. \A x \in Modules : MockOf(x)' = IF x \in mocks \ mocks' THEN None ELSE MockOf(x)
  <2>1. \A x : MockOf(x) = IF x \in mocks THEN exports[x] ELSE None
    BY IdleFacts DEF Drops
  <2>2. \A x : MockOf(x)' = IF x \in mocks' THEN exports'[x] ELSE None
    BY <1>1, IdleNextFacts
  <2>3. \A x \in mocks' : exports'[x] = exports[x] /\ x \in mocks
    BY DEF Drops
  <2>4. QED
    BY <2>1, <2>2, <2>3
<1>7. ASSUME NEW x \in Modules, MockOf(x)' # None
      PROVE  MockOf(x)' = MockOf(x) /\ At(heap', MockOf(x)) = At(heap, MockOf(x))
  BY <1>3, <1>5, <1>6, <1>7, MockHeld
<1>8. MockInv'
  <2>1. \A x \in mocks' : exports'[x] # None
    BY <1>2 DEF Drops, RegistryInv, MockInv
  <2>2. \A x \in Modules : MockOf(x)' # None => Mocked(At(heap', MockOf(x)'))
    BY <1>7 DEF RegistryInv, MockInv
  <2>3. ASSUME NEW x \in Modules, DOMAIN declared'[x] # {}
        PROVE  /\ MockOf(x)' # None
               /\ \A y \in DOMAIN declared'[x] : At(heap', MockOf(x)').val[y] = declared'[x][y]
    <3>1. declared'[x] = declared[x] /\ x \notin mocks \ mocks'
      BY <2>3 DEF Drops
    <3>2. MockOf(x)' = MockOf(x) /\ MockOf(x) # None
      BY <1>6, <2>3, <3>1 DEF RegistryInv, MockInv
    <3>3. QED
      BY <1>7, <2>3, <3>1, <3>2 DEF RegistryInv, MockInv
  <2>4. QED
    BY <2>1, <2>2, <2>3 DEF MockInv
<1>9. RealInv'
  <2>1. \A x \in Modules : real'[x] # None => ~At(heap', real'[x]).mock
    BY <1>3 DEF Drops, RegistryInv, RealInv, NextHeap
  <2>2. ASSUME NEW x \in Modules \ mocks', exports'[x] # None
        PROVE  Genuine(At(heap', exports'[x]))
    <3>1. x \notin mocks /\ exports'[x] = exports[x]
      BY <2>2 DEF Drops
    <3>2. QED
      BY <1>3, <2>2, <3>1 DEF RegistryInv, RealInv, NextHeap
  <2>3. QED
    BY <1>1, <2>1, <2>2 DEF RealInv
<1>10. OwnerInv'
  <2>1. Owner' = Owner
    BY <1>1 DEF Owner
  <2>2. phase' # "setup"
    BY <1>1 DEF Drops
  <2>3. \A x \in Modules : waits'[x] \in {0, file'}
    BY <1>1 DEF Drops, RegistryInv, OwnerInv
  <2>4. ASSUME NEW x \in Modules
        PROVE  x \in setupMocks' => MockOf(x)' # None
    BY <1>1, <1>6 DEF Drops, RegistryInv, OwnerInv
  <2>5. ASSUME NEW x \in Modules \ setupMocks', MockOf(x)' # None
        PROVE  \A y \in DOMAIN At(heap', MockOf(x)').val :
                 At(heap', MockOf(x)').val[y] = Real \/ At(heap', MockOf(x)').val[y][1] = Owner'
    BY <1>1, <1>7, <2>1, <2>5 DEF RegistryInv, OwnerInv
  <2>6. \A x \in Modules :
          DOMAIN snapshot'[x] # {} => x \in setupMocks'
    BY <1>1 DEF RegistryInv, OwnerInv
  <2>7. QED
    BY <2>2, <2>3, <2>4, <2>5, <2>6 DEF OwnerInv
<1>11. OnceInv'
  <2>1. phase' # "setup" => \A x \in Modules \ setupMocks' : MockOf(x)' # None => x \in touched'
    BY <1>1, <1>7 DEF Drops, RegistryInv, OnceInv
  <2>2. ASSUME NEW x \in Pkgs \ touched', loads'[x] # 0
        PROVE  loads'[x] = 1 /\ real'[x] # None /\ exports'[x] # None /\ ~IsLoading(x)'
    <3>1. exports'[x] = exports[x] /\ real'[x] = real[x] /\ x \notin touched
      BY <2>2 DEF Drops
    <3>2. ~IsLoading(x)'
      BY <1>1, IdleNextFacts
    <3>3. QED
      BY <1>1, <2>2, <3>1, <3>2 DEF RegistryInv, OnceInv
  <2>3. QED
    BY <2>1, <2>2 DEF OnceInv
<1>12. RegistryInv'
  BY <1>3, <1>4, <1>5, <1>8, <1>9, <1>10, <1>11 DEF RegistryInv
<1>13. ASSUME SeesInv
       PROVE  SeesInv'
  <2>1. PICK S \in SUBSET Refs : Sees(S)
    BY <1>13 DEF SeesInv
  <2>2. \A x \in App \ mocks' : exports'[x] # None => exports'[x] \in S
    <3>1. ASSUME NEW x \in App \ mocks', exports'[x] # None
          PROVE  exports'[x] \in S
      <4>1. x \in Modules
        BY DEF Modules
      <4>2. x \notin mocks /\ exports'[x] = exports[x]
        BY <3>1, <4>1 DEF Drops
      <4>3. QED
        BY <2>1, <3>1, <4>2 DEF Sees
    <3>2. QED
      BY <3>1
  <2>3. \A i \in DOMAIN stack' : stack'[i].mod \in App => stack'[i].obj \in S
    BY <1>1
  <2>4. ASSUME NEW r \in S, NEW to \in Bounds(At(heap, r))
        PROVE  IF MockOf(to[1])' # None THEN to = MockOf(to[1])'
               ELSE to[1] \in App /\ ~Mocked(At(heap, to)) => to \in S
    <3>1. to[1] \in Modules
      BY <1>2, <2>4, ObjectType, RefFacts
    <3>2. IF MockOf(to[1]) # None THEN to = MockOf(to[1])
          ELSE to[1] \in App /\ ~Mocked(At(heap, to)) => to \in S
      BY <2>1 DEF Sees
    <3>3. MockOf(to[1]) # None => Mocked(At(heap, MockOf(to[1])))
      BY <3>1 DEF RegistryInv, MockInv
    <3>4. QED
      BY <1>7, <3>1, <3>2, <3>3
  <2>5. \A r \in S : r[1] \in App
    BY <2>1 DEF Sees
  <2>6. QED
    BY <1>2, <1>3, <2>2, <2>3, <2>4, <2>5, SeesNext
<1>14. QED
  BY <1>12, <1>13


(* What setup mocked is put back as it was, and the rest goes.             *)
LEMMA NextFileKeeps ==
  ASSUME RegistryInv, NextFile
  PROVE  RegistryInv' /\ (SeesInv => SeesInv')
<1>0. PICK kept : kept = Evict(exports, mocks \ setupMocks)
  OBVIOUS
<1>1. /\ stack = <<>> /\ stack' = <<>> /\ phase = "run" /\ phase' = "prepass"
      /\ file' = file + 1 /\ file < MaxFiles /\ made' = 0
      /\ exports' = kept /\ real' = Evict(real, mocks \ setupMocks)
      /\ heap' = Live(Restore(kept)) /\ mocks' = mocks \intersect setupMocks
      /\ queue' = <<>> /\ waits' = [m \in Modules |-> 0]
      /\ declared' = [m \in Modules |-> InForce(m, snapshot[m])]
      /\ UNCHANGED <<edges, setupMocks, snapshot, touched, loads>>
  BY <1>0 DEF NextFile, Idle, ClearedWaits
<1>2. /\ HeapType(heap) /\ mocks \subseteq Mockable /\ Mockable \subseteq Modules
      /\ exports \in [Modules -> References] /\ real \in [Modules -> References]
      /\ snapshot \in [Modules -> NameValues]
  BY RegistryAssumption DEF RegistryInv, Types, HeapType
<1>3. \A x \in Modules : /\ exports'[x] = IF x \in mocks \ setupMocks THEN None ELSE exports[x]
                         /\ real'[x] = IF x \in mocks \ setupMocks THEN None ELSE real[x]
                         /\ kept[x] = exports'[x]
  BY <1>0, <1>1 DEF Evict
<1>4. exports' \in [Modules -> References] /\ real' \in [Modules -> References]
  BY <1>0, <1>1, <1>2, RefFacts DEF Evict
<1>5. \A x \in Modules : MockOf(x) = IF x \in mocks THEN exports[x] ELSE None
  BY <1>1, IdleFacts
<1>6. \A x \in Modules : /\ x \in setupMocks => x \in mocks
                         /\ x \notin setupMocks => DOMAIN snapshot[x] = {}
  BY <1>5 DEF RegistryInv, OwnerInv
<1>7. \A x \in Modules : MockOf(x)' = IF x \in setupMocks THEN MockOf(x) ELSE None
  <2>1. \A x : MockOf(x)' = IF x \in mocks' THEN exports'[x] ELSE None
    BY <1>1, IdleNextFacts
  <2>2. \A x \in Modules : x \in mocks' <=> x \in setupMocks
    BY <1>1, <1>6
  <2>3. QED
    BY <1>3, <1>5, <1>6, <2>1, <2>2
<1> DEFINE h == Restore(kept)
           Put(r) == Assign(r[1], At(heap, r), snapshot[r[1]])
<1>8. /\ HeapType(h)
      /\ \A r \in Refs : At(h, r) = IF exports'[r[1]] = r THEN Put(r) ELSE At(heap, r)
  <2>1. \A x \in Modules, i \in 1 .. MaxHeap :
          /\ Assign(x, heap[x][i], snapshot[x]) \in Objects /\ heap[x][i] \in Objects
    <3>1. ASSUME NEW x \in Modules, NEW i \in 1 .. MaxHeap
          PROVE  Assign(x, heap[x][i], snapshot[x]) \in Objects /\ heap[x][i] \in Objects
      <4>1. heap[x][i] \in Objects /\ snapshot[x] \in NameValues
        BY <1>2 DEF HeapType
      <4>2. Assigned(Assign(x, heap[x][i], snapshot[x]), x, heap[x][i], snapshot[x])
        BY <4>1, AssignFacts
      <4>3. QED
        BY <4>1, <4>2 DEF Assigned
    <3>2. QED
      BY <3>1
  <2>2. HeapType(h)
    BY <2>1 DEF HeapType, Restore
  <2>3. \A r \in Refs : r[1] \in Modules /\ r[2] \in 1 .. MaxHeap /\ r = <<r[1], r[2]>>
    BY RefFacts
  <2>4. \A x \in Modules, i \in 1 .. MaxHeap :
          h[x][i] = IF kept[x] = <<x, i>> THEN Assign(x, heap[x][i], snapshot[x]) ELSE heap[x][i]
    BY DEF Restore
  <2>5. QED
    BY <1>3, <2>2, <2>3, <2>4 DEF At
<1>9. ASSUME NEW r \in Refs
      PROVE  /\ At(h, r) \in Objects
             /\ At(h, r).mock = At(heap, r).mock /\ At(h, r).over = At(heap, r).over
             /\ Bounds(At(h, r)) = Bounds(At(heap, r))
             /\ DOMAIN At(heap, r).val \subseteq DOMAIN At(h, r).val
             /\ r[1] \notin setupMocks => At(h, r) = At(heap, r)
             /\ exports'[r[1]] # r => At(h, r) = At(heap, r)
             /\ exports'[r[1]] = r => Assigned(At(h, r), r[1], At(heap, r), snapshot[r[1]])
  <2>1. At(heap, r) \in Objects /\ snapshot[r[1]] \in NameValues /\ r[1] \in Modules
    BY <1>2, ObjectType, RefFacts
  <2>2. Assigned(Put(r), r[1], At(heap, r), snapshot[r[1]])
    BY <2>1, AssignFacts
  <2> HIDE DEF Put, h
  <2>3. CASE exports'[r[1]] = r
    BY <1>6, <1>8, <2>1, <2>2, <2>3 DEF Assigned
  <2>4. CASE exports'[r[1]] # r
    BY <1>8, <2>1, <2>4
  <2>5. QED
    BY <2>3, <2>4
<1> HIDE DEF Put, h
<1>10. \A r \in Refs : Used(heap, r) => Used(h, r)
  BY <1>9 DEF Used
<1>11. LinksOf(h, edges')
  <2>1. ASSUME NEW r \in Refs, ~Used(h, r)
        PROVE  At(h, r) = Free
    <3>1. ~Used(heap, r) /\ r # None
      BY <1>10, <2>1, RefFacts
    <3>2. exports'[r[1]] # r
      <4>1. r[1] \in Modules
        BY RefFacts
      <4>2. exports[r[1]] # r
        BY <3>1, <4>1 DEF RegistryInv, HeldInv, OfPath
      <4>3. QED
        BY <1>3, <3>1, <4>1, <4>2
    <3>3. QED
      BY <1>9, <3>1, <3>2 DEF RegistryInv, LinkInv, LinksOf
  <2>2. ASSUME NEW r \in Refs, NEW to \in Bounds(At(h, r))
        PROVE  Used(h, to) /\ <<to[1], r[1]>> \in edges' /\ (r[1] \in Pkgs => ~At(h, to).mock)
    <3>1. to \in Bounds(At(heap, r)) /\ to \in Refs
      BY <1>2, <1>9, <2>2, ObjectType
    <3>2. Used(heap, to) /\ <<to[1], r[1]>> \in edges /\ (r[1] \in Pkgs => ~At(heap, to).mock)
      BY <3>1 DEF RegistryInv, LinkInv, LinksOf
    <3>3. QED
      BY <1>1, <1>9, <1>10, <3>1, <3>2
  <2>3. ASSUME NEW r \in Refs
        PROVE  Kept(r[1], At(h, r))
    <3>1. Kept(r[1], At(heap, r)) /\ r[1] \in Modules
      BY RefFacts DEF RegistryInv, LinkInv, LinksOf
    <3>2. SUFFICES ASSUME exports'[r[1]] = r, r[1] \in setupMocks, ~Accessors(r[1], At(heap, r))
                   PROVE  Kept(r[1], At(h, r))
      BY <1>9, <3>1 DEF Assigned
    <3>3. exports[r[1]] = MockOf(r[1]) /\ exports[r[1]] = r /\ MockOf(r[1]) # None
      BY <1>3, <1>5, <1>6, <3>1, <3>2 DEF RegistryInv, OwnerInv
    <3>4. Mocked(At(heap, r))
      BY <3>1, <3>3 DEF RegistryInv, MockInv
    <3>5. QED
      BY <1>9, <3>2, <3>4 DEF Mocked, Kept, Accessors
  <2>4. QED
    BY <2>1, <2>2, <2>3 DEF LinksOf
<1>12. NextHeap(h) /\ HeldInv' /\ LinkInv'
  <2>1. \A x \in Modules : OfPath(h, x, exports'[x]) /\ OfPath(h, x, real'[x])
    BY <1>3, <1>10, HeldTypes DEF RegistryInv, HeldInv, OfPath
  <2>2. \A i \in DOMAIN stack' :
          OfPath(h, stack'[i].mod, stack'[i].obj) /\ OfPath(h, stack'[i].mod, stack'[i].saved)
    BY <1>1
  <2>3. NextTypes
    <3>1. stack' \in Seq(Frames)
      BY <1>1
    <3>2. QED
      BY <1>4, <3>1 DEF NextTypes
  <2>4. heap' = Live(h)
    BY <1>1 DEF h
  <2>5. QED
    BY <1>8, <1>11, <2>1, <2>2, <2>3, <2>4, NextHeapHolds
<1>13. Types'
  <2>1. HeapType(heap')
    BY <1>12 DEF NextHeap
  <2>2. file' \in 1 .. MaxFiles /\ 0 \in 0 .. MaxFiles
    BY <1>1, RegistryAssumption DEF RegistryInv, Types
  <2>3. queue' \in Seq(Mockable) /\ stack' \in Seq(Frames)
    BY <1>1
  <2>4. declared' \in [Modules -> NameValues]
    <3>1. NoNames \in NameValues
      BY FreeFacts DEF Free, Objects
    <3>2. QED
      BY <1>1, <1>2, <3>1 DEF InForce
  <2>5. QED
    BY <1>1, <1>2, <1>4, <2>1, <2>2, <2>3, <2>4 DEF RegistryInv, Types, HeapType
<1>14. StackInv' /\ FreshInv'
  BY <1>1, IdleNextFacts
<1>15. ASSUME NEW x \in Modules, MockOf(x)' # None
       PROVE  /\ x \in setupMocks /\ MockOf(x)' = MockOf(x) /\ MockOf(x) # None
              /\ Assigned(At(heap', MockOf(x)), x, At(heap, MockOf(x)), snapshot[x])
  <2>1. x \in setupMocks /\ MockOf(x)' = MockOf(x) /\ MockOf(x) # None /\ x \in mocks
    BY <1>6, <1>7, <1>15
  <2>2. exports'[x] = MockOf(x)
    BY <1>3, <1>5, <2>1
  <2>3. exports'[x] \in Refs /\ exports'[x][1] = x /\ At(heap', exports'[x]) = At(h, exports'[x])
    BY <1>12, <2>1, <2>2, HeldTypes DEF NextHeap
  <2>4. QED
    BY <1>9, <2>1, <2>2, <2>3
<1>16. MockInv'
  <2>1. \A x \in mocks' : exports'[x] # None
    BY <1>1, <1>2, <1>3 DEF RegistryInv, MockInv
  <2>2. ASSUME NEW x \in Modules, MockOf(x)' # None
        PROVE  Mocked(At(heap', MockOf(x)'))
    <3>1. Mocked(At(heap, MockOf(x)))
      BY <1>15, <2>2 DEF RegistryInv, MockInv
    <3>2. QED
      BY <1>15, <2>2, <3>1 DEF Assigned, Mocked
  <2>3. ASSUME NEW x \in Modules, DOMAIN declared'[x] # {}
        PROVE  /\ MockOf(x)' # None
               /\ \A y \in DOMAIN declared'[x] : At(heap', MockOf(x)').val[y] = declared'[x][y]
    <3>1. /\ declared'[x] = snapshot[x] /\ x \in setupMocks
          /\ exports[x] # None => ~Accessors(x, At(heap, exports[x]))
      BY <1>1, <1>6, <2>3 DEF InForce, NoNames, Object, At
    <3>2. MockOf(x)' # None
      BY <1>7, <3>1 DEF RegistryInv, OwnerInv
    <3>3. \A y \in DOMAIN snapshot[x] : At(heap', MockOf(x)).val[y] = snapshot[x][y]
      BY <1>5, <1>6, <1>15, <3>1, <3>2 DEF Assigned
    <3>4. QED
      BY <1>15, <3>1, <3>2, <3>3
  <2>4. QED
    BY <2>1, <2>2, <2>3 DEF MockInv
<1>17. RealInv'
  <2>1. \A x \in Modules : real'[x] # None => ~At(heap', real'[x]).mock
    BY <1>3, <1>9, <1>12 DEF RegistryInv, RealInv, NextHeap
  <2>2. ASSUME NEW x \in Modules \ mocks', exports'[x] # None
        PROVE  Genuine(At(heap', exports'[x]))
    <3>1. x \notin mocks /\ x \notin setupMocks /\ exports'[x] = exports[x]
      BY <1>1, <1>3, <1>6, <2>2
    <3>2. exports'[x] \in Refs /\ exports'[x][1] = x /\ At(heap', exports'[x]) = At(h, exports'[x])
      BY <1>12, <2>2, <3>1 DEF RegistryInv, HeldInv, OfPath, NextHeap
    <3>3. At(h, exports'[x]) = At(heap, exports[x])
      BY <1>9, <3>1, <3>2
    <3>4. QED
      BY <2>2, <3>1, <3>2, <3>3 DEF RegistryInv, RealInv
  <2>3. \A i \in DOMAIN stack' : FALSE
    BY <1>1
  <2>4. QED
    BY <2>1, <2>2, <2>3 DEF RealInv
<1>18. OwnerInv'
  <2>1. \A x \in Modules : waits'[x] \in {0, file'}
    BY <1>1
  <2>2. \A x \in Modules : x \in setupMocks' => MockOf(x)' # None
    BY <1>1, <1>7 DEF RegistryInv, OwnerInv
  <2>3. \A x \in Modules : x \notin setupMocks' => MockOf(x)' = None
    BY <1>1, <1>7
  <2>4. \A x \in Modules :
          DOMAIN snapshot'[x] # {} => x \in setupMocks'
    BY <1>1 DEF RegistryInv, OwnerInv
  <2>5. phase' # "setup"
    BY <1>1
  <2>6. QED
    BY <2>1, <2>2, <2>3, <2>4, <2>5 DEF OwnerInv
<1>19. OnceInv'
  <2>1. \A x \in Modules \ setupMocks' : MockOf(x)' = None
    BY <1>1, <1>7
  <2>2. ASSUME NEW x \in Pkgs \ touched', loads'[x] # 0
        PROVE  loads'[x] = 1 /\ real'[x] # None /\ exports'[x] # None /\ ~IsLoading(x)'
    <3>1. loads[x] = 1 /\ real[x] # None /\ exports[x] # None /\ x \in Modules
      BY <1>1, <2>2 DEF RegistryInv, OnceInv, Modules
    <3>2. x \notin mocks \ setupMocks
      BY <1>1, <1>5, <2>2, <3>1 DEF RegistryInv, OnceInv
    <3>3. ~IsLoading(x)'
      BY <1>1, IdleNextFacts
    <3>4. QED
      BY <1>1, <1>3, <3>1, <3>2, <3>3
  <2>3. QED
    BY <2>1, <2>2 DEF OnceInv
<1>20. RegistryInv'
  BY <1>12, <1>13, <1>14, <1>16, <1>17, <1>18, <1>19 DEF RegistryInv
<1>21. ASSUME SeesInv
       PROVE  SeesInv'
  <2>1. PICK S \in SUBSET Refs : Sees(S)
    BY <1>21 DEF SeesInv
  <2>2. ASSUME NEW x \in App \ mocks', exports'[x] # None
        PROVE  exports'[x] \in S
    <3>1. x \in Modules
      BY DEF Modules
    <3>2. x \notin mocks /\ exports'[x] = exports[x]
      BY <1>1, <1>3, <2>2, <3>1
    <3>3. QED
      BY <2>1, <2>2, <3>2 DEF Sees
  <2>3. \A i \in DOMAIN stack' : stack'[i].mod \in App => stack'[i].obj \in S
    BY <1>1
  <2>4. ASSUME NEW r \in S, NEW to \in Bounds(At(h, r))
        PROVE  IF MockOf(to[1])' # None THEN to = MockOf(to[1])'
               ELSE to[1] \in App /\ ~Mocked(At(h, to)) => to \in S
    <3>1. to \in Bounds(At(heap, r)) /\ to \in Refs /\ to[1] \in Modules
      BY <1>2, <1>9, <2>4, ObjectType, RefFacts
    <3>2. IF MockOf(to[1]) # None THEN to = MockOf(to[1])
          ELSE to[1] \in App /\ ~Mocked(At(heap, to)) => to \in S
      BY <2>1, <3>1 DEF Sees
    <3>3. CASE MockOf(to[1])' # None
      BY <1>15, <3>1, <3>2, <3>3
    <3>4. CASE MockOf(to[1])' = None
      <4>1. to[1] \notin setupMocks
        BY <1>7, <3>1, <3>4 DEF RegistryInv, OwnerInv
      <4>2. At(h, to) = At(heap, to)
        BY <1>9, <3>1, <4>1
      <4>3. MockOf(to[1]) # None => Mocked(At(heap, MockOf(to[1])))
        BY <3>1 DEF RegistryInv, MockInv
      <4>4. QED
        BY <3>2, <3>4, <4>2, <4>3
    <3>5. QED
      BY <3>3, <3>4
  <2>5. \A r \in S : r[1] \in App
    BY <2>1 DEF Sees
  <2>6. QED
    BY <1>8, <1>12, <2>2, <2>3, <2>4, <2>5, SeesNext
<1>22. QED
  BY <1>20, <1>21


(* What setup mocked is remembered. *)
LEMMA EndSetupKeeps ==
  ASSUME RegistryInv, EndSetup
  PROVE  RegistryInv' /\ (SeesInv => SeesInv')
<1>1. /\ stack = <<>> /\ stack' = <<>> /\ phase = "setup" /\ phase' = "prepass" /\ made' = 0
      /\ setupMocks' = mocks
      /\ snapshot' = [x \in Modules |->
                        IF x \in mocks /\ exports[x] # None THEN At(heap, exports[x]).val ELSE NoNames]
      /\ UNCHANGED <<heap, exports, real, mocks, edges, file, declared, touched, loads, queue, waits>>
  BY DEF EndSetup, Idle, registry, history, Object, At
<1>2. HeapType(heap) /\ mocks \subseteq Mockable /\ mocks \subseteq Modules
  BY RegistryAssumption DEF RegistryInv, Types, HeapType
<1>3. \A x \in Modules : /\ MockOf(x) = IF x \in mocks THEN exports[x] ELSE None
                         /\ MockOf(x)' = MockOf(x)
  BY <1>1, IdleFacts, IdleNextFacts
<1>4. Types'
  <2>1. NoNames \in NameValues
    BY FreeFacts DEF Free, Objects
  <2>2. \A x \in Modules : x \in mocks /\ exports[x] # None => At(heap, exports[x]).val \in NameValues
    BY <1>2, HeldTypes, ObjectType
  <2>3. snapshot' \in [Modules -> NameValues]
    BY <1>1, <2>1, <2>2
  <2>4. QED
    BY <1>1, <1>2, <2>3 DEF RegistryInv, Types
<1>5. StackInv' /\ FreshInv'
  BY <1>1, IdleNextFacts
<1>6. HeldInv' /\ LinkInv' /\ RealInv'
  BY <1>1 DEF RegistryInv, HeldInv, LinkInv, RealInv
<1>7. MockInv'
  BY <1>1, <1>3 DEF RegistryInv, MockInv
<1>8. OwnerInv'
  <2>1. ASSUME NEW x \in Modules
        PROVE  /\ x \in mocks => MockOf(x)' # None /\ exports[x] # None
               /\ x \notin mocks => MockOf(x)' = None
    BY <1>3 DEF RegistryInv, MockInv
  <2>2. ASSUME NEW x \in Modules, DOMAIN snapshot'[x] # {}
        PROVE  x \in setupMocks'
    <3>1. SUFFICES ASSUME x \notin mocks
                   PROVE  FALSE
      BY <1>1
    <3>2. snapshot'[x] = NoNames
      BY <1>1, <3>1
    <3>3. QED
      BY <2>2, <3>2 DEF NoNames
  <2>3. \A x \in Modules : waits'[x] \in {0, file'}
    BY <1>1 DEF RegistryInv, OwnerInv
  <2>4. phase' # "setup"
    BY <1>1
  <2>5. QED
    BY <1>1, <2>1, <2>2, <2>3, <2>4 DEF OwnerInv
<1>9. OnceInv'
  <2>1. \A x \in Modules \ setupMocks' : MockOf(x)' = None
    BY <1>1, <1>3
  <2>2. \A x : ~IsLoading(x)'
    BY <1>1, IdleNextFacts
  <2>3. QED
    BY <1>1, <2>1, <2>2 DEF RegistryInv, OnceInv
<1>10. RegistryInv'
  BY <1>4, <1>5, <1>6, <1>7, <1>8, <1>9 DEF RegistryInv
<1>11. ASSUME SeesInv
       PROVE  SeesInv'
  <2>1. PICK S \in SUBSET Refs : Sees(S)
    BY <1>11 DEF SeesInv
  <2>2. \A r \in S : \A to \in Bounds(At(heap, r)) : to[1] \in Modules
    BY <1>2, ObjectType, RefFacts
  <2>3. Sees(S)'
    BY <1>1, <1>3, <2>1, <2>2 DEF Sees
  <2>4. QED
    BY <2>3 DEF SeesInv
<1>12. QED
  BY <1>10, <1>11

(* A step that moves the file or its queues on. *)
Quiet ==
  /\ \/ stack' = stack
     \/ stack # <<>> /\ stack' = [stack EXCEPT ![Len(stack)].next = 1]
  /\ phase' \in {"setup", "prepass", "drain", "run"} /\ (phase' = "setup" <=> phase = "setup")
  /\ queue' \in Seq(Mockable) /\ made' \in Nat
  /\ waits' \in [Modules -> 0 .. MaxFiles]
  /\ \A x \in Modules : waits'[x] \in {0, file}
  /\ phase = "setup" => waits' = waits
  /\ UNCHANGED <<heap, registry, edges, file, setupMocks, snapshot, history>>

(* The invariant, when the file or its queues move on. *)
LEMMA QuietKeeps ==
  ASSUME RegistryInv, Quiet
  PROVE  RegistryInv' /\ (SeesInv => SeesInv')
<1>1. UNCHANGED <<heap, exports, real, mocks, edges, file, setupMocks, snapshot, declared, touched, loads>>
  BY DEF Quiet, registry, history
<1>2. stack \in Seq(Frames) /\ HeapType(heap)
  BY DEF RegistryInv, Types, HeapType
<1>3. /\ stack' \in Seq(Frames) /\ Len(stack') = Len(stack) /\ DOMAIN stack' = DOMAIN stack
      /\ \A i \in DOMAIN stack : /\ SameFrame(stack'[i], stack[i])
                                 /\ stack'[i].next = 0 => stack[i].next = 0
  <2>1. CASE stack' = stack
    BY <1>2, <2>1 DEF SameFrame
  <2>2. CASE stack # <<>> /\ stack' = [stack EXCEPT ![Len(stack)].next = 1]
    <3>1. /\ stack' \in Seq(Frames) /\ Len(stack') = Len(stack)
          /\ \A i \in DOMAIN stack : SameFrame(stack'[i], stack[i])
          /\ \A i \in DOMAIN stack : i # Len(stack) => stack'[i] = stack[i]
          /\ stack'[Len(stack)].next = 1
      BY <1>2, <2>2, NextFrame
    <3>2. DOMAIN stack' = DOMAIN stack
      BY <1>2, <3>1, FrameFacts
    <3>3. QED
      BY <3>1, <3>2
  <2>3. QED
    BY <2>1, <2>2 DEF Quiet
<1>4. \A x : IsLoading(x)' <=> IsLoading(x)
  BY <1>3 DEF IsLoading, SameFrame
<1>5. StackInv'
  <2>1. \A i \in DOMAIN stack' : /\ stack'[i].mod = stack[i].mod /\ stack'[i].saved = stack[i].saved
                                 /\ stack'[i].mod \notin mocks'
    <3>1. \A i \in DOMAIN stack : stack[i].mod \notin mocks
      BY DEF RegistryInv, StackInv, StackOf
    <3>2. mocks' = mocks
      BY <1>1
    <3>3. QED
      BY <1>3, <3>1, <3>2 DEF SameFrame
  <2>2. edges \subseteq edges' /\ Len(stack') <= Len(stack)
    BY <1>1, <1>2, <1>3, FrameFacts
  <2>3. StackOf(mocks, edges, stack)
    BY DEF RegistryInv, StackInv
  <2>4. StackOf(mocks', edges', stack')
    BY <1>2, <1>3, <2>1, <2>2, <2>3, StackPart
  <2>5. QED
    BY <2>4 DEF StackInv
<1>6. \A x \in Modules : MockOf(x)' = MockOf(x)
  <2>1. mocks' = mocks /\ exports' = exports
    BY <1>1
  <2>2. ASSUME NEW x \in Modules
        PROVE  MockOf(x)' = MockOf(x)
    <3>1. CASE IsLoading(x)
      <4>1. PICK i \in DOMAIN stack : stack[i].mod = x
        BY <3>1 DEF IsLoading
      <4>2. i \in DOMAIN stack' /\ stack'[i].mod = x /\ stack'[i].saved = stack[i].saved
        BY <1>3, <4>1 DEF SameFrame
      <4>3. MockOf(x)' = stack'[i].saved
        BY <1>5, <4>2, MockOfNextFacts
      <4>4. MockOf(x) = stack[i].saved
        BY <4>1, MockOfFacts DEF RegistryInv
      <4>5. QED
        BY <4>2, <4>3, <4>4
    <3>2. CASE x \in mocks
      BY <1>5, <2>1, <3>2, MockOfFacts, MockOfNextFacts DEF RegistryInv
    <3>3. CASE x \notin mocks /\ ~IsLoading(x)
      BY <1>4, <1>5, <2>1, <3>3, MockOfFacts, MockOfNextFacts DEF RegistryInv
    <3>4. QED
      BY <3>1, <3>2, <3>3
  <2>3. QED
    BY <2>2
<1>7. Types'
  BY <1>1, <1>3 DEF RegistryInv, Types, Quiet
<1>8. HeldInv' /\ LinkInv' /\ RealInv' /\ FreshInv'
  <2>1. LinkInv'
    BY <1>1 DEF RegistryInv, LinkInv
  <2>2. HeldInv'
    BY <1>1, <1>3 DEF RegistryInv, HeldInv, SameFrame
  <2>3. RealInv'
    BY <1>1, <1>3 DEF RegistryInv, RealInv, SameFrame
  <2>4. FreshInv'
    BY <1>1, <1>3 DEF RegistryInv, FreshInv, SameFrame
  <2>5. QED
    BY <2>1, <2>2, <2>3, <2>4
<1>9. MockInv'
  BY <1>1, <1>6 DEF RegistryInv, MockInv
<1>10. OwnerInv'
  <2>1. Owner' = Owner
    BY <1>1 DEF Quiet, Owner
  <2>2. phase' = "setup" => setupMocks' = {} /\ waits' = [x \in Modules |-> 0]
    BY <1>1 DEF Quiet, RegistryInv, OwnerInv
  <2>3. \A x \in Modules : waits'[x] \in {0, file'}
    BY <1>1 DEF Quiet
  <2>4. QED
    BY <1>1, <1>6, <2>1, <2>2, <2>3 DEF RegistryInv, OwnerInv
<1>11. OnceInv'
  <2>1. phase' # "setup" => phase # "setup"
    BY DEF Quiet
  <2>2. QED
    BY <1>1, <1>4, <1>6, <2>1 DEF RegistryInv, OnceInv
<1>12. RegistryInv'
  BY <1>5, <1>7, <1>8, <1>9, <1>10, <1>11 DEF RegistryInv
<1>13. ASSUME SeesInv
       PROVE  SeesInv'
  <2>1. PICK S \in SUBSET Refs : Sees(S)
    BY <1>13 DEF SeesInv
  <2>2. \A r \in S : \A to \in Bounds(At(heap, r)) : to[1] \in Modules
    BY <1>2, ObjectType, RefFacts
  <2>3. Sees(S)'
    BY <1>1, <1>3, <1>6, <2>1, <2>2 DEF Sees, SameFrame
  <2>4. QED
    BY <2>3 DEF SeesInv
<1>14. QED
  BY <1>12, <1>13

(* The invariant, of a new isolate. *)
LEMMA InitHolds ==
  ASSUME Init
  PROVE  RegistryInv /\ SeesInv
<1>1. \A r \in Refs : At(heap, r) = Free
  BY RefFacts DEF Init, At
<1>2. /\ stack = <<>> /\ mocks = {} /\ setupMocks = {} /\ phase = "setup" /\ edges = {}
      /\ waits = [m \in Modules |-> 0] /\ loads = [m \in Pkgs |-> 0]
      /\ \A x \in Modules : /\ exports[x] = None /\ real[x] = None
                            /\ declared[x] = NoNames /\ snapshot[x] = NoNames
  BY DEF Init, Nowhere
<1>3. DOMAIN NoNames = {} /\ NoNames \in NameValues
  BY FreeFacts DEF Free, Objects
<1>4. Types
  <2>1. heap \in [Modules -> [1 .. MaxHeap -> Objects]]
    BY FreeFacts DEF Init
  <2>2. exports \in [Modules -> References] /\ real \in [Modules -> References]
    BY RefFacts DEF Init, Nowhere
  <2>3. stack \in Seq(Frames) /\ queue \in Seq(Mockable)
    BY DEF Init
  <2>4. waits \in [Modules -> 0 .. MaxFiles] /\ loads \in [Pkgs -> 0 .. 2]
    BY <1>2, RegistryAssumption
  <2>5. snapshot \in [Modules -> NameValues] /\ declared \in [Modules -> NameValues]
    BY <1>3 DEF Init
  <2>6. file \in 1 .. MaxFiles /\ made \in Nat
    BY RegistryAssumption DEF Init
  <2>7. QED
    BY <1>2, <2>1, <2>2, <2>3, <2>4, <2>5, <2>6 DEF Types, Init
<1>5. \A x : ~IsLoading(x) /\ MockOf(x) = None
  BY <1>2, IdleFacts
<1>6. \A i \in DOMAIN stack : FALSE
  BY <1>2
<1>7. HeldInv /\ StackInv /\ RealInv /\ FreshInv
  BY <1>2, <1>6 DEF HeldInv, OfPath, StackInv, StackOf, RealInv, FreshInv
<1>8. LinkInv
  BY <1>1, FreeFacts DEF LinkInv, LinksOf
<1>9. MockInv /\ OwnerInv
  BY <1>2, <1>3, <1>5 DEF MockInv, OwnerInv
<1>10. OnceInv
  BY <1>2 DEF OnceInv
<1>11. RegistryInv
  BY <1>4, <1>7, <1>8, <1>9, <1>10 DEF RegistryInv
<1>12. Sees({})
  BY <1>2, <1>6 DEF Sees, Modules
<1>13. QED
  BY <1>11, <1>12 DEF SeesInv

-----------------------------------------------------------------------------
(* Every action                                                            *)

(* A doMock that has not settled is of a module that is mocked somewhere. *)
WaitsInv == \A m \in Modules \ Mockable : waits[m] = 0

(* A require is served, or loads the module. *)
LEMMA RequiresKeeps ==
  ASSUME RegistryInv, Requires
  PROVE  RegistryInv' /\ (NoCycleThroughMocks /\ SeesInv => SeesInv')
<1>0. PICK m : m = Imports[Top.mod][Top.next]
  OBVIOUS
<1>1. /\ stack # <<>> /\ Top.next \in DOMAIN Imports[Top.mod]
      /\ edges' = edges \union {<<m, Top.mod>>}
      /\ UNCHANGED <<fileVars, history, made, queue, waits>>
  BY <1>0 DEF Requires
<1>2. Top \in Frames /\ Top.mod \in Modules /\ edges \subseteq Modules \X Modules
  BY <1>1, FrameFacts DEF RegistryInv, Types, Top
<1>3. m \in Modules /\ m \in Range(Imports[Top.mod])
  BY <1>0, <1>1, <1>2, RegistryAssumption DEF Range
<1>4. /\ m \in mocks => exports[m] # None
      /\ m \notin mocks /\ ~IsLoading(m) => Served(m, Top.mod \in Pkgs) = exports[m]
      /\ m \in mocks /\ Top.mod \in Pkgs /\ ~IsLoading(m) => Served(m, Top.mod \in Pkgs) = real[m]
  BY <1>3 DEF RegistryInv, MockInv, Served
<1>5. Served(m, Top.mod \in Pkgs) = None => ~IsLoading(m)
  <2>1. stack \in Seq(Frames)
    BY DEF RegistryInv, Types
  <2>2. ASSUME IsLoading(m)
        PROVE  Served(m, Top.mod \in Pkgs) # None
    <3>1. PICK i \in DOMAIN stack : stack[i].mod = m
      BY <2>2 DEF IsLoading
    <3>2. \A f \in {stack[j] : j \in DOMAIN stack} : f.mod = m => f = stack[i]
      BY <3>1 DEF RegistryInv, StackInv, StackOf
    <3>3. LoadingObject(m) = stack[i].obj
      BY <3>1, <3>2 DEF LoadingObject
    <3>4. stack[i].obj \in Refs
      BY <2>1, <3>1, FrameFacts
    <3>5. QED
      BY <2>2, <3>3, <3>4, RefFacts DEF Served
  <2>3. QED
    BY <2>2
<1>6. CASE /\ Served(m, Top.mod \in Pkgs) # None
           /\ heap' = Bind(Top.obj, Top.next, Served(m, Top.mod \in Pkgs))
           /\ stack' = [stack EXCEPT ![Len(stack)].next = @ + 1]
           /\ UNCHANGED registry
  <2>1. Serves(m)
    BY <1>0, <1>1, <1>6 DEF Serves
  <2>2. QED
    BY <2>1, ServesKeeps
<1>7. CASE Served(m, Top.mod \in Pkgs) = None /\ Top.mod \in Pkgs /\ m \in mocks /\ LoadActual(m)
  <2>1. ~IsLoading(m) /\ real[m] = None
    BY <1>4, <1>5, <1>7
  <2>2. Loads(m)
    BY <1>1, <1>2, <1>3, <1>7, <2>1 DEF Loads
  <2>3. QED
    BY <2>2, LoadsKeeps
<1>8. CASE /\ Served(m, Top.mod \in Pkgs) = None /\ ~(Top.mod \in Pkgs /\ m \in mocks)
           /\ Start(m, None) /\ UNCHANGED registry
  <2>1. ~IsLoading(m)
    BY <1>5, <1>8
  <2>2. Served(m, Top.mod \in Pkgs) = exports[m]
    BY <1>8, <2>1 DEF Served
  <2>3. exports[m] = None /\ m \notin mocks
    BY <1>4, <1>8, <2>2
  <2>4. LoadActual(m)
    BY <1>8, <2>3 DEF LoadActual, registry
  <2>5. Loads(m)
    BY <1>1, <1>2, <1>3, <2>1, <2>3, <2>4 DEF Loads
  <2>6. QED
    BY <2>5, LoadsKeeps
<1>9. \/ /\ Served(m, Top.mod \in Pkgs) # None
         /\ heap' = Bind(Top.obj, Top.next, Served(m, Top.mod \in Pkgs))
         /\ stack' = [stack EXCEPT ![Len(stack)].next = @ + 1]
         /\ UNCHANGED registry
      \/ Served(m, Top.mod \in Pkgs) = None /\ Top.mod \in Pkgs /\ m \in mocks /\ LoadActual(m)
      \/ /\ Served(m, Top.mod \in Pkgs) = None /\ ~(Top.mod \in Pkgs /\ m \in mocks)
         /\ Start(m, None) /\ UNCHANGED registry
  BY <1>0 DEF Requires
<1>10. QED
  BY <1>6, <1>7, <1>8, <1>9

(* A body begins, and its hoisted mock is registered. *)
LEMMA RunsHoistedKeeps ==
  ASSUME RegistryInv, MocksApart, RunsHoisted
  PROVE  RegistryInv' /\ (OnlyEntriesDeclare /\ SeesInv => SeesInv')
<1>1. /\ stack # <<>> /\ Top.next = 0
      /\ stack' = [stack EXCEPT ![Len(stack)].next = 1]
      /\ UNCHANGED <<edges, fileVars, queue, waits, loads>>
  BY DEF RunsHoisted
<1>2. /\ stack \in Seq(Frames) /\ Top \in Frames /\ Top.mod \in Modules /\ Top.next = 0
      /\ Len(stack) \in DOMAIN stack
      /\ queue \in Seq(Mockable) /\ made \in Nat /\ waits \in [Modules -> 0 .. MaxFiles]
      /\ phase \in {"setup", "prepass", "drain", "run"}
      /\ \A x \in Modules : waits[x] \in {0, file}
  BY <1>1, FrameFacts DEF RegistryInv, Types, OwnerInv, Top
<1>3. stack' # stack
  <2>1. stack'[Len(stack)].next = 1 /\ stack[Len(stack)].next = 0
    BY <1>1, <1>2, NextFrame DEF Top
  <2>2. QED
    BY <2>1
<1>4. CASE UNCHANGED <<heap, registry, made, declared, touched>>
  <2>1. Quiet
    BY <1>1, <1>2, <1>4 DEF Quiet, fileVars, history
  <2>2. QED
    BY <2>1, QuietKeeps
<1>5. ASSUME NEW m \in Declares[Top.mod], NEW v \in Returns(Owner, MaxMocks + 1),
             RegisterMock(m, v), declared' = [declared EXCEPT ![m] = InForce(m, v)],
             touched' = IF phase = "setup" THEN touched ELSE touched \union {m}, UNCHANGED made
      PROVE  RegistryInv' /\ (OnlyEntriesDeclare /\ SeesInv => SeesInv')
  <2>1. ~IsLoading(m)
    BY <1>1, <1>5, DeclaredApart DEF MocksApart
  <2>2. m \in Mockable /\ Declares[Top.mod] # {} /\ MaxMocks + 1 \in Nat \ {0}
    BY <1>2, RegistryAssumption
  <2>3. queue' \in Seq(Mockable) /\ made' \in Nat /\ waits' = waits
    BY <1>1, <1>2, <1>5
  <2>4. Registers(m, MaxMocks + 1)
    BY <1>1, <1>5, <2>1, <2>2, <2>3 DEF Registers
  <2>5. /\ RegistryInv'
        /\ OnlyEntriesDeclare /\ (stack # <<>> => stack' # stack) /\ SeesInv => SeesInv'
    BY <2>4, RegistersKeeps
  <2>6. QED
    BY <1>3, <2>5
<1>6. QED
  BY <1>4, <1>5 DEF RunsHoisted

(* The steps of a load. *)
LEMMA LoadStepKeeps ==
  ASSUME RegistryInv, MocksApart, LoadStep
  PROVE  RegistryInv' /\ (OnlyEntriesDeclare /\ NoCycleThroughMocks /\ SeesInv => SeesInv')
BY RequiresKeeps, RunsHoistedKeeps, FinishesKeeps, ThrowsKeeps, RunsAgainKeeps DEF LoadStep

(* The mocks of setup, of a test and of the prepass, and those that settle. *)
LEMMA MocksKeep ==
  ASSUME RegistryInv, MocksApart, stack = <<>>, NEW m \in Mockable, NEW who, who = Owner, Runs,
         NEW v \in Returns(who, made + 1),
         RegisterMock(m, v), declared' = [declared EXCEPT ![m] = InForce(m, v)],
         touched' = IF phase = "setup" THEN touched ELSE touched \union {m},
         waits' = waits \/ waits' = [waits EXCEPT ![m] = 0],
         queue' \in Seq(Mockable), UNCHANGED <<stack, edges, fileVars, loads>>
  PROVE  RegistryInv' /\ (OnlyEntriesDeclare /\ SeesInv => SeesInv')
<1>1. ~IsLoading(m)
  BY DEF IsLoading
<1>2. made + 1 \in Nat \ {0} /\ made' \in Nat
  BY DEF Runs, RegistryInv, Types
<1>3. \E w \in Returns(Owner, made + 1) :
        RegisterMock(m, w) /\ declared' = [declared EXCEPT ![m] = InForce(m, w)]
  OBVIOUS
<1>4. Registers(m, made + 1)
  BY <1>1, <1>2, <1>3 DEF Registers
<1>5. QED
  BY <1>4, RegistersKeeps

(* The steps of setup, the prepass and the tests. *)
LEMMA TestStepKeeps ==
  ASSUME RegistryInv, WaitsInv, MocksApart, TestStep
  PROVE  RegistryInv' /\ (OnlyEntriesDeclare /\ SeesInv => SeesInv')
<1>1. /\ queue \in Seq(Mockable) /\ made \in Nat /\ waits \in [Modules -> 0 .. MaxFiles]
      /\ phase \in {"setup", "prepass", "drain", "run"} /\ edges \subseteq Modules \X Modules
      /\ exports \in [Modules -> References] /\ real \in [Modules -> References]
      /\ declared \in [Modules -> NameValues] /\ touched \subseteq Modules
      /\ file \in 1 .. MaxFiles /\ mocks \subseteq Mockable /\ setupMocks \subseteq Mockable
      /\ Mockable \subseteq Modules /\ Async \subseteq Mockable
      /\ \A x \in Modules : waits[x] \in {0, file}
      /\ phase = "setup" => waits = [x \in Modules |-> 0]
      /\ \A x \in mocks : exports[x] # None
  BY RegistryAssumption DEF RegistryInv, Types, OwnerInv, MockInv
<1>2. ASSUME NEW m \in Modules, Imported(m)
      PROVE  RegistryInv' /\ (SeesInv => SeesInv')
  <2>1. LoadActual(m)
    BY <1>1, <1>2 DEF Imported, LoadActual, registry
  <2>2. Loads(m)
    BY <1>1, <1>2, <2>1, IdleFacts DEF Imported, Loads, Idle
  <2>3. QED
    BY <2>2, LoadsKeeps
<1>3. ASSUME NEW m \in Modules, ImportActual(m)
      PROVE  RegistryInv' /\ (SeesInv => SeesInv')
  <2>1. Loads(m)
    BY <1>1, <1>3, IdleFacts DEF ImportActual, Loads, Idle
  <2>2. QED
    BY <2>1, LoadsKeeps
<1>4. ASSUME NEW m \in Modules, Mock(m)
      PROVE  RegistryInv' /\ (OnlyEntriesDeclare /\ SeesInv => SeesInv')
  BY <1>1, <1>4, MocksKeep DEF Mock, Idle
<1>5. ASSUME NEW m \in Modules, QueueMock(m) \/ DoMockAsync(m)
      PROVE  RegistryInv' /\ (SeesInv => SeesInv')
  <2>1. CASE QueueMock(m)
    <3>1. queue' \in Seq(Mockable) /\ stack' = stack
      BY <1>1, <2>1 DEF QueueMock
    <3>2. Quiet
      BY <1>1, <2>1, <3>1 DEF QueueMock, Quiet, fileVars
    <3>3. QED
      BY <3>2, QuietKeeps
  <2>2. CASE DoMockAsync(m)
    <3>1. Quiet
      BY <1>1, <2>2 DEF DoMockAsync, Quiet, fileVars
    <3>2. QED
      BY <3>1, QuietKeeps
  <2>3. QED
    BY <1>5, <2>1, <2>2
<1>6. ASSUME NEW m \in Modules, Settles(m)
      PROVE  RegistryInv' /\ (OnlyEntriesDeclare /\ SeesInv => SeesInv')
  <2>1. waits[m] = file /\ phase # "setup"
    BY <1>1, <1>6 DEF Settles
  <2>2. waits[m] = Owner
    BY <2>1 DEF Owner
  <2>3. m \in Mockable
    BY <1>6 DEF Settles, WaitsInv
  <2>4. QED
    BY <1>1, <1>6, <2>1, <2>2, <2>3, MocksKeep DEF Settles, Idle
<1>7. ASSUME NEW m \in Modules, Unmock(m)
      PROVE  RegistryInv' /\ (SeesInv => SeesInv')
  <2>1. /\ stack = <<>> /\ phase = "run" /\ m \notin setupMocks
        /\ mocks' = mocks \ {m} /\ heap' = Live(heap)
        /\ exports' = [exports EXCEPT ![m] = None] /\ real' = [real EXCEPT ![m] = None]
        /\ waits' = [waits EXCEPT ![m] = 0] /\ declared' = [declared EXCEPT ![m] = NoNames]
        /\ touched' = touched \union {m}
        /\ UNCHANGED <<edges, stack, fileVars, made, queue, loads>>
    BY <1>7 DEF Unmock, Idle, MocksApart
  <2>2. DOMAIN NoNames = {} /\ NoNames \in NameValues /\ None \in References
    <3>1. DOMAIN NoNames = {} /\ None \in References
      BY DEF NoNames, References
    <3>2. NoNames \in [{} -> Values] /\ {} \in SUBSET Names
      BY DEF NoNames
    <3>3. QED
      BY <3>1, <3>2 DEF NameValues
  <2>3. exports' \in [Modules -> References] /\ real' \in [Modules -> References]
    BY <1>1, <2>1, <2>2
  <2>4. declared' \in [Modules -> NameValues] /\ DOMAIN declared'[m] = {}
        /\ \A x \in Modules : x # m => declared'[x] = declared[x]
    BY <1>1, <2>1, <2>2
  <2>5. \A x \in Modules : x # m => exports'[x] = exports[x] /\ real'[x] = real[x]
    BY <1>1, <2>1
  <2>6. exports'[m] = None /\ real'[m] = None
    BY <1>1, <2>1
  <2>7. waits' \in [Modules -> 0 .. MaxFiles] /\ \A x \in Modules : waits'[x] \in {0, waits[x]}
    <3>1. 0 \in 0 .. MaxFiles
      BY RegistryAssumption
    <3>2. waits' \in [Modules -> 0 .. MaxFiles]
      BY <1>1, <2>1, <3>1
    <3>3. QED
      BY <1>1, <2>1, <3>2
  <2>8. Drops
    BY <1>1, <2>1, <2>3, <2>4, <2>5, <2>6, <2>7 DEF Drops, Modules
  <2>9. QED
    BY <2>8, DropsKeeps
<1>8. ASSUME ResetModules
      PROVE  RegistryInv' /\ (SeesInv => SeesInv')
  <2>0. PICK gone : gone = {x \in App : exports[x] # None} \ mocks
    OBVIOUS
  <2>1. /\ stack = <<>> /\ phase = "run" /\ heap' = Live(heap)
        /\ exports' = Evict(exports, gone) /\ real' = Evict(real, gone)
        /\ UNCHANGED <<mocks, edges, stack, fileVars, made, queue, waits>>
        /\ UNCHANGED <<declared, touched, loads>>
    BY <1>8, <2>0 DEF ResetModules, Idle, history
  <2>2. None \in References
    BY DEF References
  <2>3. /\ exports' \in [Modules -> References] /\ real' \in [Modules -> References]
        /\ \A x \in Modules : exports'[x] = (IF x \in gone THEN None ELSE exports[x])
        /\ \A x \in Modules : real'[x] = (IF x \in gone THEN None ELSE real[x])
    BY <1>1, <2>1, <2>2 DEF Evict
  <2>4. (\A x \in Pkgs : x \in Modules /\ x \notin gone) /\ \A x \in mocks : x \in Modules /\ x \notin gone
    BY <1>1, <2>0, RegistryAssumption DEF Modules
  <2>5. \A x \in Modules : exports'[x] \in {exports[x], None} /\ real'[x] \in {real[x], None}
    BY <2>3
  <2>6. /\ \A x \in mocks : exports'[x] = exports[x]
        /\ \A x \in Pkgs : exports'[x] = exports[x] /\ real'[x] = real[x]
    BY <2>3, <2>4
  <2>7. Drops
    BY <1>1, <2>1, <2>3, <2>5, <2>6 DEF Drops
  <2>8. QED
    BY <2>7, DropsKeeps
<1>9. QED
  BY <1>2, <1>3, <1>4, <1>5, <1>6, <1>7, <1>8 DEF TestStep

(* Every step. *)
LEMMA NextKeeps ==
  ASSUME RegistryInv, WaitsInv, MocksApart, Next
  PROVE  RegistryInv' /\ (OnlyEntriesDeclare /\ NoCycleThroughMocks /\ SeesInv => SeesInv')
<1>1. /\ queue \in Seq(Mockable) /\ made \in Nat /\ waits \in [Modules -> 0 .. MaxFiles]
      /\ phase \in {"setup", "prepass", "drain", "run"}
      /\ \A x \in Modules : waits[x] \in {0, file}
  BY DEF RegistryInv, Types, OwnerInv
<1>2. CASE Drain
  <2>1. /\ phase = "drain" /\ stack = <<>> /\ queue # <<>> /\ queue' = Tail(queue) /\ stack' = stack
        /\ UNCHANGED <<edges, fileVars, waits, loads>>
    BY <1>2 DEF Drain
  <2>2. Head(queue) \in Mockable /\ queue' \in Seq(Mockable)
    BY <1>1, <2>1
  <2>3. Owner = file
    BY <2>1 DEF Owner
  <2>4. CASE UNCHANGED <<heap, registry, made, declared, touched>>
    <3>1. Quiet
      BY <1>1, <2>1, <2>2, <2>4 DEF Quiet, fileVars, history
    <3>2. QED
      BY <3>1, QuietKeeps
  <2>5. CASE \E v \in Returns(file, made + 1) :
               /\ Runs
               /\ RegisterMock(Head(queue), v)
               /\ declared' = [declared EXCEPT ![Head(queue)] = InForce(Head(queue), v)]
               /\ touched' = touched \union {Head(queue)}
    BY <2>1, <2>2, <2>3, <2>5, MocksKeep
  <2>6. QED
    BY <1>2, <2>4, <2>5 DEF Drain
<1>3. CASE Resolved \/ EntryLoads
  <2>1. Quiet
    BY <1>1, <1>3 DEF Resolved, EntryLoads, Quiet
  <2>2. QED
    BY <2>1, QuietKeeps
<1>4. QED
  BY <1>2, <1>3, LoadStepKeeps, TestStepKeeps, EndSetupKeeps, NextFileKeeps DEF Next, MocksApart

(* And none. *)
LEMMA StutterKeeps ==
  ASSUME RegistryInv, UNCHANGED vars
  PROVE  RegistryInv' /\ (SeesInv => SeesInv')
<1>1. Quiet
  BY DEF vars, Quiet, RegistryInv, Types, OwnerInv, registry, history
<1>2. QED
  BY <1>1, QuietKeeps

(* Only mockable modules are mocked late. *)
LEMMA WaitsInvariance ==
  ASSUME Types, WaitsInv, [Next]_vars
  PROVE  WaitsInv'
<1>1. waits \in [Modules -> 0 .. MaxFiles] /\ Async \subseteq Mockable
  BY RegistryAssumption DEF Types
<1>2. ASSUME NEW m \in Modules,
             Imported(m) \/ ImportActual(m) \/ Mock(m) \/ QueueMock(m) \/ DoMockAsync(m)
             \/ Settles(m) \/ Unmock(m)
      PROVE  WaitsInv'
  <2>1. \/ waits' = waits
        \/ waits' = [waits EXCEPT ![m] = 0]
        \/ m \in Async /\ waits' = [waits EXCEPT ![m] = file]
    BY <1>2 DEF Imported, ImportActual, Mock, QueueMock, DoMockAsync, Settles, Unmock
  <2>2. QED
    BY <1>1, <2>1 DEF WaitsInv
<1>3. CASE waits' = waits
  BY <1>3 DEF WaitsInv
<1>4. CASE NextFile
  BY <1>4 DEF NextFile, ClearedWaits, WaitsInv
<1>5. QED
  BY <1>2, <1>3, <1>4 DEF Next, vars, TestStep, ResetModules, LoadStep, Requires,
     RunsHoisted, Finishes, Throws, RunsAgain, Drain, EndSetup, Resolved, EntryLoads

-----------------------------------------------------------------------------
(* The invariant in every behaviour                                        *)

(* The invariant of the registry holds in every behaviour, for any         *)
(* modules, import graph, mocks, files and factories, and whatever exports *)
(* are accessors, when no file unmocks what setup mocked and no module is  *)
(* reached from one that it mocks itself.                                  *)
THEOREM RegistryInvariance ==
  ASSUME MocksApart
  PROVE  Spec => [](RegistryInv /\ WaitsInv)
<1>1. Init => RegistryInv /\ WaitsInv
  BY InitHolds DEF Init, WaitsInv
<1>2. RegistryInv /\ WaitsInv /\ [Next]_vars => (RegistryInv /\ WaitsInv)'
  <2> SUFFICES ASSUME RegistryInv, WaitsInv, [Next]_vars
               PROVE  RegistryInv' /\ WaitsInv'
    OBVIOUS
  <2>1. WaitsInv'
    BY WaitsInvariance DEF RegistryInv
  <2>2. QED
    BY <2>1, NextKeeps, StutterKeeps
<1>3. QED
  BY <1>1, <1>2, PTL DEF Spec

(* So does that of what the registry leads to, when besides only modules   *)
(* that nothing requires mock others (test files and setup do), and no     *)
(* importer of a mockable module is reached from it.                       *)
THEOREM SeesInvariance ==
  ASSUME MocksApart, ImportersApart
  PROVE  Spec => []SeesInv
<1>1. Init => SeesInv
  BY InitHolds
<1>2. (RegistryInv /\ WaitsInv) /\ SeesInv /\ [Next]_vars => SeesInv'
  BY NextKeeps, StutterKeeps DEF ImportersApart
<1>3. QED
  BY <1>1, <1>2, RegistryInvariance, PTL DEF Spec

-----------------------------------------------------------------------------
(* What the invariant means                                                *)

(* A module that is not being loaded is served its mock in force. *)
LEMMA LatestMock ==
  ASSUME RegistryInv
  PROVE  ServesLatestMock
<1>1. ASSUME NEW m \in Modules, DOMAIN declared[m] # {}, ~IsLoading(m)
      PROVE  /\ m \in mocks /\ exports[m] # None
             /\ \A n \in DOMAIN declared[m] : Object(exports[m]).val[n] = declared[m][n]
  <2>1. /\ MockOf(m) # None
        /\ \A n \in DOMAIN declared[m] : At(heap, MockOf(m)).val[n] = declared[m][n]
    BY <1>1 DEF RegistryInv, MockInv
  <2>2. m \in mocks /\ MockOf(m) = exports[m]
    BY <1>1, <2>1, MockOfFacts DEF RegistryInv
  <2>3. QED
    BY <2>1, <2>2 DEF Object, At
<1>2. QED
  BY <1>1 DEF ServesLatestMock

(* A mock in force that is not of setup is of the file that runs. *)
LEMMA OfThisFile ==
  ASSUME RegistryInv
  PROVE  MocksOfThisFile
<1>1. ASSUME NEW m \in mocks \ setupMocks, ~IsLoading(m),
             NEW n \in DOMAIN Object(exports[m]).val
      PROVE  Object(exports[m]).val[n] = Real \/ Object(exports[m]).val[n][1] = Owner
  <2>1. m \in Modules /\ exports[m] # None
    BY <1>1, RegistryAssumption DEF RegistryInv, Types, MockInv
  <2>2. MockOf(m) = exports[m]
    BY <1>1, MockOfFacts DEF RegistryInv
  <2>3. \A k \in DOMAIN At(heap, exports[m]).val :
          At(heap, exports[m]).val[k] = Real \/ At(heap, exports[m]).val[k][1] = Owner
    BY <1>1, <2>1, <2>2 DEF RegistryInv, OwnerInv
  <2>4. QED
    BY <1>1, <2>3 DEF Object, At
<1>2. QED
  BY <1>1 DEF MocksOfThisFile

(* What the registry serves of the app leads to no mock but those in force. *)
LEMMA ImportersSee ==
  ASSUME RegistryInv, SeesInv
  PROVE  ImportersHoldTheMock
<1> SUFFICES ASSUME stack = <<>>
             PROVE  \A r \in Reached : \A to \in Bounds(Object(r)) :
                      to[1] \in mocks => to = exports[to[1]]
  BY DEF ImportersHoldTheMock
<1> DEFINE F == [r \in Refs |-> {to \in Bounds(Object(r)) : Untouched(to) /\ to[1] \in App \ mocks}]
           R == {exports[m] : m \in App \ mocks} \ {None}
<1>1. PICK S \in SUBSET Refs : Sees(S)
  BY DEF SeesInv
<1>2. HeapType(heap) /\ mocks \subseteq Modules /\ exports \in [Modules -> References] /\ App \subseteq Modules
  BY RegistryAssumption DEF RegistryInv, Types, HeapType, Modules
<1>3. F \in [Refs -> SUBSET Refs]
  <2>1. \A r \in Refs : Bounds(At(heap, r)) \subseteq Refs
    BY <1>2, ObjectType, BoundsType
  <2>2. \A r \in Refs : F[r] \subseteq Refs
    BY <2>1 DEF Object, At
  <2>3. QED
    BY <2>2
<1>4. R \in SUBSET S
  <2>1. ASSUME NEW m \in App \ mocks, exports[m] # None
        PROVE  exports[m] \in S
    BY <1>1, <2>1 DEF Sees
  <2>2. QED
    BY <2>1
<1>5. \A x \in S : F[x] \subseteq S
  <2>1. ASSUME NEW x \in S, NEW to \in Bounds(At(heap, x)), Untouched(to), to[1] \in App \ mocks
        PROVE  to \in S
    <3>1. MockOf(to[1]) = None
      BY <2>1, IdleFacts
    <3>2. ~Mocked(At(heap, to))
      BY <2>1 DEF Untouched, Mocked, Object, At
    <3>3. QED
      BY <1>1, <2>1, <3>1, <3>2 DEF Sees
  <2>2. QED
    BY <2>1 DEF Object, At
<1>6. Reached = Closure(F, R)
  BY DEF Reached, F, R, Refs
<1>7. Closure(F, R) \subseteq S
  <2> HIDE DEF F, R
  <2>1. R \in SUBSET Refs
    BY <1>1, <1>4
  <2>2. QED
    BY <1>1, <1>3, <1>4, <1>5, <2>1, RefsFinite, ClosureIs
<1>8. ASSUME NEW r \in S, NEW to \in Bounds(Object(r)), to[1] \in mocks
      PROVE  to = exports[to[1]]
  <2>1. MockOf(to[1]) = exports[to[1]] /\ exports[to[1]] # None
    BY <1>2, <1>8, IdleFacts DEF RegistryInv, MockInv
  <2>2. QED
    BY <1>1, <1>8, <2>1 DEF Sees, Object, At
<1>9. QED
  BY <1>6, <1>7, <1>8

(* Packages are bound to no mock, and run once. *)
LEMMA PackagesAreApart ==
  ASSUME RegistryInv
  PROVE  PackagesApart
<1>1. ASSUME NEW p \in Pkgs, NEW i \in 1 .. MaxHeap, NEW to \in Bounds(heap[p][i])
      PROVE  /\ ~Object(to).mock
             /\ ~Object(to).over \/ to[1] \in GetterOnly =>
                  \A n \in DOMAIN Object(to).val : Object(to).val[n] = Real
  <2>1. <<p, i>> \in Refs /\ <<p, i>>[1] = p /\ At(heap, <<p, i>>) = heap[p][i]
    BY DEF Refs, Modules, At
  <2>2. ~At(heap, to).mock
    BY <1>1, <2>1 DEF RegistryInv, LinkInv, LinksOf
  <2>3. to \in Refs
    BY <1>1, <2>1, ObjectType DEF RegistryInv, Types, HeapType
  <2>4. Kept(to[1], At(heap, to))
    BY <2>3 DEF RegistryInv, LinkInv, LinksOf
  <2>5. QED
    BY <2>2, <2>4 DEF Object, At, Kept
<1>2. ASSUME NEW m \in Pkgs \ touched
      PROVE  loads[m] <= 1
  <2>1. loads[m] \in 0 .. 2 /\ (loads[m] # 0 => loads[m] = 1)
    BY <1>2 DEF RegistryInv, Types, OnceInv
  <2>2. QED
    BY <2>1
<1>3. QED
  BY <1>1, <1>2 DEF PackagesApart, PackagesBindLoads, PackagesRunOnce

(* Whatever was loaded, mocked, unmocked, reset or loaded for importActual *)
(* before, in this file or an earlier one, an import of a mocked module is *)
(* served the names of the mock declared last (register_mock_value,        *)
(* actual_exports, restore_setup_mocks), unless that mock was put over the *)
(* accessors of a loaded ES module, which do not take it (see the run      *)
(* registry_accessors).                                                    *)
THEOREM ServesLatestMockHolds ==
  ASSUME MocksApart
  PROVE  Spec => []ServesLatestMock
BY RegistryInvariance, LatestMock, PTL

(* No mock that a file declared outlives it (reset_app_registry,           *)
(* __ttDoMockWaits.clear).                                                 *)
THEOREM MocksOfThisFileHolds ==
  ASSUME MocksApart
  PROVE  Spec => []MocksOfThisFile
BY RegistryInvariance, OfThisFile, PTL

(* What a package requires is the object of a load, never a mock's, and it *)
(* reads what the load made unless a mock was put over that very object;   *)
(* a package that no test mocks or unmocks is evaluated once at most by an *)
(* isolate (native_require, register_mock_value, reset_app_registry).      *)
THEOREM PackagesApartHolds ==
  ASSUME MocksApart
  PROVE  Spec => []PackagesApart
BY RegistryInvariance, PackagesAreApart, PTL

(* The object of a mock is held by all that import what it mocks: what the *)
(* registry serves of the app leads to no mocked module behind its mock    *)
(* (invalidate_importers), and packages hold the objects of loads.  What   *)
(* the object gives is ServesLatestMockHolds: nothing of a mock that was   *)
(* put over accessors.                                                     *)
THEOREM MocksReachTheAppHolds ==
  ASSUME MocksApart, ImportersApart
  PROVE  Spec => []MocksReachTheApp
<1>1. (RegistryInv /\ WaitsInv) /\ SeesInv => MocksReachTheApp
  BY ImportersSee, PackagesAreApart DEF MocksReachTheApp
<1>2. QED
  BY <1>1, RegistryInvariance, SeesInvariance, PTL
=============================================================================
