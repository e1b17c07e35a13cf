------------------------- MODULE SourceCacheProofs -------------------------
(***************************************************************************)
(* The transform and code caches, for any files, workers, clocks and       *)
(* limits: what a load gives, what is kept of it and for how long, and     *)
(* what becomes of the code caches left to be made.                        *)
(***************************************************************************)
EXTENDS SourceCache, TLAPS, WellFoundedInduction, SequenceTheorems,
  FiniteSetTheorems, FunctionTheorems

(* The modules whose loads go through the process's sources and whose      *)
(* transform takes the text that was read.                                 *)
Tracked == {m \in Modules : Shareable(m) /\ m \notin Esbuild}

Stamped == Nat \X Nat \X Nat

Stamps == {<<>>} \union (Nat \X Nat) \union Stamped

Entries == [m : Modules, stamp : Stamps, text : Nat]

Steps == {"idle", "file", "stamp", "hit", "read", "transform", "write", "rest",
          "insert", "loaded", "compile"}

Loads == [at : Steps, m : Modules, stamp : Stamps,
          key : Nat, text : Nat, there : SUBSET Texts]

TypeInv ==
  /\ clock \in Nat
  /\ file \in [Modules -> [text : Texts, mtime : Nat, ctime : Nat]]
  /\ disk \in [Modules -> [Texts -> Nat]]
  /\ shared \in Seq(Entries)
  /\ thread \in [Threads -> Loads]

(* What a version's entry claims: the module, the stamp, the text.         *)
Kept == {shared[i] : i \in 1 .. Len(shared)}

Carries(t) == thread[t].at \in {"transform", "write", "insert"}

Carried(t) == [m |-> thread[t].m, stamp |-> thread[t].stamp, text |-> thread[t].key]

(* The versions kept, and those that a load may still keep.                *)
Versions == {v \in Kept \union {Carried(t) : t \in {u \in Threads : Carries(u)}} :
               v.m \in Tracked}

(* The file's times only grow, and are ones the clock showed. *)
ClockInv ==
  \A m \in Modules : file[m].mtime <= file[m].ctime /\ file[m].ctime <= Shown(clock)

(* What the file has is among what it had since a load began. *)
ThereOk(t) ==
  IF thread[t].at \in {"idle", "file"} THEN thread[t].there = {}
  ELSE file[thread[t].m].text \in thread[t].there

ThereInv == \A t \in Threads : ThereOk(t)

(* A transform kept on disk is that of the text it is kept under. *)
DiskInv ==
  \A m \in Modules \ (Esm \union Esbuild), x \in Texts : disk[m][x] \in {Missing, x}

(* A load has read a version that the file had, and made its text of it. *)
LoadOk(t) ==
  LET th == thread[t] IN
  /\ th.at \in {"stamp", "hit", "insert"} => Shareable(th.m)
  /\ th.at \in {"rest", "loaded"} => th.m \in Esm
  /\ th.at = "compile" => th.m \notin Esm
  /\ th.at = "stamp" => th.stamp \in Nat \X Nat
  /\ th.at \in {"hit", "read", "transform", "write", "insert"} /\ Shareable(th.m) =>
       th.stamp \in Stamped
  /\ Carries(t) => th.key \in Texts
  /\ th.m \notin Esbuild =>
       /\ Carries(t) => th.key \in th.there
       /\ th.at \in {"write", "insert"} => th.text = th.key
       /\ th.at = "compile" => th.text \in th.there

LoadInv == \A t \in Threads : LoadOk(t)

(* A stamp's times are ones the file has or had. *)
Past(m, s) == s[1] <= file[m].mtime /\ s[2] <= file[m].ctime

Current(m, s) == s[1] = file[m].mtime /\ s[2] = file[m].ctime

(* A stamp without a hash is of a file that was left alone for Window; one *)
(* with a hash, of the file's times, is of a version up to the file's.     *)
StampOk(m, s) ==
  /\ Past(m, s)
  /\ s[3] = 0 => clock - s[1] >= Window
  /\ s[3] # 0 /\ Current(m, s) => s[3] <= file[m].text

StampsOk(t) ==
  thread[t].m \in Tracked =>
    /\ thread[t].at = "stamp" => Past(thread[t].m, thread[t].stamp)
    /\ thread[t].at \in {"hit", "read"} => StampOk(thread[t].m, thread[t].stamp)

StampInv == \A t \in Threads : StampsOk(t)

(* A version under the file's times is the file's, or an earlier one under *)
(* a stamp that has a hash, of a version up to its own.                    *)
VersionOk(v) ==
  /\ v.stamp \in Stamped
  /\ Past(v.m, v.stamp)
  /\ v.stamp[3] = 0 => clock - v.stamp[1] >= Window
  /\ Current(v.m, v.stamp) =>
       /\ v.text = file[v.m].text \/ (v.stamp[3] # 0 /\ v.text < file[v.m].text)
       /\ v.stamp[3] # 0 => v.stamp[3] <= v.text

VersionInv == \A v \in Versions : VersionOk(v)

(* A load whose stamp is that of a version had that version since it       *)
(* began; one about to hash had it or will not get that version's stamp.   *)
Match(v, t) ==
  LET s == v.stamp  th == thread[t] IN
  /\ th.at = "stamp" /\ th.stamp[1] = s[1] /\ th.stamp[2] = s[2] =>
       \/ v.text \in th.there
       \/ s[3] # 0 /\ (clock - s[1] >= Window \/ \A y \in th.there : y > s[3])
  /\ th.at \in {"hit", "read", "transform", "write", "insert"} /\ th.stamp = s =>
       v.text \in th.there

MatchInv == \A v \in Versions, t \in Threads : thread[t].m = v.m => Match(v, t)

SourcesInv ==
  TypeInv /\ ClockInv /\ ThereInv /\ DiskInv /\ LoadInv /\ StampInv /\ VersionInv /\ MatchInv

(* The process keeps at most Cap of the app's sources. *)
CapInv == Cardinality(AppSources(shared)) <= Cap

(* What waits for its code cache came from an isolate that is there.       *)
CodeInv ==
  /\ codes \in [Modules -> [Texts -> {Missing} \union Texts]]
  /\ \A m \in Modules, x \in Texts : codes[m][x] \in {Missing, x}
  /\ pending \in [Threads -> SUBSET [m : Modules, text : Texts, dead : {FALSE}]]
  /\ touchedDead = FALSE

Inductive == SourcesInv /\ CapInv /\ CodeInv

-----------------------------------------------------------------------------
(* Entries of the process's sources                                        *)

(* The limits are numbers. *)
LEMMA Limits == Window \in Nat /\ Grain \in Nat \ {0} /\ Cap \in Nat \ {0} /\ MaxText \in Nat \ {0}
BY CacheAssumption

(* A text is a number, and not that of a missing file. *)
LEMMA TextTypes == \A x \in Texts : x \in Nat /\ x # 0
BY Limits DEF Texts

(* Taking one element out of a sequence moves those after it down.         *)
LEMMA Removed ==
  ASSUME NEW S, NEW s \in Seq(S), NEW i \in 1 .. Len(s)
  PROVE  /\ RemoveAt(s, i) \in Seq(S)
         /\ Len(RemoveAt(s, i)) = Len(s) - 1
         /\ \A j \in 1 .. Len(s) - 1 : RemoveAt(s, i)[j] = s[IF j < i THEN j ELSE j + 1]
<1> DEFINE a == SubSeq(s, 1, i - 1)
           b == SubSeq(s, i + 1, Len(s))
<1>1. Len(s) \in Nat /\ i \in Nat /\ \A j \in 1 .. Len(s) : s[j] \in S
  BY ElementOfSeq, LenProperties
<1>2. /\ a \in Seq(S) /\ Len(a) = i - 1
      /\ \A j \in 1 .. i - 1 : a[j] = s[j]
  <2>1. \A j \in 1 .. i - 1 : s[j] \in S
    BY <1>1
  <2>2. /\ a \in Seq(S)
        /\ Len(a) = IF 1 <= i - 1 THEN (i - 1) - 1 + 1 ELSE 0
        /\ \A j \in 1 .. (i - 1) - 1 + 1 : a[j] = s[1 + j - 1]
    BY <1>1, <2>1, SubSeqProperties
  <2>3. QED
    BY <1>1, <2>2
<1>3. /\ b \in Seq(S) /\ Len(b) = Len(s) - i
      /\ \A j \in 1 .. Len(s) - i : b[j] = s[i + j]
  <2>1. \A j \in i + 1 .. Len(s) : s[j] \in S
    BY <1>1
  <2>2. /\ b \in Seq(S)
        /\ Len(b) = IF i + 1 <= Len(s) THEN Len(s) - (i + 1) + 1 ELSE 0
        /\ \A j \in 1 .. Len(s) - (i + 1) + 1 : b[j] = s[i + 1 + j - 1]
    BY <1>1, <2>1, SubSeqProperties
  <2>3. \A j \in 1 .. Len(s) - i : j \in 1 .. Len(s) - (i + 1) + 1 /\ i + 1 + j - 1 = i + j
    BY <1>1
  <2>4. QED
    BY <1>1, <2>2, <2>3
<1>4. RemoveAt(s, i) = a \o b
  BY DEF RemoveAt
<1> HIDE DEF a, b
<1>5. /\ a \o b \in Seq(S)
      /\ Len(a \o b) = Len(a) + Len(b)
      /\ \A j \in 1 .. Len(a) + Len(b) :
           (a \o b)[j] = IF j <= Len(a) THEN a[j] ELSE b[j - Len(a)]
  BY <1>2, <1>3, ConcatProperties
<1>6. Len(a) + Len(b) = Len(s) - 1
  BY <1>1, <1>2, <1>3
<1>7. ASSUME NEW j \in 1 .. Len(s) - 1
      PROVE  (a \o b)[j] = s[IF j < i THEN j ELSE j + 1]
  <2>1. CASE j < i
    <3>1. j <= Len(a) /\ j \in 1 .. i - 1
      BY <1>1, <1>2, <2>1
    <3>2. QED
      BY <1>2, <1>5, <1>6, <2>1, <3>1
  <2>2. CASE ~ (j < i)
    <3>1. ~ (j <= Len(a)) /\ j - Len(a) \in 1 .. Len(s) - i /\ i + (j - Len(a)) = j + 1
      BY <1>1, <1>2, <2>2
    <3>2. b[j - Len(a)] = s[j + 1]
      BY <1>3, <3>1
    <3>3. QED
      BY <1>5, <1>6, <2>2, <3>1, <3>2
  <2>3. QED
    BY <2>1, <2>2
<1>8. QED
  BY <1>4, <1>5, <1>6, <1>7

(* What is left was there before. *)
LEMMA RemovedFrom ==
  ASSUME NEW s \in Seq(Entries), NEW i \in 1 .. Len(s), NEW j \in 1 .. Len(RemoveAt(s, i))
  PROVE  \E k \in 1 .. Len(s) : RemoveAt(s, i)[j] = s[k]
<1>1. Len(s) \in Nat /\ i \in Nat /\ j \in 1 .. Len(s) - 1
  BY Removed, LenProperties
<1>2. (IF j < i THEN j ELSE j + 1) \in 1 .. Len(s)
  BY <1>1
<1>3. QED
  BY <1>1, <1>2, Removed

(* A set of numbers that is not empty has a smallest one. *)
LEMMA Smallest ==
  ASSUME NEW S, S \subseteq Nat, S # {}
  PROVE  \E x \in S : \A y \in S : x <= y
<1>1. PICK x \in S : \A y \in S : ~ (<<y, x>> \in OpToRel(<, Nat))
  BY NatLessThanWellFounded, WFMin
<1>2. ASSUME NEW y \in S
      PROVE  x <= y
  <2>1. x \in Nat /\ y \in Nat
    OBVIOUS
  <2>2. <<y, x>> \in OpToRel(<, Nat) <=> y < x
    BY <2>1 DEF OpToRel
  <2>3. ~ (y < x)
    BY <1>1, <2>2
  <2>4. QED
    BY <2>1, <2>3
<1>3. QED
  BY <1>2

(* The entries of app files are finitely many. *)
LEMMA AppsFinite ==
  ASSUME NEW s \in Seq(Entries)
  PROVE  /\ AppSources(s) \subseteq 1 .. Len(s)
         /\ IsFiniteSet(AppSources(s)) /\ Cardinality(AppSources(s)) \in Nat
<1>1. Len(s) \in Nat
  BY LenProperties
<1>2. IsFiniteSet(1 .. Len(s))
  BY <1>1, FS_Interval
<1>3. AppSources(s) \subseteq 1 .. Len(s)
  BY DEF AppSources
<1>4. IsFiniteSet(AppSources(s))
  BY <1>2, <1>3, FS_Subset
<1>5. QED
  BY <1>3, <1>4, FS_CardinalityType

(* Taking an entry out takes it from the app's entries, if it was there. *)
LEMMA RemovedApps ==
  ASSUME NEW s \in Seq(Entries), NEW i \in 1 .. Len(s)
  PROVE  Cardinality(AppSources(RemoveAt(s, i))) = Cardinality(AppSources(s) \ {i})
<1> DEFINE r == RemoveAt(s, i)
           A == AppSources(r)
           B == AppSources(s) \ {i}
           f == [j \in A |-> IF j < i THEN j ELSE j + 1]
<1>1. Len(s) \in Nat /\ i \in Nat /\ r \in Seq(Entries) /\ Len(r) = Len(s) - 1
  BY Removed, LenProperties
<1>2. \A j \in 1 .. Len(s) - 1 : r[j] = s[IF j < i THEN j ELSE j + 1]
  BY Removed
<1>3. A \subseteq 1 .. Len(s) - 1 /\ IsFiniteSet(A)
  BY <1>1, AppsFinite
<1>4. ASSUME NEW j \in A
      PROVE  (IF j < i THEN j ELSE j + 1) \in B
  <2>1. j \in 1 .. Len(s) - 1 /\ r[j].m \in App
    BY <1>1, <1>4 DEF AppSources
  <2>2. /\ (IF j < i THEN j ELSE j + 1) \in 1 .. Len(s)
        /\ (IF j < i THEN j ELSE j + 1) # i
    BY <1>1, <2>1
  <2>3. s[IF j < i THEN j ELSE j + 1].m \in App
    BY <1>2, <2>1
  <2>4. QED
    BY <2>2, <2>3 DEF AppSources
<1>5. f \in [A -> B]
  BY <1>4
<1>6. ASSUME NEW a \in A, NEW b \in A, f[a] = f[b]
      PROVE  a = b
  <2>1. a \in Nat /\ b \in Nat
    BY <1>1, <1>3
  <2>2. QED
    BY <1>1, <1>6, <2>1
<1>7. ASSUME NEW k \in B
      PROVE  \E j \in A : f[j] = k
  <2> DEFINE j == IF k < i THEN k ELSE k - 1
  <2>1. k \in 1 .. Len(s) /\ k # i /\ s[k].m \in App
    BY DEF AppSources
  <2>2. j \in 1 .. Len(s) - 1 /\ (IF j < i THEN j ELSE j + 1) = k
    BY <1>1, <2>1
  <2>3. r[j].m \in App
    BY <1>2, <2>1, <2>2
  <2>4. j \in A
    BY <1>1, <2>2, <2>3 DEF AppSources
  <2>5. QED
    BY <2>2, <2>4
<1> HIDE DEF A, B, f
<1>8. f \in Bijection(A, B)
  BY <1>5, <1>6, <1>7, Fun_IsBij
<1>9. Cardinality(B) = Cardinality(A)
  BY <1>3, <1>8, FS_Bijection, Fun_ExistsBij
<1>10. QED
  BY <1>9 DEF A, B

(* An entry appended is one more of the app's, if it is the app's. *)
LEMMA AppendedApps ==
  ASSUME NEW s \in Seq(Entries), NEW e \in Entries
  PROVE  Cardinality(AppSources(Append(s, e))) =
           IF e.m \in App THEN Cardinality(AppSources(s)) + 1 ELSE Cardinality(AppSources(s))
<1>1. Len(s) \in Nat
  BY LenProperties
<1>2. /\ Len(Append(s, e)) = Len(s) + 1
      /\ \A j \in 1 .. Len(s) : Append(s, e)[j] = s[j]
      /\ Append(s, e)[Len(s) + 1] = e
  BY AppendProperties
<1>3. \A j \in 1 .. Len(s) + 1 : j \in 1 .. Len(s) \/ j = Len(s) + 1
  BY <1>1
<1>4. 1 .. Len(s) \subseteq 1 .. Len(s) + 1 /\ Len(s) + 1 \in 1 .. Len(s) + 1
      /\ Len(s) + 1 \notin 1 .. Len(s)
  BY <1>1
<1>5. /\ IsFiniteSet(AppSources(s)) /\ Cardinality(AppSources(s)) \in Nat
      /\ Len(s) + 1 \notin AppSources(s)
  BY <1>4, AppsFinite
<1>6. CASE e.m \in App
  <2>1. AppSources(Append(s, e)) = AppSources(s) \union {Len(s) + 1}
    BY <1>2, <1>3, <1>4, <1>6 DEF AppSources
  <2>2. QED
    BY <1>5, <1>6, <2>1, FS_AddElement
<1>7. CASE e.m \notin App
  <2>1. AppSources(Append(s, e)) = AppSources(s)
    BY <1>2, <1>3, <1>4, <1>7 DEF AppSources
  <2>2. QED
    BY <1>7, <2>1
<1>8. QED
  BY <1>6, <1>7

(* An entry moved to the end: nothing is added, and as many are the app's. *)
LEMMA Moved ==
  ASSUME NEW s \in Seq(Entries), NEW i \in 1 .. Len(s)
  PROVE  LET r == Append(RemoveAt(s, i), s[i]) IN
         /\ r \in Seq(Entries)
         /\ \A j \in 1 .. Len(r) : \E k \in 1 .. Len(s) : r[j] = s[k]
         /\ Cardinality(AppSources(r)) = Cardinality(AppSources(s))
<1> DEFINE q == RemoveAt(s, i)
           r == Append(q, s[i])
<1>1. Len(s) \in Nat /\ s[i] \in Entries /\ q \in Seq(Entries) /\ Len(q) \in Nat
  BY Removed, LenProperties, ElementOfSeq
<1>2. \A j \in 1 .. Len(q) : \E k \in 1 .. Len(s) : q[j] = s[k]
  BY RemovedFrom
<1>3. Cardinality(AppSources(q)) = Cardinality(AppSources(s) \ {i})
  BY RemovedApps
<1>4. IsFiniteSet(AppSources(s)) /\ Cardinality(AppSources(s)) \in Nat
  BY AppsFinite
<1>5. i \in AppSources(s) <=> s[i].m \in App
  BY DEF AppSources
<1> HIDE DEF q
<1>6. r \in Seq(Entries) /\ Len(r) = Len(q) + 1
      /\ (\A j \in 1 .. Len(q) : r[j] = q[j]) /\ r[Len(q) + 1] = s[i]
  BY <1>1, AppendProperties
<1>7. Cardinality(AppSources(r)) =
        IF s[i].m \in App THEN Cardinality(AppSources(q)) + 1 ELSE Cardinality(AppSources(q))
  BY <1>1, AppendedApps
<1> HIDE DEF r
<1>8. Cardinality(AppSources(r)) = Cardinality(AppSources(s))
  <2>1. Cardinality(AppSources(s) \ {i}) =
          IF i \in AppSources(s) THEN Cardinality(AppSources(s)) - 1
          ELSE Cardinality(AppSources(s))
    BY <1>4, FS_RemoveElement
  <2>2. QED
    BY <1>3, <1>4, <1>5, <1>7, <2>1
<1>9. ASSUME NEW j \in 1 .. Len(r)
      PROVE  \E k \in 1 .. Len(s) : r[j] = s[k]
  <2>1. j \in 1 .. Len(q) \/ j = Len(q) + 1
    BY <1>1, <1>6
  <2>2. QED
    BY <1>2, <1>6, <2>1
<1>10. QED
  BY <1>6, <1>8, <1>9 DEF q, r

(* Capped leaves at most Cap entries of the app where there was one too    *)
(* many, and adds nothing.                                                 *)
LEMMA CappedSources ==
  ASSUME NEW s \in Seq(Entries), Cardinality(AppSources(s)) <= Cap + 1
  PROVE  /\ Capped(s) \in Seq(Entries)
         /\ \A j \in 1 .. Len(Capped(s)) : \E k \in 1 .. Len(s) : Capped(s)[j] = s[k]
         /\ Cardinality(AppSources(Capped(s))) <= Cap
<1>1. Cap \in Nat \ {0}
  BY CacheAssumption
<1>2. /\ IsFiniteSet(AppSources(s)) /\ Cardinality(AppSources(s)) \in Nat
      /\ AppSources(s) \subseteq 1 .. Len(s) /\ Len(s) \in Nat
  BY AppsFinite, LenProperties
<1>3. CASE Cardinality(AppSources(s)) <= Cap
  BY <1>3 DEF Capped
<1>4. CASE ~ (Cardinality(AppSources(s)) <= Cap)
  <2> DEFINE i == CHOOSE i \in AppSources(s) : \A j \in AppSources(s) : i <= j
  <2>1. AppSources(s) # {}
    <3>1. SUFFICES ASSUME AppSources(s) = {}
                   PROVE  FALSE
      OBVIOUS
    <3>2. Cardinality(AppSources(s)) = 0
      BY <3>1, FS_EmptySet, Zenon
    <3>3. QED
      BY <1>1, <1>4, <3>2
  <2>2. AppSources(s) \subseteq Nat
    BY <1>2
  <2>3. \E x \in AppSources(s) : \A y \in AppSources(s) : x <= y
    BY <2>1, <2>2, Smallest
  <2>4. i \in AppSources(s)
    BY <2>3
  <2>5. Capped(s) = RemoveAt(s, i)
    BY <1>4 DEF Capped
  <2> HIDE DEF i
  <2>6. i \in 1 .. Len(s)
    BY <1>2, <2>4
  <2>7. Cardinality(AppSources(RemoveAt(s, i))) = Cardinality(AppSources(s) \ {i})
    BY <2>6, RemovedApps
  <2>8. Cardinality(AppSources(s) \ {i}) = Cardinality(AppSources(s)) - 1
    BY <1>2, <2>4, FS_RemoveElement
  <2>9. Cardinality(AppSources(RemoveAt(s, i))) <= Cap
    BY <1>1, <1>2, <2>7, <2>8
  <2>10. RemoveAt(s, i) \in Seq(Entries)
    BY <2>6, Removed
  <2>11. QED
    BY <2>5, <2>6, <2>9, <2>10, RemovedFrom
<1>5. QED
  BY <1>3, <1>4

(* A file's other entries are among the entries. *)
LEMMA OtherSources ==
  ASSUME NEW m \in Modules, shared \in Seq(Entries)
  PROVE  /\ Others(m) \in Seq(Entries)
         /\ \A j \in 1 .. Len(Others(m)) : \E k \in 1 .. Len(shared) : Others(m)[j] = shared[k]
         /\ Cardinality(AppSources(Others(m))) <= Cardinality(AppSources(shared))
<1>1. IsFiniteSet(AppSources(shared)) /\ Cardinality(AppSources(shared)) \in Nat
  BY AppsFinite
<1>2. CASE \E i \in 1 .. Len(shared) : shared[i].m = m
  <2> DEFINE i == CHOOSE i \in 1 .. Len(shared) : shared[i].m = m
  <2>1. i \in 1 .. Len(shared) /\ Others(m) = RemoveAt(shared, i)
    BY <1>2 DEF Others
  <2> HIDE DEF i
  <2>2. Cardinality(AppSources(Others(m))) = Cardinality(AppSources(shared) \ {i})
    BY <2>1, RemovedApps
  <2>3. Cardinality(AppSources(shared) \ {i}) <= Cardinality(AppSources(shared))
    BY <1>1, FS_Subset
  <2>4. Others(m) \in Seq(Entries)
    BY <2>1, Removed
  <2>5. QED
    BY <2>1, <2>2, <2>3, <2>4, RemovedFrom
<1>3. CASE ~ \E i \in 1 .. Len(shared) : shared[i].m = m
  <2>1. Others(m) = shared
    BY <1>3 DEF Others
  <2>2. QED
    BY <1>1, <2>1
<1>4. QED
  BY <1>2, <1>3

(* Keeping a version adds that one only, and at most Cap of the app stay. *)
LEMMA KeepingOne ==
  ASSUME NEW m \in Modules, NEW e \in Entries, e.m = m, shared \in Seq(Entries),
         Cardinality(AppSources(shared)) <= Cap
  PROVE  LET all == Append(Others(m), e)
             r == IF m \in App THEN Capped(all) ELSE all
         IN
         /\ r \in Seq(Entries)
         /\ \A j \in 1 .. Len(r) : r[j] = e \/ \E k \in 1 .. Len(shared) : r[j] = shared[k]
         /\ Cardinality(AppSources(r)) <= Cap
<1> DEFINE o == Others(m)
           all == Append(o, e)
<1>1. /\ o \in Seq(Entries)
      /\ \A j \in 1 .. Len(o) : \E k \in 1 .. Len(shared) : o[j] = shared[k]
      /\ Cardinality(AppSources(o)) <= Cardinality(AppSources(shared))
  BY OtherSources
<1> HIDE DEF o
<1>2. Cap \in Nat /\ Cardinality(AppSources(shared)) \in Nat /\ Cardinality(AppSources(o)) \in Nat
  BY <1>1, AppsFinite, CacheAssumption
<1>3. Len(o) \in Nat
  BY <1>1, LenProperties
<1>4. /\ all \in Seq(Entries) /\ Len(all) = Len(o) + 1
      /\ (\A j \in 1 .. Len(o) : all[j] = o[j]) /\ all[Len(o) + 1] = e
  BY <1>1, AppendProperties
<1>5. Cardinality(AppSources(all)) =
        IF m \in App THEN Cardinality(AppSources(o)) + 1 ELSE Cardinality(AppSources(o))
  BY <1>1, AppendedApps
<1> HIDE DEF all
<1>6. ASSUME NEW j \in 1 .. Len(all)
      PROVE  all[j] = e \/ \E k \in 1 .. Len(shared) : all[j] = shared[k]
  <2>1. j \in 1 .. Len(o) \/ j = Len(o) + 1
    BY <1>3, <1>4
  <2>2. QED
    BY <1>1, <1>4, <2>1
<1>7. CASE m \in App
  <2>1. Cardinality(AppSources(all)) <= Cap + 1
    BY <1>1, <1>2, <1>5, <1>7
  <2>2. /\ Capped(all) \in Seq(Entries)
        /\ \A j \in 1 .. Len(Capped(all)) : \E k \in 1 .. Len(all) : Capped(all)[j] = all[k]
        /\ Cardinality(AppSources(Capped(all))) <= Cap
    BY <1>4, <2>1, CappedSources
  <2>3. QED
    BY <1>6, <1>7, <2>2 DEF all, o
<1>8. CASE m \notin App
  <2>1. Cardinality(AppSources(all)) <= Cap
    BY <1>1, <1>2, <1>5, <1>8
  <2>2. QED
    BY <1>4, <1>6, <1>8, <2>1 DEF all, o
<1>9. QED
  BY <1>7, <1>8

-----------------------------------------------------------------------------
(* The clock                                                               *)

(* The time shown is at most the clock's, and less than Grain behind.      *)
LEMMA ShownTime ==
  ASSUME NEW c \in Nat
  PROVE  Shown(c) \in Nat /\ Shown(c) <= c /\ c - Shown(c) < Grain
<1>1. Grain \in Nat \ {0}
  BY CacheAssumption
<1>2. c % Grain \in Nat /\ c % Grain < Grain /\ c % Grain <= c
  BY <1>1
<1>3. PICK r \in Nat : r = c % Grain
  BY <1>2
<1>4. QED
  BY <1>1, <1>2, <1>3 DEF Shown

(* The time shown does not go back. *)
LEMMA ShownGrows ==
  ASSUME NEW c \in Nat
  PROVE  Shown(c) <= Shown(c + 1)
<1>1. Grain \in Nat \ {0}
  BY CacheAssumption
<1>2. PICK q \in Int, r \in Int : q = c \div Grain /\ r = c % Grain
  BY <1>1
<1>3. PICK p \in Int, s \in Int : p = (c + 1) \div Grain /\ s = (c + 1) % Grain
  BY <1>1
<1>4. c = Grain * q + r /\ r >= 0 /\ r < Grain
  BY <1>1, <1>2
<1>5. c + 1 = Grain * p + s /\ s >= 0 /\ s < Grain
  BY <1>1, <1>3
<1>6. s <= r + 1
  BY <1>1, <1>4, <1>5
<1>7. QED
  BY <1>2, <1>3, <1>6 DEF Shown

-----------------------------------------------------------------------------
(* Steps of one worker                                                     *)

(* A step that keeps and carries on nothing new has no version more.       *)
LEMMA NothingNew ==
  ASSUME NEW t \in Threads,
         \A u \in Threads : u # t => thread'[u] = thread[u],
         \A v \in Kept' : v.m \in Tracked => v \in Versions,
         Carries(t)' /\ thread'[t].m \in Tracked => Carried(t)' \in Versions
  PROVE  Versions' \subseteq Versions
<1>1. SUFFICES ASSUME NEW v \in Versions'
               PROVE  v \in Versions
  OBVIOUS
<1>2. v.m \in Tracked
  BY DEF Versions, Tracked, Shareable
<1>3. CASE v \in Kept'
  BY <1>2, <1>3
<1>4. CASE v \notin Kept'
  <2>1. PICK u \in Threads : Carries(u)' /\ v = Carried(u)'
    BY <1>4 DEF Versions
  <2>2. CASE u = t
    <3>1. v.m = thread'[t].m
      BY <2>1, <2>2 DEF Carried
    <3>2. QED
      BY <1>2, <2>1, <2>2, <3>1
  <2>3. CASE u # t
    <3>1. Carries(u) /\ v = Carried(u)
      BY <2>1, <2>3 DEF Carries, Carried
    <3>2. QED
      BY <1>2, <3>1 DEF Versions
  <2>4. QED
    BY <2>2, <2>3
<1>5. QED
  BY <1>3, <1>4

(* What a worker's step must keep for the invariant to hold after it. *)
LEMMA StepOfThread ==
  ASSUME SourcesInv, NEW t \in Threads, UNCHANGED <<clock, file>>, TypeInv', DiskInv',
         \A u \in Threads : u # t => thread'[u] = thread[u],
         ThereOk(t)', LoadOk(t)', StampsOk(t)',
         \A v \in Versions : thread'[t].m = v.m => Match(v, t)',
         \A v \in Versions' :
           v \in Versions \/ (/\ VersionOk(v)'
                              /\ \A u \in Threads : thread'[u].m = v.m => Match(v, u)')
  PROVE  SourcesInv'
<1>1. ClockInv'
  BY DEF SourcesInv, ClockInv, Shown
<1>2. ASSUME NEW u \in Threads
      PROVE  ThereOk(u)' /\ LoadOk(u)' /\ StampsOk(u)'
  <2>1. CASE u = t
    BY <2>1
  <2>2. CASE u # t
    <3>1. thread'[u] = thread[u]
      BY <2>2
    <3>2. ThereOk(u) /\ LoadOk(u) /\ StampsOk(u)
      BY DEF SourcesInv, ThereInv, LoadInv, StampInv
    <3>3. ThereOk(u)'
      BY <3>1, <3>2 DEF ThereOk
    <3>4. LoadOk(u)'
      BY <3>1, <3>2 DEF LoadOk, Carries, Shareable
    <3>5. StampsOk(u)'
      BY <3>1, <3>2 DEF StampsOk, StampOk, Past, Current, Tracked, Shareable
    <3>6. QED
      BY <3>3, <3>4, <3>5
  <2>3. QED
    BY <2>1, <2>2
<1>3. ASSUME NEW v \in Versions
      PROVE  VersionOk(v)'
  <2>1. VersionOk(v)
    BY DEF SourcesInv, VersionInv
  <2>2. QED
    BY <2>1 DEF VersionOk, Past, Current
<1>4. ASSUME NEW v \in Versions, NEW u \in Threads, thread'[u].m = v.m
      PROVE  Match(v, u)'
  <2>1. CASE u = t
    BY <1>4, <2>1
  <2>2. CASE u # t
    <3>1. thread'[u] = thread[u]
      BY <2>2
    <3>2. Match(v, u)
      BY <1>4, <3>1 DEF SourcesInv, MatchInv
    <3>3. QED
      BY <3>1, <3>2 DEF Match
  <2>3. QED
    BY <2>1, <2>2
<1>5. ThereInv' /\ LoadInv' /\ StampInv'
  BY <1>2 DEF ThereInv, LoadInv, StampInv
<1>6. VersionInv'
  BY <1>3 DEF VersionInv
<1>7. MatchInv'
  BY <1>4 DEF MatchInv
<1>8. QED
  BY <1>1, <1>5, <1>6, <1>7 DEF SourcesInv

(* What a worker that loads nothing is at. *)
LEMMA IdleLoad ==
  ASSUME NEW at \in Steps
  PROVE  /\ Idle(at) \in Loads
         /\ Idle(at).at = at /\ Idle(at).stamp = <<>> /\ Idle(at).there = {}
<1>1. (CHOOSE m \in Modules : TRUE) \in Modules
  BY CacheAssumption
<1>2. <<>> \in Stamps /\ Missing \in Nat /\ {} \in SUBSET Texts
  BY DEF Stamps, Missing
<1>3. QED
  BY <1>1, <1>2 DEF Idle, Loads

(* One worker's record is replaced, and the others' are as they were. *)
LEMMA Put ==
  ASSUME TypeInv, NEW t \in Threads, NEW th \in Loads, thread' = [thread EXCEPT ![t] = th]
  PROVE  /\ thread' \in [Threads -> Loads]
         /\ thread'[t] = th
         /\ \A u \in Threads : u # t => thread'[u] = thread[u]
BY DEF TypeInv

(* A worker that ends its load, or its file, leaves nothing to claim. *)
LEMMA Leaves ==
  ASSUME SourcesInv, NEW t \in Threads, NEW at \in {"idle", "file"},
         Goto(t, at), UNCHANGED <<clock, file, disk, shared>>
  PROVE  SourcesInv'
<1>1. at \in Steps /\ TypeInv
  BY DEF Steps, SourcesInv
<1>2. Idle(at) \in Loads /\ Idle(at).at = at /\ Idle(at).there = {}
  BY <1>1, IdleLoad
<1>3. thread' = [thread EXCEPT ![t] = Idle(at)]
  BY DEF Goto
<1>4. PICK th \in Loads : th = Idle(at)
  BY <1>2
<1>5. /\ thread' \in [Threads -> Loads] /\ thread'[t] = th
      /\ \A u \in Threads : u # t => thread'[u] = thread[u]
  BY <1>1, <1>3, <1>4, Put
<1>6. th.at = at /\ th.there = {}
  BY <1>2, <1>4
<1>7. TypeInv'
  BY <1>1, <1>5 DEF TypeInv
<1>8. DiskInv'
  BY DEF SourcesInv, DiskInv
<1>9. ThereOk(t)' /\ LoadOk(t)' /\ StampsOk(t)'
  BY <1>5, <1>6 DEF ThereOk, LoadOk, StampsOk, Carries
<1>10. \A v : Match(v, t)'
  BY <1>5, <1>6 DEF Match
<1>11. Versions' \subseteq Versions
  <2>1. ~ Carries(t)'
    BY <1>5, <1>6 DEF Carries
  <2>2. \A v \in Kept' : v.m \in Tracked => v \in Versions
    BY DEF Kept, Versions
  <2>3. QED
    BY <1>5, <2>1, <2>2, NothingNew
<1>12. QED
  BY <1>5, <1>7, <1>8, <1>9, <1>10, <1>11, StepOfThread

(* A worker that is given the text it loads: nothing new may be kept.     *)
LEMMA EntersCompile ==
  ASSUME SourcesInv, NEW t \in Threads, UNCHANGED <<clock, file>>, TypeInv', DiskInv',
         \A u \in Threads : u # t => thread'[u] = thread[u],
         thread'[t].at = "compile", thread'[t].m = thread[t].m,
         thread[t].at \notin {"idle", "file"}, thread'[t].there = thread[t].there,
         thread[t].m \notin Esm,
         thread[t].m \notin Esbuild => thread'[t].text \in thread[t].there,
         \A v \in Kept' : v.m \in Tracked => v \in Versions
  PROVE  SourcesInv'
<1>1. ThereOk(t)
  BY DEF SourcesInv, ThereInv
<1>2. ThereOk(t)'
  BY <1>1 DEF ThereOk
<1>3. LoadOk(t)'
  BY DEF LoadOk, Carries
<1>4. StampsOk(t)'
  BY DEF StampsOk
<1>5. \A v : Match(v, t)'
  BY DEF Match
<1>6. ~ Carries(t)'
  BY DEF Carries
<1>7. Versions' \subseteq Versions
  BY <1>6, NothingNew
<1>8. QED
  BY <1>2, <1>3, <1>4, <1>5, <1>7, StepOfThread

(* A load that goes on as it was: nothing new is kept or carried, and what *)
(* it claims is what it claimed.                                           *)
LEMMA GoesOn ==
  ASSUME SourcesInv, NEW t \in Threads, UNCHANGED <<clock, file, shared>>, TypeInv', DiskInv',
         \A u \in Threads : u # t => thread'[u] = thread[u],
         thread'[t].m = thread[t].m, thread'[t].stamp = thread[t].stamp,
         thread'[t].there = thread[t].there,
         thread[t].at \notin {"idle", "file"}, thread'[t].at \notin {"idle", "file"},
         thread'[t].at # "stamp",
         LoadOk(t)', StampsOk(t)',
         thread[t].m \in Tracked /\ thread'[t].at \in {"hit", "read", "transform", "write", "insert"} =>
           /\ thread[t].at \in {"hit", "read", "transform", "write", "insert"}
           /\ Carries(t)' => Carries(t) /\ thread'[t].key = thread[t].key
  PROVE  SourcesInv'
<1>1. ThereOk(t)
  BY DEF SourcesInv, ThereInv
<1>2. ThereOk(t)'
  BY <1>1 DEF ThereOk
<1>3. ASSUME NEW v \in Versions, thread'[t].m = v.m
      PROVE  Match(v, t)'
  <2>1. Match(v, t) /\ thread[t].m \in Tracked
    BY <1>3 DEF SourcesInv, MatchInv, Versions
  <2>2. CASE thread'[t].at \in {"hit", "read", "transform", "write", "insert"}
    <3>1. thread[t].at \in {"hit", "read", "transform", "write", "insert"}
      BY <2>1, <2>2
    <3>2. QED
      BY <2>1, <2>2, <3>1 DEF Match
  <2>3. CASE thread'[t].at \notin {"hit", "read", "transform", "write", "insert"}
    BY <2>3 DEF Match
  <2>4. QED
    BY <2>2, <2>3
<1>4. \A v \in Kept' : v.m \in Tracked => v \in Versions
  BY DEF Kept, Versions
<1>5. ASSUME Carries(t)', thread'[t].m \in Tracked
      PROVE  Carried(t)' \in Versions
  <2>1. Carries(t) /\ thread'[t].key = thread[t].key
    BY <1>5 DEF Carries
  <2>2. Carried(t)' = Carried(t) /\ Carried(t).m \in Tracked
    BY <1>5, <2>1 DEF Carried
  <2>3. QED
    BY <2>1, <2>2 DEF Versions
<1>6. Versions' \subseteq Versions
  BY <1>4, <1>5, NothingNew
<1>7. QED
  BY <1>2, <1>3, <1>6, StepOfThread

(* A version is an entry for a tracked module. *)
LEMMA VersionTypes ==
  ASSUME TypeInv, NEW v \in Versions
  PROVE  v \in Entries /\ v.m \in Tracked
<1>1. \A i \in 1 .. Len(shared) : shared[i] \in Entries
  BY ElementOfSeq DEF TypeInv
<1>2. ASSUME NEW u \in Threads
      PROVE  Carried(u) \in Entries
  BY DEF TypeInv, Loads, Carried, Entries
<1>3. QED
  BY <1>1, <1>2 DEF Versions, Kept

(* A load begins with the file it finds: a version under the file's times  *)
(* is that file's, or has a hash that the file's will not have.            *)
LEMMA BeginStep ==
  ASSUME SourcesInv, NEW t \in Threads, NEW m \in Modules, Begin(t, m)
  PROVE  SourcesInv'
<1> DEFINE at == IF Shareable(m) THEN "stamp" ELSE "read"
<1>1. TypeInv /\ file[m].mtime \in Nat /\ file[m].ctime \in Nat /\ file[m].text \in Texts
  BY DEF SourcesInv, TypeInv
<1>2. PICK a \in Nat, b \in Nat, x \in Texts :
        a = file[m].mtime /\ b = file[m].ctime /\ x = file[m].text
  BY <1>1
<1>3. PICK th : th = [Idle(at) EXCEPT !.m = m, !.stamp = <<a, b>>, !.there = {x}]
  OBVIOUS
<1>4. thread' = [thread EXCEPT ![t] = th] /\ UNCHANGED <<clock, file, disk, shared>>
  BY <1>2, <1>3 DEF Begin
<1>5. /\ th.at = at /\ th.m = m /\ th.stamp = <<a, b>> /\ th.there = {x}
      /\ th \in Loads
  <2>1. at \in Steps
    BY DEF Steps
  <2>2. PICK i \in Loads : i = Idle(at) /\ i.at = at
    BY <2>1, IdleLoad
  <2>3. <<a, b>> \in Stamps /\ {x} \in SUBSET Texts
    BY DEF Stamps
  <2> HIDE DEF at
  <2>4. th = [i EXCEPT !.m = m, !.stamp = <<a, b>>, !.there = {x}]
    BY <1>3, <2>2
  <2>5. QED
    BY <2>2, <2>3, <2>4 DEF Loads
<1>6. /\ thread' \in [Threads -> Loads] /\ thread'[t] = th
      /\ \A u \in Threads : u # t => thread'[u] = thread[u]
  BY <1>1, <1>4, <1>5, Put
<1>7. TypeInv' /\ DiskInv'
  BY <1>1, <1>4, <1>6 DEF SourcesInv, TypeInv, DiskInv
<1>8. ThereOk(t)'
  BY <1>2, <1>4, <1>5, <1>6 DEF ThereOk
<1>9. LoadOk(t)'
  <2>1. <<a, b>> \in Nat \X Nat
    OBVIOUS
  <2>2. QED
    BY <1>5, <1>6, <2>1 DEF LoadOk, Carries, Shareable
<1>10. StampsOk(t)'
  <2>1. m \in Tracked => at = "stamp"
    BY DEF Tracked, Shareable
  <2>2. Past(m, <<a, b>>)'
    BY <1>2, <1>4 DEF Past
  <2>3. QED
    BY <1>5, <1>6, <2>1, <2>2 DEF StampsOk
<1>11. ASSUME NEW v \in Versions, thread'[t].m = v.m
       PROVE  Match(v, t)'
  <2>1. VersionOk(v) /\ v.m = m /\ m \in Tracked
    BY <1>5, <1>6, <1>11 DEF SourcesInv, VersionInv, Versions
  <2>2. at = "stamp"
    BY <2>1 DEF Tracked
  <2>3. PICK s \in Stamped : s = v.stamp
    BY <2>1 DEF VersionOk
  <2>4. SUFFICES ASSUME a = s[1], b = s[2], v.text # x
                 PROVE  s[3] # 0 /\ x > s[3]
    BY <1>5, <1>6, <2>2, <2>3 DEF Match
  <2>5. Current(m, s)
    BY <1>2, <2>4 DEF Current
  <2>6. s[3] # 0 /\ v.text < x /\ s[3] <= v.text
    BY <1>2, <2>1, <2>3, <2>4, <2>5 DEF VersionOk
  <2>7. s[3] \in Nat /\ v.text \in Nat /\ x \in Nat
    BY <1>1, VersionTypes DEF Entries, Stamped, Texts
  <2>8. QED
    BY <2>6, <2>7
<1>12. Versions' \subseteq Versions
  <2>1. ~ Carries(t)'
    BY <1>5, <1>6 DEF Carries
  <2>2. \A v \in Kept' : v.m \in Tracked => v \in Versions
    BY <1>4 DEF Kept, Versions
  <2>3. QED
    BY <1>6, <2>1, <2>2, NothingNew
<1>13. QED
  BY <1>4, <1>6, <1>7, <1>8, <1>9, <1>10, <1>11, <1>12, StepOfThread

(* The hash is of what the file has by then, and no version is taken for   *)
(* it that is not one the file had.                                        *)
LEMMA StampStep ==
  ASSUME SourcesInv, NEW t \in Threads, Stamp(t)
  PROVE  SourcesInv'
<1>1. TypeInv /\ thread[t] \in Loads /\ LoadOk(t) /\ ThereOk(t) /\ StampsOk(t)
  BY DEF SourcesInv, TypeInv, LoadInv, ThereInv, StampInv
<1> PICK m \in Modules : m = thread[t].m
  BY <1>1 DEF Loads
<1> PICK x \in Texts : x = file[m].text
  BY <1>1 DEF TypeInv
<1>2. /\ thread[t].at = "stamp" /\ thread[t].stamp \in Nat \X Nat /\ Shareable(m)
      /\ UNCHANGED <<clock, file, disk, shared>>
  BY <1>1 DEF Stamp, LoadOk
<1>3. x \in Nat /\ x # 0 /\ x \in Texts /\ m \in Modules /\ clock \in Nat /\ Window \in Nat
  BY <1>1, Limits, TextTypes DEF TypeInv
<1>4. PICK a \in Nat, b \in Nat : thread[t].stamp = <<a, b>>
  BY <1>2
<1>5. PICK h \in Nat : h = IF clock - a < Window THEN x ELSE 0
  BY <1>3
<1>6. PICK th : th = [thread[t] EXCEPT !.stamp = <<a, b, h>>, !.at = "hit"]
  OBVIOUS
<1>7. thread' = [thread EXCEPT ![t] = th]
  <2>1. StampFrom(thread[t].stamp, x) = <<a, b, h>>
    BY <1>4, <1>5 DEF StampFrom
  <2>2. thread' = [thread EXCEPT ![t].stamp = StampFrom(@, x), ![t].at = "hit"]
    BY DEF Stamp
  <2>3. QED
    BY <1>1, <1>6, <2>1, <2>2 DEF TypeInv
<1>8. /\ th.at = "hit" /\ th.m = m /\ th.stamp = <<a, b, h>> /\ th.there = thread[t].there
      /\ th \in Loads
  <2>1. <<a, b, h>> \in Stamps
    BY DEF Stamps, Stamped
  <2>2. QED
    BY <1>1, <1>6, <2>1 DEF Loads, Steps
<1>9. /\ thread' \in [Threads -> Loads] /\ thread'[t] = th
      /\ \A u \in Threads : u # t => thread'[u] = thread[u]
  BY <1>1, <1>7, <1>8, Put
<1>10. TypeInv' /\ DiskInv'
  BY <1>1, <1>2, <1>9 DEF SourcesInv, TypeInv, DiskInv
<1>11. ThereOk(t)'
  BY <1>1, <1>2, <1>8, <1>9 DEF ThereOk
<1>12. LoadOk(t)'
  <2>1. <<a, b, h>> \in Stamped
    BY DEF Stamped
  <2>2. QED
    BY <1>2, <1>8, <1>9, <2>1 DEF LoadOk, Carries, Shareable
<1>13. StampsOk(t)'
  <2>1. SUFFICES ASSUME m \in Tracked
                 PROVE  StampOk(m, <<a, b, h>>)'
    BY <1>8, <1>9 DEF StampsOk, Tracked, Shareable
  <2>2. Past(m, <<a, b>>)
    BY <1>1, <1>2, <1>4, <2>1 DEF StampsOk
  <2>3. a <= file[m].mtime /\ b <= file[m].ctime
    BY <2>2 DEF Past
  <2>4. h = 0 => clock - a >= Window
    BY <1>3, <1>5
  <2>5. h # 0 => h <= x
    BY <1>3, <1>5
  <2>6. QED
    BY <1>2, <2>3, <2>4, <2>5 DEF StampOk, Past, Current
<1>14. ASSUME NEW v \in Versions, thread'[t].m = v.m
       PROVE  Match(v, t)'
  <2>1. /\ Match(v, t) /\ VersionOk(v) /\ v \in Entries
    BY <1>1, <1>8, <1>9, <1>14, VersionTypes DEF SourcesInv, MatchInv, VersionInv
  <2>2. PICK s \in Stamped : s = v.stamp
    BY <2>1 DEF VersionOk
  <2>3. SUFFICES ASSUME s = <<a, b, h>>
                 PROVE  v.text \in thread[t].there
    BY <1>8, <1>9, <2>2 DEF Match
  <2>4. s[1] = a /\ s[2] = b /\ s[3] = h
    BY <2>3
  <2>5. \/ v.text \in thread[t].there
        \/ h # 0 /\ (clock - a >= Window \/ \A y \in thread[t].there : y > h)
    BY <1>2, <1>4, <2>1, <2>2, <2>4 DEF Match
  <2>6. x \in thread[t].there
    BY <1>1, <1>2 DEF ThereOk
  <2>7. h # 0 => h = x /\ ~ (clock - a >= Window)
    BY <1>3, <1>5
  <2>8. ~ (x > x)
    BY <1>3
  <2>9. QED
    BY <2>5, <2>6, <2>7, <2>8
<1>15. Versions' \subseteq Versions
  <2>1. ~ Carries(t)'
    BY <1>8, <1>9 DEF Carries
  <2>2. \A v \in Kept' : v.m \in Tracked => v \in Versions
    BY <1>2 DEF Kept, Versions
  <2>3. QED
    BY <1>9, <2>1, <2>2, NothingNew
<1>16. QED
  BY <1>2, <1>9, <1>10, <1>11, <1>12, <1>13, <1>14, <1>15, StepOfThread

(* What is taken from the sources kept is one of the versions kept.        *)
LEMMA TakeStep ==
  ASSUME SourcesInv, NEW t \in Threads, thread[t].at \in {"hit", "insert"},
         NEW i \in Hits(t), TakeShared(t, i), UNCHANGED <<clock, file, disk>>
  PROVE  SourcesInv'
<1>1. TypeInv /\ thread[t] \in Loads /\ LoadOk(t)
  BY DEF SourcesInv, TypeInv, LoadInv
<1>2. i \in 1 .. Len(shared) /\ shared \in Seq(Entries)
  BY <1>1 DEF Hits, TypeInv
<1>3. PICK e \in Entries : e = shared[i]
  BY <1>2, ElementOfSeq
<1>4. e.m = thread[t].m /\ e.stamp = thread[t].stamp
  BY <1>3 DEF Hits
<1>5. PICK th : th = [thread[t] EXCEPT !.text = e.text, !.at = "compile"]
  OBVIOUS
<1>6. thread' = [thread EXCEPT ![t] = th]
  BY <1>1, <1>3, <1>5 DEF TakeShared, TypeInv
<1>7. /\ th.at = "compile" /\ th.m = thread[t].m /\ th.there = thread[t].there
      /\ th.text = e.text /\ th \in Loads
  BY <1>1, <1>5 DEF Loads, Steps, Entries
<1>8. /\ thread' \in [Threads -> Loads] /\ thread'[t] = th
      /\ \A u \in Threads : u # t => thread'[u] = thread[u]
  BY <1>1, <1>6, <1>7, Put
<1>9. /\ shared' \in Seq(Entries)
      /\ \A j \in 1 .. Len(shared') : \E k \in 1 .. Len(shared) : shared'[j] = shared[k]
  BY <1>2, Moved DEF TakeShared
<1>10. TypeInv' /\ DiskInv'
  BY <1>1, <1>8, <1>9 DEF SourcesInv, TypeInv, DiskInv
<1>11. Kept' \subseteq Kept
  BY <1>9 DEF Kept
<1>12. \A v \in Kept' : v.m \in Tracked => v \in Versions
  BY <1>11 DEF Versions
<1>13. Shareable(thread[t].m) /\ thread[t].m \notin Esm
  BY <1>1 DEF LoadOk, Shareable
<1>14. thread[t].m \notin Esbuild => e.text \in thread[t].there
  <2>1. SUFFICES ASSUME thread[t].m \notin Esbuild
                 PROVE  e.text \in thread[t].there
    OBVIOUS
  <2>2. thread[t].m \in Modules
    BY <1>1 DEF Loads
  <2>3. e \in Versions
    BY <1>2, <1>3, <1>4, <1>13, <2>1, <2>2 DEF Versions, Kept, Tracked
  <2>4. Match(e, t)
    BY <1>4, <2>3 DEF SourcesInv, MatchInv
  <2>5. QED
    BY <1>4, <2>4 DEF Match
<1>15. QED
  BY <1>7, <1>8, <1>10, <1>12, <1>13, <1>14, EntersCompile

LEMMA HitStep ==
  ASSUME SourcesInv, NEW t \in Threads, Hit(t)
  PROVE  SourcesInv'
<1>1. thread[t].at = "hit" /\ UNCHANGED <<clock, file, disk>>
  BY DEF Hit
<1>2. CASE \E i \in Hits(t) : TakeShared(t, i)
  BY <1>1, <1>2, TakeStep
<1>3. CASE Goto(t, "read") /\ UNCHANGED shared
  <2>1. TypeInv /\ thread[t] \in Loads /\ LoadOk(t) /\ StampsOk(t)
    BY DEF SourcesInv, TypeInv, LoadInv, StampInv
  <2>2. PICK th : th = [thread[t] EXCEPT !.at = "read"]
    OBVIOUS
  <2>3. thread' = [thread EXCEPT ![t] = th]
    BY <1>3, <2>2 DEF Goto
  <2>4. /\ th.at = "read" /\ th.m = thread[t].m /\ th.there = thread[t].there
        /\ th.stamp = thread[t].stamp /\ th \in Loads
    BY <2>1, <2>2 DEF Loads, Steps
  <2>5. /\ thread' \in [Threads -> Loads] /\ thread'[t] = th
        /\ \A u \in Threads : u # t => thread'[u] = thread[u]
    BY <2>1, <2>3, <2>4, Put
  <2>6. TypeInv' /\ DiskInv'
    BY <1>1, <1>3, <2>1, <2>5 DEF SourcesInv, TypeInv, DiskInv
  <2>7. LoadOk(t)'
    BY <1>1, <2>1, <2>4, <2>5 DEF LoadOk, Carries, Shareable
  <2>8. StampsOk(t)'
    BY <1>1, <2>1, <2>4, <2>5 DEF StampsOk, StampOk, Past, Current, Tracked, Shareable
  <2>9. ~ Carries(t)'
    BY <2>4, <2>5 DEF Carries
  <2>10. QED
    BY <1>1, <1>3, <2>4, <2>5, <2>6, <2>7, <2>8, <2>9, GoesOn
<1>4. QED
  BY <1>2, <1>3 DEF Hit

(* The text that is read is a version that no stamp contradicts.           *)
LEMMA ReadStep ==
  ASSUME SourcesInv, NEW t \in Threads, Read(t)
  PROVE  SourcesInv'
<1>1. TypeInv /\ thread[t] \in Loads /\ LoadOk(t) /\ ThereOk(t) /\ StampsOk(t)
  BY DEF SourcesInv, TypeInv, LoadInv, ThereInv, StampInv
<1> PICK m \in Modules : m = thread[t].m
  BY <1>1 DEF Loads
<1> PICK x \in Texts : x = file[m].text
  BY <1>1 DEF TypeInv
<1> PICK d \in Nat : d = disk[m][x]
  BY <1>1 DEF TypeInv
<1> PICK s \in Stamps : s = thread[t].stamp
  BY <1>1 DEF Loads
<1> DEFINE at == IF d = Missing THEN "transform" ELSE Loaded(m)
<1>2. /\ thread[t].at = "read" /\ UNCHANGED <<clock, file, disk, shared>>
      /\ thread' = [thread EXCEPT ![t].key = x, ![t].text = d, ![t].at = at]
  BY DEF Read
<1>3. /\ at \in {"transform", "insert", "loaded", "compile"}
      /\ at = "insert" => Shareable(m)
      /\ at = "loaded" => m \in Esm
      /\ at = "compile" => m \notin Esm
      /\ at # "transform" => d # Missing
  BY DEF Loaded, Shareable
<1> HIDE DEF at
<1>4. PICK th : th = [thread[t] EXCEPT !.key = x, !.text = d, !.at = at]
  OBVIOUS
<1>5. thread' = [thread EXCEPT ![t] = th]
  BY <1>1, <1>2, <1>4 DEF TypeInv
<1>6. /\ th.at = at /\ th.m = m /\ th.stamp = s /\ th.there = thread[t].there
      /\ th.key = x /\ th.text = d /\ th \in Loads
  <2>1. at \in Steps /\ x \in Nat /\ d \in Nat
    BY <1>3 DEF Steps, Texts
  <2>2. QED
    BY <1>1, <1>4, <2>1 DEF Loads
<1>7. /\ thread' \in [Threads -> Loads] /\ thread'[t] = th
      /\ \A u \in Threads : u # t => thread'[u] = thread[u]
  BY <1>1, <1>5, <1>6, Put
<1>8. TypeInv' /\ DiskInv'
  BY <1>1, <1>2, <1>7 DEF SourcesInv, TypeInv, DiskInv
<1>9. x \in thread[t].there
  BY <1>1, <1>2 DEF ThereOk
<1>10. ThereOk(t)'
  <2>1. thread'[t].at \notin {"idle", "file"} /\ thread'[t].m = m
    BY <1>3, <1>6, <1>7
  <2>2. file'[m].text \in thread'[t].there
    BY <1>2, <1>6, <1>7, <1>9
  <2>3. QED
    BY <2>1, <2>2 DEF ThereOk
<1>11. m \notin Esm \union Esbuild => d \in {Missing, x}
  BY DEF SourcesInv, DiskInv
<1>12. LoadOk(t)'
  <2>1. Shareable(m) => s \in Stamped
    BY <1>1, <1>2 DEF LoadOk
  <2>2. at = "insert" => m \notin Esm
    BY <1>3 DEF Shareable
  <2>3. m \notin Esbuild /\ at \in {"insert", "compile"} => d = x
    BY <1>3, <1>11, <2>2
  <2>4. QED
    BY <1>3, <1>6, <1>7, <1>9, <2>1, <2>3 DEF LoadOk, Carries, Shareable
<1>13. StampsOk(t)'
  BY <1>3, <1>6, <1>7 DEF StampsOk
<1>14. ASSUME NEW v \in Versions, thread'[t].m = v.m
       PROVE  Match(v, t)'
  <2>1. Match(v, t)
    BY <1>6, <1>7, <1>14 DEF SourcesInv, MatchInv
  <2>2. QED
    BY <1>2, <1>3, <1>6, <1>7, <2>1 DEF Match
<1>15. PICK w : w = [m |-> m, stamp |-> s, text |-> x]
  OBVIOUS
<1>16. Carried(t)' = w
  BY <1>6, <1>7, <1>15 DEF Carried
<1>17. ASSUME NEW v \in Versions', v \notin Versions
       PROVE  v = w /\ m \in Tracked
  <2>1. v.m \in Tracked
    BY <1>17 DEF Versions, Tracked, Shareable
  <2>2. v \notin Kept'
    BY <1>2, <1>17, <2>1 DEF Kept, Versions
  <2>3. PICK u \in Threads : Carries(u)' /\ v = Carried(u)'
    BY <1>17, <2>2 DEF Versions
  <2>4. CASE u # t
    <3>1. Carries(u) /\ v = Carried(u)
      BY <1>7, <2>3, <2>4 DEF Carries, Carried
    <3>2. QED
      BY <1>17, <2>1, <3>1 DEF Versions
  <2>5. CASE u = t
    BY <1>15, <1>16, <2>1, <2>3, <2>5
  <2>6. QED
    BY <2>4, <2>5
<1>18. ASSUME m \in Tracked
       PROVE  VersionOk(w)' /\ \A u \in Threads : thread'[u].m = w.m => Match(w, u)'
  <2>1. StampOk(m, s) /\ s \in Stamped
    BY <1>1, <1>2, <1>18 DEF StampsOk, LoadOk, Tracked
  <2>2. VersionOk(w)
    BY <1>15, <2>1 DEF VersionOk, StampOk
  <2>3. VersionOk(w)'
    BY <1>2, <1>15, <2>2 DEF VersionOk, Past, Current
  <2>4. ASSUME NEW u \in Threads, thread'[u].m = m, thread'[u].at \notin {"idle", "file"}
        PROVE  x \in thread'[u].there
    <3>1. CASE u = t
      BY <1>6, <1>7, <1>9, <3>1
    <3>2. CASE u # t
      BY <1>7, <2>4, <3>2 DEF SourcesInv, ThereInv, ThereOk
    <3>3. QED
      BY <3>1, <3>2
  <2>5. ASSUME NEW u \in Threads, thread'[u].m = w.m
        PROVE  Match(w, u)'
    <3>1. thread'[u].m = m /\ w.text = x
      BY <1>15, <2>5
    <3>2. thread'[u].at \notin {"idle", "file"} => x \in thread'[u].there
      BY <2>4, <3>1
    <3>3. QED
      BY <3>1, <3>2 DEF Match
  <2>6. QED
    BY <2>3, <2>5
<1>19. \A v \in Versions' :
         v \in Versions \/ (/\ VersionOk(v)'
                            /\ \A u \in Threads : thread'[u].m = v.m => Match(v, u)')
  BY <1>17, <1>18
<1>20. QED
  BY <1>2, <1>7, <1>8, <1>10, <1>12, <1>13, <1>14, <1>19, StepOfThread

(* The transform's text is that of what was read, but for esbuild's files. *)
LEMMA TransformStep ==
  ASSUME SourcesInv, NEW t \in Threads, Transform(t) \/ TransformByName(t)
  PROVE  SourcesInv'
<1>1. TypeInv /\ thread[t] \in Loads /\ LoadOk(t)
  BY DEF SourcesInv, TypeInv, LoadInv
<1>2. thread[t].m \in Modules /\ file[thread[t].m].text \in Nat /\ thread[t].key \in Nat
  BY <1>1 DEF TypeInv, Loads, Texts
<1>3. PICK x \in Nat : Transformed(t, x) /\ (thread[t].m \notin Esbuild => x = thread[t].key)
  BY <1>2 DEF Transform, TransformByName
<1>4. thread[t].at = "transform" /\ UNCHANGED <<clock, file, disk, shared>>
  BY <1>3 DEF Transformed
<1>5. PICK th : th = [thread[t] EXCEPT !.text = x, !.at = "write"]
  OBVIOUS
<1>6. thread' = [thread EXCEPT ![t] = th]
  BY <1>1, <1>3, <1>5 DEF TypeInv, Transformed
<1>7. /\ th.at = "write" /\ th.m = thread[t].m /\ th.stamp = thread[t].stamp
      /\ th.there = thread[t].there /\ th.key = thread[t].key /\ th.text = x /\ th \in Loads
  BY <1>1, <1>5 DEF Loads, Steps
<1>8. /\ thread' \in [Threads -> Loads] /\ thread'[t] = th
      /\ \A u \in Threads : u # t => thread'[u] = thread[u]
  BY <1>1, <1>6, <1>7, Put
<1>9. TypeInv' /\ DiskInv'
  BY <1>1, <1>4, <1>8 DEF SourcesInv, TypeInv, DiskInv
<1>10. LoadOk(t)'
  BY <1>1, <1>3, <1>4, <1>7, <1>8 DEF LoadOk, Carries, Shareable
<1>11. StampsOk(t)'
  BY <1>7, <1>8 DEF StampsOk
<1>12. Carries(t)
  BY <1>4 DEF Carries
<1>13. QED
  BY <1>4, <1>7, <1>8, <1>9, <1>10, <1>11, <1>12, GoesOn

(* What is written to disk under a text is the transform of that text.     *)
LEMMA WriteTransformStep ==
  ASSUME SourcesInv, NEW t \in Threads, Publish(t) \/ WriteRest(t)
  PROVE  SourcesInv'
<1>1. TypeInv /\ thread[t] \in Loads /\ LoadOk(t)
  BY DEF SourcesInv, TypeInv, LoadInv
<1> PICK m \in Modules : m = thread[t].m
  BY <1>1 DEF Loads
<1> PICK k \in Nat : k = thread[t].key
  BY <1>1 DEF Loads
<1> PICK x \in Nat : x = thread[t].text
  BY <1>1 DEF Loads
<1> PICK at : at = Loaded(m)
  OBVIOUS
<1>2. /\ disk' = [disk EXCEPT ![m][k] = x] /\ UNCHANGED <<clock, file, shared>>
      /\ Goto(t, at)
      /\ \/ thread[t].at = "write" /\ m \notin Esm
         \/ thread[t].at = "rest" /\ m \in Esm
  BY <1>1 DEF Publish, WriteRest, LoadOk
<1>3. /\ at \in {"insert", "loaded", "compile"}
      /\ at = "insert" => Shareable(m)
      /\ at = "loaded" => m \in Esm
      /\ at = "compile" => m \notin Esm
  BY DEF Loaded, Shareable
<1>4. PICK th : th = [thread[t] EXCEPT !.at = at]
  OBVIOUS
<1>5. thread' = [thread EXCEPT ![t] = th]
  BY <1>2, <1>3, <1>4 DEF Goto
<1>6. /\ th.at = at /\ th.m = m /\ th.stamp = thread[t].stamp
      /\ th.there = thread[t].there /\ th.key = k /\ th.text = x /\ th \in Loads
  BY <1>1, <1>3, <1>4 DEF Loads, Steps
<1>7. /\ thread' \in [Threads -> Loads] /\ thread'[t] = th
      /\ \A u \in Threads : u # t => thread'[u] = thread[u]
  BY <1>1, <1>5, <1>6, Put
<1>8. disk' \in [Modules -> [Texts -> Nat]]
  BY <1>1, <1>2 DEF TypeInv
<1>9. TypeInv'
  BY <1>1, <1>2, <1>7, <1>8 DEF TypeInv
<1>10. m \notin Esm \union Esbuild => x = k
  BY <1>1, <1>2 DEF LoadOk
<1>11. DiskInv'
  <2>1. SUFFICES ASSUME NEW n \in Modules \ (Esm \union Esbuild), NEW y \in Texts
                 PROVE  disk'[n][y] \in {Missing, y}
    BY DEF DiskInv
  <2>2. disk[n][y] \in {Missing, y}
    BY DEF SourcesInv, DiskInv
  <2>3. CASE n = m /\ y = k
    <3>1. disk'[n][y] = x
      BY <1>1, <1>2, <2>3 DEF TypeInv
    <3>2. QED
      BY <1>10, <2>3, <3>1
  <2>4. CASE ~ (n = m /\ y = k)
    <3>1. disk'[n][y] = disk[n][y]
      BY <1>1, <1>2, <2>4 DEF TypeInv
    <3>2. QED
      BY <2>2, <3>1
  <2>5. QED
    BY <2>3, <2>4
<1>12. LoadOk(t)'
  <2>1. at = "insert" => thread[t].at = "write"
    BY <1>2, <1>3 DEF Shareable
  <2>2. at = "compile" => thread[t].at = "write"
    BY <1>2, <1>3
  <2>3. QED
    BY <1>1, <1>3, <1>6, <1>7, <2>1, <2>2 DEF LoadOk, Carries, Shareable
<1>13. StampsOk(t)'
  BY <1>3, <1>6, <1>7 DEF StampsOk
<1>14. Carries(t)' => thread[t].at = "write"
  BY <1>2, <1>3, <1>6, <1>7 DEF Carries, Shareable
<1>15. thread'[t].at \in {"hit", "read", "transform", "write", "insert"} =>
         /\ thread[t].at \in {"hit", "read", "transform", "write", "insert"}
         /\ Carries(t)' => Carries(t) /\ thread'[t].key = thread[t].key
  BY <1>3, <1>6, <1>7, <1>14 DEF Carries
<1>16. QED
  BY <1>2, <1>3, <1>6, <1>7, <1>9, <1>11, <1>12, <1>13, <1>15, GoesOn

(* A file of the ES module path that is there before its contents are.     *)
LEMMA WriteEsmStep ==
  ASSUME SourcesInv, NEW t \in Threads, WriteEsm(t)
  PROVE  SourcesInv'
<1>1. TypeInv /\ thread[t] \in Loads /\ LoadOk(t)
  BY DEF SourcesInv, TypeInv, LoadInv
<1> PICK m \in Modules : m = thread[t].m
  BY <1>1 DEF Loads
<1>2. /\ disk' = [disk EXCEPT ![m][thread[t].key] = Part]
      /\ UNCHANGED <<clock, file, shared>>
      /\ Goto(t, "rest") /\ thread[t].at = "write" /\ m \in Esm
  BY DEF WriteEsm
<1>3. PICK th : th = [thread[t] EXCEPT !.at = "rest"]
  OBVIOUS
<1>4. thread' = [thread EXCEPT ![t] = th]
  BY <1>2, <1>3 DEF Goto
<1>5. /\ th.at = "rest" /\ th.m = m /\ th.stamp = thread[t].stamp
      /\ th.there = thread[t].there /\ th \in Loads
  BY <1>1, <1>3 DEF Loads, Steps
<1>6. /\ thread' \in [Threads -> Loads] /\ thread'[t] = th
      /\ \A u \in Threads : u # t => thread'[u] = thread[u]
  BY <1>1, <1>4, <1>5, Put
<1>7. Part \in Nat
  BY CacheAssumption DEF Part
<1>8. disk' \in [Modules -> [Texts -> Nat]]
  BY <1>1, <1>2, <1>7 DEF TypeInv
<1>9. TypeInv'
  BY <1>1, <1>2, <1>6, <1>8 DEF TypeInv
<1>10. DiskInv'
  BY <1>1, <1>2 DEF SourcesInv, TypeInv, DiskInv
<1>11. LoadOk(t)'
  BY <1>2, <1>5, <1>6 DEF LoadOk, Carries
<1>12. StampsOk(t)'
  BY <1>5, <1>6 DEF StampsOk
<1>13. QED
  BY <1>2, <1>5, <1>6, <1>9, <1>10, <1>11, <1>12, GoesOn

(* What is kept is the version that the load carried.                      *)
LEMMA InsertStep ==
  ASSUME SourcesInv, Cardinality(AppSources(shared)) <= Cap, NEW t \in Threads, Insert(t)
  PROVE  SourcesInv'
<1>1. TypeInv /\ thread[t] \in Loads /\ LoadOk(t) /\ shared \in Seq(Entries)
  BY DEF SourcesInv, TypeInv, LoadInv
<1>2. thread[t].at = "insert" /\ UNCHANGED <<clock, file, disk>>
  BY DEF Insert
<1>3. CASE \E i \in Hits(t) : TakeShared(t, i)
  BY <1>2, <1>3, TakeStep
<1>4. CASE ~ \E i \in Hits(t) : TakeShared(t, i)
  <2> PICK m \in Modules : m = thread[t].m
    BY <1>1 DEF Loads
  <2>1. PICK e : e = [m |-> m, stamp |-> EntryStamp(t), text |-> thread[t].text]
    OBVIOUS
  <2>2. e \in Entries /\ e.m = m /\ e.stamp = thread[t].stamp /\ e.text = thread[t].text
    BY <1>1, <2>1 DEF Entries, Loads, EntryStamp
  <2>3. /\ shared' = IF m \in App THEN Capped(Append(Others(m), e)) ELSE Append(Others(m), e)
        /\ Goto(t, "compile")
    BY <1>4, <2>1 DEF Insert
  <2>4. /\ shared' \in Seq(Entries)
        /\ \A j \in 1 .. Len(shared') :
             shared'[j] = e \/ \E k \in 1 .. Len(shared) : shared'[j] = shared[k]
    BY <1>1, <2>2, <2>3, KeepingOne
  <2>5. PICK th : th = [thread[t] EXCEPT !.at = "compile"]
    OBVIOUS
  <2>6. thread' = [thread EXCEPT ![t] = th]
    BY <2>3, <2>5 DEF Goto
  <2>7. /\ th.at = "compile" /\ th.m = m /\ th.there = thread[t].there
        /\ th.text = thread[t].text /\ th \in Loads
    BY <1>1, <2>5 DEF Loads, Steps
  <2>8. /\ thread' \in [Threads -> Loads] /\ thread'[t] = th
        /\ \A u \in Threads : u # t => thread'[u] = thread[u]
    BY <1>1, <2>6, <2>7, Put
  <2>9. TypeInv' /\ DiskInv'
    BY <1>1, <1>2, <2>4, <2>8 DEF SourcesInv, TypeInv, DiskInv
  <2>10. m \notin Esm /\ (m \notin Esbuild => thread[t].text = thread[t].key
                                              /\ thread[t].key \in thread[t].there)
    BY <1>1, <1>2 DEF LoadOk, Shareable, Carries
  <2>11. ASSUME NEW v \in Kept', v.m \in Tracked
         PROVE  v \in Versions
    <3>1. v = e \/ v \in Kept
      BY <2>4 DEF Kept
    <3>2. CASE v \in Kept
      BY <2>11, <3>2 DEF Versions
    <3>3. CASE v = e
      <4>1. m \notin Esbuild
        BY <2>2, <2>11, <3>3 DEF Tracked
      <4>2. v = Carried(t)
        BY <2>1, <2>10, <3>3, <4>1 DEF Carried, EntryStamp
      <4>3. Carries(t)
        BY <1>2 DEF Carries
      <4>4. QED
        BY <2>11, <4>2, <4>3 DEF Versions
    <3>4. QED
      BY <3>1, <3>2, <3>3
  <2>12. QED
    BY <1>2, <2>7, <2>8, <2>9, <2>10, <2>11, EntersCompile
<1>5. QED
  BY <1>3, <1>4

(* The process's end leaves the files and the disk. *)
LEMMA KillStep ==
  ASSUME SourcesInv, Kill
  PROVE  SourcesInv'
<1>1. TypeInv
  BY DEF SourcesInv
<1>2. PICK i \in Loads : i = Idle("idle") /\ i.at = "idle" /\ i.there = {}
  <2>1. "idle" \in Steps
    BY DEF Steps
  <2>2. QED
    BY <2>1, IdleLoad
<1>3. /\ thread' = [t \in Threads |-> i] /\ shared' = <<>>
      /\ UNCHANGED <<clock, file, disk>>
  BY <1>2 DEF Kill
<1>4. TypeInv'
  BY <1>1, <1>3 DEF TypeInv
<1>5. \A t \in Threads : thread'[t] = i
  BY <1>3
<1>6. ClockInv' /\ DiskInv'
  BY <1>3 DEF SourcesInv, ClockInv, DiskInv
<1>7. ASSUME NEW t \in Threads
      PROVE  ThereOk(t)' /\ LoadOk(t)' /\ StampsOk(t)' /\ ~ Carries(t)'
  BY <1>2, <1>5 DEF ThereOk, LoadOk, StampsOk, Carries
<1>8. Versions' = {}
  BY <1>3, <1>7 DEF Versions, Kept
<1>9. ThereInv' /\ LoadInv' /\ StampInv' /\ VersionInv' /\ MatchInv'
  BY <1>7, <1>8 DEF ThereInv, LoadInv, StampInv, VersionInv, MatchInv
<1>10. QED
  BY <1>4, <1>6, <1>9 DEF SourcesInv

(* Time goes by: what was left alone for Window stays so. *)
LEMMA TickStep ==
  ASSUME SourcesInv, Tick
  PROVE  SourcesInv'
<1>1. TypeInv /\ clock \in Nat /\ Window \in Nat /\ clock' = clock + 1
      /\ UNCHANGED <<file, disk, shared, thread>>
  BY CacheAssumption DEF SourcesInv, Tick, TypeInv
<1>2. TypeInv'
  BY <1>1 DEF TypeInv
<1>3. ClockInv'
  <2>1. SUFFICES ASSUME NEW m \in Modules
                 PROVE  file[m].mtime <= file[m].ctime /\ file[m].ctime <= Shown(clock + 1)
    BY <1>1 DEF ClockInv
  <2>2. file[m].mtime <= file[m].ctime /\ file[m].ctime <= Shown(clock)
    BY DEF SourcesInv, ClockInv
  <2>3. Shown(clock) \in Nat /\ Shown(clock + 1) \in Nat /\ Shown(clock) <= Shown(clock + 1)
    BY <1>1, ShownTime, ShownGrows
  <2>4. file[m].ctime \in Nat
    BY <1>1 DEF TypeInv
  <2>5. QED
    BY <2>2, <2>3, <2>4
<1>4. Versions' = Versions
  BY <1>1 DEF Versions, Kept, Carried, Carries, Tracked, Shareable
<1>5. \A n \in Nat : clock - n >= Window => clock' - n >= Window
  BY <1>1
<1>6. ThereInv' /\ DiskInv' /\ LoadInv'
  <2>1. ASSUME NEW t \in Threads
        PROVE  ThereOk(t)' /\ LoadOk(t)'
    <3>1. ThereOk(t) /\ LoadOk(t)
      BY DEF SourcesInv, ThereInv, LoadInv
    <3>2. ThereOk(t)'
      BY <1>1, <3>1 DEF ThereOk
    <3>3. LoadOk(t)'
      BY <1>1, <3>1 DEF LoadOk, Carries, Shareable
    <3>4. QED
      BY <3>2, <3>3
  <2>2. QED
    BY <1>1, <2>1 DEF SourcesInv, ThereInv, DiskInv, LoadInv
<1>7. StampInv'
  <2>1. SUFFICES ASSUME NEW t \in Threads
                 PROVE  StampsOk(t)'
    BY DEF StampInv
  <2>2. StampsOk(t) /\ LoadOk(t)
    BY DEF SourcesInv, StampInv, LoadInv
  <2>3. thread[t].m \in Tracked /\ thread[t].at \in {"hit", "read"} =>
          thread[t].stamp[1] \in Nat
    BY <2>2 DEF LoadOk, Tracked, Stamped
  <2>4. QED
    BY <1>1, <1>5, <2>2, <2>3 DEF StampsOk, StampOk, Past, Current, Tracked, Shareable
<1>8. VersionInv'
  <2>1. SUFFICES ASSUME NEW v \in Versions
                 PROVE  VersionOk(v)'
    BY <1>4 DEF VersionInv
  <2>2. VersionOk(v)
    BY DEF SourcesInv, VersionInv
  <2>3. v.stamp[1] \in Nat
    BY <2>2 DEF VersionOk, Stamped
  <2>4. QED
    BY <1>1, <1>5, <2>2, <2>3 DEF VersionOk, Past, Current
<1>9. MatchInv'
  <2>1. SUFFICES ASSUME NEW v \in Versions, NEW t \in Threads, thread[t].m = v.m
                 PROVE  Match(v, t)'
    BY <1>1, <1>4 DEF MatchInv
  <2>2. Match(v, t) /\ VersionOk(v)
    BY <2>1 DEF SourcesInv, MatchInv, VersionInv
  <2>3. v.stamp[1] \in Nat
    BY <2>2 DEF VersionOk, Stamped
  <2>4. QED
    BY <1>1, <1>5, <2>2, <2>3 DEF Match
<1>10. QED
  BY <1>2, <1>3, <1>6, <1>7, <1>8, <1>9 DEF SourcesInv

-----------------------------------------------------------------------------
(* A file is written                                                       *)

(* The times that a write gives a file: they do not go back, and a stamp   *)
(* of the file's past that has them had them before the write, less than   *)
(* Window ago, so that the version is a later one.                         *)
LEMMA WriteTimes ==
  ASSUME SourcesInv, NEW m \in Modules, NEW x \in Texts, NEW mtime,
         mtime = Shown(clock) \/ (mtime = file[m].mtime /\ Shown(clock) # file[m].ctime),
         Write(m, x, mtime)
  PROVE  /\ mtime \in Nat
         /\ file[m].mtime <= mtime /\ file[m].ctime <= Shown(clock) /\ mtime <= Shown(clock)
         /\ file'[m] = [text |-> x, mtime |-> mtime, ctime |-> Shown(clock)]
         /\ \A n \in Modules : n # m => file'[n] = file[n]
         /\ \A s : s[1] \in Nat /\ s[2] \in Nat /\ Past(m, s) => Past(m, s)'
         /\ \A s \in Stamped : Past(m, s) /\ Current(m, s)' =>
              Current(m, s) /\ file[m].text < x /\ clock - s[1] < Window
<1>1. TypeInv /\ clock \in Nat /\ {Grain, Window} \subseteq Nat /\ Grain <= Window
  BY CacheAssumption DEF SourcesInv, TypeInv
<1>2. PICK c \in Nat : c = Shown(clock) /\ clock - c < Grain
  BY <1>1, ShownTime
<1>3. PICK a \in Nat, b \in Nat, y \in Nat :
        a = file[m].mtime /\ b = file[m].ctime /\ y = file[m].text
  BY <1>1 DEF TypeInv, Texts
<1>4. a <= b /\ b <= c
  BY <1>2, <1>3 DEF SourcesInv, ClockInv
<1>5. mtime = c \/ (mtime = a /\ c # b)
  BY <1>2, <1>3
<1>6. mtime \in Nat /\ a <= mtime /\ mtime <= c
  BY <1>4, <1>5
<1>7. x > y \/ clock - a >= Window
  BY <1>3 DEF Write
<1>8. /\ file'[m] = [text |-> x, mtime |-> mtime, ctime |-> c]
      /\ \A n \in Modules : n # m => file'[n] = file[n]
  BY <1>1, <1>2 DEF Write, TypeInv
<1>9. file'[m].mtime = mtime /\ file'[m].ctime = c
  BY <1>8
<1>10. ASSUME NEW s \in Stamped, Past(m, s), Current(m, s)'
       PROVE  Current(m, s) /\ y < x /\ clock - s[1] < Window
  <2>1. s[1] \in Nat /\ s[2] \in Nat
    BY DEF Stamped
  <2>2. s[1] <= a /\ s[2] <= b
    BY <1>3, <1>10 DEF Past
  <2>3. s[1] = mtime /\ s[2] = c
    BY <1>9, <1>10 DEF Current
  <2>4. c = b /\ mtime = c /\ s[1] = a /\ a = c
    BY <1>4, <1>5, <2>1, <2>2, <2>3
  <2>5. clock - s[1] < Window
    BY <1>1, <1>2, <2>4
  <2>6. y < x
    BY <1>1, <1>2, <1>7, <2>4 DEF Texts
  <2>7. QED
    BY <1>3, <2>3, <2>4, <2>5, <2>6 DEF Current
<1>11. ASSUME NEW s, s[1] \in Nat, s[2] \in Nat, Past(m, s)
       PROVE  Past(m, s)'
  <2>1. s[1] <= a /\ s[2] <= b
    BY <1>3, <1>11 DEF Past
  <2>2. s[1] <= mtime /\ s[2] <= c
    BY <1>4, <1>6, <1>11, <2>1
  <2>3. QED
    BY <1>9, <2>2 DEF Past
<1>12. QED
  BY <1>2, <1>3, <1>4, <1>6, <1>8, <1>10, <1>11

(* A write adds to what the file had since the loads of it began; the      *)
(* versions are those there were.                                          *)
LEMMA WriteLoads ==
  ASSUME TypeInv, NEW m \in Modules, NEW x \in Texts, NEW mtime, Write(m, x, mtime)
  PROVE  /\ thread' \in [Threads -> Loads]
         /\ \A t \in Threads :
              /\ thread'[t].at = thread[t].at /\ thread'[t].m = thread[t].m
              /\ thread'[t].stamp = thread[t].stamp
              /\ thread'[t].key = thread[t].key /\ thread'[t].text = thread[t].text
              /\ thread'[t].there =
                   IF thread[t].m = m /\ thread[t].there # {} THEN thread[t].there \union {x}
                   ELSE thread[t].there
         /\ Versions' = Versions
<1>1. thread' = [t \in Threads |->
         IF thread[t].m = m /\ thread[t].there # {}
           THEN [thread[t] EXCEPT !.there = @ \union {x}] ELSE thread[t]]
      /\ shared' = shared
  BY DEF Write
<1>2. ASSUME NEW t \in Threads
      PROVE  /\ thread'[t] \in Loads
             /\ thread'[t].at = thread[t].at /\ thread'[t].m = thread[t].m
             /\ thread'[t].stamp = thread[t].stamp
             /\ thread'[t].key = thread[t].key /\ thread'[t].text = thread[t].text
             /\ thread'[t].there =
                  IF thread[t].m = m /\ thread[t].there # {} THEN thread[t].there \union {x}
                  ELSE thread[t].there
  <2>1. PICK th \in Loads : th = thread[t]
    BY DEF TypeInv
  <2>2. thread'[t] = IF th.m = m /\ th.there # {} THEN [th EXCEPT !.there = @ \union {x}] ELSE th
    BY <1>1, <2>1
  <2>3. th.there \union {x} \in SUBSET Texts
    BY <2>1 DEF Loads
  <2>4. CASE th.m = m /\ th.there # {}
    <3>1. thread'[t] = [th EXCEPT !.there = @ \union {x}]
      BY <2>2, <2>4
    <3>2. QED
      BY <2>1, <2>3, <2>4, <3>1 DEF Loads
  <2>5. CASE ~ (th.m = m /\ th.there # {})
    BY <2>1, <2>2, <2>5
  <2>6. QED
    BY <2>4, <2>5
<1>3. thread' \in [Threads -> Loads]
  BY <1>1, <1>2
<1>4. \A t \in Threads : Carries(t)' = Carries(t) /\ Carried(t)' = Carried(t)
  BY <1>2 DEF Carries, Carried
<1>5. Kept' = Kept /\ Tracked' = Tracked
  BY <1>1 DEF Kept, Tracked, Shareable
<1>6. {Carried(t) : t \in {u \in Threads : Carries(u)}}'
        = {Carried(t) : t \in {u \in Threads : Carries(u)}}
  BY <1>4
<1>7. Versions' = Versions
  BY <1>5, <1>6 DEF Versions
<1>8. QED
  BY <1>2, <1>3, <1>7

(* Whatever is written when, no stamp takes an earlier version for it.     *)
LEMMA WriteStep ==
  ASSUME SourcesInv, NEW m \in Modules, NEW x \in Texts, NEW mtime,
         mtime = Shown(clock) \/ (mtime = file[m].mtime /\ Shown(clock) # file[m].ctime),
         Write(m, x, mtime)
  PROVE  SourcesInv'
<1>1. TypeInv /\ clock \in Nat /\ x \in Nat /\ Window \in Nat
  BY Limits, TextTypes DEF SourcesInv, TypeInv
<1>2. /\ mtime \in Nat
      /\ file[m].mtime <= mtime /\ file[m].ctime <= Shown(clock) /\ mtime <= Shown(clock)
      /\ file'[m] = [text |-> x, mtime |-> mtime, ctime |-> Shown(clock)]
      /\ \A n \in Modules : n # m => file'[n] = file[n]
      /\ \A s : s[1] \in Nat /\ s[2] \in Nat /\ Past(m, s) => Past(m, s)'
      /\ \A s \in Stamped : Past(m, s) /\ Current(m, s)' =>
           Current(m, s) /\ file[m].text < x /\ clock - s[1] < Window
  BY WriteTimes
<1>3. /\ thread' \in [Threads -> Loads]
      /\ \A t \in Threads :
           /\ thread'[t].at = thread[t].at /\ thread'[t].m = thread[t].m
           /\ thread'[t].stamp = thread[t].stamp
           /\ thread'[t].key = thread[t].key /\ thread'[t].text = thread[t].text
           /\ thread'[t].there =
                IF thread[t].m = m /\ thread[t].there # {} THEN thread[t].there \union {x}
                ELSE thread[t].there
      /\ Versions' = Versions
  BY <1>1, WriteLoads
<1>4. UNCHANGED <<clock, disk, shared>>
  BY DEF Write
<1>5. Shown(clock) \in Nat /\ Shown(clock)' = Shown(clock)
  BY <1>1, <1>4, ShownTime DEF Shown
<1>6. file'[m].text = x /\ file'[m].mtime = mtime /\ file'[m].ctime = Shown(clock)
  BY <1>2
<1>7. TypeInv'
  <2>1. file' \in [Modules -> [text : Texts, mtime : Nat, ctime : Nat]]
    <3>1. [text |-> x, mtime |-> mtime, ctime |-> Shown(clock)]
            \in [text : Texts, mtime : Nat, ctime : Nat]
      BY <1>2, <1>5
    <3>2. QED
      BY <1>1, <3>1 DEF TypeInv, Write
  <2>2. QED
    BY <1>1, <1>3, <1>4, <2>1 DEF TypeInv
<1>8. ClockInv'
  <2>1. SUFFICES ASSUME NEW n \in Modules
                 PROVE  file'[n].mtime <= file'[n].ctime /\ file'[n].ctime <= Shown(clock)
    BY <1>5 DEF ClockInv
  <2>2. CASE n = m
    BY <1>2, <1>5, <1>6, <2>2
  <2>3. CASE n # m
    BY <1>2, <2>3 DEF SourcesInv, ClockInv
  <2>4. QED
    BY <2>2, <2>3
<1>9. DiskInv'
  BY <1>4 DEF SourcesInv, DiskInv
<1>10. ASSUME NEW t \in Threads
       PROVE  ThereOk(t)' /\ LoadOk(t)'
  <2>1. ThereOk(t) /\ LoadOk(t)
    BY DEF SourcesInv, ThereInv, LoadInv
  <2>2. thread[t].there \subseteq thread'[t].there
    BY <1>3
  <2>3. LoadOk(t)'
    BY <1>3, <2>1, <2>2 DEF LoadOk, Carries, Shareable
  <2>4. ThereOk(t)'
    <3>1. CASE thread[t].at \in {"idle", "file"}
      BY <1>3, <2>1, <3>1 DEF ThereOk
    <3>2. CASE thread[t].at \notin {"idle", "file"}
      <4>1. file[thread[t].m].text \in thread[t].there /\ thread[t].there # {}
        BY <2>1, <3>2 DEF ThereOk
      <4>2. file'[thread[t].m].text \in thread'[t].there
        <5>1. CASE thread[t].m = m
          BY <1>3, <1>6, <4>1, <5>1
        <5>2. CASE thread[t].m # m
          <6>1. thread[t].m \in Modules
            BY <1>1 DEF TypeInv, Loads
          <6>2. QED
            BY <1>2, <1>3, <4>1, <5>2, <6>1
        <5>3. QED
          BY <5>1, <5>2
      <4>3. QED
        BY <1>3, <3>2, <4>2 DEF ThereOk
    <3>3. QED
      BY <3>1, <3>2
  <2>5. QED
    BY <2>3, <2>4
<1>11. ASSUME NEW t \in Threads
       PROVE  StampsOk(t)'
  <2>1. StampsOk(t) /\ LoadOk(t) /\ thread[t].m \in Modules
    BY <1>1 DEF SourcesInv, StampInv, LoadInv, TypeInv, Loads
  <2> PICK n \in Modules : n = thread[t].m
    BY <2>1
  <2> PICK s : s = thread[t].stamp
    OBVIOUS
  <2>2. thread'[t].m = n /\ thread'[t].stamp = s /\ thread'[t].at = thread[t].at
    BY <1>3
  <2>3. SUFFICES ASSUME n \in Tracked
                 PROVE  /\ thread[t].at = "stamp" => Past(n, s)'
                        /\ thread[t].at \in {"hit", "read"} => StampOk(n, s)'
    BY ONLY <2>2, <2>3 DEF StampsOk, StampOk, Past, Current, Tracked, Shareable
  <2>4. /\ thread[t].at = "stamp" => Past(n, s) /\ s[1] \in Nat /\ s[2] \in Nat
        /\ thread[t].at \in {"hit", "read"} => StampOk(n, s) /\ s \in Stamped
    BY <2>1, <2>3 DEF StampsOk, LoadOk, Tracked
  <2>5. ASSUME Past(n, s), s[1] \in Nat, s[2] \in Nat
        PROVE  Past(n, s)'
    BY <1>2, <2>5 DEF Past
  <2>6. ASSUME StampOk(n, s), s \in Stamped
        PROVE  StampOk(n, s)'
    <3>1. Past(n, s) /\ s[1] \in Nat /\ s[2] \in Nat /\ s[3] \in Nat
      BY <2>6 DEF StampOk, Stamped
    <3>2. Past(n, s)'
      BY <2>5, <3>1
    <3>3. s[3] # 0 /\ Current(n, s)' => s[3] <= file'[n].text
      <4>1. CASE n = m
        <5>1. SUFFICES ASSUME s[3] # 0, Current(m, s)'
                       PROVE  s[3] <= x
          BY <1>6, <4>1
        <5>2. Current(m, s) /\ file[m].text < x
          BY <1>2, <2>6, <3>1, <4>1, <5>1
        <5>3. s[3] <= file[m].text /\ file[m].text \in Nat
          BY <1>1, <2>6, <4>1, <5>1, <5>2 DEF StampOk, TypeInv, Texts
        <5>4. QED
          BY <1>1, <3>1, <5>2, <5>3
      <4>2. CASE n # m
        BY <1>2, <2>6, <4>2 DEF StampOk, Current
      <4>3. QED
        BY <4>1, <4>2
    <3>4. QED
      BY <1>4, <2>6, <3>2, <3>3 DEF StampOk
  <2>7. QED
    BY <1>3, <2>4, <2>5, <2>6 DEF Stamped
<1>12. ASSUME NEW v \in Versions
       PROVE  VersionOk(v)'
  <2>1. VersionOk(v) /\ v \in Entries
    BY <1>1, VersionTypes DEF SourcesInv, VersionInv
  <2> PICK n \in Modules : n = v.m
    BY <2>1 DEF Entries
  <2> PICK s \in Stamped : s = v.stamp
    BY <2>1 DEF VersionOk
  <2>2. Past(n, s) /\ s[1] \in Nat /\ s[2] \in Nat /\ s[3] \in Nat
    BY <2>1 DEF VersionOk, Stamped
  <2>3. Past(n, s)'
    BY <1>2, <2>2 DEF Past
  <2>4. CASE n = m
    <3>1. ASSUME Current(m, s)'
          PROVE  s[3] # 0 /\ v.text < x /\ s[3] <= v.text
      <4>1. Current(m, s) /\ file[m].text < x /\ clock - s[1] < Window
        BY <1>2, <2>2, <2>4, <3>1
      <4>2. s[3] # 0
        <5>1. s[3] = 0 => clock - s[1] >= Window
          BY <2>1 DEF VersionOk
        <5>2. QED
          BY <1>1, <2>2, <4>1, <5>1
      <4>3. /\ v.text = file[m].text \/ v.text < file[m].text
            /\ s[3] <= v.text
        BY <2>1, <2>4, <4>1, <4>2 DEF VersionOk
      <4>4. v.text \in Nat /\ file[m].text \in Nat
        BY <1>1, <2>1 DEF Entries, TypeInv, Texts
      <4>5. QED
        BY <1>1, <4>1, <4>2, <4>3, <4>4
    <3>2. QED
      BY <1>4, <1>6, <2>1, <2>3, <2>4, <3>1 DEF VersionOk
  <2>5. CASE n # m
    BY <1>2, <1>4, <2>1, <2>3, <2>5 DEF VersionOk, Current
  <2>6. QED
    BY <2>4, <2>5
<1>13. ASSUME NEW v \in Versions, NEW t \in Threads, thread[t].m = v.m
       PROVE  Match(v, t)'
  <2>1. Match(v, t) /\ VersionOk(v) /\ LoadOk(t) /\ StampsOk(t) /\ ThereOk(t)
        /\ v.m \in Tracked
    BY <1>1, <1>13, VersionTypes
    DEF SourcesInv, MatchInv, VersionInv, LoadInv, StampInv, ThereInv
  <2> PICK s \in Stamped : s = v.stamp
    BY <2>1 DEF VersionOk
  <2>2. thread[t].there \subseteq thread'[t].there
    BY <1>3
  <2>3. ASSUME thread[t].at = "stamp", thread[t].stamp[1] = s[1], thread[t].stamp[2] = s[2]
        PROVE  \/ v.text \in thread'[t].there
               \/ s[3] # 0 /\ (clock - s[1] >= Window \/ \A y \in thread'[t].there : y > s[3])
    <3>1. \/ v.text \in thread[t].there
          \/ s[3] # 0 /\ (clock - s[1] >= Window \/ \A y \in thread[t].there : y > s[3])
      BY <2>1, <2>3 DEF Match
    <3>2. CASE v.text \in thread[t].there
      BY <2>2, <3>2
    <3>3. CASE s[3] # 0 /\ clock - s[1] >= Window
      BY <3>3
    <3>4. CASE s[3] # 0 /\ ~ (clock - s[1] >= Window) /\ \A y \in thread[t].there : y > s[3]
      <4>1. CASE thread[t].m = m
        <5>1. Past(m, thread[t].stamp)
          BY <1>13, <2>1, <2>3, <4>1 DEF StampsOk
        <5>2. s[1] <= file[m].mtime
          BY <2>3, <5>1 DEF Past
        <5>3. s[1] \in Nat /\ s[3] \in Nat /\ file[m].mtime \in Nat /\ file[m].text \in Nat
          BY <1>1 DEF TypeInv, Stamped, Texts
        <5>4. ~ (clock - file[m].mtime >= Window)
          BY <1>1, <3>4, <5>2, <5>3
        <5>5. x > file[m].text
          BY <5>4 DEF Write
        <5>6. file[m].text > s[3]
          BY <2>1, <2>3, <3>4, <4>1 DEF ThereOk
        <5>7. x > s[3]
          BY <1>1, <5>3, <5>5, <5>6
        <5>8. thread'[t].there \subseteq thread[t].there \union {x}
          BY <1>3
        <5>9. \A y \in thread'[t].there : y > s[3]
          BY ONLY <3>4, <5>7, <5>8, Zenon
        <5>10. QED
          BY <3>4, <5>9
      <4>2. CASE thread[t].m # m
        BY <1>3, <3>4, <4>2
      <4>3. QED
        BY <4>1, <4>2
    <3>5. QED
      BY <3>1, <3>2, <3>3, <3>4
  <2>4. ASSUME thread[t].at \in {"hit", "read", "transform", "write", "insert"},
               thread[t].stamp = s
        PROVE  v.text \in thread'[t].there
    BY <2>1, <2>2, <2>4 DEF Match
  <2>5. QED
    BY <1>3, <1>4, <2>3, <2>4 DEF Match
<1>14. ThereInv' /\ LoadInv' /\ StampInv'
  BY <1>10, <1>11 DEF ThereInv, LoadInv, StampInv
<1>15. VersionInv'
  BY <1>3, <1>12 DEF VersionInv
<1>16. MatchInv'
  <2>1. \A t \in Threads : thread'[t].m = thread[t].m
    BY <1>3
  <2>2. \A v \in Versions', t \in Threads : thread'[t].m = v.m => Match(v, t)'
    BY <1>3, <1>13, <2>1
  <2>3. QED
    BY <2>2 DEF MatchInv
<1>17. QED
  BY <1>7, <1>8, <1>9, <1>14, <1>15, <1>16 DEF SourcesInv

-----------------------------------------------------------------------------
(* Every step                                                              *)

(* A step that none of these variables sees. *)
LEMMA Untouched ==
  ASSUME SourcesInv, UNCHANGED <<clock, file, disk, shared, thread>>
  PROVE  SourcesInv'
<1>1. TypeInv' /\ DiskInv'
  BY DEF SourcesInv, TypeInv, DiskInv
<1>2. ClockInv'
  BY DEF SourcesInv, ClockInv, Shown
<1>3. ASSUME NEW t \in Threads
      PROVE  ThereOk(t)' /\ LoadOk(t)' /\ StampsOk(t)'
  <2>1. ThereOk(t) /\ LoadOk(t) /\ StampsOk(t)
    BY DEF SourcesInv, ThereInv, LoadInv, StampInv
  <2>2. ThereOk(t)'
    BY <2>1 DEF ThereOk
  <2>3. LoadOk(t)'
    BY <2>1 DEF LoadOk, Carries, Shareable
  <2>4. StampsOk(t)'
    BY <2>1 DEF StampsOk, StampOk, Past, Current, Tracked, Shareable
  <2>5. QED
    BY <2>2, <2>3, <2>4
<1>4. Versions' = Versions
  BY DEF Versions, Kept, Carried, Carries, Tracked, Shareable
<1>5. ASSUME NEW v \in Versions
      PROVE  VersionOk(v)'
  <2>1. VersionOk(v)
    BY DEF SourcesInv, VersionInv
  <2>2. QED
    BY <2>1 DEF VersionOk, Past, Current
<1>6. ASSUME NEW v \in Versions, NEW t \in Threads, thread'[t].m = v.m
      PROVE  Match(v, t)'
  <2>1. Match(v, t)
    BY <1>6 DEF SourcesInv, MatchInv
  <2>2. QED
    BY <2>1 DEF Match
<1>7. ThereInv' /\ LoadInv' /\ StampInv'
  BY <1>3 DEF ThereInv, LoadInv, StampInv
<1>8. VersionInv'
  BY <1>4, <1>5 DEF VersionInv
<1>9. MatchInv'
  BY <1>4, <1>6 DEF MatchInv
<1>10. QED
  BY <1>1, <1>2, <1>7, <1>8, <1>9 DEF SourcesInv

LEMMA SourcesStep ==
  ASSUME SourcesInv, CapInv, [Next]_vars
  PROVE  SourcesInv'
<1>1. CASE Tick
  BY <1>1, TickStep
<1>2. CASE Kill
  BY <1>2, KillStep
<1>3. ASSUME NEW m \in Edited, NEW x \in Texts, Edit(m, x) \/ EditKeepingTime(m, x)
      PROVE  SourcesInv'
  <2>1. m \in Modules
    BY CacheAssumption
  <2>2. CASE Edit(m, x)
    BY <2>1, <2>2, WriteStep DEF Edit
  <2>3. CASE EditKeepingTime(m, x)
    BY <2>1, <2>3, WriteStep DEF EditKeepingTime
  <2>4. QED
    BY <1>3, <2>2, <2>3
<1>4. ASSUME NEW t \in Threads, NEW m \in Modules, Begin(t, m)
      PROVE  SourcesInv'
  BY <1>4, BeginStep
<1>5. ASSUME NEW t \in Threads, Stamp(t)
      PROVE  SourcesInv'
  BY <1>5, StampStep
<1>6. ASSUME NEW t \in Threads, Hit(t)
      PROVE  SourcesInv'
  BY <1>6, HitStep
<1>7. ASSUME NEW t \in Threads, ReadCjs(t) \/ ReadEsm(t)
      PROVE  SourcesInv'
  BY <1>7, ReadStep DEF ReadCjs, ReadEsm
<1>8. ASSUME NEW t \in Threads, Transform(t) \/ TransformByName(t)
      PROVE  SourcesInv'
  BY <1>8, TransformStep
<1>9. ASSUME NEW t \in Threads, Publish(t) \/ WriteRest(t)
      PROVE  SourcesInv'
  BY <1>9, WriteTransformStep
<1>10. ASSUME NEW t \in Threads, WriteEsm(t)
       PROVE  SourcesInv'
  BY <1>10, WriteEsmStep
<1>11. ASSUME NEW t \in Threads, Insert(t)
       PROVE  SourcesInv'
  BY <1>11, InsertStep DEF CapInv
<1>12. ASSUME NEW t \in Threads, Compile(t) \/ CompileEsm(t) \/ StartFile(t)
       PROVE  SourcesInv'
  <2>1. Goto(t, "file") /\ UNCHANGED <<clock, file, disk, shared>>
    BY <1>12 DEF Compile, CompileEsm, StartFile
  <2>2. QED
    BY <2>1, Leaves
<1>13. ASSUME NEW t \in Threads, FileFailed(t) \/ FileRan(t) \/ Panic(t)
       PROVE  SourcesInv'
  <2>1. Goto(t, "idle") /\ UNCHANGED <<clock, file, disk, shared>>
    BY <1>13 DEF FileFailed, FileRan, Panic
  <2>2. QED
    BY <2>1, Leaves
<1>14. ASSUME NEW t \in Threads, EndWorker(t)
       PROVE  SourcesInv'
  BY <1>14, Untouched DEF EndWorker
<1>15. CASE UNCHANGED vars
  BY <1>15, Untouched DEF vars
<1>16. QED
  BY <1>1, <1>2, <1>3, <1>4, <1>5, <1>6, <1>7, <1>8, <1>9, <1>10, <1>11, <1>12, <1>13,
     <1>14, <1>15 DEF Next

LEMMA SourcesInit ==
  ASSUME Init
  PROVE  SourcesInv
<1>1. PICK i \in Loads : i = Idle("idle") /\ i.at = "idle" /\ i.there = {}
  <2>1. "idle" \in Steps
    BY DEF Steps
  <2>2. QED
    BY <2>1, IdleLoad
<1>2. thread = [t \in Threads |-> i]
  BY <1>1 DEF Init
<1>3. 1 \in Texts /\ Missing \in Nat
  BY CacheAssumption DEF Texts, Missing
<1>4. TypeInv
  BY <1>2, <1>3 DEF Init, TypeInv
<1>5. ClockInv
  <2>1. Shown(0) \in Nat
    BY ShownTime
  <2>2. QED
    BY <2>1 DEF Init, ClockInv
<1>6. DiskInv
  BY DEF Init, DiskInv
<1>7. ASSUME NEW t \in Threads
      PROVE  ThereOk(t) /\ LoadOk(t) /\ StampsOk(t) /\ ~ Carries(t)
  BY <1>1, <1>2 DEF ThereOk, LoadOk, StampsOk, Carries
<1>8. Versions = {}
  BY <1>7 DEF Init, Versions, Kept
<1>9. QED
  BY <1>4, <1>5, <1>6, <1>7, <1>8
  DEF SourcesInv, ThereInv, LoadInv, StampInv, VersionInv, MatchInv

(* Only what a load takes or keeps changes the sources kept. *)
LEMMA CapStep ==
  ASSUME TypeInv, CapInv, [Next]_vars
  PROVE  CapInv'
<1>1. CASE UNCHANGED shared
  BY <1>1 DEF CapInv, AppSources
<1>2. CASE shared' = <<>>
  <2>1. AppSources(<<>>) = {}
    BY DEF AppSources
  <2>2. Cardinality({}) = 0
    BY FS_EmptySet, Zenon
  <2>3. Cap \in Nat
    BY CacheAssumption
  <2>4. Cardinality(AppSources(shared')) = 0
    BY <1>2, <2>1, <2>2
  <2>5. QED
    BY <2>3, <2>4 DEF CapInv
<1>3. ASSUME NEW t \in Threads, NEW i \in Hits(t), TakeShared(t, i)
      PROVE  CapInv'
  <2>1. i \in 1 .. Len(shared) /\ shared \in Seq(Entries)
    BY DEF Hits, TypeInv
  <2>2. Cardinality(AppSources(shared')) = Cardinality(AppSources(shared))
    BY <1>3, <2>1, Moved DEF TakeShared
  <2>3. QED
    BY <2>2 DEF CapInv, AppSources
<1>4. ASSUME NEW t \in Threads, Insert(t), ~ \E i \in Hits(t) : TakeShared(t, i)
      PROVE  CapInv'
  <2>1. PICK m \in Modules : m = thread[t].m
    BY DEF TypeInv, Loads
  <2>2. PICK e : e = [m |-> m, stamp |-> EntryStamp(t), text |-> thread[t].text]
    OBVIOUS
  <2>3. e \in Entries /\ e.m = m
    BY <2>1, <2>2 DEF TypeInv, Entries, Loads, EntryStamp
  <2>4. shared' = IF m \in App THEN Capped(Append(Others(m), e)) ELSE Append(Others(m), e)
    BY <1>4, <2>1, <2>2 DEF Insert
  <2>5. Cardinality(AppSources(shared')) <= Cap
    BY <2>3, <2>4, KeepingOne DEF CapInv, TypeInv
  <2>6. QED
    BY <2>5 DEF CapInv
<1>5. ASSUME NEW t \in Threads, Hit(t)
      PROVE  CapInv'
  BY <1>1, <1>3, <1>5 DEF Hit
<1>6. ASSUME NEW t \in Threads, Insert(t)
      PROVE  CapInv'
  BY <1>3, <1>4, <1>6
<1>7. CASE \/ UNCHANGED vars \/ Tick
           \/ \E m \in Edited, x \in Texts : Edit(m, x) \/ EditKeepingTime(m, x)
  <2>1. UNCHANGED shared
    BY <1>7 DEF vars, Tick, Edit, EditKeepingTime, Write
  <2>2. QED
    BY <1>1, <2>1
<1>8. CASE Kill
  BY <1>2, <1>8 DEF Kill
<1>9. ASSUME NEW t \in Threads,
             \/ \E m \in Modules : Begin(t, m)
             \/ Stamp(t) \/ ReadCjs(t) \/ ReadEsm(t)
             \/ Transform(t) \/ TransformByName(t) \/ Publish(t) \/ WriteEsm(t) \/ WriteRest(t)
      PROVE  CapInv'
  <2>1. UNCHANGED shared
    <3>1. CASE (\E m \in Modules : Begin(t, m)) \/ Stamp(t) \/ ReadCjs(t) \/ ReadEsm(t)
      BY <3>1 DEF Begin, Stamp, ReadCjs, ReadEsm, Read
    <3>2. CASE Transform(t) \/ TransformByName(t)
      BY <3>2 DEF Transform, TransformByName, Transformed
    <3>3. CASE Publish(t) \/ WriteEsm(t) \/ WriteRest(t)
      BY <3>3 DEF Publish, WriteEsm, WriteRest
    <3>4. QED
      BY <1>9, <3>1, <3>2, <3>3
  <2>2. QED
    BY <1>1, <2>1
<1>10. ASSUME NEW t \in Threads,
              \/ Compile(t) \/ CompileEsm(t) \/ StartFile(t) \/ FileFailed(t) \/ FileRan(t)
              \/ Panic(t) \/ EndWorker(t)
       PROVE  CapInv'
  <2>1. UNCHANGED shared
    BY <1>10 DEF Compile, CompileEsm, StartFile, FileFailed, FileRan, Panic, EndWorker
  <2>2. QED
    BY <1>1, <2>1
<1>11. QED
  BY <1>5, <1>6, <1>7, <1>8, <1>9, <1>10 DEF Next

(* A code cache is that of the text it is kept for, and its handles live.  *)
LEMMA CodeStep ==
  ASSUME TypeInv, CodeInv, [Next]_vars
  PROVE  CodeInv'
<1> DEFINE Handles == [m : Modules, text : Texts, dead : {FALSE}]
<1>1. CASE UNCHANGED <<codes, pending, touchedDead>>
  BY <1>1 DEF CodeInv
<1>2. CASE Kill
  BY <1>2 DEF Kill, CodeInv
<1>3. ASSUME NEW t \in Threads, StartFile(t) \/ Panic(t)
      PROVE  CodeInv'
  BY <1>3 DEF StartFile, Panic, CodeInv
<1>4. ASSUME NEW t \in Threads, Touch(pending[t])
      PROVE  touchedDead' = FALSE
  <2>1. pending[t] \subseteq Handles
    BY DEF CodeInv
  <2>2. ASSUME NEW h \in pending[t]
        PROVE  ~ h.dead
    <3>1. h \in Handles
      BY <2>1
    <3>2. h.dead \in {FALSE}
      BY <3>1
    <3>3. QED
      BY <3>2
  <2>3. touchedDead' = (touchedDead \/ \E h \in pending[t] : h.dead)
    BY <1>4 DEF Touch
  <2>4. ~ \E h \in pending[t] : h.dead
    BY <2>2
  <2>5. touchedDead = FALSE
    BY DEF CodeInv
  <2>6. QED
    BY <2>3, <2>4, <2>5
<1>5. ASSUME NEW t \in Threads, FileFailed(t) \/ EndWorker(t)
      PROVE  CodeInv'
  <2>1. touchedDead' = FALSE
    BY <1>4, <1>5 DEF FileFailed, EndWorker
  <2>2. codes' = codes /\ pending' = [pending EXCEPT ![t] = {}]
    BY <1>5 DEF FileFailed, EndWorker
  <2>3. QED
    BY <2>1, <2>2 DEF CodeInv
<1>6. ASSUME NEW t \in Threads, FileRan(t)
      PROVE  CodeInv'
  <2>1. touchedDead' = FALSE
    BY <1>4, <1>6 DEF FileRan
  <2>2. pending' = [pending EXCEPT ![t] = {}]
    BY <1>6 DEF FileRan
  <2>3. PICK stored \in SUBSET pending[t] :
          codes' = [m \in Modules |-> [x \in Texts |->
            IF \E h \in stored : CachePath(h.m, h.text) = <<m, x>>
              THEN (CHOOSE h \in stored : CachePath(h.m, h.text) = <<m, x>>).text
              ELSE codes[m][x]]]
    BY <1>6 DEF FileRan
  <2>4. ASSUME NEW m \in Modules, NEW x \in Texts
        PROVE  codes'[m][x] \in {Missing, x} /\ codes'[m][x] \in {Missing} \union Texts
    <3>1. CASE \E h \in stored : CachePath(h.m, h.text) = <<m, x>>
      <4>1. PICK h \in stored : /\ CachePath(h.m, h.text) = <<m, x>>
                                /\ codes'[m][x] = h.text
        BY <2>3, <3>1
      <4>2. h.text = x
        BY <4>1 DEF CachePath
      <4>3. QED
        BY <4>1, <4>2
    <3>2. CASE ~ \E h \in stored : CachePath(h.m, h.text) = <<m, x>>
      <4>1. codes'[m][x] = codes[m][x]
        BY <2>3, <3>2
      <4>2. QED
        BY <4>1 DEF CodeInv
    <3>3. QED
      BY <3>1, <3>2
  <2>5. codes' \in [Modules -> [Texts -> {Missing} \union Texts]]
    <3>1. \A m \in Modules : codes'[m] = [x \in Texts |-> codes'[m][x]]
      BY <2>3
    <3>2. codes' = [m \in Modules |-> codes'[m]]
      BY <2>3
    <3>3. QED
      BY <2>4, <3>1, <3>2
  <2>6. QED
    BY <2>1, <2>2, <2>4, <2>5 DEF CodeInv
<1>7. ASSUME NEW t \in Threads, Compile(t)
      PROVE  CodeInv'
  <2> PICK m \in Modules : m = thread[t].m
    BY DEF TypeInv, Loads
  <2> PICK x : x = thread[t].text
    OBVIOUS
  <2>1. x \in Texts /\ UNCHANGED touchedDead
    BY <1>7 DEF Compile
  <2>2. UNCHANGED codes \/ codes' = [codes EXCEPT ![m][x] = Missing]
    BY <1>7 DEF Compile, CachePath
  <2>3. UNCHANGED pending \/ Defer(t)
    BY <1>7 DEF Compile
  <2>4. pending' \in [Threads -> SUBSET Handles]
    <3>1. [m |-> m, text |-> x, dead |-> FALSE] \in Handles
      BY <2>1
    <3>2. pending[t] \union {[m |-> m, text |-> x, dead |-> FALSE]} \in SUBSET Handles
      BY <3>1 DEF CodeInv
    <3>3. Defer(t) => pending' =
            [pending EXCEPT ![t] = @ \union {[m |-> m, text |-> x, dead |-> FALSE]}]
      BY DEF Defer
    <3>4. QED
      BY <2>3, <3>2, <3>3 DEF CodeInv
  <2>5. /\ codes' \in [Modules -> [Texts -> {Missing} \union Texts]]
        /\ \A n \in Modules, y \in Texts : codes'[n][y] \in {Missing, y}
    BY <2>1, <2>2 DEF CodeInv
  <2>6. QED
    BY <2>1, <2>4, <2>5 DEF CodeInv
<1>8. CASE \/ UNCHANGED vars \/ Tick
           \/ \E m \in Edited, x \in Texts : Edit(m, x) \/ EditKeepingTime(m, x)
  <2>1. UNCHANGED <<codes, pending, touchedDead>>
    BY <1>8 DEF vars, Tick, Edit, EditKeepingTime, Write
  <2>2. QED
    BY <1>1, <2>1
<1>9. ASSUME NEW t \in Threads,
             \/ \E m \in Modules : Begin(t, m)
             \/ Stamp(t) \/ Hit(t) \/ ReadCjs(t) \/ ReadEsm(t)
             \/ Transform(t) \/ TransformByName(t) \/ Publish(t) \/ WriteEsm(t) \/ WriteRest(t)
             \/ Insert(t) \/ CompileEsm(t)
      PROVE  CodeInv'
  <2>1. UNCHANGED <<codes, pending, touchedDead>>
    <3>1. CASE (\E m \in Modules : Begin(t, m)) \/ Stamp(t) \/ Hit(t) \/ ReadCjs(t) \/ ReadEsm(t)
      BY <3>1 DEF Begin, Stamp, Hit, ReadCjs, ReadEsm, Read
    <3>2. CASE Transform(t) \/ TransformByName(t)
      BY <3>2 DEF Transform, TransformByName, Transformed
    <3>3. CASE Publish(t) \/ WriteEsm(t) \/ WriteRest(t) \/ Insert(t) \/ CompileEsm(t)
      BY <3>3 DEF Publish, WriteEsm, WriteRest, Insert, CompileEsm
    <3>4. QED
      BY <1>9, <3>1, <3>2, <3>3
  <2>2. QED
    BY <1>1, <2>1
<1>10. QED
  BY <1>2, <1>3, <1>5, <1>6, <1>7, <1>8, <1>9 DEF Next

-----------------------------------------------------------------------------
(* What holds                                                              *)

(* The invariant holds of every behaviour: what is kept of a file is a     *)
(* version that its stamp stands for, at most Cap of the app's, and the    *)
(* code caches are those of their texts.                                   *)
THEOREM InductiveInvariance == Spec => []Inductive
<1>1. Init => Inductive
  <2>1. SUFFICES ASSUME Init
                 PROVE  Inductive
    OBVIOUS
  <2>2. SourcesInv
    BY <2>1, SourcesInit
  <2>3. CapInv
    <3>1. AppSources(shared) = {}
      BY <2>1 DEF Init, AppSources
    <3>2. Cardinality({}) = 0
      BY FS_EmptySet, Zenon
    <3>3. Cap \in Nat
      BY CacheAssumption
    <3>4. QED
      BY <3>1, <3>2, <3>3 DEF CapInv
  <2>4. CodeInv
    BY <2>1 DEF Init, CodeInv
  <2>5. QED
    BY <2>2, <2>3, <2>4 DEF Inductive
<1>2. Inductive /\ [Next]_vars => Inductive'
  <2>1. SUFFICES ASSUME Inductive, [Next]_vars
                 PROVE  Inductive'
    OBVIOUS
  <2>2. SourcesInv /\ TypeInv /\ CapInv /\ CodeInv
    BY <2>1 DEF Inductive, SourcesInv
  <2>3. SourcesInv' /\ CapInv' /\ CodeInv'
    BY <2>1, <2>2, SourcesStep, CapStep, CodeStep
  <2>4. QED
    BY <2>3 DEF Inductive
<1>3. QED
  BY <1>1, <1>2, PTL DEF Spec

(* A load through the process's sources gives a version that the file had  *)
(* since the load began, and all of it (module_source, stamp_from,         *)
(* write_atomic).                                                          *)
THEOREM LoadsWhatWasThereHolds == Spec => []LoadsWhatWasThere
<1>1. Inductive => LoadsWhatWasThere
  BY DEF Inductive, SourcesInv, LoadInv, LoadOk, LoadsWhatWasThere
<1>2. QED
  BY <1>1, InductiveInvariance, PTL

(* A code cache holds the code of the text it is read for, and no handle   *)
(* of a disposed isolate is used (cc_path, flush_code_caches,              *)
(* PendingCodeCacheGuard).                                                 *)
THEOREM CodeCacheSoundHolds == Spec => []CodeCacheSound
<1>1. Inductive => CodeCacheSound
  BY DEF Inductive, CodeInv, CodeCacheSound, RunsOwnCode, NoDeadHandle, CodeAt, CachePath
<1>2. QED
  BY <1>1, InductiveInvariance, PTL

(* The process keeps no more than Cap sources of the app: one entry too    *)
(* many is all that cap_app_sources ever finds.                            *)
THEOREM CapHolds == Spec => []CapInv
<1>1. Inductive => CapInv
  BY DEF Inductive
<1>2. QED
  BY <1>1, InductiveInvariance, PTL
=============================================================================
