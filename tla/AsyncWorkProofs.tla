-------------------------- MODULE AsyncWorkProofs ---------------------------
(***************************************************************************)
(* The async works' inductive invariant, the safety properties it gives    *)
(* and the refinement of WorkRounds, for every set of works, isolates and  *)
(* pool threads and every number of rounds.                                *)
(***************************************************************************)
EXTENDS AsyncWork, TLAPS, FiniteSetTheorems, SequenceTheorems

-----------------------------------------------------------------------------
(* Sequences                                                               *)

(* What is in a sequence after an Append is what was, and what was added. *)
LEMMA AppendMembers ==
  ASSUME NEW S, NEW s \in Seq(S), NEW x \in S
  PROVE  /\ Append(s, x) \in Seq(S)
         /\ Len(s) \in Nat /\ Len(Append(s, x)) = Len(s) + 1
         /\ \A k \in 1 .. Len(s) : Append(s, x)[k] = s[k]
         /\ Append(s, x)[Len(s) + 1] = x
         /\ \A y : (\E k \in 1 .. Len(Append(s, x)) : Append(s, x)[k] = y)
                     <=> (\E k \in 1 .. Len(s) : s[k] = y) \/ y = x
<1>1. /\ Append(s, x) \in Seq(S)
      /\ Len(s) \in Nat /\ Len(Append(s, x)) = Len(s) + 1
      /\ \A k \in 1 .. Len(s) : Append(s, x)[k] = s[k]
      /\ Append(s, x)[Len(s) + 1] = x
  BY AppendProperties
<1>2. QED
  BY <1>1

(* What is left of a sequence of different elements after its head is taken. *)
LEMMA TailMembers ==
  ASSUME NEW S, NEW s \in Seq(S), s # <<>>,
         \A k, l \in 1 .. Len(s) : s[k] = s[l] => k = l
  PROVE  /\ Head(s) \in S /\ Head(s) = s[1] /\ 1 \in 1 .. Len(s)
         /\ Tail(s) \in Seq(S)
         /\ Len(s) \in Nat /\ Len(Tail(s)) = Len(s) - 1
         /\ \A k \in 1 .. Len(Tail(s)) : k + 1 \in 1 .. Len(s) /\ Tail(s)[k] = s[k + 1]
         /\ \A y : (\E k \in 1 .. Len(Tail(s)) : Tail(s)[k] = y)
                     <=> (\E k \in 1 .. Len(s) : s[k] = y) /\ y # Head(s)
<1>1. /\ Head(s) \in S /\ Tail(s) \in Seq(S) /\ Len(Tail(s)) = Len(s) - 1
      /\ \A k \in 1 .. Len(Tail(s)) : Tail(s)[k] = s[k + 1]
  BY HeadTailProperties
<1>2. Len(s) \in Nat \ {0} /\ Head(s) = s[1]
  BY EmptySeq
<1>3. ASSUME NEW y, NEW k \in 1 .. Len(s), s[k] = y, y # Head(s)
      PROVE  k - 1 \in 1 .. Len(Tail(s)) /\ Tail(s)[k - 1] = y
  BY <1>1, <1>2, <1>3
<1>4. QED
  BY <1>1, <1>2, <1>3

(* What is left of a sequence after an element is removed. *)
LEMMA RemoveElements ==
  ASSUME NEW S, NEW s \in Seq(S), NEW at \in 1 .. Len(s)
  PROVE  /\ RemoveAt(s, at) \in Seq(S)
         /\ Len(s) \in Nat /\ Len(RemoveAt(s, at)) = Len(s) - 1
         /\ \A k \in 1 .. Len(RemoveAt(s, at)) :
              RemoveAt(s, at)[k] = IF k < at THEN s[k] ELSE s[k + 1]
<1> DEFINE n == Len(s)
           before == SubSeq(s, 1, at - 1)
           after == SubSeq(s, at + 1, n)
<1>1. n \in Nat /\ at \in Nat /\ 1 <= at /\ at <= n
  BY LenProperties
<1>2. \A k \in 1 .. n : s[k] \in S
  BY ElementOfSeq
<1>3. /\ before \in Seq(S) /\ Len(before) = at - 1
      /\ \A k \in 1 .. at - 1 : before[k] = s[k]
  BY <1>1, <1>2, SubSeqProperties
<1>4. /\ after \in Seq(S) /\ Len(after) = n - at
      /\ \A k \in 1 .. n - at : after[k] = s[at + k]
  BY <1>1, <1>2, SubSeqProperties
<1> HIDE DEF before, after, n
<1>5. /\ before \o after \in Seq(S) /\ Len(before \o after) = n - 1
      /\ \A k \in 1 .. n - 1 :
           (before \o after)[k] = IF k <= at - 1 THEN before[k] ELSE after[k - (at - 1)]
  <2>1. /\ before \o after \in Seq(S) /\ Len(before \o after) = Len(before) + Len(after)
        /\ \A k \in 1 .. Len(before) + Len(after) :
             (before \o after)[k] = IF k <= Len(before) THEN before[k]
                                    ELSE after[k - Len(before)]
    <3>1. before \in Seq(S) /\ after \in Seq(S)
      BY <1>3, <1>4
    <3>2. QED
      BY ONLY <3>1, ConcatProperties
  <2>2. Len(before) + Len(after) = n - 1
    BY <1>1, <1>3, <1>4
  <2>3. QED
    BY <1>3, <2>1, <2>2
<1>6. /\ RemoveAt(s, at) = before \o after
  BY DEF RemoveAt, before, after, n
<1>7. \A k \in 1 .. n - 1 : RemoveAt(s, at)[k] = IF k < at THEN s[k] ELSE s[k + 1]
  <2> SUFFICES ASSUME NEW k \in 1 .. n - 1
               PROVE  RemoveAt(s, at)[k] = IF k < at THEN s[k] ELSE s[k + 1]
    OBVIOUS
  <2>1. CASE k < at
    BY <1>1, <1>3, <1>5, <1>6, <2>1
  <2>2. CASE k >= at
    <3>1. k - (at - 1) \in 1 .. n - at /\ at + (k - (at - 1)) = k + 1
      BY <1>1, <2>2
    <3>2. QED
      BY <1>1, <1>4, <1>5, <1>6, <2>2, <3>1
  <2>3. QED
    BY <1>1, <2>1, <2>2
<1>8. RemoveAt(s, at) \in Seq(S) /\ Len(RemoveAt(s, at)) = n - 1
  BY <1>5, <1>6
<1>9. QED
  BY <1>1, <1>7, <1>8 DEF n

-----------------------------------------------------------------------------
(* Where the works are after each step that moves one                      *)

(* A work that has no round under way is nowhere. *)
LEMMA NotPending ==
  ASSUME Inductive, NEW w \in Works, queued[w] = Over(w)
  PROVE  ~InJobs(w) /\ ~Executing(w) /\ ~InReady(w)
<1>1. queued[w] \in Nat
  BY DEF Inductive, TypeOK
<1>2. QED
  BY <1>1 DEF Inductive, RoundInv, Pending

(* Post adds its task to the work's loop, and to no other. *)
LEMMA Posts ==
  ASSUME TypeOK, NEW w \in Works, NEW s \in Statuses, Post(w, s)
  PROVE  /\ ready' \in [Isolates -> Seq(Task)]
         /\ \A i \in Isolates \ {Owner[w]} : ready'[i] = ready[i]
         /\ ready'[Owner[w]] = Append(ready[Owner[w]], [work |-> w, status |-> s])
         /\ \A v \in Works, r \in Statuses :
              Posted(v, r)' <=> Posted(v, r) \/ (v = w /\ r = s)
<1> DEFINE task == [work |-> w, status |-> s]
           q == ready[Owner[w]]
<1>1. Owner[w] \in Isolates /\ \A v \in Works : Owner[v] \in Isolates
  BY AsyncAssumption
<1>2. q \in Seq(Task) /\ task \in Task
  BY <1>1 DEF TypeOK, Task
<1>3. /\ Append(q, task) \in Seq(Task)
      /\ \A y : (\E k \in 1 .. Len(Append(q, task)) : Append(q, task)[k] = y)
                  <=> (\E k \in 1 .. Len(q) : q[k] = y) \/ y = task
  BY <1>2, AppendMembers, SMTT(30)
<1>4. /\ \A i \in Isolates \ {Owner[w]} : ready'[i] = ready[i]
      /\ ready'[Owner[w]] = Append(q, task)
  BY <1>1 DEF TypeOK, Post
<1>5. ready' \in [Isolates -> Seq(Task)]
  BY <1>1, <1>3 DEF TypeOK, Post
<1>6. ASSUME NEW v \in Works, NEW r \in Statuses
      PROVE  Posted(v, r)' <=> Posted(v, r) \/ (v = w /\ r = s)
  <2>1. CASE Owner[v] = Owner[w]
    <3>1. Posted(v, r)' <=> Posted(v, r) \/ [work |-> v, status |-> r] = task
      <4> DEFINE u == [work |-> v, status |-> r]
      <4>1. (\E k \in 1 .. Len(Append(q, task)) : Append(q, task)[k] = u)
              <=> (\E k \in 1 .. Len(q) : q[k] = u) \/ u = task
        BY <1>3
      <4>2. Posted(v, r) <=> \E k \in 1 .. Len(q) : q[k] = u
        BY <2>1 DEF Posted
      <4>3. Posted(v, r)' <=> \E k \in 1 .. Len(Append(q, task)) : Append(q, task)[k] = u
        BY <1>4, <2>1 DEF Posted
      <4> HIDE DEF u, q, task
      <4>4. QED
        BY <4>1, <4>2, <4>3 DEF u
    <3>2. [work |-> v, status |-> r] = task <=> v = w /\ r = s
      OBVIOUS
    <3>3. QED
      BY <3>1, <3>2
  <2>2. CASE Owner[v] # Owner[w]
    BY <1>1, <1>4, <2>2 DEF Posted
  <2>3. QED
    BY <2>1, <2>2
<1>7. QED
  BY <1>4, <1>5, <1>6

(* A queued work is one more job. *)
LEMMA QueueMoves ==
  ASSUME Inductive, NEW w \in Works, Queue(w)
  PROVE  /\ jobs' \in Seq(Works) /\ Len(jobs) \in Nat /\ Len(jobs') = Len(jobs) + 1
         /\ JobsOnce'
         /\ ~InJobs(w) /\ ~Executing(w) /\ ~InReady(w)
         /\ \A v \in Works : /\ InJobs(v)' <=> InJobs(v) \/ v = w
                             /\ Executing(v)' <=> Executing(v)
                             /\ \A s \in Statuses : Posted(v, s)' <=> Posted(v, s)
<1>1. jobs \in Seq(Works) /\ jobs' = Append(jobs, w) /\ ~InJobs(w) /\ ~Executing(w) /\ ~InReady(w)
  BY NotPending DEF Queue, Inductive, TypeOK
<1>2. /\ jobs' \in Seq(Works) /\ Len(jobs) \in Nat /\ Len(jobs') = Len(jobs) + 1
      /\ \A k \in 1 .. Len(jobs) : jobs'[k] = jobs[k]
      /\ jobs'[Len(jobs) + 1] = w
      /\ \A y : (\E k \in 1 .. Len(jobs') : jobs'[k] = y)
                  <=> (\E k \in 1 .. Len(jobs) : jobs[k] = y) \/ y = w
  BY <1>1, AppendMembers
<1>3. JobsOnce'
  BY <1>1, <1>2 DEF Inductive, JobsOnce, InJobs
<1>4. \A v \in Works : InJobs(v)' <=> InJobs(v) \/ v = w
  BY <1>2 DEF InJobs
<1>5. \A v \in Works : /\ Executing(v)' <=> Executing(v)
                       /\ \A s \in Statuses : Posted(v, s)' <=> Posted(v, s)
  BY DEF Queue, Executing, Posted
<1>6. QED
  BY <1>1, <1>2, <1>3, <1>4, <1>5

(* A cancelled work goes from the jobs to its loop. *)
LEMMA CancelMoves ==
  ASSUME Inductive, NEW w \in Works, Cancel(w)
  PROVE  /\ jobs' \in Seq(Works) /\ Len(jobs) \in Nat /\ Len(jobs') = Len(jobs) - 1
         /\ JobsOnce'
         /\ InJobs(w)
         /\ \A v \in Works :
              /\ InJobs(v)' <=> InJobs(v) /\ v # w
              /\ Executing(v)' <=> Executing(v)
              /\ \A s \in Statuses :
                   Posted(v, s)' <=> Posted(v, s) \/ (v = w /\ s = "napi_cancelled")
<1>1. PICK at \in 1 .. Len(jobs) : jobs[at] = w /\ jobs' = RemoveAt(jobs, at)
  BY DEF Cancel
<1>2. jobs \in Seq(Works) /\ \A k, l \in 1 .. Len(jobs) : jobs[k] = jobs[l] => k = l
  BY DEF Inductive, TypeOK, JobsOnce
<1>3. /\ jobs' \in Seq(Works) /\ Len(jobs) \in Nat /\ Len(jobs') = Len(jobs) - 1
      /\ \A k \in 1 .. Len(jobs') : jobs'[k] = IF k < at THEN jobs[k] ELSE jobs[k + 1]
  BY <1>1, <1>2, RemoveElements
<1>4. JobsOnce'
  <2> SUFFICES ASSUME NEW k \in 1 .. Len(jobs'), NEW l \in 1 .. Len(jobs'),
                      jobs'[k] = jobs'[l]
               PROVE  k = l
    BY DEF JobsOnce
  <2> DEFINE from(m) == IF m < at THEN m ELSE m + 1
  <2>1. \A m \in 1 .. Len(jobs') : from(m) \in 1 .. Len(jobs) /\ jobs'[m] = jobs[from(m)]
    BY <1>3
  <2>2. from(k) = from(l)
    BY <1>2, <2>1
  <2>3. QED
    BY <2>2
<1>5. ASSUME NEW v \in Works
      PROVE  InJobs(v)' <=> InJobs(v) /\ v # w
  <2>1. ASSUME NEW k \in 1 .. Len(jobs'), jobs'[k] = v
        PROVE  \E l \in 1 .. Len(jobs) : l # at /\ jobs[l] = v
    BY <1>3, <2>1
  <2>2. ASSUME NEW l \in 1 .. Len(jobs), l # at, jobs[l] = v
        PROVE  \E k \in 1 .. Len(jobs') : jobs'[k] = v
    <3>1. CASE l < at
      BY <1>3, <2>2, <3>1
    <3>2. CASE l > at
      <4>1. l - 1 \in 1 .. Len(jobs') /\ ~(l - 1 < at) /\ (l - 1) + 1 = l
        BY <1>3, <3>2
      <4>2. QED
        BY <1>3, <2>2, <4>1
    <3>3. QED
      BY <2>2, <3>1, <3>2
  <2>3. QED
    BY <1>1, <1>2, <2>1, <2>2 DEF InJobs
<1>6. \A v \in Works, s \in Statuses :
        Posted(v, s)' <=> Posted(v, s) \/ (v = w /\ s = "napi_cancelled")
  BY Posts DEF Cancel, Inductive, Statuses
<1>7. \A v \in Works : Executing(v)' <=> Executing(v)
  BY DEF Cancel, Executing
<1>8. QED
  BY <1>1, <1>3, <1>4, <1>5, <1>6, <1>7 DEF InJobs

(* A thread takes the head of the jobs. *)
LEMMA TakeMoves ==
  ASSUME Inductive, NEW p \in PoolThreads, Take(p)
  PROVE  /\ jobs' \in Seq(Works) /\ Len(jobs) \in Nat /\ Len(jobs') = Len(jobs) - 1
         /\ JobsOnce'
         /\ Head(jobs) \in Works /\ InJobs(Head(jobs))
         /\ \A v \in Works : /\ InJobs(v)' <=> InJobs(v) /\ v # Head(jobs)
                             /\ Executing(v)' <=> Executing(v) \/ v = Head(jobs)
                             /\ \A s \in Statuses : Posted(v, s)' <=> Posted(v, s)
<1>1. /\ jobs \in Seq(Works) /\ jobs # <<>> /\ jobs' = Tail(jobs)
      /\ \A k, l \in 1 .. Len(jobs) : jobs[k] = jobs[l] => k = l
  BY DEF Inductive, TypeOK, JobsOnce, Take
<1>2. /\ Head(jobs) \in Works /\ Head(jobs) = jobs[1] /\ 1 \in 1 .. Len(jobs)
      /\ jobs' \in Seq(Works) /\ Len(jobs) \in Nat /\ Len(jobs') = Len(jobs) - 1
      /\ \A k \in 1 .. Len(jobs') : k + 1 \in 1 .. Len(jobs) /\ jobs'[k] = jobs[k + 1]
      /\ \A y : (\E k \in 1 .. Len(jobs') : jobs'[k] = y)
                  <=> (\E k \in 1 .. Len(jobs) : jobs[k] = y) /\ y # Head(jobs)
  BY <1>1, TailMembers
<1>3. JobsOnce'
  BY <1>1, <1>2 DEF JobsOnce
<1>4. \A v \in Works : InJobs(v)' <=> InJobs(v) /\ v # Head(jobs)
  BY <1>2 DEF InJobs
<1>5. \A v \in Works : Executing(v)' <=> Executing(v) \/ v = Head(jobs)
  <2>1. /\ work' = [work EXCEPT ![p] = Head(jobs)] /\ work[p] = None
        /\ work \in [PoolThreads -> Works \union {None}]
        /\ None \notin Works
    BY AsyncAssumption DEF Take, Inductive, TypeOK
  <2>2. QED
    BY <2>1 DEF Executing
<1>6. \A v \in Works, s \in Statuses : Posted(v, s)' <=> Posted(v, s)
  BY DEF Take, loopVars, Posted
<1>7. QED
  BY <1>2, <1>3, <1>4, <1>5, <1>6 DEF InJobs

(* An executed work goes from its thread to its loop. *)
LEMMA ExecutedMoves ==
  ASSUME Inductive, NEW p \in PoolThreads, Executed(p)
  PROVE  /\ work[p] \in Works /\ Executing(work[p])
         /\ \A v \in Works :
              /\ InJobs(v)' <=> InJobs(v)
              /\ Executing(v)' <=> Executing(v) /\ v # work[p]
              /\ \A s \in Statuses :
                   Posted(v, s)' <=> Posted(v, s) \/ (v = work[p] /\ s = "napi_ok")
<1>1. /\ work \in [PoolThreads -> Works \union {None}] /\ work[p] # None
      /\ work' = [work EXCEPT ![p] = None] /\ None \notin Works
      /\ \A q \in PoolThreads : work[q] = work[p] => q = p
  BY AsyncAssumption DEF Executed, Inductive, TypeOK, WorkOnce
<1>2. work[p] \in Works /\ Executing(work[p])
  BY <1>1 DEF Executing
<1>3. \A v \in Works : Executing(v)' <=> Executing(v) /\ v # work[p]
  BY <1>1 DEF Executing
<1>4. \A v \in Works, s \in Statuses :
        Posted(v, s)' <=> Posted(v, s) \/ (v = work[p] /\ s = "napi_ok")
  BY <1>2, Posts DEF Executed, Inductive, Statuses
<1>5. \A v \in Works : InJobs(v)' <=> InJobs(v)
  BY DEF Executed, InJobs
<1>6. QED
  BY <1>2, <1>3, <1>4, <1>5

(* A completed work leaves its loop. *)
LEMMA CompleteMoves ==
  ASSUME Inductive, NEW i \in Isolates, Complete(i)
  PROVE  /\ ready' \in [Isolates -> Seq(Task)]
         /\ ReadyOnce' /\ OwnInv'
         /\ Head(ready[i]).work \in Works /\ Head(ready[i]).status \in Statuses
         /\ Owner[Head(ready[i]).work] = i
         /\ Posted(Head(ready[i]).work, Head(ready[i]).status)
         /\ \A v \in Works :
              /\ InJobs(v)' <=> InJobs(v)
              /\ Executing(v)' <=> Executing(v)
              /\ \A s \in Statuses :
                   Posted(v, s)' <=> Posted(v, s) /\ v # Head(ready[i]).work
<1> DEFINE q == ready[i]
           t == Head(q)
<1>1. /\ q \in Seq(Task) /\ q # <<>>
      /\ \A k, l \in 1 .. Len(q) : q[k].work = q[l].work => k = l
      /\ \A k \in 1 .. Len(q) : Owner[q[k].work] = i
  BY DEF Complete, Inductive, TypeOK, ReadyOnce, OwnInv
<1>2. /\ t \in Task /\ t = q[1] /\ 1 \in 1 .. Len(q)
      /\ Tail(q) \in Seq(Task) /\ Len(q) \in Nat /\ Len(Tail(q)) = Len(q) - 1
      /\ \A k \in 1 .. Len(Tail(q)) : k + 1 \in 1 .. Len(q) /\ Tail(q)[k] = q[k + 1]
      /\ \A y : (\E k \in 1 .. Len(Tail(q)) : Tail(q)[k] = y)
                  <=> (\E k \in 1 .. Len(q) : q[k] = y) /\ y # t
  <2>1. \A k, l \in 1 .. Len(q) : q[k] = q[l] => k = l
    BY <1>1
  <2>2. QED
    BY <1>1, <2>1, TailMembers
<1>3. t.work \in Works /\ t.status \in Statuses /\ Owner[t.work] = i
  BY <1>1, <1>2 DEF Task
<1>4. ready' = [ready EXCEPT ![i] = Tail(q)] /\ ready \in [Isolates -> Seq(Task)]
  BY DEF Complete, Inductive, TypeOK
<1>5. /\ ready' \in [Isolates -> Seq(Task)]
      /\ ready'[i] = Tail(q)
      /\ \A j \in Isolates \ {i} : ready'[j] = ready[j]
  BY <1>2, <1>4
<1>6. Posted(t.work, t.status)
  <2>1. t = [work |-> t.work, status |-> t.status]
    BY <1>2 DEF Task
  <2>2. QED
    BY <1>2, <1>3, <2>1 DEF Posted
<1>7. ASSUME NEW v \in Works, NEW s \in Statuses
      PROVE  Posted(v, s)' <=> Posted(v, s) /\ v # t.work
  <2> DEFINE task == [work |-> v, status |-> s]
  <2>1. CASE Owner[v] = i
    <3>1. Posted(v, s)' <=> Posted(v, s) /\ task # t
      <4>1. (\E k \in 1 .. Len(Tail(q)) : Tail(q)[k] = task)
              <=> (\E k \in 1 .. Len(q) : q[k] = task) /\ task # t
        BY <1>2
      <4>2. Posted(v, s) <=> \E k \in 1 .. Len(q) : q[k] = task
        BY <2>1 DEF Posted
      <4>3. Posted(v, s)' <=> \E k \in 1 .. Len(Tail(q)) : Tail(q)[k] = task
        BY <1>5, <2>1 DEF Posted
      <4> HIDE DEF task, q, t
      <4>4. QED
        BY <4>1, <4>2, <4>3
    <3>2. Posted(v, s) /\ v = t.work => task = t
      BY <1>1, <1>2, <2>1 DEF Posted
    <3>3. task = t => v = t.work
      OBVIOUS
    <3>4. QED
      BY <3>1, <3>2, <3>3
  <2>2. CASE Owner[v] # i
    <3>1. Owner[v] \in Isolates
      BY AsyncAssumption
    <3>2. QED
      BY <1>3, <1>5, <2>2, <3>1 DEF Posted
  <2>3. QED
    BY <2>1, <2>2
<1>8. ReadyOnce' /\ OwnInv'
  <2>1. ASSUME NEW j \in Isolates, NEW k \in 1 .. Len(ready'[j]), NEW l \in 1 .. Len(ready'[j])
        PROVE  /\ ready'[j][k].work = ready'[j][l].work => k = l
               /\ Owner[ready'[j][k].work] = j
    <3>1. CASE j = i
      <4>1. /\ k + 1 \in 1 .. Len(q) /\ ready'[j][k] = q[k + 1]
            /\ l + 1 \in 1 .. Len(q) /\ ready'[j][l] = q[l + 1]
        BY <1>2, <1>5, <3>1
      <4>2. q[k + 1].work = q[l + 1].work => k + 1 = l + 1
        BY <1>1, <4>1
      <4>3. k \in Int /\ l \in Int
        BY <1>2, <1>5, <3>1
      <4>4. QED
        BY <1>1, <3>1, <4>1, <4>2, <4>3
    <3>2. CASE j # i
      BY <1>5, <3>2 DEF Inductive, ReadyOnce, OwnInv
    <3>3. QED
      BY <3>1, <3>2
  <2>2. QED
    BY <2>1 DEF ReadyOnce, OwnInv
<1>9. \A v \in Works : (InJobs(v)' <=> InJobs(v)) /\ (Executing(v)' <=> Executing(v))
  BY DEF Complete, poolVars, InJobs, Executing
<1>10. QED
  BY <1>3, <1>5, <1>6, <1>7, <1>8, <1>9

-----------------------------------------------------------------------------
(* Counting                                                                *)

(* Rounds that are over are a number. *)
LEMMA OverType ==
  ASSUME TypeOK
  PROVE  \A v \in Works : Over(v) \in Nat
BY DEF TypeOK, Over, Statuses

(* A step that begins and completes no round leaves the counts exact. *)
LEMMA SameRounds ==
  ASSUME InFlightExact, UNCHANGED <<queued, completed, inFlight>>
  PROVE  InFlightExact'
BY DEF InFlightExact, InRound, Over

(* The works under way in an isolate are finitely many, and so are the     *)
(* pool's threads.                                                         *)
LEMMA Finite ==
  /\ \A i \in Isolates : IsFiniteSet(InRound(i))
  /\ IsFiniteSet(Looking) /\ Cardinality(Looking) \in Nat
<1>1. \A i \in Isolates : InRound(i) \in SUBSET Works
  BY DEF InRound
<1>2. Looking \in SUBSET PoolThreads
  BY DEF Looking
<1>3. QED
  BY <1>1, <1>2, AsyncAssumption, FS_Subset, FS_CardinalityType

(* A thread that begins to look for a job is one more. *)
LEMMA LooksMore ==
  ASSUME NEW p \in PoolThreads, p \notin Looking, Looking' = Looking \union {p}
  PROVE  Cardinality(Looking)' = Cardinality(Looking) + 1
BY Finite, FS_AddElement

(* A thread that ceases to look for a job is one less. *)
LEMMA LooksLess ==
  ASSUME NEW p \in Looking, Looking' = Looking \ {p}
  PROVE  Cardinality(Looking)' = Cardinality(Looking) - 1
BY Finite, FS_RemoveElement

-----------------------------------------------------------------------------
(* Each action preserves the inductive invariant                           *)

(* Nothing is queued in the beginning. *)
LEMMA InductiveInit == Init => Inductive
<1> SUFFICES ASSUME Init
             PROVE  Inductive
  OBVIOUS
<1>1. TypeOK
  <2>1. <<>> \in Seq(Works) /\ <<>> \in Seq(Task) /\ Len(<<>>) = 0
    BY EmptySeq
  <2>2. QED
    BY <2>1 DEF Init, TypeOK, Zero
<1>2. Len(jobs) = 0 /\ \A i \in Isolates : Len(ready[i]) = 0
  BY EmptySeq DEF Init
<1>3. \A w \in Works : ~InJobs(w) /\ ~Executing(w) /\ ~InReady(w)
  <2> SUFFICES ASSUME NEW w \in Works
               PROVE  ~InJobs(w) /\ ~Executing(w) /\ ~InReady(w)
    OBVIOUS
  <2>1. Len(ready[Owner[w]]) = 0
    BY <1>2, AsyncAssumption
  <2>2. ~InReady(w)
    BY <2>1 DEF InReady, Posted
  <2>3. ~InJobs(w) /\ ~Executing(w)
    BY <1>2, AsyncAssumption DEF Init, InJobs, Executing
  <2>4. QED
    BY <2>2, <2>3
<1>4. JobsOnce /\ WorkOnce /\ ReadyOnce /\ OwnInv
  BY <1>2 DEF Init, JobsOnce, WorkOnce, ReadyOnce, OwnInv
<1>5. InFlightExact
  <2>1. \A w \in Works : queued[w] = Over(w)
    BY DEF Init, Zero, Over, Statuses
  <2>2. \A i \in Isolates : InRound(i) = {}
    BY <2>1 DEF InRound
  <2>3. QED
    BY <2>2, FS_EmptySet DEF Init, InFlightExact
<1>6. QED
  BY <1>1, <1>3, <1>4, <1>5, FS_EmptySet
     DEF Init, Inductive, OnePlace, RoundInv, Pending, IdleInv, WorkConserving

(* A step that moves no work leaves every work where it was, once. *)
LEMMA Still ==
  ASSUME Inductive, UNCHANGED <<jobs, work, ready>>
  PROVE  /\ \A v \in Works : /\ InJobs(v)' <=> InJobs(v)
                             /\ Executing(v)' <=> Executing(v)
                             /\ \A s \in Statuses : Posted(v, s)' <=> Posted(v, s)
                             /\ InReady(v)' <=> InReady(v)
                             /\ Pending(v)' <=> Pending(v)
         /\ JobsOnce' /\ WorkOnce' /\ ReadyOnce' /\ OwnInv' /\ OnePlace'
<1>1. \A v \in Works : /\ InJobs(v)' <=> InJobs(v)
                       /\ Executing(v)' <=> Executing(v)
                       /\ \A s \in Statuses : Posted(v, s)' <=> Posted(v, s)
  BY DEF InJobs, Executing, Posted
<1>2. \A v \in Works : (InReady(v)' <=> InReady(v)) /\ (Pending(v)' <=> Pending(v))
  BY <1>1 DEF InReady, Pending
<1>3. JobsOnce' /\ WorkOnce' /\ ReadyOnce' /\ OwnInv'
  BY DEF Inductive, JobsOnce, WorkOnce, ReadyOnce, OwnInv
<1>4. QED
  BY <1>1, <1>2, <1>3 DEF Inductive, OnePlace

LEMMA CreateInductive ==
  ASSUME Inductive, NEW w \in Works, Create(w)
  PROVE  Inductive'
<1> USE DEF poolVars, loopVars, history
<1>1. TypeOK'
  BY DEF Create, Inductive, TypeOK
<1>2. RoundInv'
  BY Still DEF Create, Inductive, RoundInv, Over, TypeOK
<1>3. QED
  BY <1>1, <1>2, Still, SameRounds DEF Create, Inductive, IdleInv, WorkConserving, Looking

LEMMA DeleteInductive ==
  ASSUME Inductive, NEW w \in Works, Delete(w)
  PROVE  Inductive'
<1> USE DEF poolVars, loopVars, history
<1>1. TypeOK'
  BY DEF Delete, Inductive, TypeOK
<1>2. ~Pending(w)
  BY NotPending DEF Delete, Pending
<1>3. RoundInv'
  BY <1>2, Still DEF Delete, Inductive, RoundInv, Over, TypeOK
<1>4. QED
  BY <1>1, <1>3, Still, SameRounds DEF Delete, Inductive, IdleInv, WorkConserving, Looking

LEMMA DisposeInductive ==
  ASSUME Inductive, NEW i \in Isolates, Dispose(i)
  PROVE  Inductive'
<1> USE DEF poolVars, loopVars, history
<1>1. TypeOK'
  BY DEF Dispose, Inductive, TypeOK
<1>2. RoundInv'
  BY Still DEF Dispose, Inductive, RoundInv, Over
<1>3. QED
  BY <1>1, <1>2, Still, SameRounds DEF Dispose, Inductive, IdleInv, WorkConserving, Looking

LEMMA StutterInductive ==
  ASSUME Inductive, UNCHANGED vars
  PROVE  Inductive'
<1> USE DEF vars
<1>1. TypeOK'
  BY DEF Inductive, TypeOK
<1>2. RoundInv'
  BY Still DEF Inductive, RoundInv, Over
<1>3. QED
  BY <1>1, <1>2, Still, SameRounds DEF Inductive, IdleInv, WorkConserving, Looking

(* The thread that is woken looks for the job it was woken for. *)
LEMMA NotifyOneInductive ==
  ASSUME Inductive, NEW i \in Isolates, NotifyOne(i)
  PROVE  Inductive'
<1> USE DEF loopVars, history
<1>1. /\ IsFiniteSet(owesNotify') /\ Cardinality(owesNotify) \in Nat
      /\ Cardinality(owesNotify') = Cardinality(owesNotify) - 1
  BY FS_RemoveElement, FS_CardinalityType DEF NotifyOne, Inductive
<1>2. TypeOK' /\ IdleInv'
  BY DEF NotifyOne, Inductive, TypeOK, IdleInv
<1>3. RoundInv'
  BY Still DEF NotifyOne, Inductive, RoundInv, Over
<1>4. WorkConserving'
  <2>1. CASE asleep = {} /\ UNCHANGED asleep
    BY <2>1 DEF WorkConserving
  <2>2. ASSUME NEW p \in asleep, asleep' = asleep \ {p}
        PROVE  WorkConserving'
    <3>1. p \in PoolThreads /\ work[p] = None /\ asleep \subseteq PoolThreads
      BY DEF Inductive, TypeOK, IdleInv
    <3>2. p \notin Looking /\ Looking' = Looking \union {p}
      BY <2>2, <3>1 DEF NotifyOne, Looking
    <3>3. Cardinality(Looking)' = Cardinality(Looking) + 1
      BY <3>1, <3>2, LooksMore
    <3>4. Len(jobs) \in Nat /\ Len(jobs)' = Len(jobs)
      BY LenProperties DEF NotifyOne, Inductive, TypeOK
    <3>5. QED
      BY <1>1, <3>3, <3>4, Finite DEF Inductive, WorkConserving
  <2>3. QED
    BY <2>1, <2>2 DEF NotifyOne
<1>5. QED
  BY <1>1, <1>2, <1>3, <1>4, Still, SameRounds DEF NotifyOne, Inductive

LEMMA SleepInductive ==
  ASSUME Inductive, NEW p \in PoolThreads, Sleep(p)
  PROVE  Inductive'
<1> USE DEF loopVars, history
<1>1. TypeOK' /\ IdleInv'
  BY DEF Sleep, Inductive, TypeOK, IdleInv
<1>2. RoundInv'
  BY Still DEF Sleep, Inductive, RoundInv, Over
<1>3. WorkConserving'
  <2>1. Len(jobs') = 0
    BY EmptySeq DEF Sleep
  <2>2. Cardinality(Looking)' \in Nat /\ Cardinality(owesNotify)' \in Nat
    <3>1. Looking' \in SUBSET PoolThreads
      BY DEF Looking
    <3>2. IsFiniteSet(Looking')
      BY <3>1, AsyncAssumption, FS_Subset
    <3>3. QED
      BY <3>2, FS_CardinalityType DEF Sleep, Inductive
  <2>3. QED
    BY <2>1, <2>2 DEF WorkConserving
<1>4. QED
  BY <1>1, <1>2, <1>3, Still, SameRounds DEF Sleep, Inductive

LEMMA SpuriousWakeInductive ==
  ASSUME Inductive, NEW p \in PoolThreads, SpuriousWake(p)
  PROVE  Inductive'
<1> USE DEF loopVars, history
<1>1. TypeOK' /\ IdleInv'
  BY DEF SpuriousWake, Inductive, TypeOK, IdleInv
<1>2. RoundInv'
  BY Still DEF SpuriousWake, Inductive, RoundInv, Over
<1>3. WorkConserving'
  <2>1. p \notin Looking /\ Looking' = Looking \union {p}
    BY DEF SpuriousWake, Inductive, IdleInv, Looking
  <2>2. Cardinality(Looking)' = Cardinality(Looking) + 1
    BY <2>1, LooksMore
  <2>3. Len(jobs) \in Nat /\ Cardinality(owesNotify) \in Nat
    BY LenProperties, FS_CardinalityType DEF Inductive, TypeOK
  <2>4. QED
    BY <2>2, <2>3, Finite DEF SpuriousWake, Inductive, WorkConserving
<1>4. QED
  BY <1>1, <1>2, <1>3, Still, SameRounds DEF SpuriousWake, Inductive

(* A queued work is in the jobs alone; its isolate owes a notification. *)
LEMMA QueueInductive ==
  ASSUME Inductive, NEW w \in Works, Queue(w)
  PROVE  Inductive'
<1> DEFINE o == Owner[w]
<1>1. o \in Isolates
  BY AsyncAssumption
<1>2. TypeOK'
  <2>1. inFlight' \in [Isolates -> Nat] /\ queued' \in [Works -> Nat] /\ owesNotify' \subseteq Isolates
    BY <1>1 DEF Queue, Inductive, TypeOK
  <2>2. jobs' \in Seq(Works)
    BY QueueMoves
  <2>3. QED
    BY <2>1, <2>2 DEF Queue, Inductive, TypeOK
<1>3. WorkOnce' /\ ReadyOnce' /\ OwnInv' /\ IdleInv'
  BY DEF Queue, Inductive, WorkOnce, ReadyOnce, OwnInv, IdleInv
<1>4. \A v \in Works : (InReady(v)' <=> InReady(v)) /\ (Pending(v)' <=> Pending(v) \/ v = w)
  BY QueueMoves DEF InReady, Pending
<1>5. OnePlace'
  BY <1>4, QueueMoves DEF Inductive, OnePlace
<1>6. /\ queued[w] = Over(w) /\ life[w] = "live" /\ UNCHANGED <<life, completed>>
      /\ queued' = [queued EXCEPT ![w] = @ + 1] /\ queued \in [Works -> Nat]
  BY DEF Queue, Inductive, TypeOK
<1>7. \A v \in Works : Over(v)' = Over(v) /\ Over(v) \in Nat
  BY <1>6, OverType DEF Over, Inductive
<1>8. RoundInv'
  BY <1>4, <1>6, <1>7 DEF Inductive, RoundInv
<1>9. InFlightExact'
  <2>1. w \notin InRound(o) /\ InRound(o)' = InRound(o) \union {w}
    BY <1>6, <1>7 DEF InRound
  <2>2. \A i \in Isolates \ {o} : InRound(i)' = InRound(i)
    BY <1>6, <1>7 DEF InRound
  <2>3. Cardinality(InRound(o)') = Cardinality(InRound(o)) + 1
    BY <1>1, <2>1, Finite, FS_AddElement
  <2>4. inFlight' = [inFlight EXCEPT ![o] = @ + 1] /\ inFlight \in [Isolates -> Nat]
    BY DEF Queue, Inductive, TypeOK
  <2>5. QED
    BY <1>1, <2>2, <2>3, <2>4 DEF Inductive, InFlightExact
<1>10. /\ IsFiniteSet(owesNotify') /\ Cardinality(owesNotify) \in Nat
       /\ Cardinality(owesNotify') = Cardinality(owesNotify) + 1
  BY FS_AddElement, FS_CardinalityType DEF Queue, Runs, Inductive
<1>11. WorkConserving'
  <2>1. Looking' = Looking /\ asleep' = asleep
    BY DEF Queue, Looking
  <2>2. QED
    BY <1>10, <2>1, QueueMoves, Finite DEF Inductive, WorkConserving
<1>12. QED
  BY <1>2, <1>3, <1>5, <1>8, <1>9, <1>10, <1>11, QueueMoves DEF Inductive

(* What Post adds for a work that is not in its loop is there once. *)
LEMMA PostOnce ==
  ASSUME Inductive, NEW w \in Works, NEW s \in Statuses, Post(w, s), ~InReady(w)
  PROVE  ReadyOnce' /\ OwnInv'
<1> DEFINE q == ready[Owner[w]]
           task == [work |-> w, status |-> s]
<1>1. Owner[w] \in Isolates /\ q \in Seq(Task) /\ task \in Task
  BY AsyncAssumption DEF Inductive, TypeOK, Task
<1>2. /\ Len(q) \in Nat /\ Len(Append(q, task)) = Len(q) + 1
      /\ \A k \in 1 .. Len(q) : Append(q, task)[k] = q[k]
      /\ Append(q, task)[Len(q) + 1] = task
  BY <1>1, AppendMembers
<1>3. ASSUME NEW k \in 1 .. Len(q)
      PROVE  q[k].work # w
  <2>1. q[k] \in Task
    BY <1>1, ElementOfSeq
  <2>2. q[k] = [work |-> q[k].work, status |-> q[k].status] /\ q[k].status \in Statuses
    BY <2>1 DEF Task
  <2>3. QED
    BY <2>2 DEF InReady, Posted
<1>4. /\ ready'[Owner[w]] = Append(q, task)
      /\ \A i \in Isolates \ {Owner[w]} : ready'[i] = ready[i]
  BY Posts DEF Inductive
<1>5. ASSUME NEW i \in Isolates, NEW k \in 1 .. Len(ready'[i]), NEW l \in 1 .. Len(ready'[i])
      PROVE  /\ ready'[i][k].work = ready'[i][l].work => k = l
             /\ Owner[ready'[i][k].work] = i
  <2>1. CASE i = Owner[w]
    <3>1. \A m \in 1 .. Len(ready'[i]) : \/ m \in 1 .. Len(q) /\ ready'[i][m] = q[m]
                                         \/ m = Len(q) + 1 /\ ready'[i][m] = task
      <4>1. ready'[i] = Append(q, task)
        BY <1>4, <2>1
      <4> HIDE DEF q, task
      <4>2. QED
        BY <1>2, <4>1
    <3>2. \A m, n \in 1 .. Len(q) : q[m].work = q[n].work => m = n
      BY <1>1 DEF Inductive, ReadyOnce
    <3>3. \A m \in 1 .. Len(q) : Owner[q[m].work] = i
      BY <1>1, <2>1 DEF Inductive, OwnInv
    <3>4. task.work = w
      OBVIOUS
    <3> HIDE DEF q, task
    <3>5. QED
      BY <1>3, <2>1, <3>1, <3>2, <3>3, <3>4
  <2>2. CASE i # Owner[w]
    BY <1>4, <2>2 DEF Inductive, ReadyOnce, OwnInv
  <2>3. QED
    BY <2>1, <2>2
<1>6. QED
  BY <1>5 DEF ReadyOnce, OwnInv

(* A cancelled work is in its loop alone. *)
LEMMA CancelInductive ==
  ASSUME Inductive, NEW w \in Works, Cancel(w)
  PROVE  Inductive'
<1>1. InJobs(w) /\ ~Executing(w) /\ ~InReady(w)
  BY CancelMoves DEF Inductive, OnePlace
<1>2. Post(w, "napi_cancelled") /\ "napi_cancelled" \in Statuses
  BY DEF Cancel, Statuses
<1>3. TypeOK'
  <2>1. ready' \in [Isolates -> Seq(Task)]
    BY <1>2, Posts DEF Inductive
  <2>2. jobs' \in Seq(Works)
    BY CancelMoves
  <2>3. cancelled' \in [Works -> Nat]
    BY SMTT(30) DEF Cancel, Inductive, TypeOK
  <2>4. QED
    BY <2>1, <2>2, <2>3 DEF Cancel, Inductive, TypeOK
<1>4. JobsOnce' /\ WorkOnce' /\ ReadyOnce' /\ OwnInv' /\ IdleInv'
  <2>1. WorkOnce' /\ IdleInv'
    BY DEF Cancel, Inductive, WorkOnce, IdleInv
  <2>2. QED
    BY <1>1, <1>2, <2>1, CancelMoves, PostOnce
<1>5. \A v \in Works : InReady(v)' <=> InReady(v) \/ v = w
  BY <1>2, CancelMoves DEF InReady
<1>6. \A v \in Works : Pending(v)' <=> Pending(v)
  BY <1>1, <1>5, CancelMoves DEF Pending
<1>7. OnePlace'
  BY <1>1, <1>5, CancelMoves DEF Inductive, OnePlace
<1>8. RoundInv'
  BY <1>6 DEF Cancel, Inductive, RoundInv, Over
<1>9. WorkConserving'
  <2>1. Looking' = Looking /\ asleep' = asleep /\ owesNotify' = owesNotify
    BY DEF Cancel, Looking
  <2>2. Cardinality(owesNotify) \in Nat
    BY FS_CardinalityType DEF Inductive
  <2>3. QED
    BY <2>1, <2>2, CancelMoves, Finite DEF Inductive, WorkConserving
<1>10. InFlightExact' /\ IsFiniteSet(owesNotify')
  BY SameRounds DEF Cancel, Inductive
<1>11. QED
  BY <1>3, <1>4, <1>7, <1>8, <1>9, <1>10 DEF Inductive

(* A taken work is with its thread alone, and the thread is busy. *)
LEMMA TakeInductive ==
  ASSUME Inductive, NEW p \in PoolThreads, Take(p)
  PROVE  Inductive'
<1> DEFINE w == Head(jobs)
<1>1. w \in Works /\ InJobs(w) /\ ~Executing(w) /\ ~InReady(w)
  BY TakeMoves DEF Inductive, OnePlace
<1>2. /\ work' = [work EXCEPT ![p] = w] /\ work[p] = None /\ p \notin asleep /\ asleep' = asleep
      /\ work \in [PoolThreads -> Works \union {None}] /\ None \notin Works
  BY AsyncAssumption DEF Take, Inductive, TypeOK
<1>3. TypeOK'
  <2>1. jobs' \in Seq(Works)
    BY TakeMoves
  <2>2. work' \in [PoolThreads -> Works \union {None}]
    BY <1>1, <1>2
  <2>3. started' \in [Works -> Nat]
    BY <1>1 DEF Take, Inductive, TypeOK
  <2>4. QED
    BY <2>1, <2>2, <2>3 DEF Take, loopVars, Inductive, TypeOK
<1>4. JobsOnce' /\ WorkOnce' /\ ReadyOnce' /\ OwnInv' /\ IdleInv'
  <2>1. WorkOnce'
    BY <1>1, <1>2 DEF Inductive, WorkOnce, Executing
  <2>2. IdleInv'
    BY <1>2 DEF Inductive, IdleInv
  <2>3. ReadyOnce' /\ OwnInv'
    BY DEF Take, loopVars, Inductive, ReadyOnce, OwnInv
  <2>4. QED
    BY <2>1, <2>2, <2>3, TakeMoves
<1>5. \A v \in Works : (InReady(v)' <=> InReady(v)) /\ (Pending(v)' <=> Pending(v))
  BY <1>1, TakeMoves DEF InReady, Pending
<1>6. OnePlace'
  BY <1>1, <1>5, TakeMoves DEF Inductive, OnePlace
<1>7. RoundInv'
  BY <1>5 DEF Take, Inductive, RoundInv, Over
<1>8. WorkConserving'
  <2>1. p \in Looking /\ Looking' = Looking \ {p}
    BY <1>1, <1>2 DEF Looking
  <2>2. Cardinality(Looking)' = Cardinality(Looking) - 1
    BY <2>1, LooksLess
  <2>3. Cardinality(owesNotify) \in Nat /\ owesNotify' = owesNotify
    BY FS_CardinalityType DEF Take, Inductive
  <2>4. QED
    BY <1>2, <2>2, <2>3, TakeMoves, Finite DEF Inductive, WorkConserving
<1>9. InFlightExact' /\ IsFiniteSet(owesNotify')
  BY SameRounds DEF Take, loopVars, Inductive
<1>10. QED
  BY <1>3, <1>4, <1>6, <1>7, <1>8, <1>9 DEF Inductive

(* An executed work is in its loop alone, and the thread looks for another. *)
LEMMA ExecutedInductive ==
  ASSUME Inductive, NEW p \in PoolThreads, Executed(p)
  PROVE  Inductive'
<1> DEFINE w == work[p]
<1>1. w \in Works /\ Executing(w) /\ ~InJobs(w) /\ ~InReady(w)
  BY ExecutedMoves DEF Inductive, OnePlace
<1>2. Post(w, "napi_ok") /\ "napi_ok" \in Statuses
  BY DEF Executed, Statuses
<1>3. /\ work' = [work EXCEPT ![p] = None] /\ w # None /\ asleep' = asleep
      /\ work \in [PoolThreads -> Works \union {None}]
  BY DEF Executed, Inductive, TypeOK
<1>4. TypeOK'
  <2>1. ready' \in [Isolates -> Seq(Task)]
    BY <1>1, <1>2, Posts DEF Inductive
  <2>2. work' \in [PoolThreads -> Works \union {None}]
    BY <1>3
  <2>3. QED
    BY <2>1, <2>2 DEF Executed, history, Inductive, TypeOK
<1>5. JobsOnce' /\ WorkOnce' /\ ReadyOnce' /\ OwnInv' /\ IdleInv'
  <2>1. WorkOnce' /\ IdleInv'
    BY <1>3 DEF Inductive, WorkOnce, IdleInv
  <2>2. JobsOnce'
    BY DEF Executed, Inductive, JobsOnce
  <2>3. QED
    BY <1>1, <1>2, <2>1, <2>2, PostOnce
<1>6. \A v \in Works : InReady(v)' <=> InReady(v) \/ v = w
  BY <1>1, <1>2, ExecutedMoves DEF InReady
<1>7. \A v \in Works : Pending(v)' <=> Pending(v)
  BY <1>1, <1>6, ExecutedMoves DEF Pending
<1>8. OnePlace'
  BY <1>1, <1>6, ExecutedMoves DEF Inductive, OnePlace
<1>9. RoundInv'
  BY <1>7 DEF Executed, history, Inductive, RoundInv, Over
<1>10. WorkConserving'
  <2>1. p \notin Looking /\ Looking' = Looking \union {p}
    BY <1>3 DEF Looking, Inductive, IdleInv
  <2>2. Cardinality(Looking)' = Cardinality(Looking) + 1
    BY <2>1, LooksMore
  <2>3. Len(jobs) \in Nat /\ Cardinality(owesNotify) \in Nat
    BY LenProperties, FS_CardinalityType DEF Inductive, TypeOK
  <2>4. QED
    BY <2>2, <2>3, Finite DEF Executed, Inductive, WorkConserving
<1>11. InFlightExact' /\ IsFiniteSet(owesNotify')
  BY SameRounds DEF Executed, history, Inductive
<1>12. QED
  BY <1>4, <1>5, <1>8, <1>9, <1>10, <1>11 DEF Inductive

(* A completed work is nowhere, and its isolate has one less in flight. *)
LEMMA CompleteInductive ==
  ASSUME Inductive, NEW i \in Isolates, Complete(i)
  PROVE  Inductive'
<1> PICK w \in Works, s \in Statuses : w = Head(ready[i]).work /\ s = Head(ready[i]).status
  BY CompleteMoves
<1>1. Owner[w] = i /\ InReady(w) /\ ~InJobs(w) /\ ~Executing(w)
  BY CompleteMoves DEF Inductive, OnePlace, InReady
<1>2. queued[w] = Over(w) + 1 /\ queued' = queued /\ life' = life
  BY <1>1 DEF Complete, Inductive, RoundInv, Pending
<1>3. completed' = [completed EXCEPT ![w][s] = @ + 1]
  BY DEF Complete
<1>4. completed' \in [Works -> [Statuses -> Nat]]
  BY <1>1, <1>3 DEF Inductive, TypeOK
<1>5. Over(w)' = Over(w) + 1 /\ \A v \in Works \ {w} : Over(v)' = Over(v)
  <2>1. completed \in [Works -> [Statuses -> Nat]]
    BY DEF Inductive, TypeOK
  <2>2. \A v \in Works \ {w} : Over(v)' = Over(v)
    BY <1>1, <1>3, <2>1 DEF Over
  <2>3. /\ completed'[w][s] = completed[w][s] + 1
        /\ \A r \in Statuses \ {s} : completed'[w][r] = completed[w][r]
        /\ \A r \in Statuses : completed[w][r] \in Nat
    BY <1>1, <1>3, <2>1
  <2>4. CASE s = "napi_ok"
    <3>1. /\ completed'[w]["napi_ok"] = completed[w]["napi_ok"] + 1
          /\ completed'[w]["napi_cancelled"] = completed[w]["napi_cancelled"]
          /\ completed[w]["napi_ok"] \in Nat /\ completed[w]["napi_cancelled"] \in Nat
      BY <2>3, <2>4 DEF Statuses
    <3>2. QED
      BY <2>2, <3>1 DEF Over
  <2>5. CASE s = "napi_cancelled"
    <3>1. /\ completed'[w]["napi_cancelled"] = completed[w]["napi_cancelled"] + 1
          /\ completed'[w]["napi_ok"] = completed[w]["napi_ok"]
          /\ completed[w]["napi_ok"] \in Nat /\ completed[w]["napi_cancelled"] \in Nat
      BY <2>3, <2>5 DEF Statuses
    <3>2. QED
      BY <2>2, <3>1 DEF Over
  <2>6. QED
    BY <2>4, <2>5 DEF Statuses
<1>6. \A v \in Works : Over(v) \in Nat /\ queued[v] \in Nat
  BY OverType DEF Inductive, TypeOK
<1>7. \A v \in Works : InReady(v)' <=> InReady(v) /\ v # w
  BY CompleteMoves DEF InReady
<1>8. \A v \in Works : Pending(v)' <=> Pending(v) /\ v # w
  BY <1>1, <1>7, CompleteMoves DEF Pending
<1>9. OnePlace'
  BY <1>7, CompleteMoves DEF Inductive, OnePlace
<1>10. RoundInv'
  BY <1>2, <1>5, <1>8 DEF Inductive, RoundInv
<1>11. InFlightExact' /\ inFlight' \in [Isolates -> Nat]
  <2>1. w \in InRound(i) /\ InRound(i)' = InRound(i) \ {w}
    <3>1. w \in InRound(i) /\ ~(queued'[w] # Over(w)')
      BY <1>1, <1>2, <1>5, <1>6 DEF InRound
    <3>2. \A v \in Works \ {w} : queued'[v] # Over(v)' <=> queued[v] # Over(v)
      BY <1>2, <1>5
    <3>3. QED
      BY <3>1, <3>2 DEF InRound
  <2>2. \A j \in Isolates \ {i} : InRound(j)' = InRound(j)
    BY <1>1, <1>2, <1>5 DEF InRound
  <2>3. /\ Cardinality(InRound(i)') = Cardinality(InRound(i)) - 1
        /\ IsFiniteSet(InRound(i)')
    <3>1. IsFiniteSet(InRound(i))
      BY Finite
    <3>2. /\ IsFiniteSet(InRound(i) \ {w})
          /\ Cardinality(InRound(i) \ {w}) = Cardinality(InRound(i)) - 1
      <4>1. w \in InRound(i)
        BY <2>1
      <4> DEFINE S == InRound(i)
      <4> HIDE DEF S
      <4>2. IsFiniteSet(S) /\ w \in S
        BY <3>1, <4>1 DEF S
      <4>3. IsFiniteSet(S \ {w}) /\ Cardinality(S \ {w}) = Cardinality(S) - 1
        BY <4>2, FS_RemoveElement
      <4>4. QED
        BY <4>3 DEF S
    <3>3. QED
      BY <2>1, <3>2
  <2>4. Cardinality(InRound(i)') \in Nat
    BY <2>3, FS_CardinalityType
  <2>5. inFlight' = [inFlight EXCEPT ![i] = @ - 1] /\ inFlight \in [Isolates -> Nat]
    BY DEF Complete, Inductive, TypeOK
  <2>6. \A j \in Isolates : inFlight[j] = Cardinality(InRound(j))
    BY DEF Inductive, InFlightExact
  <2>7. QED
    BY <2>2, <2>3, <2>4, <2>5, <2>6 DEF InFlightExact
<1>12. TypeOK'
  <2>1. ready' \in [Isolates -> Seq(Task)]
    BY CompleteMoves
  <2>2. QED
    BY <1>4, <1>11, <2>1 DEF Complete, poolVars, Inductive, TypeOK
<1>13. JobsOnce' /\ WorkOnce' /\ ReadyOnce' /\ OwnInv' /\ IdleInv'
  <2>1. JobsOnce' /\ WorkOnce' /\ IdleInv'
    BY DEF Complete, poolVars, Inductive, JobsOnce, WorkOnce, IdleInv
  <2>2. QED
    BY <2>1, CompleteMoves
<1>14. WorkConserving' /\ IsFiniteSet(owesNotify')
  BY DEF Complete, poolVars, Inductive, WorkConserving, Looking
<1>15. QED
  BY <1>9, <1>10, <1>11, <1>12, <1>13, <1>14 DEF Inductive

-----------------------------------------------------------------------------
(* The theorems                                                            *)

(* A work is in one place at most, once, and what is in a place has a      *)
(* round under way: whatever is queued, taken, cancelled or disposed of.   *)
THEOREM InductiveInvariance == Spec => []Inductive
<1>1. Inductive /\ [Next]_vars => Inductive'
  <2> SUFFICES ASSUME Inductive, [Next]_vars
               PROVE  Inductive'
    OBVIOUS
  <2>1. ASSUME NEW i \in Isolates, NEW w \in Works,
               Create(w) \/ Queue(w) \/ Cancel(w) \/ Delete(w)
        PROVE  Inductive'
    BY <2>1, CreateInductive, QueueInductive, CancelInductive, DeleteInductive
  <2>2. ASSUME NEW i \in Isolates, NotifyOne(i) \/ Complete(i) \/ Dispose(i)
        PROVE  Inductive'
    BY <2>2, NotifyOneInductive, CompleteInductive, DisposeInductive
  <2>3. ASSUME NEW p \in PoolThreads, PoolThread(p)
        PROVE  Inductive'
    BY <2>3, TakeInductive, SleepInductive, SpuriousWakeInductive, ExecutedInductive
       DEF PoolThread
  <2>4. CASE UNCHANGED vars
    BY <2>4, StutterInductive
  <2>5. QED
    BY <2>1, <2>2, <2>3, <2>4 DEF Next, JsThread
<1>2. QED
  BY <1>1, InductiveInit, PTL DEF Spec

(* Every variable keeps its type, for any number of works and threads. *)
THEOREM TypeCorrect == Spec => []TypeOK
<1>1. Inductive => TypeOK
  BY DEF Inductive
<1>2. QED
  BY <1>1, InductiveInvariance, PTL

(* No deleted work is queued, executed or posted, a loop counts exactly    *)
(* its works in flight, and no job is left to sleeping threads.            *)
THEOREM SafetyHolds == Spec => []Safety
<1>1. Inductive => Safety
  BY DEF Inductive, RoundInv, Safety, NoUseAfterFree
<1>2. QED
  BY <1>1, InductiveInvariance, PTL

-----------------------------------------------------------------------------
(* The refinement of WorkRounds                                            *)

(* Where a work is says its phase, as it is in one place at most. *)
LEMMA PhaseOf ==
  ASSUME Inductive, NEW w \in Works
  PROVE  /\ Phase[w] = "waiting" <=> InJobs(w)
         /\ Phase[w] = "executing" <=> Executing(w)
         /\ Phase[w] = "executed" <=> Posted(w, "napi_ok")
         /\ Phase[w] = "cancelled" <=> Posted(w, "napi_cancelled")
         /\ Phase[w] = "idle" <=> ~Pending(w)
<1>1. InReady(w) <=> Posted(w, "napi_ok") \/ Posted(w, "napi_cancelled")
  BY DEF InReady, Statuses
<1>2. ~(Posted(w, "napi_ok") /\ Posted(w, "napi_cancelled"))
  <2> SUFFICES ASSUME Posted(w, "napi_ok"), Posted(w, "napi_cancelled")
               PROVE  FALSE
    OBVIOUS
  <2>1. PICK k \in 1 .. Len(ready[Owner[w]]) :
          ready[Owner[w]][k] = [work |-> w, status |-> "napi_ok"]
    BY DEF Posted
  <2>2. PICK l \in 1 .. Len(ready[Owner[w]]) :
          ready[Owner[w]][l] = [work |-> w, status |-> "napi_cancelled"]
    BY DEF Posted
  <2>3. Owner[w] \in Isolates
    BY AsyncAssumption
  <2>4. k = l
    BY <2>1, <2>2, <2>3 DEF Inductive, ReadyOnce
  <2>5. QED
    BY <2>1, <2>2, <2>4
<1>3. Phase[w] = CASE InJobs(w) -> "waiting"
                   [] Executing(w) -> "executing"
                   [] Posted(w, "napi_ok") -> "executed"
                   [] Posted(w, "napi_cancelled") -> "cancelled"
                   [] OTHER -> "idle"
  BY DEF Phase
<1>4. /\ InJobs(w) => ~Executing(w) /\ ~InReady(w)
      /\ Executing(w) => ~InReady(w)
  BY DEF Inductive, OnePlace
<1>5. QED
  BY <1>1, <1>2, <1>3, <1>4 DEF Pending

(* The phase after a step, as that of PhaseOf before it. *)
LEMMA PhaseAfter ==
  ASSUME NEW w \in Works
  PROVE  Phase'[w] = CASE InJobs(w)' -> "waiting"
                       [] Executing(w)' -> "executing"
                       [] Posted(w, "napi_ok")' -> "executed"
                       [] Posted(w, "napi_cancelled")' -> "cancelled"
                       [] OTHER -> "idle"
BY DEF Phase

(* A work that a step leaves where it was stays in its phase. *)
LEMMA SamePhase ==
  ASSUME NEW w \in Works,
         InJobs(w)' <=> InJobs(w),
         Executing(w)' <=> Executing(w),
         \A s \in Statuses : Posted(w, s)' <=> Posted(w, s)
  PROVE  Phase'[w] = Phase[w]
<1>1. /\ Posted(w, "napi_ok")' <=> Posted(w, "napi_ok")
      /\ Posted(w, "napi_cancelled")' <=> Posted(w, "napi_cancelled")
  BY DEF Statuses
<1>2. Phase[w] = CASE InJobs(w) -> "waiting"
                   [] Executing(w) -> "executing"
                   [] Posted(w, "napi_ok") -> "executed"
                   [] Posted(w, "napi_cancelled") -> "cancelled"
                   [] OTHER -> "idle"
  BY DEF Phase
<1>3. QED
  BY <1>1, <1>2, PhaseAfter

(* A step that changes the phase of one work is a move of that work. *)
LEMMA OneMoves ==
  ASSUME NEW w \in Works, NEW to,
         \A v \in Works \ {w} : Phase'[v] = Phase[v],
         Phase'[w] = to
  PROVE  Phase' = [Phase EXCEPT ![w] = to]
<1>1. Phase = [v \in Works |-> Phase[v]] /\ Phase' = [v \in Works |-> Phase'[v]]
  BY DEF Phase
<1>2. QED
  BY <1>1

(* Works go through their rounds as WorkRounds says, one at a time. *)
THEOREM Refinement == Spec => ImplementsRounds
<1> USE DEF Rounds!Next
<1>1. Init => Rounds!Init
  <2> SUFFICES ASSUME Init
               PROVE  Rounds!Init
    OBVIOUS
  <2>1. Inductive
    BY InductiveInit
  <2>2. ASSUME NEW w \in Works
        PROVE  Phase[w] = "idle"
    <3>1. queued[w] = Over(w)
      BY DEF Init, Zero, Over, Statuses
    <3>2. QED
      BY <2>1, <3>1, NotPending, PhaseOf DEF Pending
  <2>3. Phase = [w \in Works |-> "idle"]
    BY <2>2 DEF Phase
  <2>4. QED
    BY <2>3 DEF Init, Rounds!Init, Statuses
<1>2. Inductive /\ [Next]_vars => [Rounds!Next]_<<Phase, completed>>
  <2> SUFFICES ASSUME Inductive, [Next]_vars
               PROVE  [Rounds!Next]_<<Phase, completed>>
    OBVIOUS
  <2>1. ASSUME UNCHANGED <<jobs, work, ready, completed>>
        PROVE  UNCHANGED <<Phase, completed>>
    <3>1. \A w \in Works : Phase'[w] = Phase[w]
      BY <2>1, Still, SamePhase
    <3>2. QED
      BY <2>1, <3>1 DEF Phase
  <2>2. ASSUME NEW w \in Works, Create(w) \/ Delete(w)
        PROVE  UNCHANGED <<Phase, completed>>
    BY <2>1, <2>2 DEF Create, Delete, poolVars, loopVars, history
  <2>3. ASSUME NEW i \in Isolates, NotifyOne(i) \/ Dispose(i)
        PROVE  UNCHANGED <<Phase, completed>>
    BY <2>1, <2>3 DEF NotifyOne, Dispose, poolVars, loopVars, history
  <2>4. ASSUME NEW p \in PoolThreads, Sleep(p) \/ SpuriousWake(p)
        PROVE  UNCHANGED <<Phase, completed>>
    BY <2>1, <2>4 DEF Sleep, SpuriousWake, loopVars, history
  <2>5. ASSUME NEW w \in Works, Queue(w)
        PROVE  Rounds!Next
    <3>1. Phase[w] = "idle" /\ Phase'[w] = "waiting"
      <4>1. /\ InJobs(w)' /\ ~Executing(w)'
            /\ ~Posted(w, "napi_ok")' /\ ~Posted(w, "napi_cancelled")'
        BY <2>5, QueueMoves DEF InReady, Statuses
      <4>2. ~Pending(w)
        BY <2>5, QueueMoves DEF Pending
      <4>3. QED
        BY <4>1, <4>2, PhaseOf, PhaseAfter
    <3>2. \A v \in Works \ {w} : Phase'[v] = Phase[v]
      BY <2>5, QueueMoves, SamePhase
    <3>3. Phase' = [Phase EXCEPT ![w] = "waiting"]
      BY <3>1, <3>2, OneMoves
    <3>4. QED
      BY <2>5, <3>1, <3>3 DEF Queue, Rounds!Queue, Rounds!Move
  <2>6. ASSUME NEW w \in Works, Cancel(w)
        PROVE  Rounds!Next
    <3>1. InJobs(w) /\ ~Executing(w) /\ ~InReady(w)
      BY <2>6, CancelMoves DEF Inductive, OnePlace
    <3>2. /\ ~InJobs(w)' /\ ~Executing(w)'
          /\ ~Posted(w, "napi_ok")' /\ Posted(w, "napi_cancelled")'
      BY <2>6, <3>1, CancelMoves DEF InReady, Statuses
    <3>3. Phase[w] = "waiting" /\ Phase'[w] = "cancelled"
      BY <3>1, <3>2, PhaseOf, PhaseAfter
    <3>4. \A v \in Works \ {w} : Phase'[v] = Phase[v]
      BY <2>6, CancelMoves, SamePhase
    <3>5. Phase' = [Phase EXCEPT ![w] = "cancelled"]
      BY <3>3, <3>4, OneMoves
    <3>6. QED
      BY <2>6, <3>3, <3>5 DEF Cancel, Rounds!Cancel, Rounds!Move
  <2>7. ASSUME NEW p \in PoolThreads, Take(p)
        PROVE  Rounds!Next
    <3> PICK w \in Works : w = Head(jobs)
      BY <2>7, TakeMoves
    <3>1. /\ InJobs(w) /\ ~InJobs(w)' /\ Executing(w)'
          /\ ~Posted(w, "napi_ok")' /\ ~Posted(w, "napi_cancelled")'
      BY <2>7, TakeMoves DEF Inductive, OnePlace, InReady, Statuses
    <3>2. Phase[w] = "waiting" /\ Phase'[w] = "executing"
      BY <3>1, PhaseOf, PhaseAfter
    <3>3. \A v \in Works \ {w} : Phase'[v] = Phase[v]
      BY <2>7, TakeMoves, SamePhase
    <3>4. Phase' = [Phase EXCEPT ![w] = "executing"]
      BY <3>2, <3>3, OneMoves
    <3>5. QED
      BY <2>7, <3>2, <3>4 DEF Take, Rounds!Start, Rounds!Move
  <2>8. ASSUME NEW p \in PoolThreads, Executed(p)
        PROVE  Rounds!Next
    <3> PICK w \in Works : w = work[p]
      BY <2>8, ExecutedMoves
    <3>1. Executing(w) /\ ~InJobs(w) /\ ~InReady(w)
      BY <2>8, ExecutedMoves DEF Inductive, OnePlace
    <3>2. /\ ~InJobs(w)' /\ ~Executing(w)'
          /\ Posted(w, "napi_ok")' /\ ~Posted(w, "napi_cancelled")'
      BY <2>8, <3>1, ExecutedMoves DEF InReady, Statuses
    <3>3. Phase[w] = "executing" /\ Phase'[w] = "executed"
      BY <3>1, <3>2, PhaseOf, PhaseAfter
    <3>4. \A v \in Works \ {w} : Phase'[v] = Phase[v]
      BY <2>8, ExecutedMoves, SamePhase
    <3>5. Phase' = [Phase EXCEPT ![w] = "executed"]
      BY <3>3, <3>4, OneMoves
    <3>6. QED
      BY <2>8, <3>3, <3>5 DEF Executed, history, Rounds!Finish, Rounds!Move
  <2>9. ASSUME NEW i \in Isolates, Complete(i)
        PROVE  Rounds!Next
    <3> PICK w \in Works, s \in Statuses :
               w = Head(ready[i]).work /\ s = Head(ready[i]).status
      BY <2>9, CompleteMoves
    <3>1. Posted(w, s) /\ ~InJobs(w) /\ ~Executing(w)
      BY <2>9, CompleteMoves DEF Inductive, OnePlace, InReady
    <3>2. ~InJobs(w)' /\ ~Executing(w)' /\ ~Posted(w, "napi_ok")' /\ ~Posted(w, "napi_cancelled")'
      BY <2>9, <3>1, CompleteMoves DEF Statuses
    <3>3. Phase'[w] = "idle"
      BY <3>2, PhaseAfter
    <3>4. \A v \in Works \ {w} : Phase'[v] = Phase[v]
      BY <2>9, CompleteMoves, SamePhase
    <3>5. Phase' = [Phase EXCEPT ![w] = "idle"]
      BY <3>3, <3>4, OneMoves
    <3>6. completed' = [completed EXCEPT ![w][s] = @ + 1]
      BY <2>9 DEF Complete
    <3>7. CASE s = "napi_ok"
      <4>1. Phase[w] = "executed"
        BY <3>1, <3>7, PhaseOf
      <4>2. QED
        BY <3>5, <3>6, <3>7, <4>1 DEF Rounds!Complete, Rounds!Move
    <3>8. CASE s = "napi_cancelled"
      <4>1. Phase[w] = "cancelled"
        BY <3>1, <3>8, PhaseOf
      <4>2. QED
        BY <3>5, <3>6, <3>8, <4>1 DEF Rounds!Complete, Rounds!Move
    <3>9. QED
      BY <3>7, <3>8 DEF Statuses
  <2>10. CASE UNCHANGED vars
    BY <2>1, <2>10 DEF vars
  <2>11. QED
    BY <2>2, <2>3, <2>4, <2>5, <2>6, <2>7, <2>8, <2>9, <2>10 DEF Next, JsThread, PoolThread
<1>3. QED
  BY <1>1, <1>2, InductiveInvariance, PTL DEF Spec, Rounds!Spec, ImplementsRounds
=============================================================================
