---------------------- MODULE ThreadsafeFunctionProofs ----------------------
(***************************************************************************)
(* The threadsafe function's inductive invariant, the safety properties it *)
(* gives, and the refinement of CallQueue, for every set of threads, queue *)
(* limit and number of calls.                                              *)
(***************************************************************************)
EXTENDS ThreadsafeFunction, TLAPS, FiniteSetTheorems, SequenceTheorems

-----------------------------------------------------------------------------
(* Sequences                                                               *)

(* The loop's task lists are one task long: what the operations on them give. *)
LEMMA OneTask ==
  ASSUME NEW x, NEW y
  PROVE  /\ Append(<<>>, x) = <<x>>
         /\ <<x>> # <<>>
         /\ Head(<<x>>) = x
         /\ Tail(<<x>>) = <<>>
         /\ <<x>> = <<y>> <=> x = y
         /\ <<>> \o <<>> = <<>>
         /\ <<>> \o <<x>> = <<x>>
         /\ <<x>> \o <<>> = <<x>>
OBVIOUS

(* A non-empty sequence is its head followed by its tail. *)
LEMMA HeadTail ==
  ASSUME NEW S, NEW s \in Seq(S), s # <<>>
  PROVE  /\ <<Head(s)>> \in Seq(S)
         /\ Tail(s) \in Seq(S)
         /\ s = <<Head(s)>> \o Tail(s)
<1>1. /\ Head(s) \in S /\ Tail(s) \in Seq(S) /\ Len(Tail(s)) = Len(s) - 1
      /\ \A i \in 1 .. Len(Tail(s)) : Tail(s)[i] = s[i + 1]
  BY HeadTailProperties
<1>2. Len(s) \in Nat \ {0}
  BY EmptySeq
<1>3. <<Head(s)>> \in Seq(S) /\ Len(<<Head(s)>>) = 1 /\ <<Head(s)>>[1] = s[1]
  BY <1>1, <1>2
<1>4. <<Head(s)>> \o Tail(s) \in Seq(S) /\ Len(<<Head(s)>> \o Tail(s)) = Len(s)
  BY <1>1, <1>2, <1>3, ConcatProperties
<1>5. ASSUME NEW i \in 1 .. Len(s)
      PROVE  s[i] = (<<Head(s)>> \o Tail(s))[i]
  <2>1. (<<Head(s)>> \o Tail(s))[i] =
          IF i <= Len(<<Head(s)>>) THEN <<Head(s)>>[i] ELSE Tail(s)[i - Len(<<Head(s)>>)]
    BY <1>1, <1>2, <1>3, ConcatProperties
  <2>2. QED
    BY <1>1, <1>2, <1>3, <2>1
<1>6. QED
  BY <1>1, <1>3, <1>4, <1>5, SeqEqual

(* Concatenation of data is associative. *)
LEMMA DataConcat ==
  ASSUME NEW s \in Seq(Data), NEW q \in Seq(Data), NEW r \in Seq(Data)
  PROVE  s \o (q \o r) = (s \o q) \o r
BY ConcatAssociative, SMTT(30)

(* Appending to a concatenation appends to its second part. *)
LEMMA AppendOfConcat ==
  ASSUME NEW s \in Seq(Data), NEW q \in Seq(Data), NEW x \in Data
  PROVE  Append(s \o q, x) = s \o Append(q, x)
<1>1. /\ s \o q \in Seq(Data) /\ Append(q, x) \in Seq(Data) /\ <<x>> \in Seq(Data)
  BY ConcatProperties
<1>2. /\ Append(s \o q, x) = (s \o q) \o <<x>>
      /\ Append(q, x) = q \o <<x>>
  BY <1>1, AppendIsConcat
<1>3. QED
  BY <1>1, <1>2, ConcatAssociative

-----------------------------------------------------------------------------
(* Type correctness                                                        *)

(* A function that was just created has well-typed fields. *)
LEMMA TypeInit == Init => TypeOK
<1> SUFFICES ASSUME Init
             PROVE  TypeOK
  OBVIOUS
<1>1. Cardinality(Initial) \in Nat
  BY TsfnAssumption, FS_Subset, FS_CardinalityType
<1>2. Initial \subseteq Threads /\ MaxCalls \in Nat
  BY TsfnAssumption
<1>3. /\ calls \in [Threads -> 0 .. MaxCalls]
      /\ pc \in [Threads -> {"outside", "waiting", "woken"}]
  BY <1>2 DEF Init
<1>4. /\ queue \in Seq(Data) /\ inCall \in Seq(Data) /\ accepted \in Seq(Data)
      /\ handled \in Seq(Data) /\ dropped \in Seq(Data)
      /\ ready \in Seq({"Dispatch", "Finalize"})
  BY EmptySeq DEF Init
<1>5. QED
  BY <1>1, <1>2, <1>3, <1>4 DEF Init, TypeOK

(* A thread that holds the function is counted. *)
LEMMA Counted ==
  ASSUME TypeOK, CountInv
  PROVE  /\ IsFiniteSet(holders)
         /\ threadCount = 0 <=> holders = {}
         /\ \A t \in holders : /\ threadCount \in Nat \ {0}
                               /\ threadCount - 1 \in Nat
                               /\ threadCount - 1 = Cardinality(holders \ {t})
         /\ \A t \in Threads \ holders : threadCount + 1 = Cardinality(holders \union {t})
<1>1. IsFiniteSet(holders)
  BY TsfnAssumption, FS_Subset DEF TypeOK
<1>2. threadCount = 0 <=> holders = {}
  BY <1>1, FS_EmptySet DEF CountInv
<1>3. threadCount \in Nat
  BY DEF TypeOK
<1>4. ASSUME NEW t \in holders
      PROVE  threadCount \in Nat \ {0} /\ threadCount - 1 = Cardinality(holders \ {t})
  BY <1>1, <1>2, <1>3, FS_RemoveElement DEF CountInv
<1>5. ASSUME NEW t \in Threads \ holders
      PROVE  threadCount + 1 = Cardinality(holders \union {t})
  BY <1>1, FS_AddElement DEF CountInv
<1>6. QED
  BY <1>1, <1>2, <1>3, <1>4, <1>5

(* Sending keeps the dispatch flag and the task list well-typed. *)
LEMMA SendType ==
  ASSUME TypeOK, Send
  PROVE  dispatchPosted' \in BOOLEAN /\ ready' \in Seq({"Dispatch", "Finalize"})
BY DEF TypeOK, Send

(* On an open function a send leaves exactly one Dispatch posted. *)
LEMMA SendOpen ==
  ASSUME TypeOK, TaskInv, PhaseInv, Send, state = "Open"
  PROVE  dispatchPosted' /\ ready' = <<"Dispatch">>
<1>1. ready \in {<<>>, <<"Dispatch">>}
  BY DEF TypeOK, TaskInv, PhaseInv
<1>2. CASE ready = <<>>
  BY <1>2, OneTask DEF Send, TaskInv
<1>3. CASE ready = <<"Dispatch">>
  BY <1>3 DEF Send, TaskInv
<1>4. QED
  BY <1>1, <1>2, <1>3

(* notify_all leaves every thread in a call or outside one. *)
LEMMA NotifiedType ==
  ASSUME TypeOK
  PROVE  Notified \in [Threads -> {"outside", "waiting", "woken"}]
BY DEF TypeOK, Notified

(* A notification wakes every waiting thread and moves no other. *)
LEMMA NotifiedPc ==
  ASSUME TypeOK, NEW u \in Threads
  PROVE  /\ Notified[u] # "waiting"
         /\ Notified[u] = "outside" <=> pc[u] = "outside"
BY DEF TypeOK, Notified

(* Letting go of the function keeps its count and its holders well-typed. *)
LEMMA LetGoType ==
  ASSUME TypeOK, CountInv, NEW t \in holders, LetGo(t)
  PROVE  threadCount' \in Nat /\ holders' \subseteq Threads /\ freed' \in Nat
BY Counted DEF TypeOK, LetGo

-----------------------------------------------------------------------------
(* Each step keeps the invariant                                           *)

(* A call is queued. *)
LEMMA PushStep ==
  ASSUME Inductive, NEW t \in holders, NEW d \in Data, Push(t, d),
         calls' \in [Threads -> 0 .. MaxCalls], calls'[t] > 0,
         \A u \in Threads : u # t => calls'[u] = calls[u]
  PROVE  Inductive'
<1> USE DEF Inductive
<1>a. /\ dispatchPosted' /\ ready' = <<"Dispatch">>
      /\ ready' \in Seq({"Dispatch", "Finalize"})
  BY SendOpen, SendType DEF Push
<1>b. /\ queue' = Append(queue, d) /\ queue' \in Seq(Data)
      /\ accepted' = Append(accepted, d) /\ accepted' \in Seq(Data)
  BY DEF Push, TypeOK
<1>c. /\ t \in Threads /\ holders \subseteq Threads
      /\ pc' = [pc EXCEPT ![t] = "outside"]
      /\ pc' \in [Threads -> {"outside", "waiting", "woken"}]
  BY DEF Push, TypeOK
<1>d. MaxQueue \in Nat /\ Len(queue) \in Nat /\ Len(queue') = Len(queue) + 1
  BY TsfnAssumption, <1>b DEF TypeOK
<1>1. TypeOK'
  BY <1>a, <1>b, <1>c DEF TypeOK, Push, jsVars
<1>2. CountInv'
  BY DEF CountInv, Push
<1>3. TaskInv'
  BY <1>a DEF TaskInv
<1>4. PhaseInv'
  BY <1>a, OneTask DEF PhaseInv, Push, jsVars, Send
<1>5. DispatchInv'
  BY <1>a DEF DispatchInv
<1>6. CallInv'
  BY <1>c DEF CallInv, Push, jsVars, TypeOK
<1>7. NoLostWakeup'
  BY <1>c, <1>d DEF NoLostWakeup, Push, jsVars, Full, TypeOK
<1>8. DataInv'
  BY DEF DataInv, Push, jsVars
<1>9. FreeInv'
  BY DEF FreeInv, Push, jsVars
<1>10. Accounted'
  <2>1. dropped = <<>>
    BY DEF Push, PhaseInv, DataInv, TypeOK
  <2>2. /\ handled \o inCall \in Seq(Data)
        /\ queue \in Seq(Data)
    BY ConcatProperties DEF TypeOK
  <2>3. ASSUME NEW s \in Seq(Data)
        PROVE  Append(s \o queue, d) = s \o Append(queue, d)
    BY <2>2, AppendOfConcat
  <2>4. QED
    BY <1>b, <2>1, <2>2, <2>3, ConcatEmptySeq DEF Push, jsVars, Accounted, TypeOK
<1>11. QED
  BY <1>1, <1>2, <1>3, <1>4, <1>5, <1>6, <1>7, <1>8, <1>9, <1>10

(* A call on a closing function: its thread lets go. *)
LEMMA RefusedStep ==
  ASSUME Inductive, NEW t \in holders, Refused(t),
         calls' \in [Threads -> 0 .. MaxCalls], calls'[t] > 0,
         \A u \in Threads : u # t => calls'[u] = calls[u]
  PROVE  Inductive'
<1> USE DEF Inductive
<1>a. /\ t \in Threads /\ holders \subseteq Threads
      /\ pc' = [pc EXCEPT ![t] = "outside"]
      /\ pc' \in [Threads -> {"outside", "waiting", "woken"}]
  BY DEF Refused, TypeOK
<1>b. threadCount' \in Nat /\ holders' \subseteq Threads /\ freed' \in Nat
  BY LetGoType DEF Refused
<1>c. /\ threadCount # 0 /\ threadCount' = Cardinality(holders')
      /\ threadCount' = threadCount - 1
  BY Counted DEF Refused, LetGo
<1>1. TypeOK'
  BY <1>a, <1>b DEF TypeOK, Refused, LetGo, jsVars, history
<1>2. CountInv'
  BY <1>c DEF CountInv, Refused, LetGo, jsVars, history
<1>3. TaskInv'
  BY DEF TaskInv, Refused, LetGo, jsVars, history
<1>4. PhaseInv'
  BY DEF PhaseInv, Refused, LetGo, jsVars, history
<1>5. DispatchInv'
  BY DEF DispatchInv, Refused, LetGo, jsVars, history
<1>6. CallInv'
  BY <1>a DEF CallInv, Refused, LetGo, jsVars, history, TypeOK
<1>7. NoLostWakeup'
  BY <1>a DEF NoLostWakeup, Refused, LetGo, jsVars, history, Full, TypeOK
<1>8. DataInv'
  BY DEF DataInv, Refused, LetGo, jsVars, history
<1>9. FreeInv'
  BY <1>c DEF FreeInv, Refused, LetGo, jsVars, history
<1>10. Accounted'
  BY DEF Accounted, Refused, LetGo, jsVars, history
<1>11. QED
  BY <1>1, <1>2, <1>3, <1>4, <1>5, <1>6, <1>7, <1>8, <1>9, <1>10

(* A call finds the queue full. *)
LEMMA NoRoomStep ==
  ASSUME Inductive, NEW t \in holders, NEW blocking \in BOOLEAN, NoRoom(t, blocking),
         calls' \in [Threads -> 0 .. MaxCalls], calls'[t] > 0,
         \A u \in Threads : u # t => calls'[u] = calls[u]
  PROVE  Inductive'
<1> USE DEF Inductive
<1>a. /\ t \in Threads /\ holders \subseteq Threads
      /\ pc' = [pc EXCEPT ![t] = IF blocking THEN "waiting" ELSE "outside"]
      /\ pc' \in [Threads -> {"outside", "waiting", "woken"}]
  BY DEF NoRoom, TypeOK
<1>1. TypeOK'
  BY <1>a DEF TypeOK, NoRoom, shared, jsVars, history
<1>2. CountInv'
  BY DEF CountInv, NoRoom, shared, jsVars, history
<1>3. TaskInv'
  BY DEF TaskInv, NoRoom, shared, jsVars, history
<1>4. PhaseInv'
  BY DEF PhaseInv, NoRoom, shared, jsVars, history
<1>5. DispatchInv'
  BY DEF DispatchInv, NoRoom, shared, jsVars, history
<1>6. CallInv'
  BY <1>a DEF CallInv, NoRoom, shared, jsVars, history, TypeOK
<1>7. NoLostWakeup'
  BY <1>a DEF NoLostWakeup, NoRoom, shared, jsVars, history, Full, TypeOK
<1>8. DataInv'
  BY DEF DataInv, NoRoom, shared, jsVars, history
<1>9. FreeInv'
  BY DEF FreeInv, NoRoom, shared, jsVars, history
<1>10. Accounted'
  BY DEF Accounted, NoRoom, shared, jsVars, history
<1>11. QED
  BY <1>1, <1>2, <1>3, <1>4, <1>5, <1>6, <1>7, <1>8, <1>9, <1>10

(* A thread acquires the function for another one. *)
LEMMA AcquireStep ==
  ASSUME Inductive, NEW t \in Threads, NEW u \in Threads, Acquire(t, u)
  PROVE  Inductive'
<1> USE DEF Inductive
<1>a. threadCount \in Nat \ {0} /\ threadCount' = threadCount + 1
  BY Counted DEF Acquire
<1>1. TypeOK'
  BY DEF TypeOK, Acquire, jsVars, history
<1>2. CountInv'
  BY Counted DEF CountInv, Acquire, jsVars, history
<1>3. TaskInv'
  BY DEF TaskInv, Acquire, jsVars, history
<1>4. PhaseInv'
  BY DEF PhaseInv, Acquire, jsVars, history
<1>5. DispatchInv'
  BY <1>a DEF DispatchInv, Acquire, jsVars, history
<1>6. CallInv'
  BY DEF CallInv, Acquire, jsVars, history
<1>7. NoLostWakeup'
  BY DEF NoLostWakeup, Acquire, jsVars, history, Full
<1>8. DataInv'
  BY DEF DataInv, Acquire, jsVars, history
<1>9. FreeInv'
  BY DEF FreeInv, Acquire, jsVars, history
<1>10. Accounted'
  BY DEF Accounted, Acquire, jsVars, history
<1>11. QED
  BY <1>1, <1>2, <1>3, <1>4, <1>5, <1>6, <1>7, <1>8, <1>9, <1>10

(* A thread releases the function, or aborts it. *)
LEMMA ReleaseStep ==
  ASSUME Inductive, NEW t \in Threads, NEW abort \in BOOLEAN, Release(t, abort)
  PROVE  Inductive'
<1> USE DEF Inductive
<1>a. t \in holders /\ pc[t] = "outside" /\ calls' = calls /\ holders' = holders \ {t}
  BY DEF Release, LetGo
<1>b. /\ threadCount' = Cardinality(holders') /\ threadCount' = threadCount - 1
      /\ threadCount # 0 /\ threadCount' \in Nat
      /\ holders' \subseteq Threads /\ freed' \in Nat
  BY <1>a, Counted, LetGoType DEF Release, LetGo
<1>c. /\ state' \in {state, "Closing"}
      /\ state' # state => state = "Open"
      /\ state = "Open" /\ (threadCount' = 0 \/ state' = "Closing") =>
           dispatchPosted' /\ ready' = <<"Dispatch">>
      /\ ~(state = "Open" /\ (threadCount' = 0 \/ state' = "Closing")) =>
           /\ UNCHANGED <<dispatchPosted, ready, pc, state>>
  BY SendOpen DEF Release
<1>d. /\ pc' \in {pc, Notified}
      /\ state' # state => pc' = Notified
      /\ pc' \in [Threads -> {"outside", "waiting", "woken"}]
  BY NotifiedType DEF Release, TypeOK
<1>e. \A u \in Threads :
        /\ pc'[u] = "outside" <=> pc[u] = "outside"
        /\ state' # state => pc'[u] # "waiting"
        /\ pc'[u] = "waiting" => pc[u] = "waiting"
  BY <1>d DEF Notified, TypeOK
<1>1. TypeOK'
  BY <1>a, <1>b, <1>c, <1>d, SendType DEF TypeOK, Release, LetGo, jsVars, history
<1>2. CountInv'
  BY <1>b DEF CountInv, Release, LetGo, jsVars, history
<1>3. TaskInv'
  BY <1>b, <1>c, <1>d DEF TaskInv, Release, LetGo, jsVars, history
<1>4. PhaseInv'
  BY <1>b, <1>c, <1>d DEF PhaseInv, Release, LetGo, jsVars, history
<1>5. DispatchInv'
  BY <1>b, <1>c, <1>d DEF DispatchInv, Release, LetGo, jsVars, history
<1>6. CallInv'
  BY <1>a, <1>d, <1>e DEF CallInv, Release, LetGo, jsVars, history
<1>7. NoLostWakeup'
  <2>1. CASE state' = state
    BY <2>1, <1>e DEF NoLostWakeup, Release, Full
  <2>2. CASE state' # state
    BY <2>2, <1>e DEF NoLostWakeup
  <2>3. QED
    BY <2>1, <2>2
<1>8. DataInv'
  BY DEF DataInv, Release, LetGo, jsVars, history
<1>9. FreeInv'
  BY <1>b, <1>c DEF FreeInv, Release, LetGo, jsVars, history
<1>10. Accounted'
  BY DEF Accounted, Release, LetGo, jsVars, history
<1>11. QED
  BY <1>1, <1>2, <1>3, <1>4, <1>5, <1>6, <1>7, <1>8, <1>9, <1>10

(* A Dispatch task finds a function that is not closed, its handles open. *)
LEMMA TakesDispatch ==
  ASSUME Inductive, js = "loop", ready # <<>>, Head(ready) = "Dispatch"
  PROVE  /\ ready = <<"Dispatch">> /\ Tail(ready) = <<>>
         /\ state # "Closed" /\ ~handlesClosing /\ registered
BY OneTask, ZenonT(60) DEF Inductive, TypeOK, TaskInv, PhaseInv

(* A Finalize task finds a closing function, still registered. *)
LEMMA TakesFinalize ==
  ASSUME Inductive, js = "loop", ready # <<>>, Head(ready) = "Finalize"
  PROVE  /\ ready = <<"Finalize">> /\ Tail(ready) = <<>>
         /\ state = "Closing" /\ handlesClosing /\ registered
BY OneTask, ZenonT(60) DEF Inductive, TypeOK, TaskInv, PhaseInv

(* The JS thread dispatches one call of an open function. *)
LEMMA DispatchOpenStep ==
  ASSUME Inductive, DispatchOpen
  PROVE  Inductive'
<1> USE DEF Inductive
<1>a. /\ ready = <<"Dispatch">> /\ Tail(ready) = <<>>
      /\ state = "Open" /\ ~handlesClosing /\ registered
      /\ js = "loop" /\ dispatchPosted
  BY TakesDispatch DEF DispatchOpen, TaskInv
<1>b. /\ queue' \in Seq(Data) /\ inCall' \in Seq(Data)
      /\ queue = <<>> => queue' = <<>> /\ inCall' = <<>> /\ js' = "loop"
      /\ queue # <<>> => /\ queue' = Tail(queue) /\ inCall' = <<Head(queue)>>
                        /\ Head(queue) \in Data /\ js' = "calling"
  BY EmptySeq, HeadTailProperties DEF DispatchOpen, TypeOK
<1>c. /\ state' = IF queue' = <<>> /\ threadCount = 0 THEN "Closing" ELSE "Open"
      /\ handlesClosing' = (queue' = <<>> /\ threadCount = 0)
      /\ dispatchPosted' = (queue' # <<>>)
      /\ ready' = IF queue' = <<>> /\ threadCount = 0 THEN <<"Finalize">>
                  ELSE IF queue' # <<>> THEN <<"Dispatch">> ELSE <<>>
      /\ ready' \in Seq({"Dispatch", "Finalize"})
  <2>1. CASE queue' = <<>> /\ threadCount = 0
    BY <2>1, <1>a, OneTask DEF DispatchOpen
  <2>2. CASE queue' = <<>> /\ threadCount # 0
    BY <2>2, <1>a, OneTask DEF DispatchOpen
  <2>3. CASE queue' # <<>>
    BY <2>3, <1>a, OneTask DEF DispatchOpen
  <2>4. QED
    BY <2>1, <2>2, <2>3
<1>d. /\ pc' \in [Threads -> {"outside", "waiting", "woken"}]
      /\ \A u \in Threads : pc'[u] = "outside" <=> pc[u] = "outside"
      /\ \A u \in Threads : pc'[u] = "waiting" => pc[u] = "waiting"
      /\ queue # <<>> /\ MaxQueue > 0 => \A u \in Threads : pc'[u] # "waiting"
  BY NotifiedType, NotifiedPc DEF DispatchOpen, TypeOK
<1>e. Len(<<>>) = 0 /\ MaxQueue \in Nat
  BY TsfnAssumption
<1>1. TypeOK'
  BY <1>b, <1>c, <1>d DEF TypeOK, DispatchOpen, history
<1>2. CountInv'
  BY DEF CountInv, DispatchOpen, history
<1>3. TaskInv'
  BY <1>c, OneTask DEF TaskInv
<1>4. PhaseInv'
  BY <1>a, <1>c, OneTask DEF PhaseInv, DispatchOpen, history, TypeOK
<1>5. DispatchInv'
  BY <1>b, <1>c DEF DispatchInv, DispatchOpen, history, TypeOK
<1>6. CallInv'
  BY <1>d DEF CallInv, DispatchOpen, history
<1>7. NoLostWakeup'
  <2>1. CASE queue = <<>>
    <3>1. \A u \in Threads : pc[u] # "waiting"
      BY <2>1, <1>e DEF NoLostWakeup, Full
    <3>2. QED
      BY <3>1, <1>d DEF NoLostWakeup
  <2>2. CASE queue # <<>> /\ MaxQueue > 0
    BY <2>2, <1>d DEF NoLostWakeup
  <2>3. CASE ~(MaxQueue > 0)
    <3>1. \A u \in Threads : pc[u] # "waiting"
      BY <2>3 DEF NoLostWakeup, Full
    <3>2. QED
      BY <3>1, <1>d DEF NoLostWakeup
  <2>4. QED
    BY <2>1, <2>2, <2>3
<1>8. DataInv'
  BY <1>a, <1>b DEF DataInv, DispatchOpen, history, PhaseInv
<1>9. FreeInv'
  BY <1>a, <1>c DEF FreeInv, DispatchOpen, history
<1>10. Accounted'
  <2>1. inCall = <<>> /\ dropped = <<>>
    BY <1>a DEF DispatchOpen, DataInv, PhaseInv
  <2>2. accepted = handled \o queue
    BY <2>1, ConcatEmptySeq DEF Accounted, TypeOK
  <2>3. queue = inCall' \o queue'
    BY <1>b, HeadTail, ConcatEmptySeq DEF TypeOK
  <2>4. handled \o (inCall' \o queue') = (handled \o inCall') \o queue'
    BY <1>b, DataConcat, ZenonT(60) DEF TypeOK
  <2>5. (handled \o inCall') \o <<>> = handled \o inCall'
    BY <1>b, ConcatProperties, ConcatEmptySeq DEF TypeOK
  <2>6. QED
    BY <2>1, <2>2, <2>3, <2>4, <2>5 DEF DispatchOpen, history, Accounted
<1>11. QED
  BY <1>1, <1>2, <1>3, <1>4, <1>5, <1>6, <1>7, <1>8, <1>9, <1>10

(* The JS thread closes the handles of an aborted function. *)
LEMMA DispatchClosingStep ==
  ASSUME Inductive, DispatchClosing
  PROVE  Inductive'
<1> USE DEF Inductive
<1>a. /\ state = "Closing" /\ ready' = <<"Finalize">> /\ handlesClosing' = TRUE
      /\ registered /\ js = "loop" /\ ~dispatchPosted'
  <2>1. state = "Closing" /\ ~handlesClosing /\ registered /\ Tail(ready) = <<>>
    BY TakesDispatch DEF DispatchClosing, TypeOK
  <2>2. ready' = <<>> \o <<"Finalize">>
    BY <2>1 DEF DispatchClosing
  <2>3. QED
    BY <2>1, <2>2, OneTask DEF DispatchClosing
<1>b. ready' \in Seq({"Dispatch", "Finalize"})
  BY <1>a
<1>1. TypeOK'
  BY <1>a, <1>b DEF TypeOK, DispatchClosing, history
<1>2. CountInv'
  BY DEF CountInv, DispatchClosing, history
<1>3. TaskInv'
  BY <1>a, OneTask DEF TaskInv
<1>4. PhaseInv'
  BY <1>a, OneTask DEF PhaseInv, DispatchClosing, history
<1>5. DispatchInv'
  BY DEF DispatchInv, DispatchClosing, history
<1>6. CallInv'
  BY DEF CallInv, DispatchClosing, history
<1>7. NoLostWakeup'
  BY DEF NoLostWakeup, DispatchClosing, history, Full
<1>8. DataInv'
  BY DEF DataInv, DispatchClosing, history
<1>9. FreeInv'
  BY DEF FreeInv, DispatchClosing, history
<1>10. Accounted'
  BY DEF Accounted, DispatchClosing, history
<1>11. QED
  BY <1>1, <1>2, <1>3, <1>4, <1>5, <1>6, <1>7, <1>8, <1>9, <1>10

(* The JS thread calls JavaScript. *)
LEMMA CallJsStep ==
  ASSUME Inductive, CallJs
  PROVE  Inductive'
<1> USE DEF Inductive
<1>a. handled' = handled \o inCall /\ handled' \in Seq(Data) /\ inCall' = <<>>
  BY ConcatProperties DEF CallJs, TypeOK
<1>1. TypeOK'
  BY <1>a, EmptySeq DEF TypeOK, CallJs, shared
<1>2. CountInv'
  BY DEF CountInv, CallJs, shared
<1>3. TaskInv'
  BY DEF TaskInv, CallJs, shared
<1>4. PhaseInv'
  BY DEF PhaseInv, CallJs, shared
<1>5. DispatchInv'
  BY DEF DispatchInv, CallJs, shared
<1>6. CallInv'
  BY DEF CallInv, CallJs, shared
<1>7. NoLostWakeup'
  BY DEF NoLostWakeup, CallJs, shared, Full
<1>8. DataInv'
  BY DEF DataInv, CallJs, shared
<1>9. FreeInv'
  BY DEF FreeInv, CallJs, shared
<1>10. Accounted'
  <2>1. /\ (handled \o inCall) \o <<>> = handled \o inCall
        /\ dropped' = dropped /\ queue' = queue /\ accepted' = accepted
    BY <1>a, ConcatEmptySeq DEF CallJs, shared
  <2>2. QED
    BY <1>a, <2>1 DEF Accounted
<1>11. QED
  BY <1>1, <1>2, <1>3, <1>4, <1>5, <1>6, <1>7, <1>8, <1>9, <1>10

(* The JS thread drains a closing function. *)
LEMMA DrainStep ==
  ASSUME Inductive, Drain
  PROVE  Inductive'
<1> USE DEF Inductive
<1>a. /\ state = "Closing" /\ registered /\ js \in {"loop", "closed"}
      /\ js' = IF js = "loop" THEN "finalizing" ELSE "tearing"
      /\ js = "loop" => ready' = <<>> /\ handlesClosing /\ ~dispatchPosted
      /\ js = "closed" => ready' = ready
      /\ ready' \in Seq({"Dispatch", "Finalize"})
  BY TakesFinalize, OneTask, SMTT(30) DEF Drain, TypeOK, TaskInv, PhaseInv
<1>b. /\ dropped = <<>> /\ inCall = <<>>
      /\ dropped' = queue /\ dropped' \in Seq(Data)
  BY <1>a, ConcatEmptySeq DEF Drain, DataInv, TypeOK
<1>c. /\ queue' = <<>> /\ queue' \in Seq(Data)
      /\ js' \in {"loop", "calling", "finalizing", "closed", "tearing", "down"}
  BY <1>a, EmptySeq DEF Drain
<1>1. TypeOK'
  BY <1>a, <1>b, <1>c DEF TypeOK, Drain
<1>2. CountInv'
  BY <1>a DEF CountInv, Drain
<1>3. TaskInv'
  BY <1>a DEF TaskInv, Drain
<1>4. PhaseInv'
  BY <1>a DEF PhaseInv, Drain
<1>5. DispatchInv'
  BY <1>a DEF DispatchInv, Drain
<1>6. CallInv'
  BY <1>a DEF CallInv, Drain
<1>7. NoLostWakeup'
  BY <1>a DEF NoLostWakeup, Drain, Full
<1>8. DataInv'
  BY <1>a DEF DataInv, Drain
<1>9. FreeInv'
  BY <1>a DEF FreeInv, Drain
<1>10. Accounted'
  <2>1. accepted = handled \o queue
    BY <1>b, ConcatEmptySeq DEF Accounted, TypeOK
  <2>2. /\ handled \o <<>> = handled
        /\ (handled \o queue) \o <<>> = handled \o queue
    BY ConcatProperties, ConcatEmptySeq DEF TypeOK
  <2>3. /\ accepted' = accepted /\ handled' = handled /\ inCall' = <<>>
        /\ queue' = <<>>
    BY <1>b DEF Drain
  <2>4. QED
    BY <1>b, <2>1, <2>2, <2>3 DEF Accounted
<1>11. QED
  BY <1>1, <1>2, <1>3, <1>4, <1>5, <1>6, <1>7, <1>8, <1>9, <1>10

(* The JS thread finishes the finalization. *)
LEMMA FinishStep ==
  ASSUME Inductive, Finish
  PROVE  Inductive'
<1> USE DEF Inductive
<1>a. /\ state = "Closing" /\ registered /\ queue = <<>> /\ inCall = <<>>
      /\ js = "finalizing" => ready = <<>>
      /\ freed = 0 /\ finalized = 0
  BY DEF Finish, PhaseInv, FreeInv, DataInv
<1>b. /\ \A u \in Threads : pc'[u] # "waiting"
      /\ \A u \in Threads : pc'[u] = "outside" <=> pc[u] = "outside"
  BY NotifiedPc DEF Finish
<1>c. /\ inCall' = <<>> /\ state' = "Closed" /\ js' # "calling"
      /\ js' \in {"loop", "down"}
  BY <1>a DEF Finish
<1>d. /\ pc' \in [Threads -> {"outside", "waiting", "woken"}]
      /\ finalized' \in Nat /\ freed' \in Nat
  BY <1>a, NotifiedType DEF Finish
<1>1. TypeOK'
  BY <1>a, <1>c, <1>d DEF TypeOK, Finish
<1>2. CountInv'
  BY <1>a DEF CountInv, Finish
<1>3. TaskInv'
  BY <1>a DEF TaskInv, Finish
<1>4. PhaseInv'
  BY <1>a DEF PhaseInv, Finish, TypeOK
<1>5. DispatchInv'
  BY <1>a DEF DispatchInv, Finish
<1>6. CallInv'
  BY <1>b DEF CallInv, Finish
<1>7. NoLostWakeup'
  BY <1>b DEF NoLostWakeup
<1>8. DataInv'
  BY <1>c DEF DataInv
<1>9. FreeInv'
  BY <1>a DEF FreeInv, Finish
<1>10. Accounted'
  BY <1>a DEF Accounted, Finish
<1>11. QED
  BY <1>1, <1>2, <1>3, <1>4, <1>5, <1>6, <1>7, <1>8, <1>9, <1>10

(* The isolate's teardown closes the function. *)
LEMMA CloseForTeardownStep ==
  ASSUME Inductive, CloseForTeardown
  PROVE  Inductive'
<1> USE DEF Inductive
<1>a. state # "Closed" /\ finalized = 0 /\ dropped = <<>> /\ inCall = <<>>
  BY DEF CloseForTeardown, PhaseInv, DataInv
<1>b. /\ \A u \in Threads : pc'[u] # "waiting"
      /\ \A u \in Threads : pc'[u] = "outside" <=> pc[u] = "outside"
  BY NotifiedPc DEF CloseForTeardown
<1>1. TypeOK'
  BY NotifiedType DEF TypeOK, CloseForTeardown, history
<1>2. CountInv'
  BY DEF CountInv, CloseForTeardown, history
<1>3. TaskInv'
  BY DEF TaskInv, CloseForTeardown, history
<1>4. PhaseInv'
  BY <1>a DEF PhaseInv, CloseForTeardown, history
<1>5. DispatchInv'
  BY DEF DispatchInv, CloseForTeardown, history
<1>6. CallInv'
  BY <1>b DEF CallInv, CloseForTeardown, history
<1>7. NoLostWakeup'
  BY <1>b DEF NoLostWakeup
<1>8. DataInv'
  BY <1>a DEF DataInv, CloseForTeardown, history
<1>9. FreeInv'
  BY <1>a DEF FreeInv, CloseForTeardown, history
<1>10. Accounted'
  BY DEF Accounted, CloseForTeardown, history
<1>11. QED
  BY <1>1, <1>2, <1>3, <1>4, <1>5, <1>6, <1>7, <1>8, <1>9, <1>10

-----------------------------------------------------------------------------
(* The invariant and what it gives                                         *)

(* A step that changes nothing keeps the invariant. *)
LEMMA UnchangedStep == Inductive /\ UNCHANGED vars => Inductive'
BY DEF Inductive, vars, TypeOK, CountInv, TaskInv, PhaseInv, DispatchInv, CallInv,
       NoLostWakeup, Full, DataInv, FreeInv, Accounted

(* A call keeps it, whether it is queued, refused, or finds no room. *)
LEMMA CallStep ==
  ASSUME Inductive, NEW t \in Threads, Call(t)
  PROVE  Inductive'
<1>1. /\ t \in holders /\ calls \in [Threads -> 0 .. MaxCalls] /\ calls[t] + 1 \in 1 .. MaxCalls
      /\ calls' = [calls EXCEPT ![t] = @ + 1]
  BY TsfnAssumption DEF Call, Inductive, TypeOK
<1>2. /\ <<t, calls[t] + 1>> \in Data
      /\ calls' \in [Threads -> 0 .. MaxCalls] /\ calls'[t] > 0
      /\ \A u \in Threads : u # t => calls'[u] = calls[u]
  BY <1>1, TsfnAssumption DEF Data
<1>3. CASE Push(t, <<t, calls[t] + 1>>)
  BY <1>1, <1>2, <1>3, PushStep
<1>4. CASE Refused(t)
  BY <1>1, <1>2, <1>4, RefusedStep
<1>5. ASSUME NEW blocking \in BOOLEAN, NoRoom(t, blocking)
      PROVE  Inductive'
  BY <1>1, <1>2, <1>5, NoRoomStep
<1>6. QED
  BY <1>3, <1>4, <1>5 DEF Call

(* A blocked call that was notified keeps it. *)
LEMMA ResumeStep ==
  ASSUME Inductive, NEW t \in Threads, Resume(t)
  PROVE  Inductive'
<1>1. t \in holders /\ calls \in [Threads -> 0 .. MaxCalls] /\ calls' = calls /\ calls[t] > 0
  BY DEF Resume, Inductive, TypeOK, CallInv
<1>2. /\ <<t, calls[t]>> \in Data
      /\ calls' \in [Threads -> 0 .. MaxCalls] /\ calls'[t] > 0
      /\ \A u \in Threads : u # t => calls'[u] = calls[u]
  BY <1>1, TsfnAssumption DEF Data
<1>3. CASE Push(t, <<t, calls[t]>>)
  BY <1>1, <1>2, <1>3, PushStep
<1>4. CASE Refused(t)
  BY <1>1, <1>2, <1>4, RefusedStep
<1>5. CASE NoRoom(t, TRUE)
  BY <1>1, <1>2, <1>5, NoRoomStep
<1>6. QED
  BY <1>3, <1>4, <1>5 DEF Resume

(* A function that was just created satisfies it. *)
LEMMA InductiveInit == Init => Inductive
<1> SUFFICES ASSUME Init
             PROVE  Inductive
  OBVIOUS
<1>1. TypeOK
  BY TypeInit
<1>2. threadCount # 0
  <2>1. IsFiniteSet(Initial)
    BY TsfnAssumption, FS_Subset
  <2>2. QED
    BY <2>1, TsfnAssumption, FS_EmptySet DEF Init
<1>3. <<>> \o <<>> \o <<>> \o <<>> = <<>>
  BY OneTask
<1>4. QED
  BY <1>1, <1>2, <1>3 DEF Init, Inductive, CountInv, TaskInv, PhaseInv, DispatchInv, CallInv,
       NoLostWakeup, DataInv, FreeInv, Accounted

(* Every step of the threads, of the JS thread and of the teardown keeps   *)
(* what the parties agree on: the thread count, the one task posted, the   *)
(* phase of closing, who frees the function, and where each datum is.      *)
THEOREM InductiveInvariance == Spec => []Inductive
<1>1. Inductive /\ [Next]_vars => Inductive'
  <2> SUFFICES ASSUME Inductive, [Next]_vars
               PROVE  Inductive'
    OBVIOUS
  <2>1. CASE JsThread
    BY <2>1, DispatchOpenStep, DispatchClosingStep, CallJsStep, DrainStep, FinishStep DEF JsThread
  <2>2. CASE CloseForTeardown
    BY <2>2, CloseForTeardownStep
  <2>3. ASSUME NEW t \in Threads, Call(t)
        PROVE  Inductive'
    BY <2>3, CallStep
  <2>4. ASSUME NEW t \in Threads, Resume(t)
        PROVE  Inductive'
    BY <2>4, ResumeStep
  <2>5. ASSUME NEW t \in Threads, NEW u \in Threads, Acquire(t, u)
        PROVE  Inductive'
    BY <2>5, AcquireStep
  <2>6. ASSUME NEW t \in Threads, NEW abort \in BOOLEAN, Release(t, abort)
        PROVE  Inductive'
    BY <2>6, ReleaseStep
  <2>7. CASE UNCHANGED vars
    BY <2>7, UnchangedStep
  <2>8. QED
    BY <2>1, <2>2, <2>3, <2>4, <2>5, <2>6, <2>7 DEF Next
<1>2. QED
  BY InductiveInit, <1>1, PTL DEF Spec

(* The function's fields keep their types. *)
THEOREM TypeCorrect == Spec => []TypeOK
<1>1. Inductive => TypeOK
  BY DEF Inductive
<1>2. QED
  BY InductiveInvariance, <1>1, PTL

(* A freed function is out of every thread's, list's and task's reach, and *)
(* it is freed once.                                                       *)
THEOREM NoUseAfterFreeHolds == Spec => []NoUseAfterFree
<1>1. Inductive => NoUseAfterFree
  <2> SUFFICES ASSUME Inductive, freed > 0
               PROVE  /\ freed = 1 /\ holders = {} /\ ~registered
                      /\ js \in {"loop", "down"}
                      /\ LoopRuns => ready = <<>>
    BY DEF NoUseAfterFree
  <2>1. freed = 1 /\ state = "Closed" /\ threadCount = 0
    BY DEF Inductive, TypeOK, FreeInv
  <2>2. holders = {}
    BY <2>1, Counted DEF Inductive
  <2>3. QED
    BY <2>1, <2>2 DEF Inductive, TypeOK, PhaseInv, LoopRuns
<1>2. QED
  BY InductiveInvariance, <1>1, PTL

(* A closed function nobody holds any more has been freed. *)
THEOREM NoLeakHolds == Spec => []NoLeak
<1>1. Inductive => NoLeak
  <2> SUFFICES ASSUME Inductive, state = "Closed", holders = {}
               PROVE  freed = 1
    BY DEF NoLeak
  <2>1. threadCount = 0
    BY Counted DEF Inductive
  <2>2. QED
    BY <2>1 DEF Inductive, FreeInv
<1>2. QED
  BY InductiveInvariance, <1>1, PTL

(* No dispatch and no wakeup is lost. *)
THEOREM NothingLost == Spec => [](NoLostDispatch /\ NoLostWakeup)
<1>1. Inductive => NoLostDispatch /\ NoLostWakeup
  <2> SUFFICES ASSUME Inductive, LoopRuns
               PROVE  NoLostDispatch
    BY DEF Inductive, NoLostDispatch
  <2>1. state = "Open" /\ (queue # <<>> \/ threadCount = 0) =>
          "Dispatch" \in {ready[i] : i \in DOMAIN ready}
    <3> SUFFICES ASSUME state = "Open", queue # <<>> \/ threadCount = 0
                 PROVE  "Dispatch" \in {ready[i] : i \in DOMAIN ready}
      OBVIOUS
    <3>1. ready = <<"Dispatch">>
      BY DEF Inductive, DispatchInv, TaskInv
    <3>2. 1 \in DOMAIN ready /\ ready[1] = "Dispatch"
      BY <3>1
    <3>3. QED
      BY <3>2
  <2>2. state = "Closing" /\ js # "finalizing" => ready # <<>>
    BY OneTask DEF Inductive, TypeOK, PhaseInv, LoopRuns
  <2>3. QED
    BY <2>1, <2>2 DEF NoLostDispatch
<1>2. QED
  BY InductiveInvariance, <1>1, PTL

(* The last one frees the function, nobody touches it afterwards, and no  *)
(* caller is left asleep.                                                  *)
THEOREM SafetyHolds == Spec => []Safety
<1>1. NoUseAfterFree /\ NoLeak /\ (NoLostDispatch /\ NoLostWakeup) => Safety
  BY DEF Safety
<1>2. QED
  BY NoUseAfterFreeHolds, NoLeakHolds, NothingLost, <1>1, PTL

(* Every accepted call is in one place, in the order of acceptance. *)
THEOREM AccountedHolds == Spec => []Accounted
<1>1. Inductive => Accounted
  BY DEF Inductive
<1>2. QED
  BY InductiveInvariance, <1>1, PTL

-----------------------------------------------------------------------------
(* The refinement                                                          *)

(* The next datum handed over is the one after those handed over before. *)
LEMMA NextDatum ==
  ASSUME NEW s \in Seq(Data), NEW d \in Data, NEW q \in Seq(Data)
  PROVE  LET w == (s \o <<d>>) \o q
         IN  /\ Len(s) < Len(w)
             /\ s \o <<d>> = Append(s, w[Len(s) + 1])
<1>1. /\ <<d>> \in Seq(Data) /\ Len(<<d>>) = 1 /\ <<d>>[1] = d
      /\ Len(s) \in Nat /\ Len(q) \in Nat
  OBVIOUS
<1>2. /\ s \o <<d>> \in Seq(Data) /\ Len(s \o <<d>>) = Len(s) + 1
      /\ (s \o <<d>>)[Len(s) + 1] = d
  <2>1. \A i \in 1 .. Len(s) + Len(<<d>>) : (s \o <<d>>)[i] =
          IF i <= Len(s) THEN s[i] ELSE <<d>>[i - Len(s)]
    BY <1>1, ConcatProperties
  <2>2. QED
    BY <1>1, <2>1, ConcatProperties
<1>3. /\ Len((s \o <<d>>) \o q) = Len(s) + 1 + Len(q)
      /\ ((s \o <<d>>) \o q)[Len(s) + 1] = d
  <2>1. \A i \in 1 .. Len(s \o <<d>>) + Len(q) : ((s \o <<d>>) \o q)[i] =
          IF i <= Len(s \o <<d>>) THEN (s \o <<d>>)[i] ELSE q[i - Len(s \o <<d>>)]
    BY <1>2, ConcatProperties
  <2>2. QED
    BY <1>1, <1>2, <2>1, ConcatProperties
<1>4. s \o <<d>> = Append(s, d)
  BY AppendIsConcat
<1>5. QED
  BY <1>1, <1>3, <1>4

(* What is left of a concatenation after its first part is the second. *)
LEMMA Rest ==
  ASSUME NEW s \in Seq(Data), NEW q \in Seq(Data)
  PROVE  SubSeq(s \o q, Len(s) + 1, Len(s \o q)) = q
<1> DEFINE w == s \o q
           r == SubSeq(w, Len(s) + 1, Len(w))
<1>1. /\ Len(s) \in Nat /\ Len(q) \in Nat
      /\ w \in Seq(Data) /\ Len(w) = Len(s) + Len(q)
      /\ \A i \in 1 .. Len(s) + Len(q) : w[i] = IF i <= Len(s) THEN s[i] ELSE q[i - Len(s)]
  BY ConcatProperties
<1> HIDE DEF w
<1>2. \A i \in (Len(s) + 1) .. Len(w) : w[i] \in Data
  BY <1>1, ElementOfSeq
<1>3. /\ r \in Seq(Data) /\ Len(r) = Len(q)
      /\ \A i \in 1 .. Len(q) : r[i] = w[Len(s) + 1 + i - 1]
  BY <1>1, <1>2, SubSeqProperties
<1>4. \A i \in 1 .. Len(q) : r[i] = q[i]
  BY <1>1, <1>3, SMTT(30)
<1>5. r = q
  BY <1>3, <1>4, SeqEqual
<1>6. QED
  BY <1>5 DEF w

(* The threadsafe function implements the queue of calls it promises: each *)
(* step accepts, hands over, drops or closes as CallQueue says, or changes *)
(* nothing a caller can see.                                               *)
THEOREM Refinement == Spec => ImplementsCallQueue
<1> USE DEF Promise!vars, Promise!Next
<1>1. Init => Promise!Init
  BY DEF Init, Promise!Init
<1>2. Inductive /\ [Next]_vars => [Promise!Next]_(Promise!vars)
  <2> SUFFICES ASSUME Inductive, [Next]_vars
               PROVE  [Promise!Next]_(Promise!vars)
    OBVIOUS
  <2>a. ASSUME NEW t \in Threads, NEW d \in Data, Push(t, d)
        PROVE  Promise!Next
    BY <2>a DEF Push, Promise!Accept
  <2>b. ASSUME NEW t \in Threads, Refused(t)
        PROVE  UNCHANGED Promise!vars
    BY <2>b DEF Refused, history
  <2>c. ASSUME NEW t \in Threads, NEW blocking \in BOOLEAN, NoRoom(t, blocking)
        PROVE  UNCHANGED Promise!vars
    BY <2>c DEF NoRoom, history, shared
  <2>1. ASSUME NEW t \in Threads, Call(t)
        PROVE  [Promise!Next]_(Promise!vars)
    <3>1. <<t, calls[t] + 1>> \in Data
      BY <2>1, TsfnAssumption DEF Call, Inductive, TypeOK, Data
    <3>2. QED
      BY <2>1, <3>1, <2>a, <2>b, <2>c DEF Call
  <2>2. ASSUME NEW t \in Threads, Resume(t)
        PROVE  [Promise!Next]_(Promise!vars)
    <3>1. calls \in [Threads -> 0 .. MaxCalls] /\ calls[t] > 0
      BY <2>2 DEF Resume, Inductive, TypeOK, CallInv
    <3>2. <<t, calls[t]>> \in Data
      BY <3>1, TsfnAssumption DEF Data
    <3>3. QED
      BY <2>2, <3>2, <2>a, <2>b, <2>c DEF Resume
  <2>3. ASSUME NEW t \in Threads, NEW u \in Threads, Acquire(t, u)
        PROVE  UNCHANGED Promise!vars
    BY <2>3 DEF Acquire, history
  <2>4. ASSUME NEW t \in Threads, NEW abort \in BOOLEAN, Release(t, abort)
        PROVE  [Promise!Next]_(Promise!vars)
    BY <2>4 DEF Release, history, Promise!Close
  <2>5. CASE DispatchOpen
    BY <2>5 DEF DispatchOpen, history, Promise!Close
  <2>6. CASE DispatchClosing
    BY <2>6 DEF DispatchClosing, history
  <2>7. CASE CallJs
    <3>1. PICK d \in Data : inCall = <<d>>
      BY <2>7 DEF CallJs, Inductive, DataInv
    <3>2. dropped = <<>> /\ handled \in Seq(Data) /\ queue \in Seq(Data)
      BY <2>7 DEF CallJs, Inductive, TypeOK, PhaseInv, DataInv
    <3>3. accepted = (handled \o <<d>>) \o queue
      <4>1. handled \o <<d>> \in Seq(Data)
        BY <3>2, ConcatProperties
      <4>2. QED
        BY <3>1, <3>2, <4>1, ConcatEmptySeq DEF Inductive, Accounted
    <3>4. /\ Len(handled) < Len(accepted)
          /\ handled \o <<d>> = Append(handled, accepted[Len(handled) + 1])
      BY <3>2, <3>3, NextDatum
    <3>5. QED
      BY <2>7, <3>1, <3>2, <3>4 DEF CallJs, shared, Promise!Handle
  <2>8. CASE Drain
    <3>1. /\ state # "Open" /\ dropped = <<>> /\ inCall = <<>>
          /\ handled \in Seq(Data) /\ queue \in Seq(Data)
      BY <2>8, TakesFinalize DEF Drain, Inductive, TypeOK, PhaseInv, DataInv
    <3>2. accepted = handled \o queue /\ dropped' = queue
      BY <2>8, <3>1, ConcatEmptySeq DEF Drain, Inductive, Accounted
    <3>3. dropped' = SubSeq(accepted, Len(handled) + 1, Len(accepted))
      BY <3>1, <3>2, Rest
    <3>4. QED
      BY <2>8, <3>1, <3>3 DEF Drain, Promise!Drop
  <2>9. CASE Finish
    BY <2>9 DEF Finish, Inductive, PhaseInv
  <2>10. CASE CloseForTeardown
    BY <2>10 DEF CloseForTeardown, history, Promise!Close
  <2>11. CASE UNCHANGED vars
    BY <2>11 DEF vars
  <2>12. QED
    BY <2>1, <2>2, <2>3, <2>4, <2>5, <2>6, <2>7, <2>8, <2>9, <2>10, <2>11 DEF Next, JsThread
<1>3. QED
  BY <1>1, <1>2, InductiveInvariance, PTL DEF Spec, Promise!Spec, ImplementsCallQueue
=============================================================================
