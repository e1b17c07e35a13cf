---------------------------- MODULE SourceCache ----------------------------
(***************************************************************************)
(* How a module's file becomes the script a worker runs (runner.rs):       *)
(* module_source keeps, for the threads of one process, a source per file  *)
(* under the stamp of the version it was made from; below it the           *)
(* transforms are kept on disk, under their content, for every process;    *)
(* compile_cjs_cached keeps V8's code caches there too, produced from a    *)
(* queue once the test file ran.                                           *)
(*                                                                         *)
(* A text is a number: what the transform makes of the file's version of   *)
(* that number.  Files are edited while the run goes on and all versions   *)
(* have one size, so only times and hashes tell them apart.  Time is       *)
(* counted in ticks; the file system's clock shows every Grain-th.         *)
(* Processes share nothing but the disk, so a thread of another process is *)
(* one of this process as far as the disk is concerned; Kill ends the      *)
(* process and leaves the disk to the next.                                *)
(***************************************************************************)
EXTENDS Naturals, Sequences, FiniteSets, SequencesExt

CONSTANTS
  Modules,                \* source files
  Esbuild,                \* those that esbuild or tsc transforms, which reads the file itself
  Esm,                    \* those loaded as ES modules (read_transformed with as_cjs = false)
  Unshared,               \* test and setup files: shareable_source is false
  App,                    \* those outside node_modules
  Threads,                \* workers
  Grain,                  \* ticks between two times that the file system can show
  Window,                 \* stamp_from's 2 s in ticks
  Cap,                    \* MAX_SHARED_APP_SOURCES
  MaxText,                \* bound: versions of a file
  Edited,                 \* bound: the files that are edited
  MaxTime,                \* bound: the clock
  MaxEdits                \* bound: edits of files

ASSUME CacheAssumption ==
  /\ Modules # {}
  /\ \A S \in {Esbuild, Esm, Unshared, App, Edited} : S \subseteq Modules
  /\ {Grain, Cap, MaxText} \subseteq Nat \ {0}
  /\ {MaxTime, MaxEdits} \subseteq Nat
  /\ Window \in Nat
  /\ Grain <= Window      \* the coarse clocks that the 2 s are for

VARIABLES
  clock,
  file,                   \* text, mtime and ctime of each module's file
  disk,                   \* the transform kept for a module's text, by the text
  codes,                  \* the text each code cache file was compiled from
  shared,                 \* shared_sources, the least recently used first
  thread,                 \* where each worker is in its load
  pending,                \* PENDING_CODE_CACHES of each worker
  touchedDead,            \* history: a handle of a disposed isolate was used or dropped
  edits                   \* history: edits so far

vars == <<clock, file, disk, codes, shared, thread, pending, touchedDead, edits>>

Texts == 1 .. MaxText

Missing == 0              \* no such file
Part == MaxText + 1       \* a file of which only a part is written

(* A thread that loads nothing. *)
Idle(at) == [at |-> at, m |-> CHOOSE m \in Modules : TRUE, stamp |-> <<>>,
             key |-> Missing, text |-> Missing, there |-> {}]

Init ==
  /\ clock = 0
  /\ file = [m \in Modules |-> [text |-> 1, mtime |-> 0, ctime |-> 0]]
  /\ disk = [m \in Modules |-> [x \in Texts |-> Missing]]
  /\ codes = [m \in Modules |-> [x \in Texts |-> Missing]]
  /\ shared = <<>>
  /\ thread = [t \in Threads |-> Idle("idle")]
  /\ pending = [t \in Threads |-> {}]
  /\ touchedDead = FALSE
  /\ edits = 0

-----------------------------------------------------------------------------
(* The file system and its users                                           *)

Shown(time) == time - (time % Grain)

Tick ==
  /\ clock < MaxTime
  /\ clock' = clock + 1
  /\ UNCHANGED <<file, disk, codes, shared, thread, pending, touchedDead, edits>>

(* A file is not put back to what it was within Window of a change: stamps *)
(* do not tell that (the hash is of what the file has after its times were *)
(* read).                                                                  *)
Write(m, x, mtime) ==
  /\ edits < MaxEdits
  /\ edits' = edits + 1
  /\ x # file[m].text
  /\ x > file[m].text \/ clock - file[m].mtime >= Window
  /\ file' = [file EXCEPT ![m] = [text |-> x, mtime |-> mtime, ctime |-> Shown(clock)]]
  /\ thread' = [t \in Threads |->
       IF thread[t].m = m /\ thread[t].there # {}
         THEN [thread[t] EXCEPT !.there = @ \union {x}] ELSE thread[t]]
  /\ UNCHANGED <<clock, disk, codes, shared, pending, touchedDead>>

Edit(m, x) == Write(m, x, Shown(clock))

(* A copy that keeps its source's mtime (cp -p), once per shown time. *)
EditKeepingTime(m, x) ==
  /\ Shown(clock) # file[m].ctime
  /\ Write(m, x, file[m].mtime)

-----------------------------------------------------------------------------
(* Loading a module                                                        *)

Goto(t, at) ==
  thread' = [thread EXCEPT ![t] = IF at \in {"idle", "file"} THEN Idle(at) ELSE [@ EXCEPT !.at = at]]

Shareable(m) == m \notin Esm \union Unshared

(* source_stamp: the metadata, then the time and, for a file modified less *)
(* than Window ago, the hash of the bytes.                                 *)
Begin(t, m) ==
  /\ thread[t].at = "file"
  /\ thread' = [thread EXCEPT ![t] =
       [Idle(IF Shareable(m) THEN "stamp" ELSE "read") EXCEPT
          !.m = m, !.stamp = <<file[m].mtime, file[m].ctime>>, !.there = {file[m].text}]]
  /\ UNCHANGED <<clock, file, disk, codes, shared, pending, touchedDead, edits>>

(* StampFrom, mutated: the hash is taken for a file modified right now. *)
StampOfNow(meta, text) == <<meta[1], meta[2], IF clock = meta[1] THEN text ELSE 0>>

(* stamp_from *)
StampFrom(meta, text) ==
  <<meta[1], meta[2], IF clock - meta[1] < Window THEN text ELSE 0>>

Stamp(t) ==
  /\ thread[t].at = "stamp"
  /\ thread' = [thread EXCEPT ![t].stamp = StampFrom(@, file[thread[t].m].text), ![t].at = "hit"]
  /\ UNCHANGED <<clock, file, disk, codes, shared, pending, touchedDead, edits>>

(* The entries a thread's load may take: at most one per file. *)
Hits(t) ==
  {i \in 1 .. Len(shared) : shared[i].m = thread[t].m /\ shared[i].stamp = thread[t].stamp}

(* module_source's lookup, first before the transform and again after it,  *)
(* each under the lock: an entry that is used becomes the most recent.     *)
TakeShared(t, i) ==
  /\ shared' = Append(RemoveAt(shared, i), shared[i])
  /\ thread' = [thread EXCEPT ![t].text = shared[i].text, ![t].at = "compile"]

Hit(t) ==
  /\ thread[t].at = "hit"
  /\ \/ \E i \in Hits(t) : TakeShared(t, i)
     \/ Hits(t) = {} /\ Goto(t, "read") /\ UNCHANGED shared
  /\ UNCHANGED <<clock, file, disk, codes, pending, touchedDead, edits>>

Loaded(m) == IF Shareable(m) THEN "insert" ELSE IF m \in Esm THEN "loaded" ELSE "compile"

(* The file is read and hashed, and what the disk has under the hash is    *)
(* the transform.                                                          *)
Read(t) ==
  LET m == thread[t].m  x == file[m].text IN
  /\ thread[t].at = "read"
  /\ thread' = [thread EXCEPT ![t].key = x, ![t].text = disk[m][x],
                              ![t].at = IF disk[m][x] = Missing THEN "transform" ELSE Loaded(m)]
  /\ UNCHANGED <<clock, file, disk, codes, shared, pending, touchedDead, edits>>

ReadCjs(t) == thread[t].m \notin Esm /\ Read(t)      \* native_transform_cjs

ReadEsm(t) == thread[t].m \in Esm /\ Read(t)         \* read_transformed

Transformed(t, x) ==
  /\ thread[t].at = "transform"
  /\ thread' = [thread EXCEPT ![t].text = x, ![t].at = "write"]
  /\ UNCHANGED <<clock, file, disk, codes, shared, pending, touchedDead, edits>>

(* The native transform takes the text that was read. *)
Transform(t) == thread[t].m \notin Esbuild /\ Transformed(t, thread[t].key)

(* esbuild (and tsc) is given the file's name if the file still has that   *)
(* text, a copy of the text else, and reads what it is given: the file may *)
(* have changed once more.                                                 *)
TransformByName(t) ==
  /\ thread[t].m \in Esbuild
  /\ \E x \in {thread[t].key, file[thread[t].m].text} : Transformed(t, x)

(* Publish, mutated: written in place. *)
PublishInPlace(t) ==
  LET m == thread[t].m IN
  /\ thread[t].at = "write"
  /\ disk' = [disk EXCEPT ![m][thread[t].key] = Part]
  /\ Goto(t, "rest")
  /\ UNCHANGED <<clock, file, codes, shared, pending, touchedDead, edits>>

(* write_atomic: a temporary file, seen by nobody, and a rename. *)
Publish(t) ==
  LET m == thread[t].m IN
  /\ thread[t].at = "write"
  /\ m \notin Esm
  /\ disk' = [disk EXCEPT ![m][thread[t].key] = thread[t].text]
  /\ Goto(t, Loaded(m))
  /\ UNCHANGED <<clock, file, codes, shared, pending, touchedDead, edits>>

(* The ES module path writes in place (fs::write): the file is there       *)
(* before its contents are.                                                *)
WriteEsm(t) ==
  LET m == thread[t].m IN
  /\ thread[t].at = "write"
  /\ m \in Esm
  /\ disk' = [disk EXCEPT ![m][thread[t].key] = Part]
  /\ Goto(t, "rest")
  /\ UNCHANGED <<clock, file, codes, shared, pending, touchedDead, edits>>

(* ... its contents. *)
WriteRest(t) ==
  LET m == thread[t].m IN
  /\ thread[t].at = "rest"
  /\ disk' = [disk EXCEPT ![m][thread[t].key] = thread[t].text]
  /\ Goto(t, Loaded(m))
  /\ UNCHANGED <<clock, file, codes, shared, pending, touchedDead, edits>>

AppSources(s) == {i \in 1 .. Len(s) : s[i].m \in App}

(* cap_app_sources: the app entry used longest ago goes when one came too  *)
(* many.                                                                   *)
Capped(s) ==
  IF Cardinality(AppSources(s)) <= Cap THEN s
  ELSE RemoveAt(s, CHOOSE i \in AppSources(s) : \A j \in AppSources(s) : i <= j)

(* The entry that a file has goes when it is given another one. *)
Others(m) ==
  IF \E i \in 1 .. Len(shared) : shared[i].m = m
    THEN RemoveAt(shared, CHOOSE i \in 1 .. Len(shared) : shared[i].m = m)
    ELSE shared

(* The stamp of an entry, mutated: taken when the entry is made. *)
EntryStampNow(t) ==
  LET f == file[thread[t].m] IN StampFrom(<<f.mtime, f.ctime>>, f.text)

(* An entry is kept under the stamp that its load began with. *)
EntryStamp(t) == thread[t].stamp

Insert(t) ==
  LET m == thread[t].m
      all == Append(Others(m), [m |-> m, stamp |-> EntryStamp(t), text |-> thread[t].text])
  IN
  /\ thread[t].at = "insert"
  /\ \/ \E i \in Hits(t) : TakeShared(t, i)
     \/ /\ Hits(t) = {}
        /\ shared' = IF m \in App THEN Capped(all) ELSE all
        /\ Goto(t, "compile")
  /\ UNCHANGED <<clock, file, disk, codes, pending, touchedDead, edits>>

-----------------------------------------------------------------------------
(* Compiling it, with V8's code cache                                      *)

(* CachePath, mutated: by the module's path. *)
CachePathOfModule(m, x) == <<m, 1>>

(* cc_path: by the wrapped text. *)
CachePath(m, x) == <<m, x>>

CodeAt(path) == codes[path[1]][path[2]]

Defer(t) ==
  pending' = [pending EXCEPT ![t] = @ \union
                {[m |-> thread[t].m, text |-> thread[t].text, dead |-> FALSE]}]

(* An ES module is V8's: nothing is kept of it. *)
CompileEsm(t) ==
  /\ thread[t].at = "loaded"
  /\ Goto(t, "file")
  /\ UNCHANGED <<clock, file, disk, codes, shared, pending, touchedDead, edits>>

(* compile_cjs_cached: a cache V8 takes (it compares the lengths of the    *)
(* sources) is refreshed now and then; one it rejects goes and is made     *)
(* anew; without one the script is compiled and its cache made later.      *)
Compile(t) ==
  LET path == CachePath(thread[t].m, thread[t].text) IN
  /\ thread[t].at = "compile"
  /\ thread[t].text \in Texts
  /\ Goto(t, "file")
  /\ \/ CodeAt(path) = Missing /\ Defer(t) /\ UNCHANGED codes
     \/ CodeAt(path) # Missing /\ (Defer(t) \/ UNCHANGED pending) /\ UNCHANGED codes
     \/ /\ CodeAt(path) # Missing
        /\ codes' = [codes EXCEPT ![path[1]][path[2]] = Missing]
        /\ Defer(t)
  /\ UNCHANGED <<clock, file, disk, shared, touchedDead, edits>>

-----------------------------------------------------------------------------
(* The test file, its isolate and the worker                               *)

(* Dropping or reading handles to scripts of a disposed isolate panics. *)
Touch(handles) == touchedDead' = (touchedDead \/ \E h \in handles : h.dead)

(* discard_stale_code_caches *)
StartFile(t) ==
  /\ thread[t].at = "idle"
  /\ Goto(t, "file")
  /\ pending' = [pending EXCEPT ![t] = {}]
  /\ UNCHANGED <<clock, file, disk, codes, shared, touchedDead, edits>>

(* What is left pending when the isolate goes. *)
Orphans(handles) == {[h EXCEPT !.dead = TRUE] : h \in handles}

(* FileFailed, mutated: what a failed file deferred stays. *)
FileFailedKeeps(t) ==
  /\ thread[t].at = "file"
  /\ Goto(t, "idle")
  /\ \E disposed \in BOOLEAN :
       pending' = [pending EXCEPT ![t] = IF disposed THEN Orphans(@) ELSE @]
  /\ UNCHANGED <<clock, file, disk, codes, shared, touchedDead, edits>>

(* drop_pending_code_caches, while the isolate lives; then the isolate may *)
(* be disposed of (a fresh one, or one that is recycled).                  *)
FileFailed(t) ==
  /\ thread[t].at = "file"
  /\ Goto(t, "idle")
  /\ Touch(pending[t])
  /\ pending' = [pending EXCEPT ![t] = {}]
  /\ UNCHANGED <<clock, file, disk, codes, shared, edits>>

(* flush_code_caches: store_code_cache keeps those that hold more than     *)
(* what is known of the file.                                              *)
FileRan(t) ==
  /\ thread[t].at = "file"
  /\ Goto(t, "idle")
  /\ Touch(pending[t])
  /\ \E stored \in SUBSET pending[t] :
       codes' = [m \in Modules |-> [x \in Texts |->
         IF \E h \in stored : CachePath(h.m, h.text) = <<m, x>>
           THEN (CHOOSE h \in stored : CachePath(h.m, h.text) = <<m, x>>).text
           ELSE codes[m][x]]]
  /\ pending' = [pending EXCEPT ![t] = {}]
  /\ UNCHANGED <<clock, file, disk, shared, edits>>

(* Panic, mutated: without PendingCodeCacheGuard. *)
PanicUnguarded(t) ==
  /\ thread[t].at # "idle"
  /\ Goto(t, "idle")
  /\ pending' = [pending EXCEPT ![t] = Orphans(@)]
  /\ UNCHANGED <<clock, file, disk, codes, shared, touchedDead, edits>>

(* PendingCodeCacheGuard forgets what is pending; then the isolate goes. *)
Panic(t) ==
  /\ thread[t].at # "idle"
  /\ Goto(t, "idle")
  /\ pending' = [pending EXCEPT ![t] = {}]
  /\ UNCHANGED <<clock, file, disk, codes, shared, touchedDead, edits>>

(* A worker's end: the destructor of its thread-local drops what is left.  *)
(* The thread stands for the next worker then.                             *)
EndWorker(t) ==
  /\ thread[t].at = "idle"
  /\ Touch(pending[t])
  /\ pending' = [pending EXCEPT ![t] = {}]
  /\ UNCHANGED <<clock, file, disk, codes, shared, thread, edits>>

(* The process is killed; another one runs next. *)
Kill ==
  /\ thread' = [t \in Threads |-> Idle("idle")]
  /\ shared' = <<>>
  /\ pending' = [t \in Threads |-> {}]
  /\ UNCHANGED <<clock, file, disk, codes, touchedDead, edits>>

Next ==
  \/ Tick
  \/ Kill
  \/ \E m \in Edited, x \in Texts : Edit(m, x) \/ EditKeepingTime(m, x)
  \/ \E t \in Threads :
       \/ \E m \in Modules : Begin(t, m)
       \/ Stamp(t) \/ Hit(t) \/ ReadCjs(t) \/ ReadEsm(t)
       \/ Transform(t) \/ TransformByName(t) \/ Publish(t) \/ WriteEsm(t) \/ WriteRest(t)
       \/ Insert(t) \/ Compile(t) \/ CompileEsm(t)
       \/ StartFile(t) \/ FileFailed(t) \/ FileRan(t) \/ Panic(t) \/ EndWorker(t)

Spec == Init /\ [][Next]_vars

-----------------------------------------------------------------------------
(* What must hold                                                          *)

TypeOK ==
  /\ clock \in 0 .. MaxTime
  /\ \A m \in Modules : file[m].text \in Texts /\ file[m].ctime <= clock
  /\ \A m \in Modules, x \in Texts : disk[m][x] \in 0 .. Part /\ codes[m][x] \in 0 .. MaxText
  /\ Cardinality(AppSources(shared)) <= Cap

(* A load through the process's sources gives a version that the file had  *)
(* since the load began, and all of it: no entry of memory or disk is      *)
(* stale, half written or of another version, whatever is edited, killed   *)
(* or loaded meanwhile (module_source, stamp_from, write_atomic).          *)
LoadsWhatWasThere ==
  \A t \in Threads :
    thread[t].at = "compile" /\ thread[t].m \notin Esbuild => thread[t].text \in thread[t].there

(* A code cache holds the code of the text it is read for: V8 compares     *)
(* only the lengths, so another version's code would run (cc_path, the     *)
(* queue of flush_code_caches).                                            *)
RunsOwnCode ==
  \A m \in Modules, x \in Texts : CodeAt(CachePath(m, x)) \in {Missing, x}

(* No handle of a disposed isolate is used or dropped: that panics, at a   *)
(* worker's end with nobody to catch it (PendingCodeCacheGuard,            *)
(* drop_pending_code_caches, discard_stale_code_caches).                   *)
NoDeadHandle == ~touchedDead

(* What compiling a module leaves for its cache is used for that text, and *)
(* while the isolate it came from is there.                                *)
CodeCacheSound == RunsOwnCode /\ NoDeadHandle

(* No transform is read while it is half written: what write_atomic's      *)
(* comment promises parallel workers.                                      *)
NeverHalfWritten == \A t \in Threads : thread[t].text # Part
=============================================================================
