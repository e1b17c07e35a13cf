----------------------------- MODULE EsmToCjs -----------------------------
(***************************************************************************)
(* An application's ES modules run as CommonJS (esm_cjs.rs): each module's *)
(* export getters come first, then its requires in the order of its        *)
(* imports, then what its `export *` copies, then its body, with every use *)
(* of an imported name rewritten to a property read.  This module runs the *)
(* modules twice, as the language says and as they are lowered, and keeps  *)
(* what a program can tell the two by: the order in which the bodies run   *)
(* and what each of them reads.                                            *)
(*                                                                         *)
(* One exported name stands for all: names do not interact.  The bundler   *)
(* lowers the modules of a package in the same way, with a function of     *)
(* each module for its require.                                            *)
(***************************************************************************)
EXTENDS Naturals, FiniteSets, FiniteSetsExt, Sequences, SequencesExt

CONSTANTS
  NModules,               \* modules; the first is the entry
  MaxItems,               \* bound: declarations of one module
  MaxTotal                \* bound: declarations of all modules

(* Of the constants. *)
EsmAssumption == NModules \in Nat \ {0} /\ MaxItems \in Nat /\ MaxTotal \in Nat

VARIABLES
  sources,                \* the modules' sources
  mode,                   \* "es", then "cjs", then "done"
  stack,                  \* the modules being loaded: [mod, at], the last on top
  started,                \* modules in the cache
  inited,                 \* modules whose body has run
  copied,                 \* copied[m]: the module whose name `export *` gave m; 0: none
  assigned,               \* <<m, i>>: the require of m's i-th item has returned
  order,                  \* per mode: the bodies, as they ran
  reads                   \* per mode: what the bodies read

vars == <<sources, mode, stack, started, inited, copied, assigned, order, reads>>

Mods == 1 .. NModules

(* What a read gives: the module whose binding it is, or one of these. *)
Uninitialized == NModules + 1     \* the error of a lexical binding read too early
Undefined == NModules + 2
TypeError == NModules + 3         \* a property of a variable that is not assigned

(* A declaration: `import {x} from`, `export {x} from`, `export * from`.   *)
Items == [kind : {"import", "from", "star"}, from : Mods]

(* A source: what it declares itself (a function is there from the start,  *)
(* a lexical binding once its body has run) and its items, in order.  No   *)
(* module exports the name twice.                                          *)
Source ==
  {src \in [own : {"none", "let", "function"}, items : SeqOf(Items, MaxItems)] :
     Cardinality({i \in DOMAIN src.items : src.items[i].kind = "from"})
       + (IF src.own = "none" THEN 0 ELSE 1) <= 1}

Of(m, kind) == {i \in DOMAIN sources[m].items : sources[m].items[i].kind = kind}
From(m, i) == sources[m].items[i].from

(* ResolveExport of the language: the modules whose own x an export of m   *)
(* names; one, unless it is missing or ambiguous.                          *)
Targets(src) ==
  LET t[n \in 0 .. NModules, m \in Mods] ==
        LET names(kinds) == {src[m].items[i].from : i \in {j \in DOMAIN src[m].items : src[m].items[j].kind \in kinds}}
        IN IF n = 0 THEN {}
           ELSE IF src[m].own # "none" THEN {m}
           ELSE IF names({"from"}) # {} THEN UNION {t[n - 1, k] : k \in names({"from"})}
           ELSE UNION {t[n - 1, k] : k \in names({"star"})}
  IN [m \in Mods |-> t[NModules, m]]

(* Programs that link: every name that is imported, or exported from       *)
(* another module, is there, once.                                         *)
Links(src) ==
  \A m \in Mods : \A i \in DOMAIN src[m].items :
    src[m].items[i].kind # "star" => Cardinality(Targets(src)[src[m].items[i].from]) = 1

(* The modules a program reaches are the first ones. *)
Reached(src) ==
  LET r[n \in 0 .. NModules] ==
        IF n = 0 THEN {1}
        ELSE r[n - 1] \union UNION {{src[m].items[i].from : i \in DOMAIN src[m].items} : m \in r[n - 1]}
  IN r[NModules]

Programs ==
  {src \in [Mods -> Source] :
     /\ MapThenSumSet(LAMBDA m : Len(src[m].items), Mods) <= MaxTotal
     /\ \A m \in Mods : \A i \in DOMAIN src[m].items : src[m].items[i].from # m
     /\ Reached(src) = Mods
     /\ Links(src)}

Entry == <<[mod |-> 1, at |-> 1]>>

Init ==
  /\ sources \in Programs
  /\ mode = "es"
  /\ stack = Entry
  /\ started = {1}
  /\ inited = {}
  /\ copied = [m \in Mods |-> 0]
  /\ assigned = {}
  /\ order = [k \in {"es", "cjs"} |-> <<>>]
  /\ reads = [k \in {"es", "cjs"} |-> {}]

-----------------------------------------------------------------------------
(* The lowered module                                                      *)

(* plan, mutated: `export *` comes first. *)
PlanStarsFirst(m) ==
  LET In(kinds) == SelectSeq([i \in DOMAIN sources[m].items |-> i],
                             LAMBDA i : sources[m].items[i].kind \in kinds)
  IN In({"star"}) \o In({"import", "from"})

(* plan: the requires, in the order of the imports, then the `export *`s.  *)
Plan(m) ==
  LET In(kinds) == SelectSeq([i \in DOMAIN sources[m].items |-> i],
                             LAMBDA i : sources[m].items[i].kind \in kinds)
  IN In({"import", "from"}) \o In({"star"})

(* The items of m in the order in which they are requested. *)
Code(m) == IF mode = "es" THEN [i \in DOMAIN sources[m].items |-> i] ELSE Plan(m)

(* assemble_module: m's exports object has the getters of its own names    *)
(* and of the names it exports from others before anything runs.           *)
HasKey(m) == sources[m].own # "none" \/ Of(m, "from") # {} \/ copied[m] # 0

(* Own binding of m: its value is m itself. *)
Binding(m) ==
  IF sources[m].own = "function" \/ m \in inited THEN m ELSE Uninitialized

(* A read of m's property: the binding, the getter of an `export from` (an *)
(* error while its require has not returned), or a copied getter.          *)
Property(m0) ==
  LET p[n \in 0 .. NModules, m \in Mods] ==
        IF n = 0 THEN Undefined
        ELSE IF sources[m].own # "none" THEN Binding(m)
        ELSE IF Of(m, "from") # {}
          THEN LET i == CHOOSE j \in Of(m, "from") : TRUE
               IN IF <<m, i>> \in assigned THEN p[n - 1, From(m, i)] ELSE TypeError
        ELSE IF copied[m] # 0 THEN p[n - 1, copied[m]]
        ELSE Undefined
  IN p[NModules, m0]

(* A read of a name imported from m. *)
Read(m) ==
  IF mode = "es" THEN Binding(CHOOSE t \in Targets(sources)[m] : TRUE) ELSE Property(m)

-----------------------------------------------------------------------------
(* Loading                                                                 *)

Top == Last(stack)
Item == Code(Top.mod)[Top.at]
Advance == stack' = [stack EXCEPT ![Len(stack)].at = @ + 1]

Running == mode # "done" /\ stack # <<>>

(* The next item asks for a module that is not in the cache. *)
Enter ==
  /\ Running
  /\ Top.at <= Len(Code(Top.mod))
  /\ From(Top.mod, Item) \notin started
  /\ started' = started \union {From(Top.mod, Item)}
  /\ stack' = Append(stack, [mod |-> From(Top.mod, Item), at |-> 1])
  /\ UNCHANGED <<sources, mode, inited, copied, assigned, order, reads>>

(* __reExport: the names that the module has by now, unless m has them.    *)
Copy(m, from) ==
  copied' = IF HasKey(from) /\ ~HasKey(m) THEN [copied EXCEPT ![m] = from] ELSE copied

(* It is in the cache, run or running: its exports are what they are. *)
Return ==
  /\ Running
  /\ Top.at <= Len(Code(Top.mod))
  /\ From(Top.mod, Item) \in started
  /\ assigned' = assigned \union {<<Top.mod, Item>>}
  /\ IF mode = "cjs" /\ sources[Top.mod].items[Item].kind = "star"
       THEN Copy(Top.mod, From(Top.mod, Item))
       ELSE UNCHANGED copied
  /\ Advance
  /\ UNCHANGED <<sources, mode, started, inited, order, reads>>

(* The body: it reads what it imports and initializes its own binding. *)
Body ==
  /\ Running
  /\ Top.at > Len(Code(Top.mod))
  /\ order' = [order EXCEPT ![mode] = Append(@, Top.mod)]
  /\ reads' = [reads EXCEPT ![mode] = @ \union
                 {<<Top.mod, i, Read(From(Top.mod, i))>> : i \in Of(Top.mod, "import")}]
  /\ inited' = inited \union {Top.mod}
  /\ stack' = Front(stack)
  /\ UNCHANGED <<sources, mode, started, copied, assigned>>

(* The program has run: each importer reads once more, as a callback       *)
(* would.  Then the same program, lowered.                                 *)
Again ==
  /\ mode # "done"
  /\ stack = <<>>
  /\ reads' = [reads EXCEPT ![mode] = @ \union
                 {<<m, i, "later", Read(From(m, i))>> : <<m, i>> \in
                    {<<m, i>> \in Mods \X (1 .. MaxItems) : i \in Of(m, "import")}}]
  /\ IF mode = "es"
       THEN /\ mode' = "cjs"
            /\ stack' = Entry
            /\ started' = {1}
            /\ inited' = {}
            /\ copied' = [m \in Mods |-> 0]
            /\ assigned' = {}
       ELSE /\ mode' = "done"
            /\ UNCHANGED <<stack, started, inited, copied, assigned>>
  /\ UNCHANGED <<sources, order>>

Next == Enter \/ Return \/ Body \/ Again

Spec == Init /\ [][Next]_vars

-----------------------------------------------------------------------------
(* What must hold                                                          *)

(* The `export *`s of every module come after its other declarations. *)
StarsLast ==
  \A m \in Mods : \A i \in Of(m, "star"), j \in DOMAIN sources[m].items :
    sources[m].items[j].kind # "star" => j < i

(* The modules that m requests, at any distance. *)
Requests(m) ==
  LET r[n \in 0 .. NModules] ==
        IF n = 0 THEN {From(m, i) : i \in DOMAIN sources[m].items}
        ELSE r[n - 1] \union UNION {{From(k, i) : i \in DOMAIN sources[k].items} : k \in r[n - 1]}
  IN r[NModules]

(* No module on a cycle of requests exports what another one declares. *)
NoReExportOnCycle ==
  \A m \in Mods : m \in Requests(m) => Of(m, "from") \union Of(m, "star") = {}

(* A lowered program runs like its source: with every `export *` last, the *)
(* bodies run in the order of the language, and where no module on a cycle *)
(* of requests exports from another, every read gives what it gives there, *)
(* the errors of a binding that is read too early included.                *)
RunsLikeTheSource ==
  mode = "done" /\ StarsLast =>
    /\ order["cjs"] = order["es"]
    /\ NoReExportOnCycle => reads["cjs"] = reads["es"]

=============================================================================
