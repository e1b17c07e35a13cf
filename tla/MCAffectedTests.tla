-------------------------- MODULE MCAffectedTests --------------------------
(* Every graph of three files that import up to two others, or another and *)
(* then a package, each looked at as a test in turn: cycles of two and     *)
(* three files, shared imports, imports after a cyclic one, tests that an  *)
(* earlier test imports.                                                   *)
EXTENDS AffectedTests, TLC

CONSTANTS f1, f2, f3, pkg

Mods == {f1, f2, f3}

MCFiles == Mods \union {pkg}

MCTests == <<f1, f2, f3>>

ImportsOf(f) ==
  LET others == Mods \ {f}
  IN {<<>>} \union {<<x>> : x \in others} \union {<<x, pkg>> : x \in others}
       \union others \X others

MCGraphs ==
  {(f1 :> A) @@ (f2 :> B) @@ (f3 :> C) @@ (pkg :> <<>>) :
     A \in ImportsOf(f1), B \in ImportsOf(f2), C \in ImportsOf(f3)}

MCChanges == {{f} : f \in MCFiles} \union {{f1, pkg}, {f2, f3}}
============================================================================
