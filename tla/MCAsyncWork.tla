---------------------------- MODULE MCAsyncWork ----------------------------
(* Small instances of AsyncWork: two isolates sharing a pool of two        *)
(* threads, isolate a with two works and b with one, each queued up to     *)
(* MaxRounds times.                                                        *)
EXTENDS AsyncWork, TLC

CONSTANTS a, b, w1, w2, w3, p1, p2

OwnerOf == (w1 :> a) @@ (w2 :> a) @@ (w3 :> b)

(* The works of a are alike, and so are the pool's threads. *)
Symmetry == Permutations({w1, w2}) \union Permutations(PoolThreads)
============================================================================
