--------------------------- MODULE MCSourceCache ---------------------------
(* A small instance of SourceCache.                                        *)
EXTENDS SourceCache, TLC

CONSTANTS t1, t2

Symmetry == Permutations({t1, t2})
=============================================================================
