--------------------------- MODULE MCCallManager ---------------------------
(* TLC instances of CallManager.  No property mentions a particular thread, *)
(* so threads may be permuted.                                             *)
EXTENDS CallManager

Symmetry == Permutations(Threads)
=============================================================================
