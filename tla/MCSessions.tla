----------------------------- MODULE MCSessions -----------------------------
(***************************************************************************)
(* Instances of Sessions for TLC.                                          *)
(***************************************************************************)
EXTENDS Sessions, TLC

CONSTANTS t1, t2, t3, t4, p1, p2

\* Goroutines are interchangeable, and so are token pairs.
Symmetry == Permutations(Proc) \cup Permutations(Pair)
=============================================================================
