------------------------------ MODULE MCOutbox ------------------------------
(***************************************************************************)
(* Instances of Outbox for TLC.                                            *)
(***************************************************************************)
EXTENDS Outbox, TLC

CONSTANTS x1, x2, p1, p2, p3

Symmetry == Permutations(Proc)
=============================================================================
