----------------------------- MODULE MCAccounts -----------------------------
(***************************************************************************)
(* An instance of Accounts for TLC, and with it of RateLimit.              *)
(***************************************************************************)
EXTENDS Accounts, TLC

CONSTANTS p1, p2, p3, u1, u2, r1, r2

\* Goroutines are interchangeable, and so are ids of users.
Symmetry == Permutations(Proc) \cup Permutations(UserId)
=============================================================================
