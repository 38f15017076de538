----------------------------- MODULE MCGateway -----------------------------
(***************************************************************************)
(* An instance of Gateway for TLC: the tables of MCRBACService, in which   *)
(* u1 holds "assign" and u2 nothing.                                       *)
(***************************************************************************)
EXTENDS Gateway, TLC

CONSTANTS u1, u2, r1, r2, r3, q1, q2, q3, p1, p2

MCName == {"admin", "dev", "assign", "view"}

MCNameOf ==
  [i \in RoleId \cup PermId |->
     CASE i = r1 -> "admin" [] i \in {r2, r3} -> "dev"
       [] i = q2 -> "view"  [] i \in {q1, q3} -> "assign"]

MCRoles == {r1, r2}
MCPerms == {q1, q2}
MCUserRoles == {<<u1, r1>>}
MCRolePerms == {<<r1, q1>>, <<r2, q2>>}

\* Goroutines are interchangeable: no definition tells them apart.
ProcSymmetry == Permutations(Proc)
=============================================================================
