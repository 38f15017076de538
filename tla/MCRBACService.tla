--------------------------- MODULE MCRBACService ---------------------------
(***************************************************************************)
(* Instances of RBACService for TLC.  Two users; an "admin" role with the  *)
(* permission "assign" and a "dev" role with "view" (a cut of the seed     *)
(* data); a third role and a third permission id that compete for a name   *)
(* with another, so that what is deleted can come back under a new id.     *)
(***************************************************************************)
EXTENDS RBACService, TLC

CONSTANTS u1, u2, r1, r2, r3, q1, q2, q3, p1, p2

MCName == {"admin", "dev", "assign", "view"}

MCNameOf ==
  [i \in RoleId \cup PermId |->
     CASE i = r1 -> "admin" [] i \in {r2, r3} -> "dev"
       [] i = q2 -> "view"  [] i \in {q1, q3} -> "assign"]

MCRoles == {r1, r2}
MCPerms == {q1, q2}
MCUserRoles == {<<u1, r1>>}
MCRolePerms == {<<r1, q1>>, <<r2, q2>>}

\* Processes are interchangeable: no definition tells them apart.
ProcSymmetry == Permutations(Proc)
=============================================================================
