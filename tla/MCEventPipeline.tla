-------------------------- MODULE MCEventPipeline --------------------------
(***************************************************************************)
(* Instances of EventPipeline for TLC.  Event 1 is a role.assigned, which  *)
(* also goes to notification.queue; the others go to audit.queue only.     *)
(***************************************************************************)
EXTENDS EventPipeline, TLC

CONSTANTS s1, s2

MCNotifies == Event \cap {1}

\* Servers are interchangeable.
ServerSymmetry == Permutations(Server)
=============================================================================
