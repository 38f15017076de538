--------------------------- MODULE Authorization ---------------------------
(***************************************************************************)
(* What a caller of Service.Authorize may rely on, without a word of keys, *)
(* queries or invalidations: every answer is what was granted, or what was *)
(* shown in its place, at one moment of the call.  What is shown may lag   *)
(* behind, but is never made up: it is what is granted, or an answer that  *)
(* somebody had got from there.                                            *)
(***************************************************************************)
CONSTANTS User, Name, Caller

VARIABLES
  granted,   \* granted[u]: the names of the permissions that u has
  shown,     \* shown[u]: the names by which u is answered for, for a while
  answer     \* answer[p]: <<u, names>>, or << >> if p waits for none

None == << >>

Init ==
  /\ granted \in [User -> SUBSET Name]
  /\ shown = granted
  /\ answer = [p \in Caller |-> None]

\* Grants change, of any users at once.  What is shown of a user goes along or
\* stays behind; where it was behind already it stays.
Change ==
  /\ granted' \in [User -> SUBSET Name] /\ shown' \in [User -> SUBSET Name]
  /\ \A u \in User :
       shown'[u] = shown[u] \/ (shown[u] = granted[u] /\ shown'[u] = granted'[u])
  /\ UNCHANGED answer

CatchUp(u) ==
  /\ shown' = [shown EXCEPT ![u] = granted[u]]
  /\ UNCHANGED <<granted, answer>>

Look(p, u) ==
  /\ answer[p] = None
  /\ \E names \in {granted[u], shown[u]} : answer' = [answer EXCEPT ![p] = <<u, names>>]
  /\ UNCHANGED <<granted, shown>>

\* The answer that p has got is shown from now on, though it may be outdated.
Show(p) ==
  /\ answer[p] # None
  /\ shown' = [shown EXCEPT ![answer[p][1]] = answer[p][2]]
  /\ UNCHANGED <<granted, answer>>

Take(p) ==
  /\ answer[p] # None
  /\ answer' = [answer EXCEPT ![p] = None]
  /\ UNCHANGED <<granted, shown>>

Next ==
  \/ Change
  \/ \E u \in User : CatchUp(u)
  \/ \E p \in Caller : Show(p) \/ Take(p) \/ \E u \in User : Look(p, u)

Spec == Init /\ [][Next]_<<granted, shown, answer>>
=============================================================================
