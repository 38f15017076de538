----------------------------- MODULE AuditTrail -----------------------------
(***************************************************************************)
(* What a reader of GET /audit may rely on: rows are never taken back or   *)
(* changed, appear one by one, and tell of events that did happen.         *)
(***************************************************************************)
EXTENDS Naturals

CONSTANT Event

VARIABLES
  committed,   \* events of committed transactions
  rows         \* rows[e]: rows about e in audit_logs

Init == committed = {} /\ rows = [e \in Event |-> 0]

\* The transaction of e commits.
Happen(e) ==
  /\ e \notin committed
  /\ committed' = committed \cup {e}
  /\ UNCHANGED rows

\* A row about e is written.
Record(e) ==
  /\ e \in committed
  /\ rows' = [rows EXCEPT ![e] = @ + 1]
  /\ UNCHANGED committed

Next == \E e \in Event : Happen(e) \/ Record(e)

Spec == Init /\ [][Next]_<<committed, rows>>
=============================================================================
