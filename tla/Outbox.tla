------------------------------- MODULE Outbox -------------------------------
(***************************************************************************)
(* The transactions of rbac.Service, statement by statement: a write to a  *)
(* join table and an INSERT into outbox_events, under RunInTx and          *)
(* Postgres's READ COMMITTED.                                              *)
(*                                                                         *)
(* A row of the join table is what AssignRoleToUser inserts and            *)
(* RemoveRoleFromUser deletes: a <<user, role>> pair, of roles that are    *)
(* not deleted meanwhile.  (AttachPermissionToRole is AssignRole on        *)
(* role_permissions.)  An INSERT or DELETE that changes something keeps    *)
(* the row locked until the transaction ends; one that finds nothing to do *)
(* (ON CONFLICT DO NOTHING, or no such row) locks nothing.  What is        *)
(* written is seen by others after the commit.                             *)
(***************************************************************************)
EXTENDS Integers, FiniteSets

CONSTANTS
  Proc,        \* goroutines, each with one transaction at a time
  Row,         \* rows that the join table may hold
  InitRows,    \* those it holds at the start
  MaxEvents    \* bound: ids that the outbox sequence gives out

ASSUME OutboxAssumption ==
  /\ InitRows \subseteq Row
  /\ MaxEvents \in Nat

VARIABLES
  rows,      \* committed rows of the join table
  events,    \* committed rows of outbox_events
  nextId,    \* the BIGSERIAL of outbox_events; created_at orders rows alike,
             \* as far as the clocks of the replicas agree
  tx         \* tx[p]: the transaction that p has open

vars == <<rows, events, nextId, tx>>

Op == {"role.assigned", "role.revoked"}

\* A row of outbox_events.  That the statement changed the table is not
\* stored; it is kept here for what the properties say.
Event == [id : 0..MaxEvents - 1, type : Op, row : Row, changed : BOOLEAN]

NoTx == [pc |-> "none"]

Transactions ==
  {NoTx}
    \cup [pc : {"written"}, type : Op, row : Row, changed : BOOLEAN]
    \cup [pc : {"logged"}, event : Event]

TypeOK ==
  /\ rows \subseteq Row
  /\ events \subseteq Event
  /\ nextId \in 0..MaxEvents
  /\ tx \in [Proc -> Transactions]

Init ==
  /\ rows = InitRows
  /\ events = {} /\ nextId = 0
  /\ tx = [p \in Proc |-> NoTx]

-----------------------------------------------------------------------------

\* The open transaction of p has assigned or revoked row x.
Changes(p, type, x) ==
  \/ tx[p].pc = "written" /\ tx[p].changed /\ tx[p].type = type /\ tx[p].row = x
  \/ /\ tx[p].pc = "logged" /\ tx[p].event.changed
     /\ tx[p].event.type = type /\ tx[p].event.row = x

Uncommitted(type, x) == \E p \in Proc : Changes(p, type, x)

\* UserRepository.AssignRole: INSERT ... ON CONFLICT DO NOTHING waits for
\* whoever is inserting or deleting the same row.
AssignRole(p, x) ==
  /\ tx[p] = NoTx
  /\ nextId < MaxEvents
  /\ \A t \in Op : ~Uncommitted(t, x)
  /\ tx' = [tx EXCEPT ![p] = [pc |-> "written", type |-> "role.assigned",
                              row |-> x, changed |-> x \notin rows]]
  /\ UNCHANGED <<rows, events, nextId>>

\* UserRepository.RemoveRole: DELETE waits for whoever is deleting the row
\* that it sees, and does not see one that is not committed.
RemoveRole(p, x) ==
  /\ tx[p] = NoTx
  /\ nextId < MaxEvents
  /\ ~Uncommitted("role.revoked", x)
  /\ tx' = [tx EXCEPT ![p] = [pc |-> "written", type |-> "role.revoked",
                              row |-> x, changed |-> x \in rows]]
  /\ UNCHANGED <<rows, events, nextId>>

\* OutboxRepository.Create in the same transaction.  The id and created_at
\* are drawn now, whenever the commit may come.
CreateEvent(p) ==
  /\ tx[p].pc = "written"
  /\ nextId < MaxEvents
  /\ tx' = [tx EXCEPT ![p] =
              [pc |-> "logged",
               event |-> [id |-> nextId, type |-> tx[p].type, row |-> tx[p].row,
                          changed |-> tx[p].changed]]]
  /\ nextId' = nextId + 1
  /\ UNCHANGED <<rows, events>>

\* The table after the change of p.
Applied(p) ==
  {x \in Row : \/ Changes(p, "role.assigned", x)
               \/ x \in rows /\ ~Changes(p, "role.revoked", x)}

\* The function given to RunInTx returns nil.
Commit(p) ==
  /\ tx[p].pc = "logged"
  /\ rows' = Applied(p)
  /\ events' = events \cup {tx[p].event}
  /\ tx' = [tx EXCEPT ![p] = NoTx]
  /\ UNCHANGED nextId

\* A statement or the commit fails, the client goes away, or the server dies.
\* The sequence does not go back.
\* (Seeded fault: the outbox row is written outside the transaction.)
RollbackButEvent(p) ==
  /\ tx[p] # NoTx
  /\ events' = events \cup IF tx[p].pc = "logged" THEN {tx[p].event} ELSE {}
  /\ tx' = [tx EXCEPT ![p] = NoTx]
  /\ UNCHANGED <<rows, nextId>>
Rollback(p) ==
  /\ tx[p] # NoTx
  /\ tx' = [tx EXCEPT ![p] = NoTx]
  /\ UNCHANGED <<rows, events, nextId>>

Next ==
  \E p \in Proc :
    \/ \E x \in Row : AssignRole(p, x) \/ RemoveRole(p, x)
    \/ CreateEvent(p) \/ Commit(p) \/ Rollback(p)

Spec == Init /\ [][Next]_vars

-----------------------------------------------------------------------------

\* No two rows of a set of events have the same id.
UniqueIds(S) == \A e, f \in S : e.id = f.id => e = f

\* The rows that replaying the events of S, oldest first, leaves in the table.
Replayed(S) ==
  {x \in Row :
     LET about == {e \in S : e.row = x}
     IN IF about = {} THEN x \in InitRows
        ELSE \E e \in about : /\ e.type = "role.assigned"
                              /\ \A f \in about : f.id <= e.id}

\* The outbox tells the truth about the table: replayed in the order in which
\* the relay fetches them, the events of the requests that changed something
\* give exactly what is in the table, whatever was rolled back and however
\* transactions overlapped.  (The business write comes first in each
\* transaction of rbac.Service, so its row lock covers the id's drawing.
\* The requests that changed nothing leave events too, with nothing in the
\* table to tell them apart, and these may be ordered after the event of a
\* change that overtook them.)
ChangesReplay ==
  /\ UniqueIds(events)
  /\ rows = Replayed({e \in events : e.changed})
=============================================================================
