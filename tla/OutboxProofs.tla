---------------------------- MODULE OutboxProofs ----------------------------
(***************************************************************************)
(* For any set of goroutines and rows: the types of module Outbox, and     *)
(* that replaying the outbox gives the table (ChangesReplay).              *)
(***************************************************************************)
EXTENDS Outbox, TLAPS

-----------------------------------------------------------------------------
(* Types *)

\* The initial rows are rows, and no transaction is open.
LEMMA InitTypeOK == Init => TypeOK
  BY OutboxAssumption DEF Init, TypeOK, Transactions, NoTx

\* Every statement, commit and rollback keeps the types.
LEMMA NextTypeOK ==
  ASSUME TypeOK, [Next]_vars
  PROVE  TypeOK'
<1>1. CASE UNCHANGED vars
  BY <1>1 DEF vars, TypeOK
<1>2. ASSUME NEW p \in Proc, NEW x \in Row, AssignRole(p, x)
      PROVE  TypeOK'
  BY <1>2 DEF AssignRole, TypeOK, Transactions, Op
<1>3. ASSUME NEW p \in Proc, NEW x \in Row, RemoveRole(p, x)
      PROVE  TypeOK'
  BY <1>3 DEF RemoveRole, TypeOK, Transactions, Op
<1>4. ASSUME NEW p \in Proc, CreateEvent(p)
      PROVE  TypeOK'
  BY <1>4, OutboxAssumption DEF CreateEvent, TypeOK, Transactions, NoTx, Event
<1>5. ASSUME NEW p \in Proc, Commit(p)
      PROVE  TypeOK'
  BY <1>5 DEF Commit, Applied, TypeOK, Transactions, NoTx, Event
<1>6. ASSUME NEW p \in Proc, Rollback(p)
      PROVE  TypeOK'
  BY <1>6 DEF Rollback, TypeOK, Transactions
<1>7. QED
  BY <1>1, <1>2, <1>3, <1>4, <1>5, <1>6 DEF Next

\* The types of Outbox's state: what is open is a transaction that has written
\* or one that has logged, and committed rows are rows (rbac.Service, RunInTx).
THEOREM OutboxTypeCorrect == Spec => []TypeOK
<1>1. TypeOK /\ [Next]_vars => TypeOK'
  BY NextTypeOK
<1>2. QED
  BY <1>1, InitTypeOK, PTL DEF Spec

-----------------------------------------------------------------------------
(* The inductive invariant *)

Logged(p) == tx[p].pc = "logged"

\* Ids are given out once, to committed events and to open transactions.
IdsOnce ==
  /\ UniqueIds(events)
  /\ \A e \in events : e.id < nextId
  /\ \A p \in Proc : Logged(p) =>
       /\ tx[p].event.id < nextId
       /\ \A e \in events : e.id # tx[p].event.id
       /\ \A q \in Proc : q # p /\ Logged(q) => tx[q].event.id # tx[p].event.id

\* A row lock has one owner.
OneChanges ==
  \A p, q \in Proc, s, t \in Op, x \in Row :
    Changes(p, s, x) /\ Changes(q, t, x) => p = q

\* A change stays a change until its transaction ends.
ChangesHold ==
  \A p \in Proc, x \in Row :
    /\ Changes(p, "role.assigned", x) => x \notin rows
    /\ Changes(p, "role.revoked", x) => x \in rows

\* The id of a change is drawn under the row's lock.
LockedIdsGrow ==
  \A p \in Proc : Logged(p) /\ tx[p].event.changed =>
    \A e \in events : e.changed /\ e.row = tx[p].event.row => e.id < tx[p].event.id

\* ChangesReplay is not inductive by itself: it takes the locks and the ids.
IInv == TypeOK /\ IdsOnce /\ OneChanges /\ ChangesHold /\ LockedIdsGrow /\ ChangesReplay

\* With no event and no open transaction the invariant is the initial table.
LEMMA InitInv == Init => IInv
<1> SUFFICES ASSUME Init PROVE IInv
  OBVIOUS
<1>1. IdsOnce /\ OneChanges /\ ChangesHold /\ LockedIdsGrow
  BY DEF Init, IdsOnce, UniqueIds, OneChanges, ChangesHold, LockedIdsGrow,
         Logged, Changes, NoTx
<1>2. ChangesReplay
  BY OutboxAssumption DEF Init, ChangesReplay, UniqueIds, Replayed
<1>3. QED
  BY <1>1, <1>2, InitTypeOK DEF IInv

-----------------------------------------------------------------------------
(* Steps that commit nothing *)

\* The first statement of a transaction takes the lock or changes nothing.
LEMMA StatementKeeps ==
  ASSUME IInv, NEW p \in Proc, NEW x \in Row,
         AssignRole(p, x) \/ RemoveRole(p, x)
  PROVE  IdsOnce' /\ OneChanges' /\ ChangesHold' /\ LockedIdsGrow'
<1> USE DEF IInv
<1>1. \A q \in Proc \ {p} : tx'[q] = tx[q]
  BY DEF AssignRole, RemoveRole, TypeOK
<1>2. /\ tx'[p].pc = "written" /\ tx'[p].row = x
      /\ UNCHANGED <<rows, events, nextId>>
  BY DEF AssignRole, RemoveRole, TypeOK
<1>3. \A q \in Proc \ {p}, t \in Op, y \in Row : Changes(q, t, y)' <=> Changes(q, t, y)
  BY <1>1 DEF Changes
<1>4. \A t \in Op, y \in Row : Changes(p, t, y)' =>
        /\ y = x
        /\ t = "role.assigned" => x \notin rows
        /\ t = "role.revoked" => x \in rows
  <2>1. CASE AssignRole(p, x)
    <3>1. /\ tx'[p].pc = "written" /\ tx'[p].type = "role.assigned"
          /\ tx'[p].row = x /\ tx'[p].changed = (x \notin rows)
      BY <2>1 DEF AssignRole, TypeOK
    <3>2. QED
      BY <3>1 DEF Changes
  <2>2. CASE RemoveRole(p, x)
    <3>1. /\ tx'[p].pc = "written" /\ tx'[p].type = "role.revoked"
          /\ tx'[p].row = x /\ tx'[p].changed = (x \in rows)
      BY <2>2 DEF RemoveRole, TypeOK
    <3>2. QED
      BY <3>1 DEF Changes
  <2>3. QED
    BY <2>1, <2>2
<1>5. \A q \in Proc \ {p}, s, t \in Op, y \in Row :
        ~(Changes(p, s, y)' /\ Changes(q, t, y))
  <2> SUFFICES ASSUME NEW q \in Proc \ {p}, NEW s \in Op, NEW t \in Op,
                      Changes(p, s, x)', Changes(q, t, x)
               PROVE  FALSE
    BY <1>4
  <2>1. Uncommitted(t, x)
    BY DEF Uncommitted
  <2>2. CASE AssignRole(p, x)
    BY <2>1, <2>2 DEF AssignRole
  <2>3. CASE RemoveRole(p, x)
    <3>1. t = "role.assigned"
      BY <2>1, <2>3 DEF RemoveRole, Op
    <3>2. x \notin rows
      BY <3>1 DEF ChangesHold
    <3>3. x \in rows
      BY <2>3 DEF RemoveRole, TypeOK, Changes
    <3>4. QED
      BY <3>2, <3>3
  <2>4. QED
    BY <2>2, <2>3
<1>6. OneChanges'
  BY <1>3, <1>5 DEF OneChanges
<1>7. ChangesHold'
  BY <1>2, <1>3, <1>4 DEF ChangesHold, Op
<1>8. IdsOnce' /\ LockedIdsGrow'
  BY <1>1, <1>2 DEF IdsOnce, UniqueIds, LockedIdsGrow, Logged
<1>9. QED
  BY <1>6, <1>7, <1>8

\* The event's id is above every id so far.
LEMMA CreateEventKeeps ==
  ASSUME IInv, NEW p \in Proc, CreateEvent(p)
  PROVE  IdsOnce' /\ OneChanges' /\ ChangesHold' /\ LockedIdsGrow'
<1> USE DEF IInv
<1>1. /\ \A q \in Proc \ {p} : tx'[q] = tx[q]
      /\ UNCHANGED <<rows, events>> /\ nextId' = nextId + 1 /\ nextId \in Nat
      /\ tx'[p] = [pc |-> "logged",
                   event |-> [id |-> nextId, type |-> tx[p].type, row |-> tx[p].row,
                              changed |-> tx[p].changed]]
      /\ tx[p].pc = "written"
  BY OutboxAssumption DEF CreateEvent, TypeOK
<1>2. \A q \in Proc, t \in Op, y \in Row : Changes(q, t, y)' <=> Changes(q, t, y)
  BY <1>1 DEF Changes
<1>3. \A e \in events : e.id \in Int
  BY OutboxAssumption DEF TypeOK, Event
<1>4. \A q \in Proc : Logged(q) => tx[q].event.id \in Int
  BY OutboxAssumption DEF TypeOK, Transactions, Event, Logged, NoTx
<1>5. IdsOnce'
  <2>1. \A e \in events : e.id < nextId + 1 /\ e.id # nextId
    BY <1>1, <1>3 DEF IdsOnce
  <2>2. \A q \in Proc : Logged(q) => tx[q].event.id < nextId + 1 /\ tx[q].event.id # nextId
    BY <1>1, <1>4 DEF IdsOnce
  <2>3. QED
    BY <1>1, <2>1, <2>2 DEF IdsOnce, UniqueIds, Logged
<1>6. OneChanges' /\ ChangesHold'
  BY <1>1, <1>2 DEF OneChanges, ChangesHold, Op
<1>7. LockedIdsGrow'
  BY <1>1 DEF LockedIdsGrow, IdsOnce, Logged
<1>8. QED
  BY <1>5, <1>6, <1>7

\* What is rolled back owned its locks and its id alone.
LEMMA RollbackKeeps ==
  ASSUME IInv, NEW p \in Proc, Rollback(p)
  PROVE  IdsOnce' /\ OneChanges' /\ ChangesHold' /\ LockedIdsGrow'
<1> USE DEF IInv
<1>1. /\ \A q \in Proc \ {p} : tx'[q] = tx[q]
      /\ tx'[p] = NoTx
      /\ UNCHANGED <<rows, events, nextId>>
  BY DEF Rollback, TypeOK
<1>2. \A q \in Proc, t \in Op, y \in Row : Changes(q, t, y)' => Changes(q, t, y)
  BY <1>1 DEF Changes, NoTx
<1>3. OneChanges' /\ ChangesHold'
  BY <1>1, <1>2 DEF OneChanges, ChangesHold, Op
<1>4. IdsOnce' /\ LockedIdsGrow'
  BY <1>1 DEF IdsOnce, UniqueIds, LockedIdsGrow, Logged, NoTx
<1>5. QED
  BY <1>3, <1>4

-----------------------------------------------------------------------------
(* The commit *)

\* A commit ends one transaction: the locks and ids of the others stand
\* (TxRunner.RunInTx).
LEMMA CommitKeeps ==
  ASSUME IInv, NEW p \in Proc, Commit(p)
  PROVE  IdsOnce' /\ OneChanges' /\ ChangesHold' /\ LockedIdsGrow'
<1> USE DEF IInv
<1>1. /\ \A q \in Proc \ {p} : tx'[q] = tx[q]
      /\ tx'[p] = NoTx /\ Logged(p)
      /\ nextId' = nextId /\ events' = events \cup {tx[p].event}
      /\ rows' = Applied(p)
  BY DEF Commit, TypeOK, Logged
<1>2. \A q \in Proc, t \in Op, y \in Row :
        Changes(q, t, y)' => q # p /\ Changes(q, t, y)
  BY <1>1 DEF Changes, NoTx
<1>3. IdsOnce'
  BY <1>1 DEF IdsOnce, UniqueIds, Logged, NoTx
<1>4. OneChanges'
  BY <1>2 DEF OneChanges
<1>5. ChangesHold'
  <2> SUFFICES ASSUME NEW q \in Proc, NEW t \in Op, NEW y \in Row,
                      Changes(q, t, y)'
               PROVE  y \in rows' <=> y \in rows
    BY <1>2 DEF ChangesHold, Op
  <2>1. \A s \in Op : ~Changes(p, s, y)
    BY <1>2 DEF OneChanges
  <2>2. QED
    BY <1>1, <2>1 DEF Applied, Op
<1>6. LockedIdsGrow'
  <2> SUFFICES ASSUME NEW q \in Proc, Logged(q)', tx'[q].event.changed,
                      NEW e \in events', e.changed, e.row = tx'[q].event.row
               PROVE  e.id < tx'[q].event.id
    BY DEF LockedIdsGrow
  <2>1. q # p /\ tx'[q] = tx[q] /\ Logged(q)
    BY <1>1 DEF Logged, NoTx
  <2>2. CASE e \in events
    BY <2>1, <2>2 DEF LockedIdsGrow
  <2>3. CASE e = tx[p].event
    <3>1. tx[q].event \in Event /\ tx[p].event \in Event
      BY <1>1, <2>1 DEF TypeOK, Transactions, Logged, NoTx
    <3>2. Changes(q, tx[q].event.type, e.row) /\ Changes(p, e.type, e.row)
      BY <1>1, <2>1, <2>3 DEF Changes, Logged
    <3>3. QED
      BY <2>1, <2>3, <3>1, <3>2 DEF OneChanges, Event
  <2>4. QED
    BY <1>1, <2>2, <2>3
<1>7. QED
  BY <1>3, <1>4, <1>5, <1>6

\* The event that a commit publishes is the latest of its row, and tells what
\* the commit did to it (rbac.Service; OutboxRepository.Create).
LEMMA CommitReplays ==
  ASSUME IInv, NEW p \in Proc, Commit(p)
  PROVE  ChangesReplay'
<1> USE DEF IInv
<1> DEFINE ev == tx[p].event
           old == {e \in events : e.changed}
           new == {e \in events' : e.changed}
<1>1. /\ Logged(p) /\ ev \in Event
      /\ events' = events \cup {ev} /\ rows' = Applied(p)
  BY DEF Commit, TypeOK, Logged, Transactions, NoTx
<1>2. UniqueIds(events)'
  BY CommitKeeps DEF IdsOnce
<1>3. CASE ~ev.changed
  <2>1. new = old
    BY <1>1, <1>3
  <2>2. rows' = rows
    BY <1>1, <1>3 DEF Applied, Changes, Logged, TypeOK
  <2>3. QED
    BY <1>2, <2>1, <2>2 DEF ChangesReplay, Replayed
<1>4. CASE ev.changed
  <2>1. new = old \cup {ev}
    BY <1>1, <1>4
  <2>2. \A t \in Op, y \in Row : Changes(p, t, y) <=> ev.type = t /\ ev.row = y
    BY <1>1, <1>4 DEF Changes, Logged
  <2>3. \A y \in Row : y \in rows' <=> y \in Replayed(new)
    <3> SUFFICES ASSUME NEW y \in Row
                 PROVE  y \in rows' <=> y \in Replayed(new)
      OBVIOUS
    <3>1. CASE y # ev.row
      <4>1. {e \in new : e.row = y} = {e \in old : e.row = y}
        BY <2>1, <3>1
      <4>2. y \in Replayed(new) <=> y \in Replayed(old)
        BY <4>1 DEF Replayed
      <4>3. y \in rows' <=> y \in rows
        BY <1>1, <2>2, <3>1 DEF Applied, Op
      <4>4. QED
        BY <4>2, <4>3 DEF ChangesReplay
    <3>2. CASE y = ev.row
      <4>1. \A e \in {d \in new : d.row = y} : e = ev \/ e.id < ev.id
        BY <1>1, <1>4, <2>1, <3>2 DEF LockedIdsGrow
      <4>2. ev \in {e \in new : e.row = y} /\ ev.id \in Int
        BY <1>1, <2>1, <3>2, OutboxAssumption DEF Event
      <4>3. \A e \in {d \in new : d.row = y} : e.id \in Int
        BY <1>1, OutboxAssumption DEF TypeOK, Event
      <4>4. y \in Replayed(new) <=> ev.type = "role.assigned"
        BY <4>1, <4>2, <4>3 DEF Replayed
      <4>5. y \in rows' <=> ev.type = "role.assigned"
        BY <1>1, <2>2, <3>2 DEF Applied, Op, Event
      <4>6. QED
        BY <4>4, <4>5
    <3>3. QED
      BY <3>1, <3>2
  <2>4. rows' \subseteq Row /\ Replayed(new) \subseteq Row
    BY <1>1 DEF Applied, Replayed
  <2>5. QED
    BY <1>2, <2>3, <2>4 DEF ChangesReplay, Replayed
<1>5. QED
  BY <1>1, <1>3, <1>4 DEF Event

-----------------------------------------------------------------------------

\* Every step keeps the inductive invariant.
LEMMA NextInv ==
  ASSUME IInv, [Next]_vars
  PROVE  IInv'
<1> USE DEF IInv
<1>1. TypeOK'
  BY NextTypeOK
<1>2. ASSUME UNCHANGED <<rows, events>>
      PROVE  ChangesReplay'
  BY <1>2 DEF ChangesReplay, Replayed
<1>3. CASE UNCHANGED vars
  <2>1. IdsOnce' /\ OneChanges' /\ ChangesHold' /\ LockedIdsGrow'
    BY <1>3 DEF vars, IdsOnce, OneChanges, ChangesHold, LockedIdsGrow, Logged, Changes
  <2>2. QED
    BY <1>1, <1>2, <1>3, <2>1 DEF vars
<1>4. ASSUME NEW p \in Proc, NEW x \in Row, AssignRole(p, x) \/ RemoveRole(p, x)
      PROVE  IInv'
  BY <1>1, <1>2, <1>4, StatementKeeps DEF AssignRole, RemoveRole
<1>5. ASSUME NEW p \in Proc, CreateEvent(p)
      PROVE  IInv'
  BY <1>1, <1>2, <1>5, CreateEventKeeps DEF CreateEvent
<1>6. ASSUME NEW p \in Proc, Commit(p)
      PROVE  IInv'
  BY <1>1, <1>6, CommitKeeps, CommitReplays
<1>7. ASSUME NEW p \in Proc, Rollback(p)
      PROVE  IInv'
  BY <1>1, <1>2, <1>7, RollbackKeeps DEF Rollback
<1>8. QED
  BY <1>3, <1>4, <1>5, <1>6, <1>7 DEF Next

\* The outbox tells the truth about the table, for any number of goroutines
\* and rows: replayed in the order of their ids, the events of the requests
\* that changed something give what is in the table (RunInTx, AssignRoleToUser,
\* RemoveRoleFromUser, OutboxRepository.Create).
THEOREM EventsReplayTheTable == Spec => []ChangesReplay
<1>1. Init => IInv
  BY InitInv
<1>2. IInv /\ [Next]_vars => IInv'
  BY NextInv
<1>3. IInv => ChangesReplay
  BY DEF IInv
<1>4. QED
  BY <1>1, <1>2, <1>3, PTL DEF Spec
=============================================================================
