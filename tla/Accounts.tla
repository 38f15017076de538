------------------------------ MODULE Accounts ------------------------------
(***************************************************************************)
(* Signup (internal/auth) and the profile of a user (internal/user), over  *)
(* the tables users, roles and user_roles, behind the rate limiter.        *)
(*                                                                         *)
(* A goroutine whose request has passed the limiter runs it, cut at every  *)
(* SQL statement: none of them is in a transaction with another.  Of the   *)
(* roles only the one named "developer" is told apart; it may be deleted   *)
(* and created anew, under a new id.  Whom Authorize lets touch somebody   *)
(* else's profile is the subject of module Gateway; here any caller may.   *)
(***************************************************************************)
EXTENDS RateLimit, FiniteSets

CONSTANTS
  UserId, RoleId,   \* ids that rows of users, and of the developer role, get
  Email,
  Seeded            \* the id of the developer role that the migration inserts

ASSUME AccountsAssumption == Seeded \in RoleId

VARIABLES
  users,       \* users[u]: the row with id u, or NoUser
  developer,   \* ids of live rows of roles with the name "developer"
  retired,     \* ids of those that were deleted
  holders,     \* rows <<u, r>> of user_roles
  task,        \* task[p]: where the request of p is in its handler
  cut,         \* history: users whose Signup failed after its first INSERT
  off          \* history: users deactivated with no update of theirs under way

tables == <<users, developer, retired, holders>>
accountsVars == <<limiterVars, tables, task, cut, off>>

NoUser == [email |-> "none"]
User == [email : Email, active : BOOLEAN]
Accounts == {u \in UserId : users[u] # NoUser}

NoTask == [pc |-> "none"]
Tasks ==
  {NoTask}
    \cup [pc : {"create"}, email : Email]
    \cup [pc : {"findRole"}, user : UserId]
    \cup [pc : {"assign"}, user : UserId, role : RoleId]
    \cup [pc : {"update"}, user : UserId, active : BOOLEAN]

\* The types, with the foreign keys of user_roles, and that a handler runs only
\* behind the limiter.
TypeOK ==
  /\ LimiterTypeOK
  /\ users \in [UserId -> User \cup {NoUser}]
  /\ developer \cup retired \subseteq RoleId
  /\ Cardinality(developer) <= 1
  /\ holders \subseteq Accounts \X developer
  /\ task \in [Proc -> Tasks]
  /\ \A p \in Proc : task[p] # NoTask => gate[p] = Inside
  /\ cut \cup off \subseteq Accounts

Init ==
  /\ LimiterInit
  /\ users = [u \in UserId |-> NoUser]
  /\ developer = {Seeded} /\ retired = {} /\ holders = {}
  /\ task = [p \in Proc |-> NoTask]
  /\ cut = {} /\ off = {}

\* The handler goes on to t, or answers; the limiter has no part in it.
Goes(p, t) ==
  /\ gate[p] = Inside
  /\ task' = [task EXCEPT ![p] = t]
  /\ UNCHANGED <<now, counter, gate, admitted, orphaned>>
Answers(p) ==
  /\ gate[p] = Inside
  /\ task' = [task EXCEPT ![p] = NoTask]
  /\ Moves(p, Out)
  /\ UNCHANGED <<now, counter, admitted, orphaned>>

-----------------------------------------------------------------------------
(* Service.Signup *)

\* Rows with this email.  (Seeded fault: there is no UNIQUE constraint.)
Unchecked(e) == {}
WithEmail(e) == {u \in Accounts : users[u].email = e}

\* GetByEmail: taken, or free so far.
Signup(p, e) ==
  /\ task[p] = NoTask
  /\ IF \E u \in Accounts : users[u].email = e THEN Answers(p)
     ELSE Goes(p, [pc |-> "create", email |-> e])
  /\ UNCHANGED <<tables, cut, off>>

\* UserRepository.Create.  The UNIQUE constraint has the last word.
CreateUser(p, u) ==
  /\ task[p].pc = "create"
  /\ users[u] = NoUser
  /\ LET e == task[p].email
     IN IF WithEmail(e) = {}
        THEN /\ users' = [users EXCEPT ![u] = [email |-> e, active |-> TRUE]]
             /\ Goes(p, [pc |-> "findRole", user |-> u])
        ELSE Answers(p) /\ UNCHANGED users
  /\ UNCHANGED <<developer, retired, holders, cut, off>>

\* RoleRepository.GetByName("developer"): if there is none, so be it.
\* (Seeded fault: the test on its error is turned round.)
FindNoRole(p) ==
  /\ task[p].pc = "findRole"
  /\ IF developer # {} THEN Answers(p)
     ELSE \E r \in RoleId : Goes(p, [pc |-> "assign", user |-> task[p].user, role |-> r])
  /\ UNCHANGED <<tables, cut, off>>
FindRole(p) ==
  /\ task[p].pc = "findRole"
  /\ IF developer = {} THEN Answers(p)
     ELSE \E r \in developer :
            Goes(p, [pc |-> "assign", user |-> task[p].user, role |-> r])
  /\ UNCHANGED <<tables, cut, off>>

\* Has r been there at all?  Is it there now, as the foreign key demands?
\* (Seeded fault: no foreign key.)
EverThere(r) == TRUE
StillThere(r) == r \in developer

\* UserRepository.AssignRole, its error dropped: no event, no invalidation.
AssignDefault(p) ==
  /\ task[p].pc = "assign"
  /\ holders' = IF StillThere(task[p].role)
                THEN holders \cup {<<task[p].user, task[p].role>>} ELSE holders
  /\ Answers(p)
  /\ UNCHANGED <<users, developer, retired, cut, off>>

-----------------------------------------------------------------------------
(* user.Service *)

\* UpdateProfile reads the row ...
UpdateReads(p, u) ==
  /\ task[p] = NoTask
  /\ u \in Accounts
  /\ Goes(p, [pc |-> "update", user |-> u, active |-> users[u].active])
  /\ UNCHANGED <<tables, cut, off>>

\* What UserRepository.Update writes to is_active: what was read.
\* (Seeded fault: an account in use is an active one.)
AlwaysActive(p) == TRUE
AsRead(p) == task[p].active

\* ... and writes it back with the new name.
UpdateWrites(p) ==
  /\ task[p].pc = "update"
  /\ users' = [users EXCEPT ![task[p].user].active = AsRead(p)]
  /\ Answers(p)
  /\ UNCHANGED <<developer, retired, holders, cut, off>>

\* A request of another kind (Get, List, ...), or one that finds no such user,
\* is refused, or fails at its first statement.
ChangesNothing(p) ==
  /\ task[p] = NoTask
  /\ Answers(p)
  /\ UNCHANGED <<tables, cut, off>>

-----------------------------------------------------------------------------
(* The environment *)

\* A statement fails, the client goes away or the server dies, with the row of
\* a new user already there or not.
CutShort(p) ==
  /\ Faults
  /\ task[p] # NoTask
  /\ cut' = cut \cup IF task[p].pc \in {"findRole", "assign"} THEN {task[p].user} ELSE {}
  /\ Answers(p)
  /\ UNCHANGED <<tables, off>>

\* Updates of u under way that read it as active.
Reviving(u) ==
  {p \in Proc : task[p] = [pc |-> "update", user |-> u, active |-> TRUE]}

\* An operator deactivates u in the database; no call of the API does.
Deactivate(u) ==
  /\ u \in Accounts
  /\ users' = [users EXCEPT ![u].active = FALSE]
  /\ off' = IF Reviving(u) = {} THEN off \cup {u} ELSE off
  /\ UNCHANGED <<limiterVars, developer, retired, holders, task, cut>>

\* DeleteRole of the developer role, with its cascade, and CreateRole.
DropDeveloper ==
  /\ developer # {}
  /\ developer' = {} /\ retired' = retired \cup developer
  /\ holders' = {}
  /\ UNCHANGED <<limiterVars, users, task, cut, off>>

NewDeveloper(r) ==
  /\ developer = {} /\ r \notin retired
  /\ developer' = {r}
  /\ UNCHANGED <<limiterVars, users, retired, holders, task, cut, off>>

-----------------------------------------------------------------------------

Handle(p) ==
  \/ \E e \in Email : Signup(p, e)
  \/ \E u \in UserId : CreateUser(p, u) \/ UpdateReads(p, u)
  \/ FindRole(p) \/ AssignDefault(p) \/ UpdateWrites(p)
  \/ ChangesNothing(p) \/ CutShort(p)

Limited == LimiterTick \/ \E p \in Proc : LimiterStep(p)

Next ==
  \/ \E p \in Proc : Handle(p)
  \/ Limited /\ UNCHANGED <<tables, task, cut, off>>
  \/ \E u \in UserId : Deactivate(u)
  \/ DropDeveloper \/ \E r \in RoleId : NewDeveloper(r)

Spec == Init /\ [][Next]_accountsVars

-----------------------------------------------------------------------------
(* What becomes of accounts *)

\* However many signups find an email free at once, one account comes of it.
\* (Service.Signup looks the email up and inserts in two statements.)
OneAccountPerEmail ==
  \A u, v \in Accounts : users[u].email = users[v].email => u = v

\* "Signup auto-assigns the developer role": as long as the seeded role is
\* there, every account has it, but for those whose Signup is still under way
\* or was cut short between its INSERTs.
\* (Service.Signup assigns outside a transaction and drops the error.)
RolelessExplained ==
  Seeded \in developer =>
    \A u \in Accounts \ cut :
      \/ <<u, Seeded>> \in holders
      \/ \E p \in Proc : task[p].pc \in {"findRole", "assign"} /\ task[p].user = u

\* A deactivated account comes alive again only by an update of its profile
\* that had read it before: any later one, and any number of them, writes back
\* what it found.
\* (Service.UpdateProfile and UserRepository.Update write is_active as read.)
StaysOff == \A u \in off : ~users[u].active
=============================================================================
