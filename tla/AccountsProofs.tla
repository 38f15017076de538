--------------------------- MODULE AccountsProofs ---------------------------
(***************************************************************************)
(* For any goroutines, clients, emails and ids: the types of module        *)
(* Accounts and each of its invariants, and those of the rate limiter in   *)
(* front of it.                                                            *)
(***************************************************************************)
EXTENDS Accounts, RateLimitProofs, FiniteSetTheorems

-----------------------------------------------------------------------------
(* The limiter in front *)

\* Seen by the limiter, a handler does nothing or is done.
LEMMA StepsOfTheLimiter ==
  ASSUME [Next]_accountsVars
  PROVE  LimiterNext \/ UNCHANGED limiterVars
<1>1. ASSUME NEW p \in Proc, Handle(p)
      PROVE  Leaves(p) \/ UNCHANGED limiterVars
  <2>1. (\E t : Goes(p, t)) \/ Answers(p)
    BY <1>1 DEF Handle, Signup, CreateUser, FindRole, AssignDefault, UpdateReads, UpdateWrites,
                ChangesNothing, CutShort
  <2>2. QED
    BY <2>1 DEF Goes, Answers, Leaves, limiterVars
<1>2. CASE Limited
  BY <1>2 DEF Limited, LimiterNext
<1>3. ASSUME \/ \E u \in UserId : Deactivate(u)
             \/ DropDeveloper \/ \E r \in RoleId : NewDeveloper(r)
             \/ UNCHANGED accountsVars
      PROVE  UNCHANGED limiterVars
  BY <1>3 DEF Deactivate, DropDeveloper, NewDeveloper, accountsVars
<1>4. QED
  BY <1>1, <1>2, <1>3 DEF Next, LimiterNext

\* The limit is the same whatever the handlers do.
LEMMA LimitStands ==
  ASSUME LimitInv, UNCHANGED limiterVars
  PROVE  LimitInv'
  BY DEF limiterVars, LimitInv, LimiterTypeOK, KeysHaveBegun, LivesItsWindow, CountsAdmitted,
         AtMostLimit

\* Of the requests of a client counted within their own window no more than the
\* limit pass, for any window, limit and load (RateLimit: INCR, EXPIRE, decide).
THEOREM LimitHolds == Spec => []AtMostLimit
<1>1. Init => LimitInv
  BY LimiterInitLimit DEF Init
<1>2. LimitInv /\ [Next]_accountsVars => LimitInv'
  BY StepsOfTheLimiter, LimiterNextLimit, LimitStands
<1>3. LimitInv => AtMostLimit
  BY DEF LimitInv
<1>4. QED
  BY <1>1, <1>2, <1>3, PTL DEF Spec

\* So are the counters without an expiry.
LEMMA OrphansStand ==
  ASSUME OrphansInv, UNCHANGED limiterVars
  PROVE  OrphansInv'
  BY DEF limiterVars, OrphansInv, LimiterTypeOK, OrphansExplained, Value, Expired

\* A counter without an expiry is about to get one, or its EXPIRE was lost
\* (RateLimit: two commands, and the error of the second dropped).
THEOREM OrphansAreExplained == Spec => []OrphansExplained
<1>1. Init => OrphansInv
  BY LimiterInitOrphans DEF Init
<1>2. OrphansInv /\ [Next]_accountsVars => OrphansInv'
  BY StepsOfTheLimiter, LimiterNextOrphans, OrphansStand
<1>3. OrphansInv => OrphansExplained
  BY DEF OrphansInv
<1>4. QED
  BY <1>1, <1>2, <1>3, PTL DEF Spec

-----------------------------------------------------------------------------
(* Types *)

\* The user that a handler has in hand has a row.
TaskUsers ==
  \A p \in Proc : task[p].pc \in {"findRole", "assign", "update"} => task[p].user \in Accounts

TypeInv == TypeOK /\ TaskUsers

\* What TypeInv says of the tables ...
TablesOK ==
  /\ users \in [UserId -> User \cup {NoUser}]
  /\ developer \cup retired \subseteq RoleId
  /\ Cardinality(developer) <= 1
  /\ holders \subseteq Accounts \X developer
  /\ cut \cup off \subseteq Accounts

\* ... and of the requests.
RequestsOK ==
  /\ LimiterTypeOK
  /\ task \in [Proc -> Tasks]
  /\ \A p \in Proc : task[p] # NoTask => gate[p] = Inside
  /\ TaskUsers

LEMMA TypeInvParts == TypeInv <=> TablesOK /\ RequestsOK
  BY DEF TypeInv, TypeOK, TablesOK, RequestsOK

LEMMA InitTypeInv == Init => TypeInv
<1>1. Cardinality({Seeded}) = 1
  BY FS_Singleton
<1>2. QED
  BY <1>1, LimiterInitTypeOK, AccountsAssumption
  DEF Init, TypeInv, TypeOK, TaskUsers, Tasks, NoTask

\* A handler that goes on to t, or answers.
LEMMA RequestGoesOn ==
  ASSUME RequestsOK, Accounts \subseteq Accounts', NEW p \in Proc, NEW t \in Tasks, Goes(p, t),
         t.pc \in {"findRole", "assign", "update"} => t.user \in Accounts'
  PROVE  RequestsOK'
<1>1. LimiterTypeOK'
  BY DEF RequestsOK, Goes, LimiterTypeOK
<1>2. QED
  BY <1>1 DEF RequestsOK, Goes, TaskUsers

LEMMA RequestAnswered ==
  ASSUME RequestsOK, Accounts \subseteq Accounts', NEW p \in Proc, Answers(p)
  PROVE  RequestsOK'
<1>1. LimiterTypeOK'
  BY LimiterNextTypeOK DEF RequestsOK, Answers, LimiterNext, Leaves
<1>2. NoTask \in Tasks /\ NoTask.pc = "none"
  BY DEF Tasks, NoTask
<1>3. QED
  BY <1>1, <1>2 DEF RequestsOK, Answers, Moves, TaskUsers, LimiterTypeOK

LEMMA RequestStands ==
  ASSUME RequestsOK, Accounts \subseteq Accounts', UNCHANGED <<limiterVars, task>>
  PROVE  RequestsOK'
  BY DEF RequestsOK, TaskUsers, limiterVars, LimiterTypeOK

\* What a handler's place in its code says of the data in hand.
LEMMA TaskData ==
  ASSUME RequestsOK, NEW p \in Proc
  PROVE  /\ task[p].pc = "create" => task[p].email \in Email
         /\ task[p].pc \in {"findRole", "assign", "update"} =>
              task[p].user \in UserId /\ task[p].user \in Accounts
         /\ task[p].pc = "assign" => task[p].role \in RoleId
         /\ task[p].pc = "update" => task[p].active \in BOOLEAN
  BY DEF RequestsOK, TaskUsers, Tasks, NoTask

\* No row of users goes away, and a new one is not among the old.
LEMMA AccountsStay ==
  ASSUME users' = users
  PROVE  Accounts' = Accounts
  BY DEF Accounts

LEMMA UserIsNoNoUser == \A v \in User : v # NoUser
<1>1. SUFFICES ASSUME NEW v \in User, v = NoUser PROVE FALSE
  OBVIOUS
<1>2. DOMAIN v = {"email", "active"}
  BY DEF User
<1>3. DOMAIN NoUser = {"email"}
  BY DEF NoUser
<1>4. QED
  BY <1>1, <1>2, <1>3

\* The first INSERT of a Signup.
LEMMA CreateUserTypeInv ==
  ASSUME TypeInv, NEW p \in Proc, NEW u \in UserId, CreateUser(p, u)
  PROVE  TypeInv'
<1>1. TablesOK /\ RequestsOK /\ task[p].email \in Email
  BY TypeInvParts, TaskData DEF CreateUser
<1>2. CASE WithEmail(task[p].email) = {}
  <2>1. /\ users' = [users EXCEPT ![u] = [email |-> task[p].email, active |-> TRUE]]
        /\ Goes(p, [pc |-> "findRole", user |-> u])
    BY <1>2 DEF CreateUser
  <2>2. [email |-> task[p].email, active |-> TRUE] \in User
    BY <1>1 DEF User
  <2>3. Accounts' = Accounts \cup {u}
    BY <1>1, <2>1, <2>2, UserIsNoNoUser DEF TablesOK, Accounts
  <2>4. TablesOK'
    BY <1>1, <2>1, <2>2, <2>3 DEF TablesOK, CreateUser
  <2>5. [pc |-> "findRole", user |-> u] \in Tasks
    BY DEF Tasks
  <2>6. RequestsOK'
    BY <1>1, <2>1, <2>3, <2>5, RequestGoesOn
  <2>7. QED
    BY <2>4, <2>6, TypeInvParts DEF TypeInv, TypeOK, TablesOK, RequestsOK
<1>3. CASE WithEmail(task[p].email) # {}
  <2>1. Answers(p) /\ users' = users
    BY <1>3 DEF CreateUser
  <2>2. Accounts' = Accounts
    BY <2>1, AccountsStay
  <2>3. TablesOK'
    BY <1>1, <2>1, <2>2 DEF TablesOK, CreateUser
  <2>4. RequestsOK'
    BY <1>1, <2>1, <2>2, RequestAnswered
  <2>5. QED
    BY <2>3, <2>4 DEF TypeInv, TypeOK, TablesOK, RequestsOK
<1>4. QED
  BY <1>2, <1>3

\* The steps of handlers that write no table.
LEMMA ReadingTypeInv ==
  ASSUME TypeInv, NEW p \in Proc,
         \/ \E e \in Email : Signup(p, e)
         \/ FindRole(p) \/ ChangesNothing(p)
         \/ \E u \in UserId : UpdateReads(p, u)
  PROVE  TypeInv'
<1>1. TablesOK /\ RequestsOK
  BY TypeInvParts
<1>2. UNCHANGED <<tables, cut, off>> /\ Accounts' = Accounts
  BY AccountsStay DEF Signup, FindRole, ChangesNothing, UpdateReads, tables
<1>3. TablesOK'
  BY <1>1, <1>2 DEF TablesOK, tables
<1>4. ASSUME Answers(p)
      PROVE  RequestsOK'
  BY <1>1, <1>2, <1>4, RequestAnswered
<1>5. ASSUME NEW t \in Tasks, Goes(p, t),
             t.pc \in {"findRole", "assign", "update"} => t.user \in Accounts
      PROVE  RequestsOK'
  BY <1>1, <1>2, <1>5, RequestGoesOn
<1>6. ASSUME NEW e \in Email, Signup(p, e)
      PROVE  RequestsOK'
  <2>1. [pc |-> "create", email |-> e] \in Tasks
    BY DEF Tasks
  <2>2. QED
    BY <1>4, <1>5, <1>6, <2>1 DEF Signup
<1>7. ASSUME FindRole(p)
      PROVE  RequestsOK'
  <2>1. task[p].user \in UserId /\ task[p].user \in Accounts
    BY <1>1, <1>7, TaskData DEF FindRole
  <2>2. \A r \in developer : [pc |-> "assign", user |-> task[p].user, role |-> r] \in Tasks
    BY <1>1, <2>1 DEF Tasks, TablesOK
  <2>3. QED
    BY <1>4, <1>5, <1>7, <2>1, <2>2 DEF FindRole
<1>8. ASSUME ChangesNothing(p)
      PROVE  RequestsOK'
  BY <1>4, <1>8 DEF ChangesNothing
<1>9. ASSUME NEW u \in UserId, UpdateReads(p, u)
      PROVE  RequestsOK'
  <2>1. users[u] \in User
    BY <1>1, <1>9 DEF UpdateReads, TablesOK, Accounts
  <2>2. [pc |-> "update", user |-> u, active |-> users[u].active] \in Tasks
    BY <2>1 DEF Tasks, User
  <2>3. QED
    BY <1>5, <1>9, <2>2 DEF UpdateReads
<1>10. RequestsOK'
  BY <1>6, <1>7, <1>8, <1>9
<1>11. QED
  BY <1>3, <1>10 DEF TypeInv, TypeOK, TablesOK, RequestsOK

\* The last steps: the default role, the write-back, and a request cut short.
LEMMA AnsweringTypeInv ==
  ASSUME TypeInv, NEW p \in Proc, AssignDefault(p) \/ UpdateWrites(p) \/ CutShort(p)
  PROVE  TypeInv'
<1>1. TablesOK /\ RequestsOK /\ Answers(p)
  BY TypeInvParts DEF AssignDefault, UpdateWrites, CutShort
<1>2. CASE AssignDefault(p)
  <2>1. task[p].user \in Accounts
    BY <1>1, <1>2, TaskData DEF AssignDefault
  <2>2. Accounts' = Accounts
    BY <1>2, AccountsStay DEF AssignDefault
  <2>3. holders' \subseteq Accounts \X developer
    BY <1>1, <1>2, <2>1 DEF AssignDefault, StillThere, TablesOK
  <2>4. TablesOK'
    BY <1>1, <1>2, <2>2, <2>3 DEF AssignDefault, TablesOK
  <2>5. RequestsOK'
    BY <1>1, <2>2, RequestAnswered
  <2>6. QED
    BY <2>4, <2>5 DEF TypeInv, TypeOK, TablesOK, RequestsOK
<1>3. CASE UpdateWrites(p)
  <2>1. /\ task[p].user \in UserId /\ task[p].user \in Accounts /\ task[p].active \in BOOLEAN
        /\ users[task[p].user] \in User
    BY <1>1, <1>3, TaskData DEF UpdateWrites, TablesOK, Accounts
  <2>2. /\ users' = [users EXCEPT ![task[p].user] = [users[task[p].user] EXCEPT !.active = task[p].active]]
        /\ [users[task[p].user] EXCEPT !.active = task[p].active] \in User
    BY <1>3, <2>1 DEF UpdateWrites, AsRead, User
  <2>3. Accounts' = Accounts
    BY <1>1, <2>1, <2>2, UserIsNoNoUser DEF Accounts, TablesOK
  <2>4. TablesOK'
    BY <1>1, <1>3, <2>2, <2>3 DEF UpdateWrites, TablesOK
  <2>5. RequestsOK'
    BY <1>1, <2>3, RequestAnswered
  <2>6. QED
    BY <2>4, <2>5 DEF TypeInv, TypeOK, TablesOK, RequestsOK
<1>4. CASE CutShort(p)
  <2>1. Accounts' = Accounts
    BY <1>4, AccountsStay DEF CutShort, tables
  <2>2. task[p].pc \in {"findRole", "assign"} => task[p].user \in Accounts
    BY <1>1, TaskData
  <2>3. TablesOK'
    BY <1>1, <1>4, <2>1, <2>2 DEF CutShort, TablesOK, tables
  <2>4. RequestsOK'
    BY <1>1, <2>1, RequestAnswered
  <2>5. QED
    BY <2>3, <2>4 DEF TypeInv, TypeOK, TablesOK, RequestsOK
<1>5. QED
  BY <1>2, <1>3, <1>4

\* Operators and administrators.
LEMMA EnvironmentTypeInv ==
  ASSUME TypeInv,
         \/ \E u \in UserId : Deactivate(u)
         \/ DropDeveloper \/ \E r \in RoleId : NewDeveloper(r)
  PROVE  TypeInv'
<1>1. TablesOK /\ RequestsOK
  BY TypeInvParts
<1>2. ASSUME NEW u \in UserId, Deactivate(u)
      PROVE  TypeInv'
  <2>1. users[u] \in User /\ u \in Accounts
    BY <1>1, <1>2 DEF Deactivate, TablesOK, Accounts
  <2>2. /\ users' = [users EXCEPT ![u] = [users[u] EXCEPT !.active = FALSE]]
        /\ [users[u] EXCEPT !.active = FALSE] \in User
    BY <1>2, <2>1 DEF Deactivate, User
  <2>3. Accounts' = Accounts
    BY <1>1, <2>1, <2>2, UserIsNoNoUser DEF Accounts, TablesOK
  <2>4. TablesOK'
    BY <1>1, <1>2, <2>1, <2>2, <2>3 DEF Deactivate, TablesOK
  <2>5. RequestsOK'
    BY <1>1, <1>2, <2>3, RequestStands DEF Deactivate
  <2>6. QED
    BY <2>4, <2>5 DEF TypeInv, TypeOK, TablesOK, RequestsOK
<1>3. CASE DropDeveloper
  <2>1. Accounts' = Accounts
    BY <1>3, AccountsStay DEF DropDeveloper
  <2>2. Cardinality({}) = 0
    BY FS_EmptySet
  <2>3. TablesOK'
    BY <1>1, <1>3, <2>1, <2>2 DEF DropDeveloper, TablesOK
  <2>4. RequestsOK'
    BY <1>1, <1>3, <2>1, RequestStands DEF DropDeveloper
  <2>5. QED
    BY <2>3, <2>4 DEF TypeInv, TypeOK, TablesOK, RequestsOK
<1>4. ASSUME NEW r \in RoleId, NewDeveloper(r)
      PROVE  TypeInv'
  <2>1. Accounts' = Accounts
    BY <1>4, AccountsStay DEF NewDeveloper
  <2>2. Cardinality({r}) = 1
    BY FS_Singleton
  <2>3. TablesOK'
    BY <1>1, <1>4, <2>1, <2>2 DEF NewDeveloper, TablesOK
  <2>4. RequestsOK'
    BY <1>1, <1>4, <2>1, RequestStands DEF NewDeveloper
  <2>5. QED
    BY <2>3, <2>4 DEF TypeInv, TypeOK, TablesOK, RequestsOK
<1>5. QED
  BY <1>2, <1>3, <1>4

\* The limiter lets nobody out whose handler is running.
LEMMA LimitedTypeInv ==
  ASSUME TypeInv, Limited, UNCHANGED <<tables, task, cut, off>>
  PROVE  TypeInv'
<1>1. TablesOK /\ RequestsOK
  BY TypeInvParts
<1>2. Accounts' = Accounts
  BY AccountsStay DEF tables
<1>3. TablesOK'
  BY <1>1, <1>2 DEF TablesOK, tables
<1>4. LimiterTypeOK'
  BY <1>1, LimiterNextTypeOK DEF RequestsOK, Limited, LimiterNext
<1>5. Inside.at = "in" /\ Out.at = "out"
  BY DEF Inside, Out
<1>6. \A p \in Proc : gate[p] = Inside => gate'[p] = Inside
  <2>1. CASE LimiterTick
    BY <2>1 DEF LimiterTick
  <2>2. ASSUME NEW q \in Proc, LimiterStep(q)
        PROVE  \A p \in Proc : gate[p] = Inside => gate'[p] = Inside
    <3>1. gate[q] # Inside
      BY <1>5, <2>2 DEF LimiterStep, Arrive, Incr, Expire, IncrFails, IncrUnanswered, ExpireFails
    <3>2. \A p \in Proc \ {q} : gate'[p] = gate[p]
      BY <1>1, <2>2 DEF LimiterStep, Arrive, Incr, Expire, IncrFails, IncrUnanswered, ExpireFails,
                       Moves, RequestsOK, LimiterTypeOK
    <3>3. QED
      BY <3>1, <3>2
  <2>3. QED
    BY <2>1, <2>2 DEF Limited
<1>7. RequestsOK'
  BY <1>1, <1>2, <1>4, <1>6 DEF RequestsOK, TaskUsers
<1>8. QED
  BY <1>3, <1>7 DEF TypeInv, TypeOK, TablesOK, RequestsOK

LEMMA NextTypeInv ==
  ASSUME TypeInv, [Next]_accountsVars
  PROVE  TypeInv'
<1>1. ASSUME NEW p \in Proc, Handle(p)
      PROVE  TypeInv'
  BY <1>1, CreateUserTypeInv, ReadingTypeInv, AnsweringTypeInv DEF Handle
<1>2. CASE UNCHANGED accountsVars
  BY <1>2 DEF accountsVars, limiterVars, tables, TypeInv, TypeOK, TaskUsers, LimiterTypeOK, Accounts
<1>3. QED
  BY <1>1, <1>2, LimitedTypeInv, EnvironmentTypeInv DEF Next

\* The types of Accounts, with the foreign keys of user_roles, and that a handler
\* runs behind the limiter only (migrations/0001_init.up.sql; RateLimit).
THEOREM AccountsTypeCorrect == Spec => []TypeOK
<1>1. TypeInv /\ [Next]_accountsVars => TypeInv'
  BY NextTypeInv
<1>2. TypeInv => TypeOK
  BY DEF TypeInv
<1>3. QED
  BY <1>1, <1>2, InitTypeInv, PTL DEF Spec

-----------------------------------------------------------------------------
(* One account per email *)

\* Only CreateUser changes who has which email.
LEMMA EmailsStand ==
  ASSUME TypeInv, [Next]_accountsVars,
         \A p \in Proc, u \in UserId : ~CreateUser(p, u)
  PROVE  Accounts' = Accounts /\ \A u \in Accounts : users'[u].email = users[u].email
<1>1. TablesOK /\ RequestsOK
  BY TypeInvParts
<1>2. ASSUME NEW u \in Accounts, NEW b \in BOOLEAN,
             users' = [users EXCEPT ![u] = [users[u] EXCEPT !.active = b]]
      PROVE  Accounts' = Accounts /\ \A v \in Accounts : users'[v].email = users[v].email
  <2>1. users[u] \in User
    BY <1>1 DEF TablesOK, Accounts
  <2>2. [users[u] EXCEPT !.active = b] \in User /\ [users[u] EXCEPT !.active = b].email = users[u].email
    BY <2>1 DEF User
  <2>3. QED
    BY <1>1, <1>2, <2>1, <2>2, UserIsNoNoUser DEF Accounts, TablesOK
<1>3. ASSUME users' = users
      PROVE  Accounts' = Accounts /\ \A u \in Accounts : users'[u].email = users[u].email
  BY <1>3, AccountsStay
<1>4. ASSUME NEW p \in Proc, UpdateWrites(p)
      PROVE  \E u \in Accounts, b \in BOOLEAN :
               users' = [users EXCEPT ![u] = [users[u] EXCEPT !.active = b]]
  <2>1. task[p].user \in Accounts /\ task[p].active \in BOOLEAN
    BY <1>1, <1>4, TaskData DEF UpdateWrites
  <2>2. QED
    BY <1>4, <2>1 DEF UpdateWrites, AsRead
<1>5. ASSUME NEW u \in UserId, Deactivate(u)
      PROVE  users' = [users EXCEPT ![u] = [users[u] EXCEPT !.active = FALSE]] /\ u \in Accounts
  BY <1>5 DEF Deactivate
<1>6. \/ users' = users
      \/ \E p \in Proc : UpdateWrites(p)
      \/ \E u \in UserId : Deactivate(u)
  BY DEF Next, Handle, Signup, FindRole, AssignDefault, UpdateReads, ChangesNothing, CutShort,
         DropDeveloper, NewDeveloper, tables, accountsVars
<1>7. QED
  BY <1>2, <1>3, <1>4, <1>5, <1>6

EmailInv == TypeInv /\ OneAccountPerEmail

LEMMA NextEmails ==
  ASSUME EmailInv, [Next]_accountsVars
  PROVE  EmailInv'
<1>1. TypeInv /\ TypeInv' /\ OneAccountPerEmail
  BY NextTypeInv DEF EmailInv
<1>2. CASE \A p \in Proc, u \in UserId : ~CreateUser(p, u)
  BY <1>1, <1>2, EmailsStand DEF EmailInv, OneAccountPerEmail
<1>3. ASSUME NEW p \in Proc, NEW u \in UserId, CreateUser(p, u)
      PROVE  OneAccountPerEmail'
  <2>1. TablesOK
    BY <1>1, TypeInvParts
  <2>2. CASE WithEmail(task[p].email) = {}
    <3>1. users' = [users EXCEPT ![u] = [email |-> task[p].email, active |-> TRUE]]
      BY <1>3, <2>2 DEF CreateUser
    <3>2. \A v \in Accounts' : v # u => v \in Accounts /\ users'[v] = users[v]
      BY <2>1, <3>1 DEF Accounts, TablesOK
    <3>3. \A v \in Accounts : users[v].email # task[p].email
      BY <2>2 DEF WithEmail
    <3>4. u \in UserId /\ users'[u].email = task[p].email
      BY <2>1, <3>1 DEF TablesOK
    <3>5. QED
      BY <1>1, <3>2, <3>3, <3>4 DEF OneAccountPerEmail
  <2>3. CASE WithEmail(task[p].email) # {}
    BY <1>1, <1>3, <2>3, AccountsStay DEF CreateUser, OneAccountPerEmail
  <2>4. QED
    BY <2>2, <2>3
<1>4. QED
  BY <1>1, <1>2, <1>3 DEF EmailInv

\* However many signups overlap, one account comes of an email (Service.Signup,
\* and the UNIQUE constraint on users.email).
THEOREM EmailsAreUnique == Spec => []OneAccountPerEmail
<1>1. Init => EmailInv
  BY InitTypeInv DEF EmailInv, Init, OneAccountPerEmail, Accounts
<1>2. EmailInv /\ [Next]_accountsVars => EmailInv'
  BY NextEmails
<1>3. EmailInv => OneAccountPerEmail
  BY DEF EmailInv
<1>4. QED
  BY <1>1, <1>2, <1>3, PTL DEF Spec

-----------------------------------------------------------------------------
(* Deactivated accounts *)

\* No update that read u as active is under way for any u in off.
OffInv ==
  /\ TypeInv
  /\ \A u \in off : ~users[u].active /\ Reviving(u) = {}

LEMMA NextOff ==
  ASSUME OffInv, [Next]_accountsVars
  PROVE  OffInv'
<1>1. TypeInv /\ TypeInv' /\ TablesOK /\ RequestsOK
  BY NextTypeInv, TypeInvParts DEF OffInv
<1>2. SUFFICES ASSUME NEW u \in off'
               PROVE  ~users'[u].active /\ Reviving(u)' = {}
  BY <1>1 DEF OffInv
<1>3. u \in Accounts' /\ u \in UserId
  BY <1>1, <1>2 DEF TypeInv, TypeOK, Accounts
<1>4. ASSUME u \in off
      PROVE  /\ u \in Accounts /\ users[u] \in User /\ ~users[u].active
             /\ \A p \in Proc : task[p] # [pc |-> "update", user |-> u, active |-> TRUE]
  BY <1>1, <1>4 DEF OffInv, TablesOK, Accounts, Reviving
<1>5. ASSUME UNCHANGED <<users, off>>, NEW p \in Proc,
             NEW t, t # [pc |-> "update", user |-> u, active |-> TRUE], task' = [task EXCEPT ![p] = t]
      PROVE  ~users'[u].active /\ Reviving(u)' = {}
  BY <1>1, <1>2, <1>4, <1>5 DEF Reviving, RequestsOK
<1>6. NoTask # [pc |-> "update", user |-> u, active |-> TRUE]
  <2>1. NoTask.pc = "none"
    BY DEF NoTask
  <2>2. QED
    BY <2>1
<1>7. ASSUME NEW p \in Proc, Handle(p)
      PROVE  ~users'[u].active /\ Reviving(u)' = {}
  <2>1. ASSUME Answers(p), UNCHANGED <<users, off>>
        PROVE  ~users'[u].active /\ Reviving(u)' = {}
    BY <1>5, <1>6, <2>1 DEF Answers
  <2>2. ASSUME NEW e \in Email, Signup(p, e)
        PROVE  ~users'[u].active /\ Reviving(u)' = {}
    <3>1. [pc |-> "create", email |-> e] # [pc |-> "update", user |-> u, active |-> TRUE]
      OBVIOUS
    <3>2. QED
      BY <1>5, <2>1, <2>2, <3>1 DEF Signup, Goes, tables
  <2>3. ASSUME NEW v \in UserId, CreateUser(p, v)
        PROVE  ~users'[u].active /\ Reviving(u)' = {}
    <3>1. CASE WithEmail(task[p].email) = {}
      <4>1. /\ off' = off /\ u \in off
            /\ users' = [users EXCEPT ![v] = [email |-> task[p].email, active |-> TRUE]]
            /\ task' = [task EXCEPT ![p] = [pc |-> "findRole", user |-> v]]
        BY <1>2, <2>3, <3>1 DEF CreateUser, Goes
      <4>2. u # v
        BY <1>4, <2>3, <4>1 DEF CreateUser, Accounts
      <4>3. [pc |-> "findRole", user |-> v] # [pc |-> "update", user |-> u, active |-> TRUE]
        OBVIOUS
      <4>4. QED
        BY <1>1, <1>3, <1>4, <4>1, <4>2, <4>3 DEF Reviving, RequestsOK, TablesOK
    <3>2. CASE WithEmail(task[p].email) # {}
      BY <2>1, <2>3, <3>2 DEF CreateUser
    <3>3. QED
      BY <3>1, <3>2
  <2>4. ASSUME FindRole(p)
        PROVE  ~users'[u].active /\ Reviving(u)' = {}
    <3>1. \A r : [pc |-> "assign", user |-> task[p].user, role |-> r]
                 # [pc |-> "update", user |-> u, active |-> TRUE]
      OBVIOUS
    <3>2. QED
      BY <1>5, <2>1, <2>4, <3>1 DEF FindRole, Goes, tables
  <2>5. ASSUME NEW v \in UserId, UpdateReads(p, v)
        PROVE  ~users'[u].active /\ Reviving(u)' = {}
    <3>1. u \in off
      BY <1>2, <2>5 DEF UpdateReads
    <3>2. [pc |-> "update", user |-> v, active |-> users[v].active]
            # [pc |-> "update", user |-> u, active |-> TRUE]
      BY <1>4, <3>1
    <3>3. QED
      BY <1>5, <2>5, <3>2 DEF UpdateReads, Goes, tables
  <2>6. ASSUME UpdateWrites(p)
        PROVE  ~users'[u].active /\ Reviving(u)' = {}
    <3>1. /\ off' = off /\ u \in off
          /\ users' = [users EXCEPT ![task[p].user] = [users[task[p].user] EXCEPT !.active = task[p].active]]
          /\ task' = [task EXCEPT ![p] = NoTask]
      BY <1>2, <2>6 DEF UpdateWrites, AsRead, Answers
    <3>2. task[p].user = u => task[p].active = FALSE
      <4>1. task[p] \in [pc : {"update"}, user : UserId, active : BOOLEAN]
        BY <1>1, <2>6 DEF UpdateWrites, RequestsOK, Tasks, NoTask
      <4>2. QED
        BY <1>4, <3>1, <4>1
    <3>3. ~users'[u].active
      BY <1>1, <1>3, <1>4, <3>1, <3>2 DEF TablesOK, User
    <3>4. QED
      BY <1>1, <1>4, <1>6, <3>1, <3>3 DEF Reviving, RequestsOK
  <2>7. CASE AssignDefault(p) \/ ChangesNothing(p) \/ CutShort(p)
    BY <2>1, <2>7 DEF AssignDefault, ChangesNothing, CutShort, tables
  <2>8. QED
    BY <1>7, <2>2, <2>3, <2>4, <2>5, <2>6, <2>7 DEF Handle
<1>8. ASSUME NEW v \in UserId, Deactivate(v)
      PROVE  ~users'[u].active /\ Reviving(u)' = {}
  <2>1. /\ users' = [users EXCEPT ![v] = [users[v] EXCEPT !.active = FALSE]]
        /\ u \in off \/ (u = v /\ Reviving(v) = {})
    BY <1>2, <1>8 DEF Deactivate
  <2>2. users[v] \in User
    BY <1>1, <1>8 DEF Deactivate, TablesOK, Accounts
  <2>3. task' = task
    BY <1>8 DEF Deactivate
  <2>4. ~users'[u].active
    BY <1>1, <1>3, <1>4, <2>1, <2>2 DEF TablesOK, User
  <2>5. QED
    BY <1>4, <2>1, <2>3, <2>4 DEF Reviving
<1>9. CASE UNCHANGED <<users, task, off>>
  BY <1>2, <1>4, <1>9 DEF Reviving
<1>10. QED
  BY <1>7, <1>8, <1>9 DEF Next, tables, DropDeveloper, NewDeveloper, accountsVars

\* A deactivated account is revived only by an update that had read it before
\* (Service.UpdateProfile writes back is_active as read).
THEOREM DeactivatedStaysOff == Spec => []StaysOff
<1>1. Init => OffInv
  BY InitTypeInv DEF OffInv, Init
<1>2. OffInv /\ [Next]_accountsVars => OffInv'
  BY NextOff
<1>3. OffInv => StaysOff
  BY DEF OffInv, StaysOff
<1>4. QED
  BY <1>1, <1>2, <1>3, PTL DEF Spec

-----------------------------------------------------------------------------
(* The default role *)

\* The seeded role, once deleted, does not come back; while it is there, it is
\* the one that Signups have in hand.
SeededOnce ==
  /\ Seeded \in developer \cup retired
  /\ Seeded \in developer =>
       /\ developer = {Seeded}
       /\ \A p \in Proc : task[p].pc = "assign" => task[p].role = Seeded

RoleInv == TypeInv /\ SeededOnce /\ RolelessExplained

\* Whether u has the role, or its Signup is still under way.
Served(u) ==
  \/ <<u, Seeded>> \in holders
  \/ \E p \in Proc : task[p].pc \in {"findRole", "assign"} /\ task[p].user = u

\* The seeded role was there before if it is there now.
LEMMA SeededWasThere ==
  ASSUME SeededOnce, [Next]_accountsVars, Seeded \in developer'
  PROVE  developer' = developer /\ Seeded \in developer /\ retired' = retired
<1>1. ~DropDeveloper /\ \A r \in RoleId : ~NewDeveloper(r)
  BY DEF SeededOnce, DropDeveloper, NewDeveloper
<1>2. UNCHANGED <<developer, retired>>
  BY <1>1 DEF Next, Handle, Signup, CreateUser, FindRole, AssignDefault, UpdateReads, UpdateWrites,
              ChangesNothing, CutShort, Deactivate, tables, accountsVars
<1>3. QED
  BY <1>2

LEMMA NextRole ==
  ASSUME RoleInv, [Next]_accountsVars
  PROVE  RoleInv'
<1>1. /\ TypeInv /\ TypeInv' /\ TablesOK /\ RequestsOK /\ SeededOnce /\ RolelessExplained
      /\ task \in [Proc -> Tasks]
  BY NextTypeInv, TypeInvParts DEF RoleInv, RequestsOK
<1>2. Seeded \in developer' \cup retired'
  BY <1>1 DEF SeededOnce, Next, Handle, Signup, CreateUser, FindRole, AssignDefault, UpdateReads,
              UpdateWrites, ChangesNothing, CutShort, Deactivate, DropDeveloper, NewDeveloper,
              tables, accountsVars
<1>3. SUFFICES ASSUME Seeded \in developer'
               PROVE  /\ \A p \in Proc : task'[p].pc = "assign" => task'[p].role = Seeded
                      /\ \A u \in Accounts' \ cut' : Served(u)'
  BY <1>1, <1>2, SeededWasThere DEF RoleInv, SeededOnce, RolelessExplained, Served
<1>4. /\ developer' = developer /\ developer = {Seeded}
      /\ \A p \in Proc : task[p].pc = "assign" => task[p].role = Seeded
      /\ \A u \in Accounts \ cut : Served(u)
  BY <1>1, <1>3, SeededWasThere DEF SeededOnce, RolelessExplained, Served
<1>5. NoTask.pc = "none"
  BY DEF NoTask
<1>6. ASSUME NEW p \in Proc, Answers(p), holders' = holders, users' = users,
             \/ task[p].pc \notin {"findRole", "assign"} /\ cut \subseteq cut'
             \/ cut' = cut \cup {task[p].user}
      PROVE  /\ \A q \in Proc : task'[q].pc = "assign" => task'[q].role = Seeded
             /\ \A u \in Accounts' \ cut' : Served(u)'
  <2>1. Accounts' = Accounts /\ task' = [task EXCEPT ![p] = NoTask]
    BY <1>6, AccountsStay DEF Answers
  <2>2. QED
    BY <1>1, <1>4, <1>5, <1>6, <2>1 DEF Served
<1>7. ASSUME NEW p \in Proc, NEW t, task' = [task EXCEPT ![p] = t], cut' = cut,
             holders' = holders, users' = users,
             task[p].pc \notin {"findRole", "assign"}, t.pc # "assign"
      PROVE  /\ \A q \in Proc : task'[q].pc = "assign" => task'[q].role = Seeded
             /\ \A u \in Accounts' \ cut' : Served(u)'
  BY <1>1, <1>4, <1>7, AccountsStay DEF Served
<1>8. ASSUME NEW p \in Proc, Handle(p)
      PROVE  /\ \A q \in Proc : task'[q].pc = "assign" => task'[q].role = Seeded
             /\ \A u \in Accounts' \ cut' : Served(u)'
  <2>1. ASSUME NEW e \in Email, Signup(p, e)
        PROVE  /\ \A q \in Proc : task'[q].pc = "assign" => task'[q].role = Seeded
               /\ \A u \in Accounts' \ cut' : Served(u)'
    BY <1>5, <1>6, <1>7, <2>1 DEF Signup, Goes, tables
  <2>2. ASSUME NEW v \in UserId, CreateUser(p, v)
        PROVE  /\ \A q \in Proc : task'[q].pc = "assign" => task'[q].role = Seeded
               /\ \A u \in Accounts' \ cut' : Served(u)'
    <3>1. CASE WithEmail(task[p].email) = {}
      <4>1. /\ users' = [users EXCEPT ![v] = [email |-> task[p].email, active |-> TRUE]]
            /\ task' = [task EXCEPT ![p] = [pc |-> "findRole", user |-> v]]
            /\ cut' = cut /\ holders' = holders /\ task[p].pc = "create"
        BY <2>2, <3>1 DEF CreateUser, Goes
      <4>2. \A u \in Accounts' : u = v \/ u \in Accounts
        BY <1>1, <4>1 DEF Accounts, TablesOK
      <4>3. Served(v)'
        BY <1>1, <4>1 DEF Served
      <4>4. QED
        BY <1>1, <1>4, <4>1, <4>2, <4>3 DEF Served
    <3>2. CASE WithEmail(task[p].email) # {}
      BY <1>6, <2>2, <3>2 DEF CreateUser
    <3>3. QED
      BY <3>1, <3>2
  <2>3. ASSUME FindRole(p)
        PROVE  /\ \A q \in Proc : task'[q].pc = "assign" => task'[q].role = Seeded
               /\ \A u \in Accounts' \ cut' : Served(u)'
    <3>1. /\ task' = [task EXCEPT ![p] = [pc |-> "assign", user |-> task[p].user, role |-> Seeded]]
          /\ cut' = cut /\ holders' = holders /\ users' = users
      BY <1>4, <2>3 DEF FindRole, Goes, tables
    <3>2. Accounts' = Accounts
      BY <3>1, AccountsStay
    <3>3. ASSUME NEW u \in Accounts, Served(u)
          PROVE  Served(u)'
      <4>1. CASE <<u, Seeded>> \in holders
        BY <3>1, <4>1 DEF Served
      <4>2. ASSUME NEW q \in Proc, task[q].pc \in {"findRole", "assign"}, task[q].user = u
            PROVE  Served(u)'
        <5>1. task'[q].pc \in {"findRole", "assign"} /\ task'[q].user = u
          BY <1>1, <3>1, <4>2
        <5>2. QED
          BY <5>1 DEF Served
      <4>3. QED
        BY <3>3, <4>1, <4>2 DEF Served
    <3>4. QED
      BY <1>1, <1>4, <3>1, <3>2, <3>3
  <2>4. ASSUME AssignDefault(p)
        PROVE  /\ \A q \in Proc : task'[q].pc = "assign" => task'[q].role = Seeded
               /\ \A u \in Accounts' \ cut' : Served(u)'
    <3>1. task[p].pc = "assign" /\ task[p].role = Seeded
      BY <1>4, <2>4 DEF AssignDefault
    <3>2. /\ holders' = holders \cup {<<task[p].user, Seeded>>}
          /\ task' = [task EXCEPT ![p] = NoTask]
          /\ cut' = cut /\ Accounts' = Accounts
      BY <1>4, <2>4, <3>1, AccountsStay DEF AssignDefault, StillThere, Answers
    <3>3. QED
      BY <1>1, <1>4, <1>5, <3>2 DEF Served
  <2>5. ASSUME NEW v \in UserId, UpdateReads(p, v)
        PROVE  /\ \A q \in Proc : task'[q].pc = "assign" => task'[q].role = Seeded
               /\ \A u \in Accounts' \ cut' : Served(u)'
    <3>1. [pc |-> "update", user |-> v, active |-> users[v].active].pc # "assign"
      OBVIOUS
    <3>2. /\ task' = [task EXCEPT ![p] = [pc |-> "update", user |-> v,
                                          active |-> users[v].active]]
          /\ cut' = cut /\ holders' = holders /\ users' = users
          /\ task[p].pc = "none"
      BY <1>5, <2>5 DEF UpdateReads, Goes, tables
    <3>3. QED
      BY <1>7, <3>1, <3>2
  <2>6. ASSUME UpdateWrites(p)
        PROVE  /\ \A q \in Proc : task'[q].pc = "assign" => task'[q].role = Seeded
               /\ \A u \in Accounts' \ cut' : Served(u)'
    <3>1. task' = [task EXCEPT ![p] = NoTask] /\ cut' = cut /\ holders' = holders
      BY <2>6 DEF UpdateWrites, Answers
    <3>2. \A q \in Proc, v \in UserId : ~CreateUser(q, v)
      <4>1. holders' = holders /\ task[p].pc = "update" /\ task'[p] = NoTask
        BY <1>1, <2>6, <3>1 DEF UpdateWrites
      <4>2. ASSUME NEW q \in Proc, NEW v \in UserId, CreateUser(q, v) PROVE FALSE
        <5>1. \A w \in Proc \ {q} : task'[w] = task[w]
          BY <1>1, <4>2 DEF CreateUser, Goes, Answers
        <5>2. task[q].pc = "create"
          BY <4>2 DEF CreateUser
        <5>3. QED
          BY <1>5, <4>1, <5>1, <5>2
      <4>3. QED
        BY <4>2
    <3>3. Accounts' = Accounts
      BY <1>1, <3>2, EmailsStand
    <3>4. QED
      BY <1>1, <1>4, <1>5, <2>6, <3>1, <3>3 DEF UpdateWrites, Served
  <2>7. ASSUME ChangesNothing(p)
        PROVE  /\ \A q \in Proc : task'[q].pc = "assign" => task'[q].role = Seeded
               /\ \A u \in Accounts' \ cut' : Served(u)'
    BY <1>5, <1>6, <2>7 DEF ChangesNothing, tables
  <2>8. ASSUME CutShort(p)
        PROVE  /\ \A q \in Proc : task'[q].pc = "assign" => task'[q].role = Seeded
               /\ \A u \in Accounts' \ cut' : Served(u)'
    BY <1>6, <2>8 DEF CutShort, tables
  <2>9. QED
    BY <1>8, <2>1, <2>2, <2>3, <2>4, <2>5, <2>6, <2>7, <2>8 DEF Handle
<1>9. ASSUME NEW v \in UserId, Deactivate(v)
      PROVE  /\ \A q \in Proc : task'[q].pc = "assign" => task'[q].role = Seeded
             /\ \A u \in Accounts' \ cut' : Served(u)'
  <2>1. /\ users' = [users EXCEPT ![v] = [users[v] EXCEPT !.active = FALSE]] /\ v \in Accounts
        /\ UNCHANGED <<task, cut, holders>>
    BY <1>9 DEF Deactivate
  <2>2. \A u \in Accounts' : u \in Accounts
    BY <1>1, <2>1 DEF Accounts, TablesOK
  <2>3. QED
    BY <1>4, <2>1, <2>2 DEF Served
<1>10. CASE UNCHANGED <<users, holders, task, cut>>
  BY <1>4, <1>10, AccountsStay DEF Served
<1>11. CASE DropDeveloper \/ \E r \in RoleId : NewDeveloper(r)
  BY <1>4, <1>11 DEF DropDeveloper, NewDeveloper
<1>12. QED
  BY <1>8, <1>9, <1>10, <1>11 DEF Next, tables, accountsVars

\* As long as the seeded role is there, an account without it is one whose Signup
\* is under way or was cut short (Service.Signup, whose INSERTs are not in one
\* transaction, and which drops the error of the second).
THEOREM MissingRoleIsExplained == Spec => []RolelessExplained
<1>1. Init => RoleInv
  BY InitTypeInv, AccountsAssumption
  DEF RoleInv, Init, SeededOnce, RolelessExplained, Accounts, NoTask
<1>2. RoleInv /\ [Next]_accountsVars => RoleInv'
  BY NextRole
<1>3. RoleInv => RolelessExplained
  BY DEF RoleInv
<1>4. QED
  BY <1>1, <1>2, <1>3, PTL DEF Spec
=============================================================================
