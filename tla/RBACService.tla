---------------------------- MODULE RBACService ----------------------------
(***************************************************************************)
(* internal/rbac/service.go over Postgres (internal/repository/postgres)   *)
(* and the Redis permission cache (internal/platform/cache).               *)
(*                                                                         *)
(* Each element of Proc is a goroutine serving one request at a time, in   *)
(* any replica of the server.  A call is cut where another request can get *)
(* between two of its effects: every Redis command and every SQL statement *)
(* outside a transaction is a step.  A transaction (RunInTx) is one step:  *)
(* it writes one row of a join table, so it takes effect at its commit, or *)
(* at its INSERT or DELETE if that finds nothing to do.  The outbox row    *)
(* that it also writes is the subject of module Outbox.                    *)
(*                                                                         *)
(* A call that fails before its first effect changes nothing and is left   *)
(* out.  The name a caller of Authorize asks for plays no part in the      *)
(* control: the reply holds the whole set of names the answer is drawn     *)
(* from, and "n is allowed" is membership of n in it.                      *)
(***************************************************************************)
EXTENDS RBACStore, Integers

CONSTANTS
  Proc,            \* goroutines serving requests
  InitRoles, InitPerms, InitUserRoles, InitRolePerms,   \* rows at the start
  InitJoining,     \* users whose Signup is under way at the start
  DefaultRole,     \* the name "developer", the role that Signup assigns
  MaxWrites,       \* bound: committed writes to the tables in a behaviour
  Faults,          \* TRUE: Redis calls may fail and requests be cut short
  Deletes          \* TRUE: roles and permissions may be created and deleted

ASSUME RBACAssumption ==
  /\ InitRoles \subseteq RoleId
  /\ InitPerms \subseteq PermId
  /\ InitUserRoles \subseteq User \X InitRoles
  /\ InitRolePerms \subseteq InitRoles \X InitPerms
  /\ InitJoining \subseteq User
  /\ RoleId \cap PermId = {}
  /\ MaxWrites \in Nat
  /\ Faults \in BOOLEAN /\ Deletes \in BOOLEAN

VARIABLES
  \* Postgres
  roles, perms,    \* ids of the live rows of roles and permissions
  issued,          \* ids that gen_random_uuid() has given out
  userRoles, rolePerms,
  joining,         \* users that Signup has inserted and given no role yet
  \* Redis
  cache,           \* cache[u]: the set at user:{u}:permissions, {} if no key
  emptyKeys,       \* users u for which user:{u}:permissions:empty exists
  \* the requests
  call,            \* call[p]: where the call that p is serving has got to
  writes,          \* number of committed writes (bound only)
  \* history, read by no action
  past,            \* past[u]: the permission sets u has had in Postgres
  missed,          \* users owed an invalidation that nobody will carry out
  raced            \* users whose entry was written from an outdated read

tables == <<roles, perms, issued, userRoles, rolePerms, joining, writes, past>>
redis  == <<cache, emptyKeys>>
vars   == <<tables, redis, call, missed, raced>>

PermissionsOf(u) == PermissionsIn(userRoles, rolePerms, u)
HoldersOf(r) == HoldersIn(userRoles, r)

-----------------------------------------------------------------------------
(* Types *)

Idle == [pc |-> "idle"]

Calls ==
  {Idle}
    \cup [pc : {"query"}, user : User]                \* missed in the cache
    \cup [pc : {"fill"}, user : User, perms : SUBSET Name]   \* read Postgres
    \cup [pc : {"reply"}, user : User, perms : SUBSET Name]  \* has its answer
    \cup [pc : {"fanout"}, role : RoleId]             \* permission attached
    \cup [pc : {"invalidate"}, todo : SUBSET User]    \* DELs still to issue

\* The types of the variables, with the foreign keys of the two join tables
\* (migrations/0001_init.up.sql): no row of user_roles or role_permissions
\* outlives the role or the permission it refers to.
TypeOK ==
  /\ roles \subseteq RoleId \cap issued
  /\ perms \subseteq PermId \cap issued
  /\ issued \subseteq RoleId \cup PermId
  /\ userRoles \subseteq User \X roles
  /\ rolePerms \subseteq roles \X perms
  /\ joining \subseteq User
  /\ cache \in [User -> SUBSET Name]
  /\ emptyKeys \subseteq User
  /\ call \in [Proc -> Calls]
  /\ writes \in 0..MaxWrites
  /\ past \in [User -> SUBSET SUBSET Name]
  /\ missed \subseteq User
  /\ raced \subseteq User

Init ==
  /\ roles = InitRoles /\ perms = InitPerms
  /\ issued = InitRoles \cup InitPerms
  /\ userRoles = InitUserRoles /\ rolePerms = InitRolePerms
  /\ joining = InitJoining
  /\ cache = [u \in User |-> {}]
  /\ emptyKeys = {}
  /\ call = [p \in Proc |-> Idle]
  /\ writes = 0
  /\ past = [u \in User |-> {PermissionsOf(u)}]
  /\ missed = {} /\ raced = {}

-----------------------------------------------------------------------------
(* Authorize: cache-aside in front of Postgres *)

\* cache.Get finds members: the answer comes straight from Redis.
AuthorizeHit(p, u) ==
  /\ call[p] = Idle
  /\ cache[u] # {}
  /\ call' = [call EXCEPT ![p] = [pc |-> "reply", user |-> u, perms |-> cache[u]]]
  /\ UNCHANGED <<tables, redis, missed, raced>>

\* cache.Get finds no key, or fails: the two look the same to the caller.
\* Only the main key is looked at, never the ":empty" one.
AuthorizeMiss(p, u) ==
  /\ call[p] = Idle
  /\ cache[u] = {} \/ Faults
  /\ call' = [call EXCEPT ![p] = [pc |-> "query", user |-> u]]
  /\ UNCHANGED <<tables, redis, missed, raced>>

\* users.GetPermissions: one SELECT, so one snapshot of the tables.
GetPermissions(p) ==
  /\ call[p].pc = "query"
  /\ LET u == call[p].user
     IN call' = [call EXCEPT ![p] =
                   [pc |-> "fill", user |-> u, perms |-> PermissionsOf(u)]]
  /\ UNCHANGED <<tables, redis, missed, raced>>

\* The pipeline of cache.Set on the key of a user: DEL, then SADD.
\* (Seeded fault: SADD alone.)
OnlyAdded(old, names) == old \cup names
Replaced(old, names) == names

\* cache.Set: DEL, SADD and EXPIRE in one MULTI/EXEC, or only the ":empty"
\* key, the main one being left as it is, when there are no names to store.
CacheSet(p) ==
  /\ call[p].pc = "fill"
  /\ LET u == call[p].user
         names == call[p].perms
     IN /\ call' = [call EXCEPT ![p] =
                      [pc |-> "reply", user |-> u, perms |-> names]]
        /\ \/ /\ names = {}
              /\ emptyKeys' = emptyKeys \cup {u}
              /\ UNCHANGED <<cache, missed, raced>>
           \/ /\ names # {}
              /\ cache' = [cache EXCEPT ![u] = Replaced(@, names)]
              /\ missed' = missed \ {u}
              /\ raced' = IF names = PermissionsOf(u)
                          THEN raced \ {u} ELSE raced \cup {u}
              /\ UNCHANGED emptyKeys
  /\ UNCHANGED tables

\* The caller takes the answer, and the goroutine is free again.
Respond(p) ==
  /\ call[p].pc = "reply"
  /\ call' = [call EXCEPT ![p] = Idle]
  /\ UNCHANGED <<tables, redis, missed, raced>>

-----------------------------------------------------------------------------
(* Assignments: a transaction, then the invalidations it owes *)

\* What every commit does to the bound and to the history.
Commits ==
  /\ writes < MaxWrites
  /\ writes' = writes + 1
  /\ past' = [u \in User |-> past[u] \cup
                {PermissionsIn(userRoles', rolePerms', u)}]

\* INSERT ... ON CONFLICT DO NOTHING; the foreign key wants a live role.
AssignRoleToUser(p, u, r) ==
  /\ call[p] = Idle
  /\ r \in roles
  /\ userRoles' = WithRow(userRoles, u, r)
  /\ call' = [call EXCEPT ![p] = [pc |-> "invalidate", todo |-> {u}]]
  /\ UNCHANGED <<roles, perms, issued, rolePerms, joining, redis, missed, raced>>
  /\ Commits

\* DELETE of the pair, which may not be there; nor need there be such a role.
RemoveRoleFromUser(p, u, r) ==
  /\ call[p] = Idle
  /\ userRoles' = WithoutRow(userRoles, u, r)
  /\ call' = [call EXCEPT ![p] = [pc |-> "invalidate", todo |-> {u}]]
  /\ UNCHANGED <<roles, perms, issued, rolePerms, joining, redis, missed, raced>>
  /\ Commits

AttachPermissionToRole(p, r, q) ==
  /\ call[p] = Idle
  /\ r \in roles /\ q \in perms
  /\ rolePerms' = WithRow(rolePerms, r, q)
  /\ call' = [call EXCEPT ![p] = [pc |-> "fanout", role |-> r]]
  /\ UNCHANGED <<roles, perms, issued, userRoles, joining, redis, missed, raced>>
  /\ Commits

\* auth.Service.Signup gives its new user u the default role: an INSERT outside
\* any transaction, without an event, and without an invalidation, though
\* another role of u may have put an entry for u into the cache by now.
SignupAssigns(u, r) ==
  /\ u \in joining
  /\ r \in roles /\ NameOf[r] = DefaultRole
  /\ userRoles' = WithRow(userRoles, u, r)
  /\ joining' = joining \ {u}
  /\ missed' = missed \cup {u}
  /\ UNCHANGED <<roles, perms, issued, rolePerms, redis, call, raced>>
  /\ Commits

\* After the commit, and in a query of its own, who holds the role now?
GetUserIDsForRole(p) ==
  /\ call[p].pc = "fanout"
  /\ LET holders == HoldersOf(call[p].role)
     IN call' = [call EXCEPT ![p] =
                   IF holders = {} THEN Idle
                   ELSE [pc |-> "invalidate", todo |-> holders]]
  /\ UNCHANGED <<tables, redis, missed, raced>>

\* The call state after the DEL for u: the loop goes on or the call returns.
\* (Seeded fault: the loop returns after its first DEL.)
AfterFirstDel(p, u) == Idle
AfterInvalidating(p, u) ==
  IF call[p].todo = {u} THEN Idle
  ELSE [pc |-> "invalidate", todo |-> call[p].todo \ {u}]

\* cache.Invalidate: one DEL of the user's two keys.
Invalidate(p, u) ==
  /\ call[p].pc = "invalidate"
  /\ u \in call[p].todo
  /\ cache' = [cache EXCEPT ![u] = {}]
  /\ emptyKeys' = emptyKeys \ {u}
  /\ missed' = missed \ {u} /\ raced' = raced \ {u}
  /\ call' = [call EXCEPT ![p] = AfterInvalidating(p, u)]
  /\ UNCHANGED tables

-----------------------------------------------------------------------------
(* Roles and permissions: one statement each, and no invalidation *)

NameTaken(i, live) == \E j \in live : NameOf[j] = NameOf[i]

CreateRole(p, r) ==
  /\ Deletes /\ call[p] = Idle
  /\ r \notin issued /\ ~NameTaken(r, roles)
  /\ roles' = roles \cup {r} /\ issued' = issued \cup {r}
  /\ UNCHANGED <<perms, userRoles, rolePerms, joining, redis, call, missed, raced>>
  /\ Commits

CreatePermission(p, q) ==
  /\ Deletes /\ call[p] = Idle
  /\ q \notin issued /\ ~NameTaken(q, perms)
  /\ perms' = perms \cup {q} /\ issued' = issued \cup {q}
  /\ UNCHANGED <<roles, userRoles, rolePerms, joining, redis, call, missed, raced>>
  /\ Commits

\* DELETE FROM roles, which cascades to both join tables.  The holders of
\* the role are owed an invalidation that DeleteRole does not issue.
DeleteRole(p, r) ==
  /\ Deletes /\ call[p] = Idle
  /\ r \in roles
  /\ roles' = roles \ {r}
  /\ userRoles' = WithoutRoleUR(userRoles, r)
  /\ rolePerms' = WithoutRoleRP(rolePerms, r)
  /\ missed' = missed \cup HoldersOf(r)
  /\ UNCHANGED <<perms, issued, joining, redis, call, raced>>
  /\ Commits

\* DELETE FROM permissions, likewise.
DeletePermission(p, q) ==
  /\ Deletes /\ call[p] = Idle
  /\ q \in perms
  /\ perms' = perms \ {q}
  /\ rolePerms' = WithoutPermRP(rolePerms, q)
  /\ missed' = missed \cup ReachersIn(userRoles, rolePerms, q)
  /\ UNCHANGED <<roles, issued, userRoles, joining, redis, call, raced>>
  /\ Commits

-----------------------------------------------------------------------------
(* The environment *)

\* EXPIRE runs out (10 minutes), or Redis evicts the key.
\* (Seeded fault: the key is written without an expiry.)
NeverExpires(u) == FALSE /\ UNCHANGED vars
ExpirePermissions(u) ==
  /\ cache[u] # {}
  /\ cache' = [cache EXCEPT ![u] = {}]
  /\ missed' = missed \ {u} /\ raced' = raced \ {u}
  /\ UNCHANGED <<tables, emptyKeys, call>>

\* The ":empty" key runs out (1 minute).
ExpireEmpty(u) ==
  /\ u \in emptyKeys
  /\ emptyKeys' = emptyKeys \ {u}
  /\ UNCHANGED <<tables, cache, call, missed, raced>>

\* The DEL for u fails, and its error is dropped.
InvalidateFails(p, u) ==
  /\ Faults
  /\ call[p].pc = "invalidate"
  /\ u \in call[p].todo
  /\ missed' = missed \cup {u}
  /\ call' = [call EXCEPT ![p] = AfterInvalidating(p, u)]
  /\ UNCHANGED <<tables, redis, raced>>

\* cache.Set fails, and its error is dropped: the answer is returned anyway.
CacheSetFails(p) ==
  /\ Faults
  /\ call[p].pc = "fill"
  /\ call' = [call EXCEPT ![p] =
                [pc |-> "reply", user |-> call[p].user, perms |-> call[p].perms]]
  /\ UNCHANGED <<tables, redis, missed, raced>>

\* The users whose invalidation p has still to carry out.
OwedBy(p) ==
  IF call[p].pc = "invalidate" THEN call[p].todo
  ELSE IF call[p].pc = "fanout" THEN HoldersOf(call[p].role) ELSE {}

\* The request is cut short after its first effect: the server dies, the
\* client goes away (the request context is cancelled and every later call
\* fails), or a query returns an error.
Abandon(p) ==
  /\ Faults
  /\ call[p].pc \in {"query", "fill", "fanout", "invalidate"}
  /\ missed' = missed \cup OwedBy(p)
  /\ call' = [call EXCEPT ![p] = Idle]
  /\ UNCHANGED <<tables, redis, raced>>

-----------------------------------------------------------------------------

\* The steps by which the call that p is serving goes on.
Continue(p) ==
  \/ GetPermissions(p) \/ CacheSet(p) \/ Respond(p)
  \/ GetUserIDsForRole(p)
  \/ \E u \in User : Invalidate(p, u)

Serve(p) ==
  \/ Continue(p)
  \/ \E u \in User : AuthorizeHit(p, u) \/ AuthorizeMiss(p, u)
  \/ \E u \in User, r \in RoleId :
       AssignRoleToUser(p, u, r) \/ RemoveRoleFromUser(p, u, r)
  \/ \E r \in RoleId, q \in PermId : AttachPermissionToRole(p, r, q)
  \/ \E r \in RoleId : CreateRole(p, r) \/ DeleteRole(p, r)
  \/ \E q \in PermId : CreatePermission(p, q) \/ DeletePermission(p, q)

Environment ==
  \/ \E u \in User : ExpirePermissions(u) \/ ExpireEmpty(u)
  \/ \E p \in Proc, u \in User : InvalidateFails(p, u)
  \/ \E p \in Proc : CacheSetFails(p) \/ Abandon(p)

Next ==
  \/ \E p \in Proc : Serve(p)
  \/ \E u \in User, r \in RoleId : SignupAssigns(u, r)
  \/ Environment

Spec == Init /\ [][Next]_vars

\* A goroutine that has begun a call is scheduled until it returns, and a key
\* with an expiry does expire.  Nobody is obliged to issue a request.
Fairness ==
  /\ \A p \in Proc : WF_vars(Continue(p))
  /\ \A u \in User : WF_vars(ExpirePermissions(u))

FairSpec == Spec /\ Fairness
-----------------------------------------------------------------------------
(* What the permission cache may hold *)

\* The entry of u would give an answer that Postgres would not.
Stale(u) == cache[u] # {} /\ cache[u] # PermissionsOf(u)

\* The ways in which the entry of u can have come to be stale.
Explained(u) ==
  \/ u \in missed
  \/ u \in raced
  \/ \E p \in Proc : u \in OwedBy(p)

\* Synchronous invalidation accounts for every stale entry.  An entry differs
\* from Postgres only while the request that committed the change still owes
\* the DEL, or because that DEL was skipped (it failed, its request was cut
\* short, or the change was a DeleteRole, a DeletePermission or the default
\* role of a Signup, which issue none), or because the entry was written by an Authorize that had read
\* Postgres before the change.  There is no further way.
\* (Service.AssignRoleToUser, RemoveRoleFromUser, AttachPermissionToRole and
\* its fan-out, PermissionCache.Set and Invalidate.)
StalenessExplained == \A u \in User : Stale(u) => Explained(u)

\* Whatever fails and however calls interleave, the permissions by which
\* Authorize answers are a set that the user had in Postgres at some moment:
\* never a mixture of two sets, nor another user's.
\* (PermissionCache.Set replaces the key in one MULTI/EXEC; Service.Authorize.)
AnswersOnceTrue ==
  /\ \A u \in User : cache[u] # {} => cache[u] \in past[u]
  /\ \A p \in Proc : call[p].pc \in {"fill", "reply"} =>
       call[p].perms \in past[call[p].user]

\* What Authorize answers from, and with: the entry in the cache, or else the
\* tables; and the names that a call has in hand.
Shown(u) == IF cache[u] = {} THEN PermissionsOf(u) ELSE cache[u]
AnswerOf(p) ==
  IF call[p].pc \in {"fill", "reply"} THEN <<call[p].user, call[p].perms>> ELSE << >>

Contract == INSTANCE Authorization WITH
              Caller  <- Proc,
              granted <- [u \in User |-> PermissionsOf(u)],
              shown   <- [u \in User |-> Shown(u)],
              answer  <- [p \in Proc |-> AnswerOf(p)]

\* The cache, its expiries, lost DELs and late fills come to no more than this:
\* each answer is drawn at one moment from the tables or from what was drawn
\* from them for the same user before.
\* (Service.Authorize in front of PermissionCache and GetPermissions.)
ImplementsAuthorization == Contract!Spec

\* The expiry is a backstop for every race, lost DEL and missing DEL: once no
\* more writes are committed, the cache comes to agree with Postgres and stays
\* so.  (permissionTTL; "the 10-minute cache TTL is the backstop if a DEL is
\* ever missed", Service.AttachPermissionToRole.)
EventuallyFresh == <>[](\A u \in User : ~Stale(u))

\* No request is between its commit and the end of its invalidations.
Settled == \A p \in Proc : OwedBy(p) = {}

\* "... the synchronous invalidation ... that keeps the cache from ever
\* serving a stale allow" (PermissionCache.Invalidate): when every committed
\* write has finished invalidating, no entry allows what Postgres does not.
NoStaleAllow ==
  Settled => \A u \in User : cache[u] \subseteq PermissionsOf(u)
=============================================================================
