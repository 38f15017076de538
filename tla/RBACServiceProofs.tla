------------------------- MODULE RBACServiceProofs -------------------------
(***************************************************************************)
(* Theorems about RBACService, for every set of users, roles, permissions  *)
(* and goroutines, with and without failures, and for any number of        *)
(* committed writes.                                                       *)
(***************************************************************************)
EXTENDS RBACService, TLAPS

-----------------------------------------------------------------------------
(* The queries of RBACStore under the writes that RBACService makes *)

\* A row of user_roles matters to the permissions of its own user only
\* (UserRepository.AssignRole, RemoveRole against GetPermissions).
LEMMA OtherUsersKeep ==
  ASSUME NEW ur, NEW ur2, NEW rp, NEW v,
         \A r \in RoleId : <<v, r>> \in ur2 <=> <<v, r>> \in ur
  PROVE  PermissionsIn(ur2, rp, v) = PermissionsIn(ur, rp, v)
BY DEF PermissionsIn

\* Changing the permissions of role r leaves alone whoever does not hold r
\* (RoleRepository.AttachPermission against GetPermissions).
LEMMA NonHoldersKeep ==
  ASSUME NEW ur, NEW rp, NEW rp2, NEW v, NEW r,
         <<v, r>> \notin ur,
         \A s \in RoleId \ {r}, q \in PermId : <<s, q>> \in rp2 <=> <<s, q>> \in rp
  PROVE  PermissionsIn(ur, rp2, v) = PermissionsIn(ur, rp, v)
BY DEF PermissionsIn

\* The cascade of DELETE FROM roles changes nothing for a user who did not
\* hold the role (RoleRepository.Delete against GetPermissions).
LEMMA DeleteRoleKeeps ==
  ASSUME NEW ur, NEW rp, NEW r, NEW v, <<v, r>> \notin ur
  PROVE  PermissionsIn(WithoutRoleUR(ur, r), WithoutRoleRP(rp, r), v)
           = PermissionsIn(ur, rp, v)
BY DEF PermissionsIn, WithoutRoleUR, WithoutRoleRP

\* The cascade of DELETE FROM permissions changes nothing for a user who did
\* not reach the permission (PermissionRepository.Delete against
\* GetPermissions).
LEMMA DeletePermissionKeeps ==
  ASSUME NEW ur, NEW rp, NEW q, NEW v \in User, v \notin ReachersIn(ur, rp, q)
  PROVE  PermissionsIn(ur, WithoutPermRP(rp, q), v) = PermissionsIn(ur, rp, v)
BY DEF PermissionsIn, WithoutPermRP, ReachersIn

\* Whatever the tables hold, a user's permissions are a set of names
\* (UserRepository.GetPermissions).
LEMMA PermissionsAreNames ==
  ASSUME NEW ur, NEW rp, NEW u
  PROVE  PermissionsIn(ur, rp, u) \in SUBSET Name
BY DEF PermissionsIn

-----------------------------------------------------------------------------
(* Types and foreign keys *)

\* The seed rows are well typed (migrations/0001_init.up.sql).
LEMMA InitTypeOK == Init => TypeOK
BY RBACAssumption, PermissionsAreNames
DEF Init, TypeOK, Calls, PermissionsOf

\* Replacing the call of one goroutine by a call keeps the calls well typed.
LEMMA CallType ==
  ASSUME call \in [Proc -> Calls], NEW p \in Proc, NEW c \in Calls,
         call' = [call EXCEPT ![p] = c]
  PROVE  call' \in [Proc -> Calls]
OBVIOUS

\* A commit keeps the bound and records sets of names only.
LEMMA CommitsType ==
  ASSUME TypeOK, Commits
  PROVE  /\ writes' \in 0..MaxWrites
         /\ past' \in [User -> SUBSET SUBSET Name]
<1>1. writes' \in 0..MaxWrites
  BY RBACAssumption DEF TypeOK, Commits
<1>2. \A u \in User : PermissionsIn(userRoles', rolePerms', u) \in SUBSET Name
  BY PermissionsAreNames
<1>3. past' \in [User -> SUBSET SUBSET Name]
  BY <1>2 DEF TypeOK, Commits
<1>4. QED
  BY <1>1, <1>3

\* What is left to do after one DEL of a loop is a call.
LEMMA AfterInvalidatingType ==
  ASSUME TypeOK, NEW p \in Proc, NEW u \in User, call[p].pc = "invalidate"
  PROVE  /\ call[p].todo \in SUBSET User
         /\ AfterInvalidating(p, u) \in Calls
BY DEF TypeOK, Calls, AfterInvalidating, Idle

\* Every step keeps the types and the foreign keys of the join tables.
LEMMA NextTypeOK == TypeOK /\ [Next]_vars => TypeOK'
<1> SUFFICES ASSUME TypeOK, [Next]_vars PROVE TypeOK'
  OBVIOUS
<1> USE DEF tables, redis, WithRow, WithoutRow, Replaced
<1>1. ASSUME NEW p \in Proc, NEW u \in User, AuthorizeHit(p, u) PROVE TypeOK'
  <2>1. [pc |-> "reply", user |-> u, perms |-> cache[u]] \in Calls
    BY DEF TypeOK, Calls
  <2>2. QED
    BY <1>1, <2>1, CallType DEF AuthorizeHit, TypeOK
<1>2. ASSUME NEW p \in Proc, NEW u \in User, AuthorizeMiss(p, u) PROVE TypeOK'
  <2>1. [pc |-> "query", user |-> u] \in Calls
    BY DEF Calls
  <2>2. QED
    BY <1>2, <2>1, CallType DEF AuthorizeMiss, TypeOK
<1>3. ASSUME NEW p \in Proc, GetPermissions(p) PROVE TypeOK'
  <2>1. call[p].user \in User
    BY <1>3 DEF TypeOK, Calls, Idle, GetPermissions
  <2>2. [pc |-> "fill", user |-> call[p].user, perms |-> PermissionsOf(call[p].user)]
          \in Calls
    BY <2>1, PermissionsAreNames DEF Calls, PermissionsOf
  <2>3. QED
    BY <1>3, <2>2, CallType DEF GetPermissions, TypeOK
<1>4. ASSUME NEW p \in Proc, CacheSet(p) PROVE TypeOK'
  <2>1. call[p].user \in User /\ call[p].perms \in SUBSET Name
    BY <1>4 DEF TypeOK, Calls, Idle, CacheSet
  <2>2. [pc |-> "reply", user |-> call[p].user, perms |-> call[p].perms] \in Calls
    BY <2>1 DEF Calls
  <2>3. call' \in [Proc -> Calls]
    BY <1>4, <2>2, CallType DEF CacheSet, TypeOK
  <2>4. /\ cache' \in [User -> SUBSET Name] /\ emptyKeys' \subseteq User
        /\ missed' \subseteq User /\ raced' \subseteq User
    BY <1>4, <2>1 DEF CacheSet, TypeOK
  <2>5. QED
    BY <1>4, <2>3, <2>4 DEF CacheSet, TypeOK
<1>5. ASSUME NEW p \in Proc, Respond(p) PROVE TypeOK'
  BY <1>5, CallType DEF Respond, TypeOK, Calls
<1>6. ASSUME NEW p \in Proc, GetUserIDsForRole(p) PROVE TypeOK'
  <2>1. [pc |-> "invalidate", todo |-> HoldersOf(call[p].role)] \in Calls
    BY DEF Calls, HoldersOf, HoldersIn
  <2>2. QED
    BY <1>6, <2>1, CallType DEF GetUserIDsForRole, TypeOK, Calls
<1>7. ASSUME NEW p \in Proc, NEW u \in User, Invalidate(p, u) PROVE TypeOK'
  <2>1. AfterInvalidating(p, u) \in Calls
    BY <1>7, AfterInvalidatingType DEF Invalidate
  <2>2. call' \in [Proc -> Calls]
    BY <1>7, <2>1, CallType DEF Invalidate, TypeOK
  <2>3. QED
    BY <1>7, <2>2 DEF Invalidate, TypeOK
<1>8. ASSUME NEW p \in Proc, NEW u \in User, NEW r \in RoleId, AssignRoleToUser(p, u, r)
      PROVE  TypeOK'
  <2>1. call' \in [Proc -> Calls]
    <3>1. [pc |-> "invalidate", todo |-> {u}] \in Calls
      BY DEF Calls
    <3>2. QED
      BY <1>8, <3>1, CallType DEF AssignRoleToUser, TypeOK
  <2>2. userRoles' \subseteq User \X roles'
    BY <1>8 DEF AssignRoleToUser, TypeOK
  <2>3. QED
    BY <1>8, <2>1, <2>2, CommitsType DEF AssignRoleToUser, TypeOK
<1>9. ASSUME NEW p \in Proc, NEW u \in User, NEW r \in RoleId, RemoveRoleFromUser(p, u, r)
      PROVE  TypeOK'
  <2>1. call' \in [Proc -> Calls]
    <3>1. [pc |-> "invalidate", todo |-> {u}] \in Calls
      BY DEF Calls
    <3>2. QED
      BY <1>9, <3>1, CallType DEF RemoveRoleFromUser, TypeOK
  <2>2. userRoles' \subseteq User \X roles'
    BY <1>9 DEF RemoveRoleFromUser, TypeOK
  <2>3. QED
    BY <1>9, <2>1, <2>2, CommitsType DEF RemoveRoleFromUser, TypeOK
<1>10. ASSUME NEW p \in Proc, NEW r \in RoleId, NEW q \in PermId,
              AttachPermissionToRole(p, r, q)
       PROVE  TypeOK'
  <2>1. call' \in [Proc -> Calls]
    <3>1. [pc |-> "fanout", role |-> r] \in Calls
      BY DEF Calls
    <3>2. QED
      BY <1>10, <3>1, CallType DEF AttachPermissionToRole, TypeOK
  <2>2. rolePerms' \subseteq roles' \X perms'
    BY <1>10 DEF AttachPermissionToRole, TypeOK
  <2>3. QED
    BY <1>10, <2>1, <2>2, CommitsType DEF AttachPermissionToRole, TypeOK
<1>11. ASSUME NEW p \in Proc, NEW r \in RoleId, CreateRole(p, r) PROVE TypeOK'
  BY <1>11, CommitsType DEF CreateRole, TypeOK
<1>12. ASSUME NEW p \in Proc, NEW r \in RoleId, DeleteRole(p, r) PROVE TypeOK'
  <2>1. /\ userRoles' \subseteq User \X roles'
        /\ rolePerms' \subseteq roles' \X perms'
    BY <1>12 DEF DeleteRole, TypeOK, WithoutRoleUR, WithoutRoleRP
  <2>2. missed' \subseteq User
    BY <1>12 DEF DeleteRole, TypeOK, HoldersOf, HoldersIn
  <2>3. QED
    BY <1>12, <2>1, <2>2, CommitsType DEF DeleteRole, TypeOK
<1>13. ASSUME NEW p \in Proc, NEW q \in PermId, CreatePermission(p, q) PROVE TypeOK'
  BY <1>13, CommitsType DEF CreatePermission, TypeOK
<1>14. ASSUME NEW p \in Proc, NEW q \in PermId, DeletePermission(p, q) PROVE TypeOK'
  <2>1. rolePerms' \subseteq roles' \X perms'
    BY <1>14 DEF DeletePermission, TypeOK, WithoutPermRP
  <2>2. missed' \subseteq User
    BY <1>14 DEF DeletePermission, TypeOK, ReachersIn
  <2>3. QED
    BY <1>14, <2>1, <2>2, CommitsType DEF DeletePermission, TypeOK
<1>15. ASSUME NEW u \in User, ExpirePermissions(u) \/ ExpireEmpty(u) PROVE TypeOK'
  BY <1>15 DEF ExpirePermissions, ExpireEmpty, TypeOK
<1>16. ASSUME NEW p \in Proc, NEW u \in User, InvalidateFails(p, u) PROVE TypeOK'
  <2>1. AfterInvalidating(p, u) \in Calls
    BY <1>16, AfterInvalidatingType DEF InvalidateFails
  <2>2. call' \in [Proc -> Calls]
    BY <1>16, <2>1, CallType DEF InvalidateFails, TypeOK
  <2>3. QED
    BY <1>16, <2>2 DEF InvalidateFails, TypeOK
<1>17. ASSUME NEW p \in Proc, CacheSetFails(p) PROVE TypeOK'
  <2>1. [pc |-> "reply", user |-> call[p].user, perms |-> call[p].perms] \in Calls
    BY <1>17 DEF TypeOK, Calls, Idle, CacheSetFails
  <2>2. QED
    BY <1>17, <2>1, CallType DEF CacheSetFails, TypeOK
<1>18. ASSUME NEW p \in Proc, Abandon(p) PROVE TypeOK'
  <2>1. OwedBy(p) \subseteq User
    BY DEF OwedBy, HoldersOf, HoldersIn, TypeOK, Calls, Idle
  <2>2. QED
    BY <1>18, <2>1, CallType DEF Abandon, TypeOK, Calls
<1>19. CASE UNCHANGED vars
  BY <1>19 DEF vars, TypeOK
<1>20. ASSUME NEW u \in User, NEW r \in RoleId, SignupAssigns(u, r) PROVE TypeOK'
  <2>1. userRoles' \subseteq User \X roles'
    BY <1>20 DEF SignupAssigns, TypeOK
  <2>2. QED
    BY <1>20, <2>1, CommitsType DEF SignupAssigns, TypeOK
<1>21. QED
  BY <1>1, <1>2, <1>3, <1>4, <1>5, <1>6, <1>7, <1>8, <1>9, <1>10, <1>11, <1>12,
     <1>13, <1>14, <1>15, <1>16, <1>17, <1>18, <1>19, <1>20
  DEF Next, Serve, Continue, Environment

\* Type correctness, and with it referential integrity: no reachable state
\* has a user holding a role that was deleted, or a role granting a
\* permission that was (ON DELETE CASCADE in migrations/0001_init.up.sql).
THEOREM TypeCorrect == Spec => []TypeOK
BY InitTypeOK, NextTypeOK, PTL DEF Spec

-----------------------------------------------------------------------------
(* Every stale entry is explained *)

\* A step that leaves alone the entry of v, its permissions in Postgres and
\* the reasons for it to be stale keeps the entry explained.
LEMMA StillExplained ==
  ASSUME NEW v \in User, Stale(v) => Explained(v),
         cache'[v] = cache[v], PermissionsOf(v)' = PermissionsOf(v),
         Explained(v) => Explained(v)'
  PROVE  Stale(v)' => Explained(v)'
BY DEF Stale

\* What p owes does not change with the calls of others.
LEMMA OthersOwe ==
  ASSUME TypeOK, NEW p \in Proc, NEW c, call' = [call EXCEPT ![p] = c],
         UNCHANGED userRoles
  PROVE  \A o \in Proc \ {p} : OwedBy(o)' = OwedBy(o)
BY DEF TypeOK, OwedBy, HoldersOf

\* A step of the call of p that touches only the call, and after which p owes
\* all it did or the rest is recorded as missed, keeps entries explained.
LEMMA CallStepExplained ==
  ASSUME TypeOK, StalenessExplained, NEW p \in Proc, NEW c,
         call' = [call EXCEPT ![p] = c],
         UNCHANGED <<userRoles, rolePerms, cache, raced>>,
         missed \subseteq missed',
         OwedBy(p) \subseteq OwedBy(p)' \cup missed'
  PROVE  StalenessExplained'
<1> SUFFICES ASSUME NEW v \in User PROVE (Stale(v) => Explained(v))'
  BY DEF StalenessExplained
<1>1. Explained(v) => Explained(v)'
  BY OthersOwe DEF Explained
<1>2. PermissionsOf(v)' = PermissionsOf(v)
  BY DEF PermissionsOf
<1>3. QED
  BY <1>1, <1>2, StillExplained DEF StalenessExplained

\* Every step keeps every stale entry explained.
LEMMA NextStalenessExplained ==
  TypeOK /\ StalenessExplained /\ [Next]_vars => StalenessExplained'
<1> SUFFICES ASSUME TypeOK, StalenessExplained, [Next]_vars
             PROVE  StalenessExplained'
  OBVIOUS
<1> USE DEF tables, redis, WithRow, WithoutRow, Replaced
<1>1. ASSUME NEW p \in Proc, NEW u \in User, AuthorizeHit(p, u) \/ AuthorizeMiss(p, u)
      PROVE  StalenessExplained'
  <2>1. OwedBy(p) = {}
    BY <1>1 DEF AuthorizeHit, AuthorizeMiss, OwedBy, Idle
  <2>2. QED
    BY <1>1, <2>1, CallStepExplained DEF AuthorizeHit, AuthorizeMiss
<1>2. ASSUME NEW p \in Proc, GetPermissions(p) \/ Respond(p) \/ CacheSetFails(p)
      PROVE  StalenessExplained'
  <2>1. OwedBy(p) = {}
    BY <1>2 DEF GetPermissions, Respond, CacheSetFails, OwedBy
  <2>2. QED
    BY <1>2, <2>1, CallStepExplained DEF GetPermissions, Respond, CacheSetFails
<1>3. ASSUME NEW p \in Proc, CacheSet(p) PROVE StalenessExplained'
  <2> DEFINE u == call[p].user
             names == call[p].perms
  <2>1. OwedBy(p) = {}
    BY <1>3 DEF CacheSet, OwedBy
  <2>2. CASE names = {}
    BY <1>3, <2>1, <2>2, CallStepExplained DEF CacheSet
  <2>3. CASE names # {}
    <3> SUFFICES ASSUME NEW v \in User PROVE (Stale(v) => Explained(v))'
      BY DEF StalenessExplained
    <3>1. \A w \in User : PermissionsOf(w)' = PermissionsOf(w)
      BY <1>3 DEF CacheSet, PermissionsOf
    <3>2. CASE v = u
      <4>1. cache'[v] = names
        BY <1>3, <2>3, <3>2 DEF CacheSet, TypeOK
      <4>2. names # PermissionsOf(v) => v \in raced'
        BY <1>3, <2>3, <3>2 DEF CacheSet
      <4>3. QED
        BY <3>1, <4>1, <4>2 DEF Stale, Explained
    <3>3. CASE v # u
      <4>1. cache'[v] = cache[v]
        BY <1>3, <2>3, <3>3 DEF CacheSet, TypeOK
      <4>2. (v \in missed => v \in missed') /\ (v \in raced => v \in raced')
        BY <1>3, <2>3, <3>3 DEF CacheSet
      <4>3. \A o \in Proc \ {p} : OwedBy(o)' = OwedBy(o)
        BY <1>3, OthersOwe DEF CacheSet
      <4>4. Explained(v) => Explained(v)'
        BY <2>1, <4>2, <4>3 DEF Explained
      <4>5. QED
        BY <3>1, <4>1, <4>4, StillExplained DEF StalenessExplained
    <3>4. QED
      BY <3>2, <3>3
  <2>4. QED
    BY <2>2, <2>3
<1>4. ASSUME NEW p \in Proc, GetUserIDsForRole(p) PROVE StalenessExplained'
  <2>1. OwedBy(p) = HoldersOf(call[p].role)
    BY <1>4 DEF GetUserIDsForRole, OwedBy
  <2>2. OwedBy(p)' = HoldersOf(call[p].role)
    BY <1>4 DEF GetUserIDsForRole, OwedBy, TypeOK, Idle
  <2>3. QED
    BY <1>4, <2>1, <2>2, CallStepExplained DEF GetUserIDsForRole
<1>5. ASSUME NEW p \in Proc, NEW u \in User, Invalidate(p, u)
      PROVE  StalenessExplained'
  <2> SUFFICES ASSUME NEW v \in User PROVE (Stale(v) => Explained(v))'
    BY DEF StalenessExplained
  <2>1. CASE v = u
    BY <1>5, <2>1 DEF Invalidate, Stale, TypeOK
  <2>2. CASE v # u
    <3>1. OwedBy(p)' = OwedBy(p) \ {u}
      BY <1>5 DEF Invalidate, AfterInvalidating, OwedBy, TypeOK, Idle
    <3>2. \A o \in Proc \ {p} : OwedBy(o)' = OwedBy(o)
      BY <1>5, OthersOwe DEF Invalidate
    <3>3. Explained(v) => Explained(v)'
      BY <1>5, <2>2, <3>1, <3>2 DEF Invalidate, Explained
    <3>4. cache'[v] = cache[v] /\ PermissionsOf(v)' = PermissionsOf(v)
      BY <1>5, <2>2 DEF Invalidate, PermissionsOf, TypeOK
    <3>5. QED
      BY <3>3, <3>4, StillExplained DEF StalenessExplained
  <2>3. QED
    BY <2>1, <2>2
<1>6. ASSUME NEW p \in Proc, NEW u \in User, InvalidateFails(p, u)
      PROVE  StalenessExplained'
  <2>1. OwedBy(p)' = OwedBy(p) \ {u}
    BY <1>6 DEF InvalidateFails, AfterInvalidating, OwedBy, TypeOK, Idle
  <2>2. QED
    BY <1>6, <2>1, CallStepExplained DEF InvalidateFails
<1>7. ASSUME NEW p \in Proc, Abandon(p) PROVE StalenessExplained'
  BY <1>7, CallStepExplained DEF Abandon
<1>8. ASSUME NEW p \in Proc, NEW u \in User, NEW r \in RoleId,
             AssignRoleToUser(p, u, r) \/ RemoveRoleFromUser(p, u, r)
      PROVE  StalenessExplained'
  <2> SUFFICES ASSUME NEW v \in User PROVE (Stale(v) => Explained(v))'
    BY DEF StalenessExplained
  <2>1. CASE v = u
    <3>1. OwedBy(p)' = {u}
      BY <1>8 DEF AssignRoleToUser, RemoveRoleFromUser, OwedBy, TypeOK
    <3>2. QED
      BY <2>1, <3>1 DEF Explained
  <2>2. CASE v # u
    <3>1. \A s \in RoleId : <<v, s>> \in userRoles' <=> <<v, s>> \in userRoles
      BY <1>8, <2>2 DEF AssignRoleToUser, RemoveRoleFromUser
    <3>2. PermissionsOf(v)' = PermissionsOf(v)
      <4>1. rolePerms' = rolePerms
        BY <1>8 DEF AssignRoleToUser, RemoveRoleFromUser
      <4>2. QED
        BY <3>1, <4>1, OtherUsersKeep DEF PermissionsOf
    <3>3. OwedBy(p) = {}
      BY <1>8 DEF AssignRoleToUser, RemoveRoleFromUser, OwedBy, Idle
    <3>4. \A o \in Proc \ {p} : v \in OwedBy(o) => v \in OwedBy(o)'
      <4> TAKE o \in Proc \ {p}
      <4>1. call'[o] = call[o]
        BY <1>8 DEF AssignRoleToUser, RemoveRoleFromUser, TypeOK
      <4>2. call[o].pc = "fanout" => call[o].role \in RoleId
        BY DEF TypeOK, Calls, Idle
      <4>3. QED
        BY <3>1, <4>1, <4>2 DEF OwedBy, HoldersOf, HoldersIn
    <3>5. Explained(v) => Explained(v)'
      BY <1>8, <3>3, <3>4 DEF Explained, AssignRoleToUser, RemoveRoleFromUser
    <3>6. cache'[v] = cache[v]
      BY <1>8 DEF AssignRoleToUser, RemoveRoleFromUser
    <3>7. QED
      BY <3>2, <3>5, <3>6, StillExplained DEF StalenessExplained
  <2>3. QED
    BY <2>1, <2>2
<1>9. ASSUME NEW p \in Proc, NEW r \in RoleId, NEW q \in PermId,
             AttachPermissionToRole(p, r, q)
      PROVE  StalenessExplained'
  <2> SUFFICES ASSUME NEW v \in User PROVE (Stale(v) => Explained(v))'
    BY DEF StalenessExplained
  <2>1. OwedBy(p)' = HoldersOf(r)
    BY <1>9 DEF AttachPermissionToRole, OwedBy, HoldersOf, TypeOK
  <2>2. CASE v \in HoldersOf(r)
    BY <2>1, <2>2 DEF Explained
  <2>3. CASE v \notin HoldersOf(r)
    <3>1. PermissionsOf(v)' = PermissionsOf(v)
      <4>1. <<v, r>> \notin userRoles
        BY <2>3 DEF HoldersOf, HoldersIn
      <4>2. /\ userRoles' = userRoles
            /\ \A s \in RoleId \ {r}, t \in PermId :
                 <<s, t>> \in rolePerms' <=> <<s, t>> \in rolePerms
        BY <1>9 DEF AttachPermissionToRole
      <4>3. QED
        BY <4>1, <4>2, NonHoldersKeep DEF PermissionsOf
    <3>2. OwedBy(p) = {}
      BY <1>9 DEF AttachPermissionToRole, OwedBy, Idle
    <3>3. \A o \in Proc \ {p} : OwedBy(o)' = OwedBy(o)
      BY <1>9, OthersOwe DEF AttachPermissionToRole
    <3>4. Explained(v) => Explained(v)'
      BY <1>9, <3>2, <3>3 DEF Explained, AttachPermissionToRole
    <3>5. cache'[v] = cache[v]
      BY <1>9 DEF AttachPermissionToRole
    <3>6. QED
      BY <3>1, <3>4, <3>5, StillExplained DEF StalenessExplained
  <2>4. QED
    BY <2>2, <2>3
<1>10. ASSUME NEW p \in Proc,
              \/ \E r \in RoleId : CreateRole(p, r)
              \/ \E q \in PermId : CreatePermission(p, q)
       PROVE  StalenessExplained'
  BY <1>10 DEF CreateRole, CreatePermission, StalenessExplained, Stale, Explained,
     PermissionsOf, OwedBy, HoldersOf
<1>11. ASSUME NEW p \in Proc, NEW r \in RoleId, DeleteRole(p, r)
       PROVE  StalenessExplained'
  <2> SUFFICES ASSUME NEW v \in User PROVE (Stale(v) => Explained(v))'
    BY DEF StalenessExplained
  <2>1. CASE v \in HoldersOf(r)
    BY <1>11, <2>1 DEF DeleteRole, Explained
  <2>2. CASE v \notin HoldersOf(r)
    <3>1. PermissionsOf(v)' = PermissionsOf(v)
      <4>1. <<v, r>> \notin userRoles
        BY <2>2 DEF HoldersOf, HoldersIn
      <4>2. QED
        BY <1>11, <4>1, DeleteRoleKeeps DEF DeleteRole, PermissionsOf
    <3>2. \A o \in Proc : v \in OwedBy(o) => v \in OwedBy(o)'
      <4> TAKE o \in Proc
      <4>1. \A s : <<v, s>> \in userRoles' <=> <<v, s>> \in userRoles
        BY <1>11, <2>2 DEF DeleteRole, WithoutRoleUR, HoldersOf, HoldersIn
      <4>2. QED
        BY <1>11, <4>1 DEF DeleteRole, OwedBy, HoldersOf, HoldersIn
    <3>3. Explained(v) => Explained(v)'
      BY <1>11, <3>2 DEF Explained, DeleteRole
    <3>4. cache'[v] = cache[v]
      BY <1>11 DEF DeleteRole
    <3>5. QED
      BY <3>1, <3>3, <3>4, StillExplained DEF StalenessExplained
  <2>3. QED
    BY <2>1, <2>2
<1>12. ASSUME NEW p \in Proc, NEW q \in PermId, DeletePermission(p, q)
       PROVE  StalenessExplained'
  <2> SUFFICES ASSUME NEW v \in User PROVE (Stale(v) => Explained(v))'
    BY DEF StalenessExplained
  <2>1. CASE v \in ReachersIn(userRoles, rolePerms, q)
    BY <1>12, <2>1 DEF DeletePermission, Explained
  <2>2. CASE v \notin ReachersIn(userRoles, rolePerms, q)
    <3>1. PermissionsOf(v)' = PermissionsOf(v)
      BY <1>12, <2>2, DeletePermissionKeeps DEF DeletePermission, PermissionsOf
    <3>2. Explained(v) => Explained(v)'
      BY <1>12 DEF Explained, DeletePermission, OwedBy, HoldersOf
    <3>3. cache'[v] = cache[v]
      BY <1>12 DEF DeletePermission
    <3>4. QED
      BY <3>1, <3>2, <3>3, StillExplained DEF StalenessExplained
  <2>3. QED
    BY <2>1, <2>2
<1>13. ASSUME NEW u \in User, ExpirePermissions(u) PROVE StalenessExplained'
  <2> SUFFICES ASSUME NEW v \in User PROVE (Stale(v) => Explained(v))'
    BY DEF StalenessExplained
  <2>1. CASE v = u
    BY <1>13, <2>1 DEF ExpirePermissions, Stale, TypeOK
  <2>2. CASE v # u
    BY <1>13, <2>2 DEF ExpirePermissions, StalenessExplained, Stale, Explained,
       PermissionsOf, OwedBy, HoldersOf, TypeOK
  <2>3. QED
    BY <2>1, <2>2
<1>14. ASSUME NEW u \in User, ExpireEmpty(u)
       PROVE  StalenessExplained'
  BY <1>14 DEF ExpireEmpty, StalenessExplained, Stale, Explained,
     PermissionsOf, OwedBy, HoldersOf
<1>15. CASE UNCHANGED vars
  BY <1>15 DEF vars, StalenessExplained, Stale, Explained, PermissionsOf, OwedBy,
     HoldersOf
<1>16. ASSUME NEW u \in User, NEW r \in RoleId, SignupAssigns(u, r)
       PROVE  StalenessExplained'
  <2> SUFFICES ASSUME NEW v \in User PROVE (Stale(v) => Explained(v))'
    BY DEF StalenessExplained
  <2>1. CASE v = u
    BY <1>16, <2>1 DEF SignupAssigns, Explained
  <2>2. CASE v # u
    <3>1. \A s \in RoleId : <<v, s>> \in userRoles' <=> <<v, s>> \in userRoles
      BY <1>16, <2>2 DEF SignupAssigns
    <3>2. PermissionsOf(v)' = PermissionsOf(v)
      <4>1. rolePerms' = rolePerms
        BY <1>16 DEF SignupAssigns
      <4>2. QED
        BY <3>1, <4>1, OtherUsersKeep DEF PermissionsOf
    <3>3. \A o \in Proc : v \in OwedBy(o) => v \in OwedBy(o)'
      <4> TAKE o \in Proc
      <4>1. call'[o] = call[o]
        BY <1>16 DEF SignupAssigns
      <4>2. call[o].pc = "fanout" => call[o].role \in RoleId
        BY DEF TypeOK, Calls, Idle
      <4>3. QED
        BY <3>1, <4>1, <4>2 DEF OwedBy, HoldersOf, HoldersIn
    <3>4. Explained(v) => Explained(v)'
      BY <1>16, <3>3 DEF Explained, SignupAssigns
    <3>5. cache'[v] = cache[v]
      BY <1>16 DEF SignupAssigns
    <3>6. QED
      BY <3>2, <3>4, <3>5, StillExplained DEF StalenessExplained
  <2>3. QED
    BY <2>1, <2>2
<1>17. QED
  BY <1>1, <1>2, <1>3, <1>4, <1>5, <1>6, <1>7, <1>8, <1>9, <1>10, <1>11, <1>12,
     <1>13, <1>14, <1>15, <1>16
  DEF Next, Serve, Continue, Environment

\* For any number of users, roles, permissions and concurrent requests, a
\* stale cache entry is always one that a DEL still in flight will remove, one
\* whose DEL was skipped, or one written from an outdated read.
\* (Service.AssignRoleToUser, RemoveRoleFromUser, AttachPermissionToRole,
\* Authorize; PermissionCache.Set and Invalidate.)
THEOREM StalenessIsExplained == Spec => []StalenessExplained
<1>1. Init => StalenessExplained
  BY DEF Init, StalenessExplained, Stale
<1>2. TypeOK /\ StalenessExplained /\ [Next]_vars => (TypeOK /\ StalenessExplained)'
  BY NextTypeOK, NextStalenessExplained
<1>3. QED
  BY <1>1, <1>2, InitTypeOK, PTL DEF Spec

-----------------------------------------------------------------------------
(* Every answer was once true *)

\* AnswersOnceTrue is not inductive: GetPermissions hands out what Postgres
\* holds now, so what Postgres holds now has to be in the history as well.
HistoryIsCurrent == \A u \in User : PermissionsOf(u) \in past[u]

AnswersInv == AnswersOnceTrue /\ HistoryIsCurrent

\* A commit adds the new permission sets to the history and removes none.
LEMMA CommitsRecords ==
  ASSUME TypeOK, Commits
  PROVE  /\ HistoryIsCurrent'
         /\ \A u \in User : past[u] \subseteq past'[u]
BY DEF Commits, HistoryIsCurrent, PermissionsOf, TypeOK

\* A step that takes nothing out of the history, adds no entry to the cache,
\* and leaves p with no answer or with the one it had keeps AnswersOnceTrue.
LEMMA NoNewAnswer ==
  ASSUME TypeOK, AnswersOnceTrue,
         \A u \in User : past[u] \subseteq past'[u],
         \A u \in User : cache'[u] = cache[u] \/ cache'[u] = {},
         \A p \in Proc : call'[p].pc \in {"fill", "reply"} =>
           /\ call[p].pc \in {"fill", "reply"}
           /\ call'[p].user = call[p].user
           /\ call'[p].perms = call[p].perms
  PROVE  AnswersOnceTrue'
<1>1. \A p \in Proc : call[p].pc \in {"fill", "reply"} => call[p].user \in User
  BY DEF TypeOK, Calls, Idle
<1>2. QED
  BY <1>1 DEF AnswersOnceTrue

\* A step that leaves the tables alone leaves the history current.
LEMMA HistoryStaysCurrent ==
  ASSUME HistoryIsCurrent, UNCHANGED <<userRoles, rolePerms, past>>
  PROVE  HistoryIsCurrent'
BY DEF HistoryIsCurrent, PermissionsOf

\* Every step keeps every answer in the history of its user.
LEMMA NextAnswersInv == TypeOK /\ AnswersInv /\ [Next]_vars => AnswersInv'
<1> SUFFICES ASSUME TypeOK, AnswersOnceTrue, HistoryIsCurrent, [Next]_vars
             PROVE  AnswersOnceTrue' /\ HistoryIsCurrent'
  BY DEF AnswersInv
<1> USE DEF tables, redis, WithRow, WithoutRow, Replaced
<1>1. ASSUME NEW p \in Proc, NEW u \in User, AuthorizeHit(p, u)
      PROVE  AnswersOnceTrue' /\ HistoryIsCurrent'
  <2>1. HistoryIsCurrent'
    BY <1>1, HistoryStaysCurrent DEF AuthorizeHit
  <2>2. AnswersOnceTrue'
    BY <1>1 DEF AuthorizeHit, AnswersOnceTrue, TypeOK
  <2>3. QED
    BY <2>1, <2>2
<1>2. ASSUME NEW p \in Proc, NEW u \in User, AuthorizeMiss(p, u)
      PROVE  AnswersOnceTrue' /\ HistoryIsCurrent'
  BY <1>2, HistoryStaysCurrent, NoNewAnswer DEF AuthorizeMiss, TypeOK
<1>3. ASSUME NEW p \in Proc, GetPermissions(p)
      PROVE  AnswersOnceTrue' /\ HistoryIsCurrent'
  <2>1. HistoryIsCurrent'
    BY <1>3, HistoryStaysCurrent DEF GetPermissions
  <2>2. PermissionsOf(call[p].user) \in past[call[p].user]
    BY <1>3 DEF GetPermissions, HistoryIsCurrent, TypeOK, Calls, Idle
  <2>3. AnswersOnceTrue'
    BY <1>3, <2>2 DEF GetPermissions, AnswersOnceTrue, TypeOK
  <2>4. QED
    BY <2>1, <2>3
<1>4. ASSUME NEW p \in Proc, CacheSet(p)
      PROVE  AnswersOnceTrue' /\ HistoryIsCurrent'
  <2>1. HistoryIsCurrent'
    BY <1>4, HistoryStaysCurrent DEF CacheSet
  <2>2. call[p].perms \in past[call[p].user]
    BY <1>4 DEF CacheSet, AnswersOnceTrue
  <2>3. \A u \in User : cache'[u] # {} => cache'[u] \in past'[u]
    BY <1>4, <2>2 DEF CacheSet, AnswersOnceTrue, TypeOK
  <2>4. \A o \in Proc : call'[o].pc \in {"fill", "reply"} =>
           call'[o].perms \in past'[call'[o].user]
    BY <1>4, <2>2 DEF CacheSet, AnswersOnceTrue, TypeOK
  <2>5. QED
    BY <2>1, <2>3, <2>4 DEF AnswersOnceTrue
<1>5. ASSUME NEW p \in Proc, Respond(p) \/ CacheSetFails(p)
      PROVE  AnswersOnceTrue' /\ HistoryIsCurrent'
  BY <1>5, HistoryStaysCurrent, NoNewAnswer DEF Respond, CacheSetFails, Idle, TypeOK
<1>6. ASSUME NEW p \in Proc, GetUserIDsForRole(p) \/ Abandon(p)
      PROVE  AnswersOnceTrue' /\ HistoryIsCurrent'
  BY <1>6, HistoryStaysCurrent, NoNewAnswer DEF GetUserIDsForRole, Abandon, Idle, TypeOK
<1>7. ASSUME NEW p \in Proc, NEW u \in User, Invalidate(p, u) \/ InvalidateFails(p, u)
      PROVE  AnswersOnceTrue' /\ HistoryIsCurrent'
  <2>1. AfterInvalidating(p, u).pc \notin {"fill", "reply"}
    BY DEF AfterInvalidating, Idle
  <2>2. QED
    BY <1>7, <2>1, HistoryStaysCurrent, NoNewAnswer DEF Invalidate, InvalidateFails, TypeOK
<1>8. ASSUME NEW p \in Proc, NEW u \in User, NEW r \in RoleId,
             AssignRoleToUser(p, u, r) \/ RemoveRoleFromUser(p, u, r)
      PROVE  AnswersOnceTrue' /\ HistoryIsCurrent'
  BY <1>8, CommitsRecords, NoNewAnswer DEF AssignRoleToUser, RemoveRoleFromUser, TypeOK
<1>9. ASSUME NEW p \in Proc, NEW r \in RoleId, NEW q \in PermId,
             AttachPermissionToRole(p, r, q)
      PROVE  AnswersOnceTrue' /\ HistoryIsCurrent'
  BY <1>9, CommitsRecords, NoNewAnswer DEF AttachPermissionToRole, TypeOK
<1>10. ASSUME NEW p \in Proc, NEW r \in RoleId, CreateRole(p, r) \/ DeleteRole(p, r)
       PROVE  AnswersOnceTrue' /\ HistoryIsCurrent'
  BY <1>10, CommitsRecords, NoNewAnswer DEF CreateRole, DeleteRole
<1>11. ASSUME NEW p \in Proc, NEW q \in PermId,
              CreatePermission(p, q) \/ DeletePermission(p, q)
       PROVE  AnswersOnceTrue' /\ HistoryIsCurrent'
  BY <1>11, CommitsRecords, NoNewAnswer DEF CreatePermission, DeletePermission
<1>12. ASSUME NEW u \in User, ExpirePermissions(u) \/ ExpireEmpty(u)
       PROVE  AnswersOnceTrue' /\ HistoryIsCurrent'
  BY <1>12, HistoryStaysCurrent, NoNewAnswer DEF ExpirePermissions, ExpireEmpty, TypeOK
<1>13. CASE UNCHANGED vars
  BY <1>13, HistoryStaysCurrent, NoNewAnswer DEF vars
<1>14. ASSUME NEW u \in User, NEW r \in RoleId, SignupAssigns(u, r)
       PROVE  AnswersOnceTrue' /\ HistoryIsCurrent'
  BY <1>14, CommitsRecords, NoNewAnswer DEF SignupAssigns
<1>15. QED
  BY <1>1, <1>2, <1>3, <1>4, <1>5, <1>6, <1>7, <1>8, <1>9, <1>10, <1>11, <1>12, <1>13,
     <1>14
  DEF Next, Serve, Continue, Environment

\* For any number of users, roles, permissions and concurrent requests, and
\* whatever fails, Authorize answers from a permission set that its user had
\* at some moment, and so does the cache.
\* (Service.Authorize; PermissionCache.Get and Set.)
THEOREM AnswersWereOnceTrue == Spec => []AnswersOnceTrue
<1>1. Init => AnswersInv
  <2>1. Init => HistoryIsCurrent
    BY DEF Init, HistoryIsCurrent, PermissionsOf
  <2>2. ASSUME Init PROVE AnswersOnceTrue
    <3>1. \A u \in User : cache[u] = {}
      BY <2>2 DEF Init
    <3>2. \A p \in Proc : call[p].pc = "idle"
      BY <2>2 DEF Init, Idle
    <3>3. QED
      BY <3>1, <3>2 DEF AnswersOnceTrue
  <2>3. QED
    BY <2>1, <2>2 DEF AnswersInv
<1>2. TypeOK /\ AnswersInv /\ [Next]_vars => (TypeOK /\ AnswersInv)'
  BY NextTypeOK, NextAnswersInv
<1>3. AnswersInv => AnswersOnceTrue
  BY DEF AnswersInv
<1>4. QED
  BY <1>1, <1>2, <1>3, InitTypeOK, PTL DEF Spec

-----------------------------------------------------------------------------
(* The service as its callers see it *)

\* The variables of Authorization, as RBACService gives them.
Granted == [u \in User |-> PermissionsOf(u)]
Showing == [u \in User |-> Shown(u)]
Answers == [p \in Proc |-> AnswerOf(p)]

\* The steps of Authorization, in these terms.
LEMMA Looks ==
  ASSUME NEW p \in Proc, NEW u \in User, NEW names \in {Granted[u], Showing[u]},
         Answers[p] = << >>, Answers' = [Answers EXCEPT ![p] = <<u, names>>],
         UNCHANGED <<Granted, Showing>>
  PROVE  Contract!Look(p, u)
BY Zenon DEF Contract!Look, Contract!None, Granted, Showing, Answers

LEMMA Takes ==
  ASSUME NEW p \in Proc, Answers[p] # << >>, Answers' = [Answers EXCEPT ![p] = << >>],
         UNCHANGED <<Granted, Showing>>
  PROVE  Contract!Take(p)
BY Zenon DEF Contract!Take, Contract!None, Granted, Showing, Answers

LEMMA ShowsIt ==
  ASSUME NEW p \in Proc, Answers[p] # << >>,
         Showing' = [Showing EXCEPT ![Answers[p][1]] = Answers[p][2]],
         UNCHANGED <<Granted, Answers>>
  PROVE  Contract!Show(p)
BY Zenon DEF Contract!Show, Contract!None, Granted, Showing, Answers

LEMMA CatchesUp ==
  ASSUME NEW u \in User, Showing' = [Showing EXCEPT ![u] = Granted[u]],
         UNCHANGED <<Granted, Answers>>
  PROVE  Contract!CatchUp(u)
BY Zenon DEF Contract!CatchUp, Granted, Showing, Answers

LEMMA Changes ==
  ASSUME Granted' \in [User -> SUBSET Name], Showing' \in [User -> SUBSET Name],
         \A u \in User : Showing'[u] = Showing[u]
                         \/ (Showing[u] = Granted[u] /\ Showing'[u] = Granted'[u]),
         UNCHANGED Answers
  PROVE  Contract!Change
BY Zenon DEF Contract!Change, Granted, Showing, Answers

LEMMA Views ==
  ASSUME TypeOK
  PROVE  /\ \A u \in User : Granted[u] = PermissionsOf(u) /\ Granted[u] \in SUBSET Name
         /\ \A u \in User : /\ Showing[u] = IF cache[u] = {} THEN Granted[u] ELSE cache[u]
                            /\ Showing[u] \in SUBSET Name
         /\ \A p \in Proc : Answers[p] = AnswerOf(p)
<1>1. \A u \in User : Granted[u] = PermissionsOf(u) /\ Granted[u] \in SUBSET Name
  BY PermissionsAreNames DEF Granted, PermissionsOf
<1>2. \A u \in User : cache[u] \in SUBSET Name
  BY DEF TypeOK
<1>3. \A u \in User : Showing[u] = IF cache[u] = {} THEN Granted[u] ELSE cache[u]
  BY <1>1 DEF Showing, Shown
<1>4. QED
  BY <1>1, <1>2, <1>3 DEF Answers

LEMMA TablesStand ==
  ASSUME UNCHANGED <<userRoles, rolePerms>>
  PROVE  Granted' = Granted /\ (cache' = cache => Showing' = Showing)
<1>1. \A u \in User : PermissionsOf(u)' = PermissionsOf(u)
  BY DEF PermissionsOf
<1>2. QED
  BY <1>1 DEF Granted, Showing, Shown

\* What call c gives its goroutine.
Gives(c) == IF c.pc \in {"fill", "reply"} THEN <<c.user, c.perms>> ELSE << >>

LEMMA CallMoves ==
  ASSUME TypeOK, NEW p \in Proc, NEW c, call' = [call EXCEPT ![p] = c]
  PROVE  /\ Answers' = [Answers EXCEPT ![p] = Gives(c)]
         /\ Answers[p] = Gives(call[p])
         /\ Gives(c) = Gives(call[p]) => Answers' = Answers
<1>1. \A o \in Proc : call'[o] = IF o = p THEN c ELSE call[o]
  BY DEF TypeOK
<1>2. \A o \in Proc : AnswerOf(o)' = IF o = p THEN Gives(c) ELSE AnswerOf(o)
  BY <1>1 DEF AnswerOf, Gives
<1>3. AnswerOf(p) = Gives(call[p])
  BY DEF AnswerOf, Gives
<1>4. QED
  BY <1>2, <1>3 DEF Answers

\* A step that gives p nothing that it had not.
LEMMA NothingGiven ==
  ASSUME TypeOK, NEW p \in Proc, NEW c, call' = [call EXCEPT ![p] = c],
         call[p].pc \notin {"fill", "reply"}, c.pc \notin {"fill", "reply"}
  PROVE  Answers' = Answers
BY CallMoves DEF Gives

\* The key of u is written or goes.
LEMMA EntryMoves ==
  ASSUME TypeOK, NEW u \in User, NEW names, cache' = [cache EXCEPT ![u] = names],
         UNCHANGED <<userRoles, rolePerms>>
  PROVE  Showing' = [Showing EXCEPT ![u] = IF names = {} THEN Granted[u] ELSE names]
<1>1. \A v \in User : cache'[v] = IF v = u THEN names ELSE cache[v]
  BY DEF TypeOK
<1>2. \A v \in User : PermissionsOf(v)' = PermissionsOf(v)
  BY DEF PermissionsOf
<1>3. \A v \in User : Shown(v)' = IF v = u THEN (IF names = {} THEN PermissionsOf(u) ELSE names)
                                  ELSE Shown(v)
  BY <1>1, <1>2 DEF Shown
<1>4. Granted[u] = PermissionsOf(u)
  BY DEF Granted
<1>5. QED
  BY <1>3, <1>4 DEF Showing

\* A commit, of whatever it is, changes what is granted and nothing else that
\* callers see.
LEMMA WritesChange ==
  ASSUME TypeOK, cache' = cache, Answers' = Answers
  PROVE  Contract!Change
<1>1. \A u \in User : PermissionsOf(u)' \in SUBSET Name /\ cache[u] \in SUBSET Name
  BY PermissionsAreNames DEF PermissionsOf, TypeOK
<1>2. Granted' = [u \in User |-> PermissionsOf(u)'] /\ Showing' = [u \in User |-> Shown(u)']
  BY DEF Granted, Showing
<1>3. \A u \in User : Shown(u)' = IF cache[u] = {} THEN PermissionsOf(u)' ELSE cache[u]
  BY DEF Shown
<1>4. Granted' \in [User -> SUBSET Name] /\ Showing' \in [User -> SUBSET Name]
  BY <1>1, <1>2, <1>3
<1>5. \A u \in User : Showing'[u] = Showing[u]
                      \/ (Showing[u] = Granted[u] /\ Showing'[u] = Granted'[u])
  BY <1>2, <1>3, Views
<1>6. QED
  BY <1>4, <1>5, Changes

\* Each step of the service is one that callers may see, or that they do not.
LEMMA NextContract ==
  ASSUME TypeOK, [Next]_vars
  PROVE  \/ Contract!Next
         \/ UNCHANGED <<Granted, Showing, Answers>>
<1> DEFINE Goal == Contract!Next \/ UNCHANGED <<Granted, Showing, Answers>>
<1> USE DEF tables, redis
<1>0. /\ Contract!Change => Contract!Next
      /\ \A u \in User : Contract!CatchUp(u) => Contract!Next
      /\ \A p \in Proc : Contract!Show(p) \/ Contract!Take(p) => Contract!Next
      /\ \A p \in Proc, u \in User : Contract!Look(p, u) => Contract!Next
  BY Zenon DEF Contract!Next
<1>1. ASSUME NEW p \in Proc, NEW u \in User, AuthorizeHit(p, u)
      PROVE  Goal
  <2>1. PICK c : c = [pc |-> "reply", user |-> u, perms |-> cache[u]]
    OBVIOUS
  <2>2. /\ call' = [call EXCEPT ![p] = c] /\ Gives(c) = <<u, cache[u]>>
        /\ call[p].pc = "idle" /\ cache[u] # {}
        /\ UNCHANGED <<userRoles, rolePerms, cache>>
    BY <1>1, <2>1 DEF AuthorizeHit, Gives, Idle
  <2>3. Gives(call[p]) = << >>
    BY <2>2 DEF Gives
  <2>4. Answers' = [Answers EXCEPT ![p] = <<u, cache[u]>>] /\ Answers[p] = << >>
    BY <2>2, <2>3, CallMoves
  <2>5. cache[u] = Showing[u]
    BY <2>2, Views
  <2>6. Contract!Look(p, u)
    BY <2>2, <2>4, <2>5, Looks, TablesStand
  <2>7. QED
    BY <1>0, <2>6
<1>2. ASSUME NEW p \in Proc, NEW u \in User, AuthorizeMiss(p, u)
      PROVE  Goal
  <2>1. PICK c : c = [pc |-> "query", user |-> u]
    OBVIOUS
  <2>2. call' = [call EXCEPT ![p] = c] /\ c.pc = "query" /\ call[p].pc = "idle"
    BY <1>2, <2>1 DEF AuthorizeMiss, Idle
  <2>3. QED
    BY <1>2, <2>2, NothingGiven, TablesStand DEF AuthorizeMiss
<1>3. ASSUME NEW p \in Proc, GetPermissions(p)
      PROVE  Goal
  <2>1. PICK u \in User : u = call[p].user
    BY <1>3 DEF GetPermissions, TypeOK, Calls, Idle
  <2>2. PICK c : c = [pc |-> "fill", user |-> u, perms |-> PermissionsOf(u)]
    OBVIOUS
  <2>3. /\ call' = [call EXCEPT ![p] = c] /\ Gives(c) = <<u, PermissionsOf(u)>>
        /\ call[p].pc = "query" /\ UNCHANGED <<userRoles, rolePerms, cache>>
    BY <1>3, <2>1, <2>2 DEF GetPermissions, Gives
  <2>4. Granted[u] = PermissionsOf(u) /\ Gives(call[p]) = << >>
    BY <2>3, Views DEF Gives
  <2>5. Gives(c) = <<u, Granted[u]>>
    BY <2>3, <2>4
  <2>6. Answers' = [Answers EXCEPT ![p] = Gives(c)] /\ Answers[p] = << >>
    BY <2>3, <2>4, CallMoves
  <2>7. Answers' = [Answers EXCEPT ![p] = <<u, Granted[u]>>]
    BY <2>5, <2>6
  <2>8. Contract!Look(p, u)
    BY <2>3, <2>6, <2>7, Looks, TablesStand
  <2>9. QED
    BY <1>0, <2>8
<1>4. ASSUME NEW p \in Proc, CacheSet(p) \/ CacheSetFails(p)
      PROVE  Goal
  <2>1. PICK u, names : u = call[p].user /\ names = call[p].perms
    OBVIOUS
  <2>2. u \in User
    BY <1>4, <2>1 DEF CacheSet, CacheSetFails, TypeOK, Calls, Idle
  <2>3. PICK c : c = [pc |-> "reply", user |-> u, perms |-> names]
    OBVIOUS
  <2>4. /\ call' = [call EXCEPT ![p] = c] /\ Gives(c) = <<u, names>>
        /\ call[p].pc = "fill" /\ UNCHANGED <<userRoles, rolePerms>>
    BY <1>4, <2>1, <2>3 DEF CacheSet, CacheSetFails, Gives
  <2>5. Gives(call[p]) = <<u, names>>
    BY <2>1, <2>4 DEF Gives
  <2>6. Answers' = Answers /\ Answers[p] = <<u, names>>
    BY <2>4, <2>5, CallMoves
  <2>7. Answers' = Answers /\ Answers[p] = <<u, names>> /\ Answers[p] # << >>
    BY <2>6
  <2>8. cache' = cache \/ (names # {} /\ cache' = [cache EXCEPT ![u] = names])
    BY <1>4, <2>1 DEF CacheSet, CacheSetFails, Replaced
  <2>9. CASE cache' = cache
    BY <2>4, <2>7, <2>9, TablesStand
  <2>10. CASE names # {} /\ cache' = [cache EXCEPT ![u] = names]
    <3>1. Showing' = [Showing EXCEPT ![u] = names]
      BY <2>2, <2>4, <2>10, EntryMoves
    <3>2. Showing' = [Showing EXCEPT ![Answers[p][1]] = Answers[p][2]]
      BY <2>7, <3>1
    <3>3. Contract!Show(p)
      BY <2>4, <2>7, <3>2, ShowsIt, TablesStand
    <3>4. QED
      BY <1>0, <3>3
  <2>11. QED
    BY <2>8, <2>9, <2>10
<1>5. ASSUME NEW p \in Proc, Respond(p) \/ Abandon(p)
      PROVE  Goal
  <2>1. /\ call' = [call EXCEPT ![p] = Idle] /\ Gives(Idle) = << >>
        /\ UNCHANGED <<userRoles, rolePerms, cache>>
    BY <1>5 DEF Respond, Abandon, Idle, Gives
  <2>2. Answers' = [Answers EXCEPT ![p] = << >>] /\ (Answers[p] = << >> => Answers' = Answers)
    BY <2>1, CallMoves
  <2>3. Granted' = Granted /\ Showing' = Showing
    BY <2>1, TablesStand
  <2>4. CASE Answers[p] = << >>
    BY <2>2, <2>3, <2>4
  <2>5. CASE Answers[p] # << >>
    BY <1>0, <2>2, <2>3, <2>5, Takes
  <2>6. QED
    BY <2>4, <2>5
<1>6. ASSUME NEW p \in Proc, GetUserIDsForRole(p)
      PROVE  Goal
  <2>1. PICK c : c = IF HoldersOf(call[p].role) = {} THEN Idle
                     ELSE [pc |-> "invalidate", todo |-> HoldersOf(call[p].role)]
    OBVIOUS
  <2>2. /\ call' = [call EXCEPT ![p] = c] /\ c.pc \in {"idle", "invalidate"}
        /\ call[p].pc = "fanout"
    BY <1>6, <2>1 DEF GetUserIDsForRole, Idle
  <2>3. QED
    BY <1>6, <2>2, NothingGiven, TablesStand DEF GetUserIDsForRole
<1>7. ASSUME NEW p \in Proc, NEW u \in User, Invalidate(p, u) \/ InvalidateFails(p, u)
      PROVE  Goal
  <2>1. PICK c : c = AfterInvalidating(p, u)
    OBVIOUS
  <2>2. call' = [call EXCEPT ![p] = c] /\ c.pc \in {"idle", "invalidate"} /\ call[p].pc = "invalidate"
    BY <1>7, <2>1 DEF Invalidate, InvalidateFails, AfterInvalidating, Idle
  <2>3. Answers' = Answers
    BY <2>2, NothingGiven
  <2>4. CASE InvalidateFails(p, u)
    BY <2>3, <2>4, TablesStand DEF InvalidateFails
  <2>5. CASE Invalidate(p, u)
    <3>1. cache' = [cache EXCEPT ![u] = {}] /\ UNCHANGED <<userRoles, rolePerms>>
      BY <2>5 DEF Invalidate
    <3>2. Contract!CatchUp(u)
      BY <2>3, <3>1, EntryMoves, TablesStand, CatchesUp
    <3>3. QED
      BY <1>0, <3>2
  <2>6. QED
    BY <1>7, <2>4, <2>5
<1>8. ASSUME NEW p \in Proc, NEW u \in User, NEW r \in RoleId,
             AssignRoleToUser(p, u, r) \/ RemoveRoleFromUser(p, u, r)
      PROVE  Goal
  <2>1. PICK c : c = [pc |-> "invalidate", todo |-> {u}]
    OBVIOUS
  <2>2. /\ call' = [call EXCEPT ![p] = c] /\ c.pc = "invalidate" /\ call[p].pc = "idle"
        /\ cache' = cache
    BY <1>8, <2>1 DEF AssignRoleToUser, RemoveRoleFromUser, Idle
  <2>3. QED
    BY <1>0, <2>2, NothingGiven, WritesChange
<1>9. ASSUME NEW p \in Proc, NEW r \in RoleId, NEW q \in PermId, AttachPermissionToRole(p, r, q)
      PROVE  Goal
  <2>1. PICK c : c = [pc |-> "fanout", role |-> r]
    OBVIOUS
  <2>2. /\ call' = [call EXCEPT ![p] = c] /\ c.pc = "fanout" /\ call[p].pc = "idle"
        /\ cache' = cache
    BY <1>9, <2>1 DEF AttachPermissionToRole, Idle
  <2>3. QED
    BY <1>0, <2>2, NothingGiven, WritesChange
<1>10. ASSUME call' = call, cache' = cache
       PROVE  Goal
  <2>1. Answers' = Answers
    BY <1>10 DEF Answers, AnswerOf
  <2>2. QED
    BY <1>0, <1>10, <2>1, WritesChange
<1>11. ASSUME NEW u \in User, ExpirePermissions(u)
       PROVE  Goal
  <2>1. /\ cache' = [cache EXCEPT ![u] = {}] /\ UNCHANGED <<userRoles, rolePerms>>
        /\ Answers' = Answers
    BY <1>11 DEF ExpirePermissions, Answers, AnswerOf
  <2>2. Contract!CatchUp(u)
    BY <2>1, EntryMoves, TablesStand, CatchesUp
  <2>3. QED
    BY <1>0, <2>2
<1>12. ASSUME \/ \E p \in Proc, r \in RoleId : CreateRole(p, r) \/ DeleteRole(p, r)
              \/ \E p \in Proc, q \in PermId : CreatePermission(p, q) \/ DeletePermission(p, q)
              \/ \E u \in User, r \in RoleId : SignupAssigns(u, r)
              \/ \E u \in User : ExpireEmpty(u)
              \/ UNCHANGED vars
       PROVE  Goal
  BY <1>10, <1>12
     DEF CreateRole, DeleteRole, CreatePermission, DeletePermission, SignupAssigns, ExpireEmpty, vars
<1> HIDE DEF Goal, tables, redis
<1>13. QED
  <2>1. Goal
    BY <1>1, <1>2, <1>3, <1>4, <1>5, <1>6, <1>7, <1>8, <1>9, <1>11, <1>12
       DEF Next, Serve, Continue, Environment
  <2>2. QED
    BY <2>1 DEF Goal

\* For any numbers of users, roles and concurrent requests, and whatever is
\* raced, lost or cut short, Authorize in front of its cache implements the
\* contract: an answer is drawn at one moment from the tables or from what was
\* drawn from them for the same user before.
\* (Service.Authorize, PermissionCache.)
THEOREM ServiceImplementsAuthorization == Spec => ImplementsAuthorization
<1>1. Init => Contract!Init
  <2>1. SUFFICES ASSUME Init PROVE Contract!Init
    OBVIOUS
  <2>2. \A u \in User : PermissionsOf(u) \in SUBSET Name /\ Shown(u) = PermissionsOf(u)
    BY <2>1, PermissionsAreNames DEF Init, Shown, PermissionsOf
  <2>3. \A p \in Proc : AnswerOf(p) = << >>
    BY <2>1 DEF Init, AnswerOf, Idle
  <2>4. QED
    BY <2>2, <2>3 DEF Contract!Init, Contract!None
<1>2. TypeOK /\ [Next]_vars =>
        [Contract!Next]_<<[u \in User |-> PermissionsOf(u)], [u \in User |-> Shown(u)],
                          [p \in Proc |-> AnswerOf(p)]>>
  BY NextContract DEF Granted, Showing, Answers
<1>3. QED
  BY <1>1, <1>2, TypeCorrect, PTL DEF Spec, ImplementsAuthorization, Contract!Spec
=============================================================================
