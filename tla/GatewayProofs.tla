--------------------------- MODULE GatewayProofs ---------------------------
(***************************************************************************)
(* Theorems about Gateway.  Its steps are steps of RBACService, so that    *)
(* what RBACServiceProofs proves of the service holds behind the gate, and *)
(* the two guarantees of the gate follow from StalenessExplained and       *)
(* AnswersOnceTrue.                                                        *)
(***************************************************************************)
EXTENDS Gateway, RBACServiceProofs

-----------------------------------------------------------------------------
(* The gateway over the service *)

\* Whatever a request does is a step of the service, or none
\* (RequirePermission and the handlers call nothing but rbac.Service).
LEMMA RequestStepIsServiceStep ==
  ASSUME NEW p \in Proc, ServeRequest(p)
  PROVE  [Next]_vars
<1>1. ASSUME NEW a \in User, NEW n \in Needed, RequirePermission(p, a, n) PROVE Next
  BY <1>1 DEF RequirePermission, Next, Serve
<1>2. ASSUME NEW u \in User, PostAuthorize(p, u) PROVE Next
  BY <1>2 DEF PostAuthorize, Next, Serve
<1>3. ASSUME Queries(p) \/ Stores(p) \/ Returns(p) PROVE Next
  BY <1>3 DEF Queries, Stores, Returns, Next, Serve, Continue, Environment
<1>4. ASSUME Change(p) PROVE Next
  <2>1. CASE PostUserRole(p) \/ DeleteUserRole(p)
    BY <2>1 DEF PostUserRole, DeleteUserRole, Next, Serve
  <2>2. CASE PostRolePermission(p)
    BY <2>2 DEF PostRolePermission, Next, Serve
  <2>3. CASE PostRole(p) \/ DeleteRoleById(p)
    BY <2>3 DEF PostRole, DeleteRoleById, Next, Serve
  <2>4. CASE PostPermission(p) \/ DeletePermissionById(p)
    BY <2>4 DEF PostPermission, DeletePermissionById, Next, Serve
  <2>5. QED
    BY <1>4, <2>1, <2>2, <2>3, <2>4 DEF Change
<1>5. ASSUME ReadsOrFails(p) \/ OwnProfile(p) PROVE UNCHANGED vars
  BY <1>5 DEF ReadsOrFails, OwnProfile
<1>6. ASSUME Invalidates(p) PROVE Next
  BY <1>6 DEF Invalidates, Next, Serve, Continue, Environment
<1>7. ASSUME IsCut(p) PROVE Next
  BY <1>7 DEF IsCut, Next, Environment
<1>8. QED
  BY <1>1, <1>2, <1>3, <1>4, <1>5, <1>6, <1>7 DEF ServeRequest

\* Nor does an expiring key do anything that the service alone does not allow for.
LEMMA GatewayStepIsServiceStep == [GatewayNext]_gatewayVars => [Next]_vars
<1>1. ASSUME NEW u \in User, Expires(u) PROVE Next
  BY <1>1 DEF Expires, Next, Environment
<1>2. UNCHANGED gatewayVars => UNCHANGED vars
  BY DEF gatewayVars
<1>3. ASSUME NEW u \in User, NEW r \in RoleId, Joins(u, r) PROVE Next
  BY <1>3 DEF Joins, Next
<1>4. QED
  BY <1>1, <1>2, <1>3, RequestStepIsServiceStep DEF GatewayNext

\* Put behind its gate, the service does nothing that it could not do without:
\* every theorem about Spec is one about GatewaySpec.
\* (RequirePermission and the handlers of internal/rbac.)
THEOREM GatewayImplementsService == GatewaySpec => Spec
<1>1. GatewayInit => Init
  BY DEF GatewayInit
<1>2. QED
  BY <1>1, GatewayStepIsServiceStep, PTL DEF GatewaySpec, Spec

-----------------------------------------------------------------------------
(* Types *)

\* A step of goroutine p alone, to a well-typed request that agrees with its
\* call, keeps requests and calls in agreement.
LEMMA OneGoroutineSteps ==
  ASSUME TypeOK, GatewayTypeOK, NEW p \in Proc, NEW c, NEW r \in Requests,
         call' = [call EXCEPT ![p] = c], req' = [req EXCEPT ![p] = r],
         InStep(p)'
  PROVE  GatewayTypeOK'
<1>1. req' \in [Proc -> Requests]
  BY DEF GatewayTypeOK
<1>2. ASSUME NEW o \in Proc, o # p PROVE InStep(o)'
  <2>1. call'[o] = call[o] /\ req'[o] = req[o] /\ InStep(o)
    BY <1>2 DEF GatewayTypeOK, TypeOK
  <2>2. QED
    BY <2>1 DEF InStep
<1>3. QED
  BY <1>1, <1>2 DEF GatewayTypeOK

\* The outcome of each new request: what p is about to wait for, about whom.
LEMMA AuthorizeBegins ==
  ASSUME TypeOK, NEW p \in Proc, NEW u \in User, AuthorizeHit(p, u) \/ AuthorizeMiss(p, u)
  PROVE  \E c : /\ call' = [call EXCEPT ![p] = c]
                /\ c.pc \in {"query", "reply"} /\ c.user = u
<1>1. CASE AuthorizeHit(p, u)
  <2>. DEFINE c == [pc |-> "reply", user |-> u, perms |-> cache[u]]
  <2>1. call' = [call EXCEPT ![p] = c]
    BY <1>1 DEF AuthorizeHit
  <2>2. c.pc = "reply" /\ c.user = u
    OBVIOUS
  <2>3. QED
    BY <2>1, <2>2
<1>2. CASE AuthorizeMiss(p, u)
  <2>. DEFINE c == [pc |-> "query", user |-> u]
  <2>1. call' = [call EXCEPT ![p] = c]
    BY <1>2 DEF AuthorizeMiss
  <2>2. c.pc = "query" /\ c.user = u
    OBVIOUS
  <2>3. QED
    BY <2>1, <2>2
<1>3. QED
  BY <1>1, <1>2

\* Authorize goes on from storing to its reply, for the same user.
LEMMA StoringReplies ==
  ASSUME TypeOK, NEW p \in Proc, CacheSet(p) \/ CacheSetFails(p)
  PROVE  \E c : /\ call' = [call EXCEPT ![p] = c]
                /\ c.pc = "reply" /\ c.user = call[p].user
<1>. DEFINE c == [pc |-> "reply", user |-> call[p].user, perms |-> call[p].perms]
<1>1. call' = [call EXCEPT ![p] = c]
  BY DEF CacheSet, CacheSetFails
<1>2. c.pc = "reply" /\ c.user = call[p].user
  OBVIOUS
<1>3. QED
  BY <1>1, <1>2

\* A change goes on to its invalidations until none is left.
LEMMA InvalidatingGoesOn ==
  ASSUME TypeOK, NEW p \in Proc,
         GetUserIDsForRole(p) \/ \E u \in User : Invalidate(p, u) \/ InvalidateFails(p, u)
  PROVE  \E c : call' = [call EXCEPT ![p] = c] /\ (c = Idle \/ c.pc = "invalidate")
<1>1. CASE GetUserIDsForRole(p)
  <2>. DEFINE holders == HoldersOf(call[p].role)
              c == IF holders = {} THEN Idle ELSE [pc |-> "invalidate", todo |-> holders]
  <2>1. call' = [call EXCEPT ![p] = c]
    BY <1>1 DEF GetUserIDsForRole
  <2>2. c = Idle \/ c.pc = "invalidate"
    OBVIOUS
  <2>3. QED
    BY <2>1, <2>2
<1>2. ASSUME NEW u \in User, Invalidate(p, u) \/ InvalidateFails(p, u)
      PROVE  \E c : call' = [call EXCEPT ![p] = c] /\ (c = Idle \/ c.pc = "invalidate")
  <2>1. call' = [call EXCEPT ![p] = AfterInvalidating(p, u)]
    BY <1>2 DEF Invalidate, InvalidateFails
  <2>2. AfterInvalidating(p, u) = Idle \/ AfterInvalidating(p, u).pc = "invalidate"
    BY DEF AfterInvalidating
  <2>3. QED
    BY <2>1, <2>2
<1>3. QED
  BY <1>1, <1>2

\* A goroutine whose request is over has no call.
LEMMA RequestEnds ==
  ASSUME TypeOK, GatewayTypeOK, NEW p \in Proc,
         call' = [call EXCEPT ![p] = Idle], req' = [req EXCEPT ![p] = NoRequest]
  PROVE  GatewayTypeOK'
<1>1. NoRequest \in Requests
  BY DEF Requests
<1>2. InStep(p)'
  BY DEF InStep, NoRequest, TypeOK, GatewayTypeOK
<1>3. QED
  BY <1>1, <1>2, OneGoroutineSteps

\* A goroutine whose change is committed has invalidations before it.
LEMMA ServiceRuns ==
  ASSUME TypeOK, GatewayTypeOK, NEW p \in Proc, NEW c, c.pc = "fanout" \/ c.pc = "invalidate",
         call' = [call EXCEPT ![p] = c], req' = [req EXCEPT ![p] = Running]
  PROVE  GatewayTypeOK'
<1>1. Running \in Requests
  BY DEF Requests
<1>2. InStep(p)'
  BY DEF InStep, Running, TypeOK, GatewayTypeOK
<1>3. QED
  BY <1>1, <1>2, OneGoroutineSteps

\* Before the first request no goroutine has one (main, routes behind JWTAuth).
LEMMA GatewayInitType == GatewayInit => GatewayTypeOK
BY DEF GatewayInit, Init, GatewayTypeOK, InStep, Requests, NoRequest, Idle

\* Every step keeps requests and calls well typed and in agreement.
LEMMA NextGatewayType ==
  TypeOK /\ GatewayTypeOK /\ [GatewayNext]_gatewayVars => GatewayTypeOK'
<1> SUFFICES ASSUME TypeOK, GatewayTypeOK, [GatewayNext]_gatewayVars
             PROVE  GatewayTypeOK'
  OBVIOUS
<1>1. ASSUME NEW p \in Proc, NEW a \in User, NEW n \in Needed, RequirePermission(p, a, n)
      PROVE  GatewayTypeOK'
  <2>. DEFINE r == [at |-> "gate", actor |-> a, need |-> n, good |-> Grounds(a, n)]
  <2>1. Grounds(a, n) \in BOOLEAN
    BY DEF Grounds, Explained
  <2>2. r \in Requests
    BY <2>1 DEF Requests
  <2>3. PICK c : /\ call' = [call EXCEPT ![p] = c]
                 /\ c.pc \in {"query", "reply"} /\ c.user = a
    BY <1>1, AuthorizeBegins DEF RequirePermission
  <2>4. req' = [req EXCEPT ![p] = r]
    BY <1>1 DEF RequirePermission
  <2>5. req'[p] = r /\ call'[p] = c
    BY <2>3, <2>4 DEF TypeOK, GatewayTypeOK
  <2>6. r.at = "gate" /\ r.actor = a
    OBVIOUS
  <2>7. InStep(p)'
    BY <2>3, <2>5, <2>6 DEF InStep
  <2> HIDE DEF r
  <2>8. QED
    BY <2>2, <2>3, <2>4, <2>7, OneGoroutineSteps
<1>2. ASSUME NEW p \in Proc, NEW u \in User, PostAuthorize(p, u) PROVE GatewayTypeOK'
  <2>1. PICK c : /\ call' = [call EXCEPT ![p] = c]
                 /\ c.pc \in {"query", "reply"} /\ c.user = u
    BY <1>2, AuthorizeBegins DEF PostAuthorize
  <2>2. req' = [req EXCEPT ![p] = Asking] /\ Asking \in Requests
    BY <1>2 DEF PostAuthorize, Requests
  <2>3. InStep(p)'
    BY <2>1, <2>2 DEF InStep, Asking, TypeOK, GatewayTypeOK
  <2>4. QED
    BY <2>1, <2>2, <2>3, OneGoroutineSteps
<1>3. ASSUME NEW p \in Proc, Queries(p) PROVE GatewayTypeOK'
  <2>. DEFINE r == IF req[p].at = "gate"
                   THEN [req[p] EXCEPT !.good = req[p].need \in PermissionsOf(req[p].actor)]
                   ELSE req[p]
              u == call[p].user
              c == [pc |-> "fill", user |-> u, perms |-> PermissionsOf(u)]
  <2>1. req' = [req EXCEPT ![p] = r] /\ call' = [call EXCEPT ![p] = c]
    BY <1>3 DEF Queries, GetPermissions
  <2>2. req[p] \in Requests /\ InStep(p) /\ call[p].pc = "query"
    BY <1>3 DEF GatewayTypeOK, Queries, GetPermissions
  <2>3. CASE req[p].at = "gate"
    <3>1. req[p] \in [at : {"gate", "open"}, actor : User, need : Needed, good : BOOLEAN]
      BY <2>2, <2>3 DEF Requests, NoRequest, Asking, Running, Own
    <3>2. /\ r = [req[p] EXCEPT !.good = req[p].need \in PermissionsOf(req[p].actor)]
          /\ (req[p].need \in PermissionsOf(req[p].actor)) \in BOOLEAN
      BY <2>3
    <3>3. r \in Requests /\ r.at = "gate" /\ r.actor = req[p].actor
      BY <2>3, <3>1, <3>2 DEF Requests
    <3>4. req'[p] = r /\ call'[p] = c
      BY <2>1 DEF TypeOK, GatewayTypeOK
    <3>5. InStep(p)'
      BY <2>2, <2>3, <3>3, <3>4 DEF InStep
    <3> HIDE DEF r, c
    <3>6. QED
      BY <2>1, <3>3, <3>5, OneGoroutineSteps
  <2>4. CASE req[p].at # "gate"
    <3>1. r = req[p]
      BY <2>4
    <3>2. req'[p] = req[p] /\ call'[p] = c
      BY <2>1, <3>1 DEF TypeOK, GatewayTypeOK
    <3>3. InStep(p)'
      BY <2>2, <2>4, <3>2 DEF InStep, Idle
    <3> HIDE DEF r, c
    <3>4. QED
      BY <2>1, <2>2, <3>1, <3>3, OneGoroutineSteps
  <2>5. QED
    BY <2>3, <2>4
<1>4. ASSUME NEW p \in Proc, Stores(p) PROVE GatewayTypeOK'
  <2>1. PICK c : /\ call' = [call EXCEPT ![p] = c]
                 /\ c.pc = "reply" /\ c.user = call[p].user
    BY <1>4, StoringReplies DEF Stores
  <2>2. req[p] \in Requests /\ InStep(p) /\ call[p].pc = "fill"
    BY <1>4 DEF GatewayTypeOK, Stores, CacheSet, CacheSetFails
  <2>3. req' = [req EXCEPT ![p] = req[p]]
    BY <1>4 DEF Stores, GatewayTypeOK
  <2>4. req'[p] = req[p] /\ call'[p] = c
    BY <2>1, <2>3 DEF TypeOK, GatewayTypeOK
  <2>5. InStep(p)'
    BY <2>1, <2>2, <2>4 DEF InStep, Idle
  <2>6. QED
    BY <2>1, <2>2, <2>3, <2>5, OneGoroutineSteps
<1>5. ASSUME NEW p \in Proc, Returns(p) PROVE GatewayTypeOK'
  <2>. DEFINE opens == req[p].at = "gate" /\ Allowed(call[p].perms, req[p].need)
  <2>1. call' = [call EXCEPT ![p] = Idle]
    BY <1>5 DEF Returns, Respond
  <2>2. CASE opens
    <3>1. req' = [req EXCEPT ![p] = [req[p] EXCEPT !.at = "open"]]
      BY <1>5, <2>2 DEF Returns
    <3>2. req[p] \in [at : {"gate", "open"}, actor : User, need : Needed, good : BOOLEAN]
      BY <2>2 DEF GatewayTypeOK, Requests, NoRequest, Asking, Running, Own
    <3>3. [req[p] EXCEPT !.at = "open"] \in Requests
      BY <3>2 DEF Requests
    <3>4. InStep(p)'
      BY <2>1, <3>1, <3>2 DEF InStep, TypeOK, GatewayTypeOK
    <3>5. QED
      BY <2>1, <3>1, <3>3, <3>4, OneGoroutineSteps
  <2>3. CASE ~opens
    <3>1. req' = [req EXCEPT ![p] = NoRequest]
      BY <1>5, <2>3 DEF Returns
    <3>2. QED
      BY <2>1, <3>1, RequestEnds
  <2>4. QED
    BY <2>2, <2>3
<1>6. ASSUME NEW p \in Proc, PostUserRole(p) \/ DeleteUserRole(p) PROVE GatewayTypeOK'
  <2>1. PICK u \in User : call' = [call EXCEPT ![p] = [pc |-> "invalidate", todo |-> {u}]]
    BY <1>6 DEF PostUserRole, DeleteUserRole, AssignRoleToUser, RemoveRoleFromUser
  <2>2. req' = [req EXCEPT ![p] = Running]
    BY <1>6 DEF PostUserRole, DeleteUserRole, Runs
  <2>. DEFINE c == [pc |-> "invalidate", todo |-> {u}]
  <2>3. call' = [call EXCEPT ![p] = c]
    BY <2>1
  <2>4. c.pc = "fanout" \/ c.pc = "invalidate"
    OBVIOUS
  <2> HIDE DEF c
  <2>5. QED
    BY <2>2, <2>3, <2>4, ServiceRuns
<1>7. ASSUME NEW p \in Proc, PostRolePermission(p) PROVE GatewayTypeOK'
  <2>1. PICK r \in RoleId : call' = [call EXCEPT ![p] = [pc |-> "fanout", role |-> r]]
    BY <1>7 DEF PostRolePermission, AttachPermissionToRole
  <2>2. req' = [req EXCEPT ![p] = Running]
    BY <1>7 DEF PostRolePermission, Runs
  <2>. DEFINE c == [pc |-> "fanout", role |-> r]
  <2>3. call' = [call EXCEPT ![p] = c]
    BY <2>1
  <2>4. c.pc = "fanout" \/ c.pc = "invalidate"
    OBVIOUS
  <2> HIDE DEF c
  <2>5. QED
    BY <2>2, <2>3, <2>4, ServiceRuns
<1>8. ASSUME NEW p \in Proc,
             PostRole(p) \/ DeleteRoleById(p) \/ PostPermission(p) \/ DeletePermissionById(p)
      PROVE  GatewayTypeOK'
  <2>1. call[p] = Idle /\ UNCHANGED call
    BY <1>8 DEF PostRole, DeleteRoleById, PostPermission, DeletePermissionById,
                CreateRole, DeleteRole, CreatePermission, DeletePermission
  <2>2. call' = [call EXCEPT ![p] = Idle]
    BY <2>1 DEF TypeOK
  <2>3. req' = [req EXCEPT ![p] = NoRequest]
    BY <1>8 DEF PostRole, DeleteRoleById, PostPermission, DeletePermissionById, Ends
  <2>4. QED
    BY <2>2, <2>3, RequestEnds
<1>9. ASSUME NEW p \in Proc, ReadsOrFails(p) PROVE GatewayTypeOK'
  <2>1. call[p] = Idle /\ UNCHANGED call
    BY <1>9 DEF ReadsOrFails, GatewayTypeOK, InStep, vars
  <2>2. call' = [call EXCEPT ![p] = Idle]
    BY <2>1 DEF TypeOK
  <2>3. QED
    BY <1>9, <2>2, RequestEnds DEF ReadsOrFails, Ends
<1>10. ASSUME NEW p \in Proc, Invalidates(p) PROVE GatewayTypeOK'
  <2>1. PICK c : call' = [call EXCEPT ![p] = c] /\ (c = Idle \/ c.pc = "invalidate")
    BY <1>10, InvalidatingGoesOn DEF Invalidates
  <2>2. /\ req' = [req EXCEPT ![p] = IF c = Idle THEN NoRequest ELSE req[p]]
        /\ call[p].pc \in {"fanout", "invalidate"}
        /\ req[p] \in Requests
    BY <1>10, <2>1 DEF Invalidates, EndsWithCall, GetUserIDsForRole, Invalidate,
                       InvalidateFails, TypeOK, GatewayTypeOK
  <2>3. CASE c = Idle
    BY <2>1, <2>2, <2>3, RequestEnds
  <2>4. CASE c # Idle
    <3>1. req[p].at \notin {"none", "open", "own", "ask", "gate"}
      BY <2>2 DEF GatewayTypeOK, InStep, Idle
    <3>2. req[p] = Running
      BY <2>2, <3>1 DEF Requests, NoRequest, Asking, Own
    <3>3. req' = [req EXCEPT ![p] = Running]
      BY <2>2, <2>4, <3>2
    <3>4. call' = [call EXCEPT ![p] = c] /\ (c.pc = "fanout" \/ c.pc = "invalidate")
      BY <2>1, <2>4
    <3>5. QED
      BY <3>3, <3>4, ServiceRuns
  <2>5. QED
    BY <2>3, <2>4
<1>11. ASSUME NEW p \in Proc, IsCut(p) PROVE GatewayTypeOK'
  <2>1. call' = [call EXCEPT ![p] = Idle]
    BY <1>11 DEF IsCut, Abandon
  <2>2. req' = [req EXCEPT ![p] = NoRequest]
    BY <1>11 DEF IsCut, Ends
  <2>3. QED
    BY <2>1, <2>2, RequestEnds
<1>12. ASSUME NEW u \in User, Expires(u) PROVE GatewayTypeOK'
  BY <1>12 DEF Expires, ExpirePermissions, ExpireEmpty, GatewayTypeOK, InStep
<1>13. CASE UNCHANGED gatewayVars
  BY <1>13 DEF gatewayVars, vars, GatewayTypeOK, InStep
<1>14. ASSUME NEW p \in Proc, OwnProfile(p) PROVE GatewayTypeOK'
  <2>1. req' = [req EXCEPT ![p] = Own] /\ Own \in Requests
    BY <1>14 DEF OwnProfile, Requests
  <2>2. call' = [call EXCEPT ![p] = call[p]] /\ call[p] = Idle
    BY <1>14 DEF OwnProfile, GatewayTypeOK, TypeOK, InStep, vars, NoRequest
  <2>3. InStep(p)'
    BY <2>1, <2>2 DEF InStep, Own, TypeOK, GatewayTypeOK
  <2>4. QED
    BY <2>1, <2>2, <2>3, OneGoroutineSteps
<1>15. ASSUME NEW u \in User, NEW r \in RoleId, Joins(u, r) PROVE GatewayTypeOK'
  BY <1>15 DEF Joins, SignupAssigns, GatewayTypeOK, InStep
<1>16. QED
  BY <1>1, <1>2, <1>3, <1>4, <1>5, <1>6, <1>7, <1>8, <1>9, <1>10, <1>11, <1>12, <1>13,
     <1>14, <1>15
  DEF GatewayNext, ServeRequest, Change

\* Requests and service calls are well typed and in agreement, for any number
\* of goroutines: a gate asks about its own actor, and no call of the service
\* outlives its request.
\* (RequirePermission and the handlers of internal/rbac.)
THEOREM GatewayTypeCorrect == GatewaySpec => []GatewayTypeOK
<1>1. GatewayInit => TypeOK /\ GatewayTypeOK
  BY InitTypeOK, GatewayInitType DEF GatewayInit
<1>2. TypeOK /\ GatewayTypeOK /\ [GatewayNext]_gatewayVars => (TypeOK /\ GatewayTypeOK)'
  BY NextTypeOK, GatewayStepIsServiceStep, NextGatewayType
<1>3. QED
  BY <1>1, <1>2, PTL DEF GatewaySpec

-----------------------------------------------------------------------------
(* What the gate guarantees *)

\* RevokedIsRefused is not inductive: the gate may be on its way to opening.
\* A gate whose answer contains the name it demands had grounds, and one that
\* has opened did so on a set that its actor once had.
GateOf(p) ==
  /\ req[p].at = "open" =>
       req[p].good /\ req[p].need \in UNION past[req[p].actor]
  /\ req[p].at = "gate" /\ call[p].pc \in {"fill", "reply"}
       /\ req[p].need \in call[p].perms => req[p].good

GateInv == \A p \in Proc : GateOf(p)

\* The history of a user loses nothing in any step.
LEMMA HistoryGrows ==
  ASSUME TypeOK, [Next]_vars
  PROVE  \A u \in User : past[u] \subseteq past'[u]
<1>1. ASSUME Commits PROVE \A u \in User : past[u] \subseteq past'[u]
  BY <1>1, CommitsRecords
<1>2. ASSUME NEW p \in Proc, Serve(p) PROVE Commits \/ UNCHANGED past
  <2>1. CASE Continue(p)
    BY <2>1 DEF Continue, GetPermissions, CacheSet, Respond, GetUserIDsForRole,
                Invalidate, tables
  <2>2. CASE \E u \in User : AuthorizeHit(p, u) \/ AuthorizeMiss(p, u)
    BY <2>2 DEF AuthorizeHit, AuthorizeMiss, tables
  <2>3. CASE \E u \in User, r \in RoleId :
               AssignRoleToUser(p, u, r) \/ RemoveRoleFromUser(p, u, r)
    BY <2>3 DEF AssignRoleToUser, RemoveRoleFromUser
  <2>4. CASE \E r \in RoleId, q \in PermId : AttachPermissionToRole(p, r, q)
    BY <2>4 DEF AttachPermissionToRole
  <2>5. CASE \E r \in RoleId : CreateRole(p, r) \/ DeleteRole(p, r)
    BY <2>5 DEF CreateRole, DeleteRole
  <2>6. CASE \E q \in PermId : CreatePermission(p, q) \/ DeletePermission(p, q)
    BY <2>6 DEF CreatePermission, DeletePermission
  <2>7. QED
    BY <1>2, <2>1, <2>2, <2>3, <2>4, <2>5, <2>6 DEF Serve
<1>3. ASSUME Environment PROVE UNCHANGED past
  BY <1>3 DEF Environment, ExpirePermissions, ExpireEmpty, InvalidateFails,
              CacheSetFails, Abandon, tables
<1>4. CASE UNCHANGED vars
  BY <1>4 DEF vars, tables
<1>5. ASSUME NEW u \in User, NEW r \in RoleId, SignupAssigns(u, r) PROVE Commits
  BY <1>5 DEF SignupAssigns
<1>6. QED
  BY <1>1, <1>2, <1>3, <1>4, <1>5 DEF Next

\* A goroutine that leaves its request and its call alone is no worse off for
\* a longer history.
LEMMA GateKeeps ==
  ASSUME TypeOK, GatewayTypeOK, [Next]_vars, NEW p \in Proc, GateOf(p),
         req'[p] = req[p], call'[p] = call[p]
  PROVE  GateOf(p)'
<1>1. ASSUME req[p].at = "open" PROVE req[p].need \in UNION past'[req[p].actor]
  <2>1. req[p].actor \in User /\ req[p].need \in UNION past[req[p].actor]
    BY <1>1 DEF GateOf, GatewayTypeOK, Requests, NoRequest, Asking, Running, Own
  <2>2. QED
    BY <2>1, HistoryGrows
<1>2. QED
  BY <1>1 DEF GateOf

\* A step of a goroutine leaves the requests and calls of the others alone.
LEMMA OthersStay ==
  ASSUME TypeOK, GatewayTypeOK, NEW p \in Proc, ServeRequest(p), NEW o \in Proc, o # p
  PROVE  req'[o] = req[o] /\ call'[o] = call[o]
<1> USE DEF TypeOK, GatewayTypeOK
<1>1. ASSUME NEW a \in User, NEW n \in Needed, RequirePermission(p, a, n)
      PROVE  req'[o] = req[o] /\ call'[o] = call[o]
  BY <1>1, AuthorizeBegins DEF RequirePermission
<1>2. ASSUME NEW u \in User, PostAuthorize(p, u)
      PROVE  req'[o] = req[o] /\ call'[o] = call[o]
  BY <1>2, AuthorizeBegins DEF PostAuthorize
<1>3. CASE Queries(p)
  BY <1>3 DEF Queries, GetPermissions
<1>4. CASE Stores(p)
  BY <1>4, StoringReplies DEF Stores
<1>5. CASE Returns(p)
  BY <1>5 DEF Returns, Respond
<1>6. CASE Change(p)
  BY <1>6 DEF Change, PostUserRole, DeleteUserRole, PostRolePermission, PostRole,
     DeleteRoleById, PostPermission, DeletePermissionById, AssignRoleToUser,
     RemoveRoleFromUser, AttachPermissionToRole, CreateRole, DeleteRole,
     CreatePermission, DeletePermission, Runs, Ends
<1>7. CASE ReadsOrFails(p) \/ OwnProfile(p)
  BY <1>7 DEF ReadsOrFails, OwnProfile, Ends, vars
<1>8. CASE Invalidates(p)
  BY <1>8, InvalidatingGoesOn DEF Invalidates, EndsWithCall
<1>9. CASE IsCut(p)
  BY <1>9 DEF IsCut, Abandon, Ends
<1>10. QED
  BY <1>1, <1>2, <1>3, <1>4, <1>5, <1>6, <1>7, <1>8, <1>9 DEF ServeRequest

\* A gate that is answered from the cache has grounds: an entry that contains
\* more than Postgres would say is out of date for a known cause.
LEMMA HitHasGrounds ==
  ASSUME StalenessExplained, NEW a \in User, NEW n, n \in cache[a]
  PROVE  Grounds(a, n)
<1>1. CASE cache[a] = PermissionsOf(a)
  BY <1>1 DEF Grounds
<1>2. CASE cache[a] # PermissionsOf(a)
  BY <1>2 DEF Grounds, StalenessExplained, Stale
<1>3. QED
  BY <1>1, <1>2

\* The step of a goroutine keeps the invariant for that goroutine.
LEMMA GateStep ==
  ASSUME TypeOK, GatewayTypeOK, StalenessExplained, AnswersOnceTrue, GateInv,
         NEW p \in Proc, ServeRequest(p)
  PROVE  GateOf(p)'
<1>1. ASSUME NEW a \in User, NEW n \in Needed, RequirePermission(p, a, n)
      PROVE  GateOf(p)'
  <2>. DEFINE r == [at |-> "gate", actor |-> a, need |-> n, good |-> Grounds(a, n)]
  <2>1. req'[p] = r
    BY <1>1 DEF RequirePermission, GatewayTypeOK
  <2>2. r.at = "gate" /\ r.need = n /\ (r.good <=> Grounds(a, n))
    OBVIOUS
  <2>3. CASE AuthorizeHit(p, a)
    <3>1. call'[p].perms = cache[a]
      BY <2>3 DEF AuthorizeHit, TypeOK
    <3>2. n \in cache[a] => Grounds(a, n)
      BY HitHasGrounds
    <3> HIDE DEF r
    <3>3. QED
      BY <2>1, <2>2, <3>1, <3>2 DEF GateOf
  <2>4. CASE AuthorizeMiss(p, a)
    <3>1. call'[p].pc = "query"
      BY <2>4 DEF AuthorizeMiss, TypeOK
    <3> HIDE DEF r
    <3>2. QED
      BY <2>1, <2>2, <3>1 DEF GateOf
  <2>5. QED
    BY <1>1, <2>3, <2>4 DEF RequirePermission
<1>2. ASSUME NEW u \in User, PostAuthorize(p, u) PROVE GateOf(p)'
  BY <1>2 DEF PostAuthorize, GatewayTypeOK, GateOf, Asking
<1>3. CASE Queries(p)
  <2>1. call[p].pc = "query" /\ InStep(p) /\ req[p] \in Requests
    BY <1>3 DEF Queries, GetPermissions, GatewayTypeOK
  <2>2. call'[p].perms = PermissionsOf(call[p].user)
    BY <1>3 DEF Queries, GetPermissions, TypeOK
  <2>3. CASE req[p].at = "gate"
    <3>1. req[p] \in [at : {"gate", "open"}, actor : User, need : Needed, good : BOOLEAN]
      BY <2>1, <2>3 DEF Requests, NoRequest, Asking, Running, Own
    <3>2. req'[p] = [req[p] EXCEPT !.good = req[p].need \in PermissionsOf(req[p].actor)]
      BY <1>3, <2>3 DEF Queries, GatewayTypeOK
    <3>3. /\ req'[p].at = "gate" /\ req'[p].need = req[p].need
          /\ req'[p].good <=> req[p].need \in PermissionsOf(req[p].actor)
      BY <2>3, <3>1, <3>2
    <3>4. call[p].user = req[p].actor
      BY <2>1, <2>3 DEF InStep
    <3>5. QED
      BY <2>2, <3>3, <3>4 DEF GateOf
  <2>4. CASE req[p].at # "gate"
    <3>1. req'[p] = req[p]
      BY <1>3, <2>4 DEF Queries, GatewayTypeOK
    <3>2. req[p].at # "open"
      BY <2>1 DEF InStep, Idle
    <3>3. QED
      BY <2>4, <3>1, <3>2 DEF GateOf
  <2>5. QED
    BY <2>3, <2>4
<1>4. CASE Stores(p)
  <2>1. call[p].pc = "fill" /\ InStep(p) /\ req'[p] = req[p]
    BY <1>4 DEF Stores, CacheSet, CacheSetFails, GatewayTypeOK
  <2>2. call'[p].perms = call[p].perms
    BY <1>4 DEF Stores, CacheSet, CacheSetFails, TypeOK
  <2>3. req[p].at # "open"
    BY <2>1 DEF InStep, Idle
  <2>4. QED
    BY <2>1, <2>2, <2>3 DEF GateInv, GateOf
<1>5. CASE Returns(p)
  <2>1. call[p].pc = "reply" /\ UNCHANGED past
    BY <1>5 DEF Returns, Respond, tables
  <2>2. CASE req[p].at = "gate" /\ Allowed(call[p].perms, req[p].need)
    <3>1. req[p] \in [at : {"gate", "open"}, actor : User, need : Needed, good : BOOLEAN]
      BY <2>2 DEF GatewayTypeOK, Requests, NoRequest, Asking, Running, Own
    <3>2. req'[p] = [req[p] EXCEPT !.at = "open"]
      BY <1>5, <2>2 DEF Returns, GatewayTypeOK
    <3>3. /\ req'[p].at = "open" /\ req'[p].need = req[p].need
          /\ req'[p].actor = req[p].actor /\ req'[p].good = req[p].good
      BY <3>1, <3>2
    <3>4. req[p].good
      BY <2>1, <2>2 DEF GateInv, GateOf, Allowed
    <3>5. call[p].perms \in past[req[p].actor]
      BY <2>1, <2>2 DEF AnswersOnceTrue, GatewayTypeOK, InStep
    <3>6. req[p].need \in UNION past[req[p].actor]
      BY <2>2, <3>5 DEF Allowed
    <3>7. QED
      BY <2>1, <3>3, <3>4, <3>6 DEF GateOf
  <2>3. CASE ~(req[p].at = "gate" /\ Allowed(call[p].perms, req[p].need))
    BY <1>5, <2>3 DEF Returns, GatewayTypeOK, GateOf, NoRequest
  <2>4. QED
    BY <2>2, <2>3
<1>6. CASE Change(p) \/ OwnProfile(p) \/ ReadsOrFails(p) \/ IsCut(p)
  <2>1. req'[p] \in {Running, NoRequest, Own}
    BY <1>6 DEF Change, PostUserRole, DeleteUserRole, PostRolePermission, PostRole,
       DeleteRoleById, PostPermission, DeletePermissionById, OwnProfile, ReadsOrFails,
       IsCut, Runs, Ends, GatewayTypeOK
  <2>2. QED
    BY <2>1 DEF GateOf, Running, NoRequest, Own
<1>7. CASE Invalidates(p)
  <2>1. call[p].pc \in {"fanout", "invalidate"} /\ InStep(p)
    BY <1>7 DEF Invalidates, GetUserIDsForRole, Invalidate, InvalidateFails, GatewayTypeOK
  <2>2. req[p].at \notin {"open", "gate"}
    BY <2>1 DEF InStep, Idle
  <2>3. req'[p] \in {NoRequest, req[p]}
    BY <1>7 DEF Invalidates, EndsWithCall, GatewayTypeOK
  <2>4. QED
    BY <2>2, <2>3 DEF GateOf, NoRequest
<1>8. QED
  BY <1>1, <1>2, <1>3, <1>4, <1>5, <1>6, <1>7 DEF ServeRequest

\* Every step keeps the invariant of the gates.
LEMMA NextGateInv ==
  ASSUME TypeOK, GatewayTypeOK, StalenessExplained, AnswersOnceTrue, GateInv,
         [GatewayNext]_gatewayVars
  PROVE  GateInv'
<1>1. [Next]_vars
  BY GatewayStepIsServiceStep
<1>2. ASSUME NEW p \in Proc, ServeRequest(p), NEW o \in Proc PROVE GateOf(o)'
  <2>1. CASE o = p
    BY <1>2, <2>1, GateStep
  <2>2. CASE o # p
    BY <1>1, <1>2, <2>2, OthersStay, GateKeeps DEF GateInv
  <2>3. QED
    BY <2>1, <2>2
<1>3. ASSUME NEW u \in User, Expires(u), NEW o \in Proc PROVE GateOf(o)'
  <2>1. UNCHANGED <<req, call>>
    BY <1>3 DEF Expires, ExpirePermissions, ExpireEmpty
  <2>2. QED
    BY <1>1, <2>1, GateKeeps DEF GateInv
<1>4. ASSUME UNCHANGED gatewayVars, NEW o \in Proc PROVE GateOf(o)'
  <2>1. UNCHANGED <<req, call>>
    BY <1>4 DEF gatewayVars, vars
  <2>2. QED
    BY <1>1, <2>1, GateKeeps DEF GateInv
<1>5. ASSUME NEW u \in User, NEW r \in RoleId, Joins(u, r), NEW o \in Proc PROVE GateOf(o)'
  <2>1. UNCHANGED <<req, call>>
    BY <1>5 DEF Joins, SignupAssigns
  <2>2. QED
    BY <1>1, <2>1, GateKeeps DEF GateInv
<1>6. QED
  BY <1>2, <1>3, <1>4, <1>5 DEF GatewayNext, GateInv

\* All that the two guarantees need, in every reachable state.
LEMMA GatewayInvariant ==
  GatewaySpec => [](TypeOK /\ GatewayTypeOK /\ StalenessExplained /\ AnswersOnceTrue /\ GateInv)
<1>1. GatewayInit => GateInv
  <2>1. GatewayInit => \A p \in Proc : req[p].at = "none"
    BY DEF GatewayInit, NoRequest
  <2>2. QED
    BY <2>1 DEF GateInv, GateOf
<1>2. GatewaySpec => [](TypeOK /\ StalenessExplained /\ AnswersOnceTrue)
  BY GatewayImplementsService, TypeCorrect, StalenessIsExplained, AnswersWereOnceTrue, PTL
<1>3. (TypeOK /\ GatewayTypeOK /\ StalenessExplained /\ AnswersOnceTrue /\ GateInv)
        /\ [GatewayNext]_gatewayVars => GateInv'
  BY NextGateInv
<1>4. QED
  BY <1>1, <1>2, <1>3, GatewayTypeCorrect, PTL DEF GatewaySpec

\* For any number of users and requests, and whatever fails: a gate opens only
\* to an actor who had the permission when it drew its answer, or whose cache
\* entry was then out of date for a known cause.
\* (RequirePermission over Service.Authorize.)
THEOREM RevocationsShutTheGate == GatewaySpec => []RevokedIsRefused
<1>1. GateInv => RevokedIsRefused
  BY DEF GateInv, GateOf, RevokedIsRefused
<1>2. QED
  BY <1>1, GatewayInvariant, PTL

\* For any number of users and requests, and whatever fails: nobody changes
\* roles, permissions or who has them without having had "assign_role", but
\* for the default role that a Signup gives its user, once.
\* (The gate "manage" of Handler.RegisterRoutes and the handlers behind it.)
THEOREM OnlyTheAllowedChange == GatewaySpec => ChangesByTheAllowed
<1>. DEFINE Changed == <<roles, perms, userRoles, rolePerms>>'
                         # <<roles, perms, userRoles, rolePerms>>
<1>1. ASSUME NEW p \in Proc, ServeRequest(p), Changed PROVE Managing(p)
  <2>1. CASE \E u \in User : (\E n \in Needed : RequirePermission(p, u, n)) \/ PostAuthorize(p, u)
    BY <1>1, <2>1 DEF RequirePermission, PostAuthorize, AuthorizeHit, AuthorizeMiss, tables
  <2>2. CASE Queries(p) \/ Stores(p) \/ Returns(p)
    BY <1>1, <2>2 DEF Queries, Stores, Returns, GetPermissions, CacheSet, CacheSetFails,
                      Respond, tables
  <2>3. CASE Change(p)
    BY <2>3 DEF Change, PostUserRole, DeleteUserRole, PostRolePermission, PostRole,
                DeleteRoleById, PostPermission, DeletePermissionById
  <2>4. CASE ReadsOrFails(p) \/ OwnProfile(p)
    BY <1>1, <2>4 DEF ReadsOrFails, OwnProfile, vars, tables
  <2>5. CASE Invalidates(p) \/ IsCut(p)
    BY <1>1, <2>5 DEF Invalidates, GetUserIDsForRole, Invalidate, InvalidateFails,
                      IsCut, Abandon, tables
  <2>6. QED
    BY <1>1, <2>1, <2>2, <2>3, <2>4, <2>5 DEF ServeRequest
<1>2. ASSUME NEW u \in User, Expires(u) PROVE ~Changed
  BY <1>2 DEF Expires, ExpirePermissions, ExpireEmpty, tables
<1>3. UNCHANGED gatewayVars => ~Changed
  BY DEF gatewayVars, vars, tables
<1>4. ASSUME GateInv, NEW p \in Proc, Managing(p) PROVE ChangedByTheAllowed
  BY <1>4 DEF GateInv, GateOf, Managing, ChangedByTheAllowed
<1>5. ~Changed => ChangedByTheAllowed
  BY DEF ChangedByTheAllowed
<1>6. ASSUME NEW u \in User, NEW r \in RoleId, Joins(u, r) PROVE ChangedByTheAllowed
  <2>1. UNCHANGED <<roles, perms, rolePerms>> /\ userRoles' = userRoles \cup {<<u, r>>}
    BY <1>6 DEF Joins, SignupAssigns, WithRow
  <2>2. u \in joining \ joining' /\ NameOf[r] = DefaultRole
    BY <1>6 DEF Joins, SignupAssigns
  <2>3. QED
    BY <2>1, <2>2 DEF ChangedByTheAllowed, OnlyDefaultRoles
<1>7. GateInv /\ [GatewayNext]_gatewayVars => [ChangedByTheAllowed]_gatewayVars
  BY <1>1, <1>2, <1>3, <1>4, <1>5, <1>6 DEF GatewayNext
<1>8. QED
  BY <1>7, GatewayInvariant, PTL DEF GatewaySpec, ChangesByTheAllowed
=============================================================================
