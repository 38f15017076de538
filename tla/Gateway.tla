------------------------------ MODULE Gateway ------------------------------
(***************************************************************************)
(* The protected routes in front of RBACService: RequirePermission         *)
(* (internal/middleware/rbac_check.go) and the handlers of                 *)
(* internal/rbac/handler.go.                                               *)
(*                                                                         *)
(* A request of a signed-in user (the actor) goes through its gate, which  *)
(* calls Authorize for the actor, and then, if the gate opens, calls the   *)
(* service.  The gate is a call of RBACService like any other: it reads    *)
(* the cache or fills it, and it is over before the handler begins, so     *)
(* that anything may happen in between.  Every action here is one of       *)
(* RBACService's, with what the request does on top.  POST /authorize has  *)
(* no gate: any signed-in user may ask about anybody.                      *)
(***************************************************************************)
EXTENDS RBACService

CONSTANTS
  Manage,     \* "assign_role", the gate of all changes
  Needed      \* the names that some route demands

ASSUME GatewayAssumption == Manage \in Needed /\ Needed \subseteq Name

VARIABLE req  \* req[p]: the request that goroutine p is serving

gatewayVars == <<vars, req>>

-----------------------------------------------------------------------------

NoRequest == [at |-> "none"]
Asking    == [at |-> "ask"]      \* in POST /authorize
Running   == [at |-> "run"]      \* the service has committed its change
Own       == [at |-> "own"]      \* a user with his own profile

\* At the gate, or past it and not yet in the service.  good is history: the
\* gate had grounds to open when it drew its answer.
Requests ==
  {NoRequest, Asking, Running, Own}
    \cup [at : {"gate", "open"}, actor : User, need : Needed, good : BOOLEAN]

\* What p is doing for a request in each of its stages.
InStep(p) ==
  /\ req[p].at \in {"none", "open", "own"} => call[p] = Idle
  /\ req[p].at \in {"ask", "gate"} => call[p].pc \in {"query", "fill", "reply"}
  /\ req[p].at = "gate" => call[p].user = req[p].actor
  /\ req[p].at = "run"  => call[p].pc \in {"fanout", "invalidate"}

\* The types, and that the request and the service call inside it agree: the
\* gate asks about the actor and nobody else, and no call outlives its request.
GatewayTypeOK ==
  /\ req \in [Proc -> Requests]
  /\ \A p \in Proc : InStep(p)

GatewayInit == Init /\ req = [p \in Proc |-> NoRequest]

-----------------------------------------------------------------------------
(* The gate *)

\* Postgres says that a has permission n, or the cache entry of a is out of
\* date for a known cause.
Grounds(a, n) == n \in PermissionsOf(a) \/ Explained(a)

\* JWTAuth has let the request of a in; the gate calls Authorize for a.
RequirePermission(p, a, n) ==
  /\ req[p] = NoRequest
  /\ AuthorizeHit(p, a) \/ AuthorizeMiss(p, a)
  /\ req' = [req EXCEPT ![p] =
               [at |-> "gate", actor |-> a, need |-> n, good |-> Grounds(a, n)]]

\* POST /authorize, about any user.
PostAuthorize(p, u) ==
  /\ req[p] = NoRequest
  /\ AuthorizeHit(p, u) \/ AuthorizeMiss(p, u)
  /\ req' = [req EXCEPT ![p] = Asking]

\* Authorize asks Postgres.
Queries(p) ==
  /\ GetPermissions(p)
  /\ req' = [req EXCEPT ![p] =
               IF req[p].at = "gate"
               THEN [req[p] EXCEPT !.good = req[p].need \in PermissionsOf(req[p].actor)]
               ELSE req[p]]

\* Authorize stores what Postgres said, or fails to.
Stores(p) ==
  /\ CacheSet(p) \/ CacheSetFails(p)
  /\ UNCHANGED req

\* Is the name the gate demands in the set that Authorize answers from?
\* (Seeded fault: any permission will do.)
HasSome(names, n) == names # {}
Allowed(names, n) == n \in names

\* Authorize returns: c.Next(), or 403; or the answer of POST /authorize.
Returns(p) ==
  /\ Respond(p)
  /\ req' = [req EXCEPT ![p] =
               IF req[p].at = "gate" /\ Allowed(call[p].perms, req[p].need)
               THEN [req[p] EXCEPT !.at = "open"] ELSE NoRequest]

-----------------------------------------------------------------------------
(* The handlers behind the gate *)

Managing(p) == req[p].at = "open" /\ req[p].need = Manage

\* The service goes on after its commit, or has returned.
Runs(p)  == req' = [req EXCEPT ![p] = Running]
Ends(p)  == req' = [req EXCEPT ![p] = NoRequest]

PostUserRole(p) ==
  /\ Managing(p)
  /\ \E u \in User, r \in RoleId : AssignRoleToUser(p, u, r)
  /\ Runs(p)

DeleteUserRole(p) ==
  /\ Managing(p)
  /\ \E u \in User, r \in RoleId : RemoveRoleFromUser(p, u, r)
  /\ Runs(p)

PostRolePermission(p) ==
  /\ Managing(p)
  /\ \E r \in RoleId, q \in PermId : AttachPermissionToRole(p, r, q)
  /\ Runs(p)

PostRole(p) == Managing(p) /\ (\E r \in RoleId : CreateRole(p, r)) /\ Ends(p)

DeleteRoleById(p) ==
  Managing(p) /\ (\E r \in RoleId : DeleteRole(p, r)) /\ Ends(p)

PostPermission(p) ==
  Managing(p) /\ (\E q \in PermId : CreatePermission(p, q)) /\ Ends(p)

DeletePermissionById(p) ==
  Managing(p) /\ (\E q \in PermId : DeletePermission(p, q)) /\ Ends(p)

\* The rule of internal/user, self or permission: who is after his own profile
\* needs no permission.  For others' there is the gate, with "view_profile" or
\* "create_user", as there is for the list of users.
OwnProfile(p) ==
  /\ req[p] = NoRequest
  /\ req' = [req EXCEPT ![p] = Own]
  /\ UNCHANGED vars

\* A handler that changes none of these tables (the profiles are the subject of
\* module Accounts), or one that fails before it has changed a thing.
ReadsOrFails(p) ==
  /\ req[p].at \in {"open", "own"}
  /\ Ends(p)
  /\ UNCHANGED vars

\* The request ends with the last step of its service call.
\* (Seeded fault: the handler never comes to its end.)
NeverEnds(p) == UNCHANGED req
EndsWithCall(p) ==
  req' = [req EXCEPT ![p] = IF call'[p] = Idle THEN NoRequest ELSE req[p]]

\* The service call goes on to its invalidations.
Invalidates(p) ==
  /\ \/ GetUserIDsForRole(p)
     \/ \E u \in User : Invalidate(p, u) \/ InvalidateFails(p, u)
  /\ EndsWithCall(p)

\* The request is cut short, in the gate or in the service.
IsCut(p) == Abandon(p) /\ Ends(p)

-----------------------------------------------------------------------------

Change(p) ==
  \/ PostUserRole(p) \/ DeleteUserRole(p) \/ PostRolePermission(p)
  \/ PostRole(p) \/ DeleteRoleById(p)
  \/ PostPermission(p) \/ DeletePermissionById(p)

ServeRequest(p) ==
  \/ \E a \in User, n \in Needed : RequirePermission(p, a, n)
  \/ \E u \in User : PostAuthorize(p, u)
  \/ Queries(p) \/ Stores(p) \/ Returns(p)
  \/ Change(p) \/ OwnProfile(p) \/ ReadsOrFails(p)
  \/ Invalidates(p) \/ IsCut(p)

Expires(u) == (ExpirePermissions(u) \/ ExpireEmpty(u)) /\ UNCHANGED req

\* Signup has no gate either.
Joins(u, r) == SignupAssigns(u, r) /\ UNCHANGED req

GatewayNext ==
  \/ \E p \in Proc : ServeRequest(p)
  \/ \E u \in User : Expires(u) \/ \E r \in RoleId : Joins(u, r)

GatewaySpec == GatewayInit /\ [][GatewayNext]_gatewayVars

-----------------------------------------------------------------------------
(* What the gate guarantees *)

\* A gate that opens had a reason in the course of this very request: when it
\* drew its answer its actor had the permission in Postgres, or the cached set
\* of the actor was out of date for one of the causes of StalenessExplained.
\* So a revocation whose DEL was not lost or overtaken shuts the gate at once,
\* whatever tokens, requests and cache entries were about before.
\* (RequirePermission over Service.Authorize.)
RevokedIsRefused == \A p \in Proc : req[p].at = "open" => req[p].good

\* New users get a role of the default name, once each; nothing else changes.
OnlyDefaultRoles ==
  /\ UNCHANGED <<roles, perms, rolePerms>>
  /\ \A t \in userRoles' \ userRoles :
       t[1] \in joining \ joining' /\ NameOf[t[2]] = DefaultRole
  /\ userRoles \subseteq userRoles'

\* A step that changes who may do what is one of a request whose actor had
\* the permission to change it, now or at some moment before, or of a Signup.
ChangedByTheAllowed ==
  <<roles, perms, userRoles, rolePerms>>' # <<roles, perms, userRoles, rolePerms>>
    => \/ \E p \in Proc : /\ Managing(p)
                          /\ Manage \in UNION past[req[p].actor]
       \/ OnlyDefaultRoles

\* Nobody comes by a role or a permission along any path of requests, races and
\* faults without a grant by somebody who could make it, but for the default
\* role at signup: the cache, its stale entries included, never lets in an
\* actor who has not had "assign_role".
\* (The gate "manage" of Handler.RegisterRoutes and the handlers behind it.)
ChangesByTheAllowed == [][ChangedByTheAllowed]_gatewayVars
=============================================================================
