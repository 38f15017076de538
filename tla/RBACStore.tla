----------------------------- MODULE RBACStore -----------------------------
(***************************************************************************)
(* The RBAC tables of migrations/0001_init.up.sql and the queries that the *)
(* repositories of internal/repository/postgres run on them, as operators  *)
(* on table values.  A table is the set of its rows: user_roles is a set   *)
(* of <<user, role>> pairs and role_permissions a set of                   *)
(* <<role, permission>> pairs.  Rows are identified by UUIDs that are      *)
(* never reused, while the UNIQUE name of a deleted row may be taken again *)
(* by a new one; the permission cache stores names, so both are kept.      *)
(***************************************************************************)
CONSTANTS
  User,      \* ids of the rows of users (no operation of the API deletes one)
  RoleId,    \* ids that rows of roles can be given
  PermId,    \* ids that rows of permissions can be given
  Name,      \* the names of roles and permissions
  NameOf     \* NameOf[i] is the name in the row with id i

ASSUME NameOfAssumption == NameOf \in [RoleId \cup PermId -> Name]

\* UserRepository.GetPermissions: the names of the permissions that user u
\* reaches by joining user_roles (ur) with role_permissions (rp).
PermissionsIn(ur, rp, u) ==
  {n \in Name : \E r \in RoleId, q \in PermId :
                  <<u, r>> \in ur /\ <<r, q>> \in rp /\ NameOf[q] = n}

\* RoleRepository.GetUserIDsForRole: the users that hold role r.
HoldersIn(ur, r) == {u \in User : <<u, r>> \in ur}

\* The users that reach permission q through some role.
ReachersIn(ur, rp, q) ==
  {u \in User : \E r \in RoleId : <<u, r>> \in ur /\ <<r, q>> \in rp}

\* INSERT ... ON CONFLICT DO NOTHING of a pair, and DELETE of one: the table
\* rows of UserRepository.AssignRole and RemoveRole and of
\* RoleRepository.AttachPermission.
WithRow(rows, a, b) == rows \cup {<<a, b>>}
WithoutRow(rows, a, b) == rows \ {<<a, b>>}

\* ON DELETE CASCADE on user_roles.role_id and role_permissions.role_id ...
WithoutRoleUR(ur, r) == {t \in ur : t[2] # r}
\* (Seeded fault: the foreign key of role_permissions does not cascade.)
UncascadedRP(rp, r) == rp
WithoutRoleRP(rp, r) == {t \in rp : t[1] # r}

\* ... and on role_permissions.permission_id.
WithoutPermRP(rp, q) == {t \in rp : t[2] # q}
=============================================================================
