SPECIFICATION GatewaySpec
CONSTANTS
  u1 = u1  u2 = u2
  r1 = r1  r2 = r2  r3 = r3
  q1 = q1  q2 = q2  q3 = q3
  p1 = p1  p2 = p2
  User = {u1, u2}
  RoleId = {r1, r2, r3}
  PermId = {q1, q2, q3}
  Proc = {p1, p2}
  Name <- MCName
  NameOf <- MCNameOf
  InitRoles <- MCRoles
  InitPerms <- MCPerms
  InitUserRoles <- MCUserRoles
  InitRolePerms <- MCRolePerms
  InitJoining = {u2}
  DefaultRole = "dev"
  MaxWrites = 2
  Faults = TRUE
  Deletes = TRUE
  Manage = "assign"
  Needed = {"assign", "view"}
INVARIANTS
  GatewayTypeOK
  RevokedIsRefused
PROPERTIES
  ChangesByTheAllowed
SYMMETRY ProcSymmetry
