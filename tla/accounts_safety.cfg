SPECIFICATION Spec
CONSTANTS
  p1 = p1  p2 = p2  p3 = p3
  u1 = u1  u2 = u2
  r1 = r1  r2 = r2
  Proc = {p1, p2, p3}
  Client = {"c1"}
  Limit = 2
  Window = 2
  MaxTime = 2
  UserId = {u1, u2}
  RoleId = {r1, r2}
  Seeded = r1
  Email = {"e1"}
  Faults = TRUE
SYMMETRY Symmetry
INVARIANTS
  TypeOK
  AtMostLimit
  OrphansExplained
  OneAccountPerEmail
  
  StaysOff
