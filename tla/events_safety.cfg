SPECIFICATION Spec
CONSTANTS
  s1 = s1  s2 = s2
  Server = {s1, s2}
  Event = {2}
  Notifies <- MCNotifies
  BatchSize = 2
  MaxRetries = 1
  FaultKinds = {"insert", "update", "crash", "boot", "disconnect", "broker"}
  MaxFaults = 3
SYMMETRY ServerSymmetry
INVARIANTS
  TypeOK
  Accounted
PROPERTIES
  ImplementsAuditTrail
CHECK_DEADLOCK FALSE
