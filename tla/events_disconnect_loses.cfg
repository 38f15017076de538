SPECIFICATION Spec
CONSTANTS
  s1 = s1  s2 = s2
  Server = {s1}
  Event = {1}
  Notifies <- MCNotifies
  BatchSize = 2
  MaxRetries = 3
  FaultKinds = {"disconnect"}
  MaxFaults = 1
INVARIANTS
  NeverLost
CHECK_DEADLOCK FALSE
