SPECIFICATION Spec
CONSTANTS
  s1 = s1  s2 = s2
  Server = {s1, s2}
  Event = {1}
  Notifies <- MCNotifies
  BatchSize = 2
  MaxRetries = 3
  FaultKinds = {}
  MaxFaults = 0
INVARIANTS
  OneRowPerEvent
CHECK_DEADLOCK FALSE
