SPECIFICATION FairSpec
CONSTANTS
  s1 = s1  s2 = s2
  Server = {s1}
  Event = {1}
  Notifies <- MCNotifies
  BatchSize = 2
  MaxRetries = 1
  FaultKinds = {"insert", "update", "crash"}
  MaxFaults = 2
INVARIANTS
  
  NotificationsBounded
PROPERTIES
  EventuallySettled
CHECK_DEADLOCK FALSE
