SPECIFICATION Spec
CONSTANTS
  t1 = t1  t2 = t2  t3 = t3  t4 = t4
  p1 = p1  p2 = p2
  Proc = {p1, p2}
  Pair = {t1, t2, t3}
  AccessTTL = 1
  RefreshTTL = 2
  MaxTime = 3
  Faults = TRUE
SYMMETRY Symmetry
INVARIANTS
  TypeOK
  SignedOutStaysOut
  
  OneLivePerLogin
  LogoutEndsLogin
