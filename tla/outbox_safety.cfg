SPECIFICATION Spec
CONSTANTS
  x1 = x1  x2 = x2
  p1 = p1  p2 = p2  p3 = p3
  Proc = {p1, p2, p3}
  Row = {x1, x2}
  InitRows = {x1}
  MaxEvents = 4
SYMMETRY Symmetry
INVARIANTS
  ChangesReplay
CHECK_DEADLOCK FALSE
