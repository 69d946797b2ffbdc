SPECIFICATION Spec
CONSTANTS
  th1 = th1
  th2 = th2
  p1 = p1
  p2 = p2
  Thread = {th1, th2}
  Path = {p1, p2}
  MaxSize = 1
  MaxOpens = 4
  MaxCaches = 2
  MaxReplaced = 1
SYMMETRY Sym
INVARIANTS
  TypeOK
  NeverClosedInUse
  BoundedAndUnique
  NothingLeaks
  ServesValid
CHECK_DEADLOCK FALSE
