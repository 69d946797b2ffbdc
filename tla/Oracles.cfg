SPECIFICATION Spec
CONSTANTS
  o1 = o1
  o2 = o2
  r1 = r1
  r2 = r2
  r3 = r3
  good = good
  bad = bad
  None = None
  Oracle = {o1}
  Request = {r1, r2}
  Config = {good, bad}
  Loads = {good}
  MaxEntries = 2
SYMMETRY Sym
CHECK_DEADLOCK FALSE
INVARIANTS
  TypeOK
  ArmedInThisProcess
  
  
  
  
