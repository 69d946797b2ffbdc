SPECIFICATION Spec
CONSTANTS
  t1 = t1
  t2 = t2
  c1 = c1
  c2 = c2
  loop = loop
  none = none
  Task = {t1}
  Client = {c1}
  Loop = loop
  NoTask = none
  Script <- NoStage
  Endless = {}
  MaxRestarts = 0
  MaxFaults = 0
INVARIANT EndMeansTerminal
CHECK_DEADLOCK FALSE
