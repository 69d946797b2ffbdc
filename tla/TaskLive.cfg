SPECIFICATION FairSpec
CONSTANTS
  t1 = t1
  t2 = t2
  c1 = c1
  c2 = c2
  loop = loop
  none = none
  Task = {t1, t2}
  Client = {c1}
  Loop = loop
  NoTask = none
  Script <- NoStage
  Endless = {t1}
  MaxRestarts = 0
  MaxFaults = 0
PROPERTIES
  TaskEnds
  EndIsAnnounced
  CancelFreesGate
CHECK_DEADLOCK FALSE
