SPECIFICATION Spec
CONSTANTS
  t1 = t1
  t2 = t2
  c1 = c1
  c2 = c2
  loop = loop
  none = none
  Task = {t1}
  Client = {c1, c2}
  Loop = loop
  NoTask = none
  Script <- OneStage
  Endless = {}
  MaxRestarts = 1
  MaxFaults = 1
INVARIANTS
  DurableWhenQuiet
  AnnouncedIsRecorded
PROPERTIES
  ImplementsLifecycle
  CancelWins
CHECK_DEADLOCK FALSE
