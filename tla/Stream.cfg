SPECIFICATION FairSpec
CONSTANTS
  a = a
  b = b
  none = none
  Conn = {a, b}
  NoConn = none
  RingSize = 2
  QueueSize = 1
  MaxSeq = 3
  MaxDrops = 1
  MayRestart = TRUE
INVARIANTS
  TypeOK
  InOrderOnce
  
PROPERTIES
  
  CloseReleases
CHECK_DEADLOCK FALSE
