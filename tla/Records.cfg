SPECIFICATION Spec
CONSTANTS
  w1 = w1
  w2 = w2
  w3 = w3
  p1 = p1
  p2 = p2
  i1 = i1
  i2 = i2
  i3 = i3
  None = None
  Capture = {1, 2}
  Id = {i1, i2, i3}
  Invalid = 0
  Writer = {w1, w2, w3}
  ProcessOf <- MCProcessOf
  Batches <- MCBatches
CHECK_DEADLOCK FALSE
INVARIANTS
  TypeOK
  RecordSound
PROPERTIES
  AppendsEnd
