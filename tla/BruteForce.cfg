SPECIFICATION Spec
CONSTANTS
  Inputs <- MCInputs
  JobSettings = {0, 1, 2}
  Cpus = 4
  Chunk = 2
  PerJob = 1
  ProgressEvery = 2
  ParallelMin = 3
  ParallelMaxJobs = 2
  Searched <- MCSearched
CHECK_DEADLOCK FALSE
INVARIANTS
  TypeOK
  NothingSkipped
  BestHitIsSerial
PROPERTIES
  Ends
