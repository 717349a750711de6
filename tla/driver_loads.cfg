SPECIFICATION FairSpec
CONSTANTS
  Machines <- AnyMachine
  MaxLoads = 2
  MaxLoops = 2
  MaxRequests = 2
  Lengths = {0, 1}
  MlpxValues = {0, 1, 3}
  Multiplexing = 2
  IoMayFail = TRUE
  PoolMayFail = TRUE
INVARIANTS TypeOK UnloadUndoesLoad UnloadReleasesRequests CrashHasACause
PROPERTY UnloadEnds
CHECK_DEADLOCK FALSE
