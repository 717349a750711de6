SPECIFICATION Spec
CONSTANTS
  Machines <- Relocated
  MaxLoads = 1
  MaxLoops = 1
  MaxRequests = 0
  Lengths = {1}
  MlpxValues = {1}
  Multiplexing = 2
  IoMayFail = FALSE
  PoolMayFail = FALSE
INVARIANT LoadPassedChecks
CHECK_DEADLOCK FALSE
