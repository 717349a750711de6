SPECIFICATION Spec
CONSTANTS
  Clients = {a, b}
  Cores <- MCCores
  Target = 1
  Blocks = {b1, b2, b3, b4}
  Rows <- MCRows
  PMCs <- MCPMCs
  OutSet = 1
  OriginalDS = Null
  Garbage = Garbage
  Null = Null
  Overlap = TRUE
  HandlesShared = FALSE
  PoolMayFail = FALSE
SYMMETRY PoolSymmetry
INVARIANT ClosedMeansStopped
CHECK_DEADLOCK FALSE
