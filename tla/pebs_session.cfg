SPECIFICATION FairSpec
CONSTANTS
  Clients = {a, b}
  Cores <- MCCores
  Target = 1
  Blocks = {b1, b2, b3}
  Rows <- MCRows
  PMCs <- MCPMCs
  OutSet = 1
  OriginalDS = OldDS
  Garbage = Garbage
  Null = Null
  Overlap = FALSE
  HandlesShared = TRUE
  PoolMayFail = FALSE
INVARIANTS TypeOK NoBugcheck PmiReadsItsRecord ReadingsMatchGroup OpenMeansCapturing ClosedMeansStopped PinnedAreOpeners
PROPERTIES EveryCallReturns ImplementsCapture EverySampleRead
