SPECIFICATION FairSpec
CONSTANTS
  Processes = {p}
  NoProcess = NoProcess
  LogNames = {tmp, other}
  TmpCsv = tmp
  MlpxValues <- MCMlpx
  OutSet = 1
  MAX_PMCx = 2
  Loops = {l1, l2}
  MaxReads = 2
  MaxRequests = 3
  MaxFailures = 1
INVARIANTS TypeOK FilesAreTables ColumnsOnce HandlesReturned
PROPERTIES FilesOnlyGrow ReadsEnd
CHECK_DEADLOCK FALSE
