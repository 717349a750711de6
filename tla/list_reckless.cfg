SPECIFICATION Spec
CONSTANTS
  Addr <- MCAddr
  MaxBin = 4
  MaxSpan = 3
  OriginalCode = 3
  OriginalRdata = 4
  Multiplexing = 1
  PMCs <- MCPMCs
  Width = 2
  CounterWidth = 3
  Junk = Junk
  MlpxValues <- MCMlpx
  CarefulClient = FALSE
INVARIANTS OneRecordPerLoop ActiveAtOneTarget
PROPERTY ImplementsProfile
CHECK_DEADLOCK FALSE
