SPECIFICATION Spec
CONSTANTS
  Addr <- MCAddr
  MaxBin = 4
  MaxSpan = 2
  OriginalCode = 3
  OriginalRdata = 4
  Multiplexing = 2
  PMCs <- MCPMCs
  Width = 2
  CounterWidth = 3
  Junk = Junk
  MlpxValues = {1}
  CarefulClient = FALSE
PROPERTY EmptyReadHarmless
CHECK_DEADLOCK FALSE
