SPECIFICATION Spec
CONSTANTS
  Addr <- MCAddr
  MaxBin = 4
  MaxSpan = 2
  OriginalCode = 3
  OriginalRdata = 4
  Multiplexing = 1
  PMCs <- MCPMCs
  Width = 1
  CounterWidth = 3
  Junk = Junk
  MlpxValues = {1}
  Blocks = {b1, b2}
  Header = Header
  Readers = {r}
  Overlap = TRUE
INVARIANT LinksWhole
CHECK_DEADLOCK FALSE
