SPECIFICATION FairSpec
CONSTANTS
  Addr <- MCAddr
  MaxBin = 4
  MaxSpan = 2
  OriginalCode = 3
  OriginalRdata = 4
  Multiplexing = 2
  PMCs <- MCPMCs
  Width = 1
  CounterWidth = 4
  Junk = Junk
  MlpxValues = {1, 2}
  Blocks = {b1, b2}
  Header = Header
  Readers = {r}
  Overlap = FALSE
INVARIANTS TypeOK LinksWhole
PROPERTIES ImplementsList CallsReturn
