SPECIFICATION FairSpec
CONSTANTS
  Producers = {p1}
  p1 = p1
  Main = main
  Size = 2
  FileBytes = 10
  Span = 16
  MaxRecords = 1
  MaxStarts = 1
  OpenFails = FALSE
  EndEarly = FALSE
PROPERTIES
  EndReturns
