SPECIFICATION Spec
CONSTANTS
  Producers = {p1, p2}
  p1 = p1
  p2 = p2
  Main = main
  Size = 2
  FileBytes = 2
  Span = 16
  MaxRecords = 3
  MaxStarts = 2
  OpenFails = TRUE
  EndEarly = FALSE
SYMMETRY Symmetry
INVARIANTS
  WrittenInOrder
  SlotExclusive
  PendingCounts
  SleepsOnlyWhenIdle
  EndWritesAll
  RecentLogsKept
PROPERTIES
  DroppedOnlyWhenFull
