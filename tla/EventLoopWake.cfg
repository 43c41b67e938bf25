SPECIFICATION Spec
CONSTANTS
  Threads = {t1, t2}
  t1 = t1
  t2 = t2
  MaxTasks = 2
  Calls = {"RunSoon", "RunAfter", "RunEvery", "RunEveryFrom", "Quit"}
  Delays = {1, 18}
  Milli = 2
  DefaultWait = 3
  IntSpan = 16
  Epoch = 1
  MaxTime = 3
  MaxFaults = 0
SYMMETRY Symmetry
INVARIANTS
  NeverOversleeps
  TasksConserved
  NeverOvertaken
