SPECIFICATION FairSpec
CONSTANTS
  Threads = {t1}
  t1 = t1
  MaxTasks = 2
  Calls = {"RunSoon", "RunAfter", "Quit"}
  Delays = {1}
  Milli = 2
  DefaultWait = 3
  IntSpan = 16
  Epoch = 1
  MaxTime = 3
  MaxFaults = 1
PROPERTIES
  DueTasksRun
  QuitStopsLoop
