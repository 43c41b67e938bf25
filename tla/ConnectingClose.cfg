SPECIFICATION FairSpec
CONSTANTS
  c1 = c1
  c2 = c2
  a1 = a1
  f1 = f1
  Conns = {c1, c2}
  Addrs = {a1}
  Fds = {f1}
  Api = {"Send", "ForceClose", "ForceCloseAfter", "StartWriting", "Stop"}
  Env = {"Quit"}
  CloseOnHighWater = TRUE
  HighWaterMark = 1
  MaxPendingIoRetries = 1
  MaxKey = 3
  MaxSend = 1
  MaxMessage = 1
  MaxRecv = 0
  MaxFaults = 0
INVARIANTS
  CompletionTargetsLive
  Registered
  CallbackProtocol
PROPERTIES
  ClosedIsDestroyed
  QuitTerminates
