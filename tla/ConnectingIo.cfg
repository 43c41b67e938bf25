SPECIFICATION Spec
CONSTANTS
  c1 = c1
  a1 = a1
  f1 = f1
  Conns = {c1}
  Addrs = {a1}
  Fds = {f1}
  Api = {"Send", "ShutDownWrite", "ForceClose"}
  Env = {"PeerClose", "PeerReset"}
  CloseOnHighWater = FALSE
  HighWaterMark = 2
  MaxPendingIoRetries = 1
  MaxKey = 12
  MaxSend = 3
  MaxMessage = 2
  MaxRecv = 2
  MaxFaults = 1
SYMMETRY Symmetry
INVARIANTS
  TypeOK
  OutputConserved
  NoStalledOutput
  NeverDeaf
  InputConserved
