SPECIFICATION FairSpec
CONSTANTS
  Clients = {c1}
  Addrs = {a1, a2}
  c1 = c1
  a1 = a1
  a2 = a2
  None = none
  Api = {"Connect", "Disconnect"}
  Results = {"none", "done", "progress", "retry", "fatal"}
  MaxCalls = 1
  MaxFiles = 3
  MaxFailures = 3
  MaxLate = 1
  MaxDelay = 3
INVARIANTS
  TypeOK
  SocketOwned
  LateCqeIgnored
  OneAttempt
PROPERTIES
  OutlivesWork
  ConnectsAtLast
