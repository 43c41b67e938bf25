SPECIFICATION FairSpec
CONSTANTS
  Clients = {c1, c2, c3, c4}
  c1 = c1
  c2 = c2
  c3 = c3
  c4 = c4
  N = 4
  Strategies = {"kRoundRobin", "kMinEvents"}
  Limit = 3
  MaxErrors = 1
INVARIANTS
  OneAcceptRequest
  DescriptorsAccounted
  InOnePlace
  HandedEvenly
PROPERTIES
  EveryRequestAnswered
