SPECIFICATION FairSpec
CONSTANTS
  c1 = c1
  c2 = c2
  Calls = {c1, c2}
  Kinds = {"async", "sync"}
  Targets = {"NO_ERROR", "NO_METHOD"}
  RequestSizes = {0, 2}
  ResponseSizes = {1, 2}
  kMaxMessageLength = 3
  kInitialCapacity = 6
  ExtraSpace = 8
  IdSpan = 2
CHECK_DEADLOCK FALSE
INVARIANTS
  FramesAligned
PROPERTIES
  ImplementsRpcCall
  EveryCallEnds
