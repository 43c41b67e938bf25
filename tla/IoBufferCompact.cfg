SPECIFICATION Spec
CONSTANTS
  Reserved = 2
  Initial = 3
  Extra = 2
  MinShrink = 1
  Span = 64
  Users <- Compacting
  MaxLen = 3
  MaxErrors = 0
PROPERTIES
  EnsuresSpace
