SPECIFICATION Spec
CONSTANTS
  Reserved = 2
  Initial = 6
  Extra = 2
  MinShrink = 1
  Span = 64
  Users <- Everyone
  MaxLen = 3
  MaxErrors = 0
INVARIANTS
  IndexesInOrder
PROPERTIES
  ImplementsByteQueue
