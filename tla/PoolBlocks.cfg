SPECIFICATION Spec
CONSTANTS
  t1 = t1
  t2 = t2
  t3 = t3
  Threads = {t1, t2, t3}
  None = None
  kInitialMallocSize = 2
  MaxObjects = 3
CHECK_DEADLOCK FALSE
SYMMETRY Symmetry
INVARIANTS
  BlocksConserved
  ObjectsIntact
