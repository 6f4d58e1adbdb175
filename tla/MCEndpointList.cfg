SPECIFICATION Spec
CONSTANTS
  Lists = {l1, l2}
  Addrs = {a, b}
  Junk = Junk
  CacheSize = 1
  HeapInit = 2
  BlockIds = {x, y, z}
  Null = Null
  MaxLen = 6
INVARIANTS IInv HeapPartFits OneOwnerPerArray
PROPERTIES ImplementsSequences
CHECK_DEADLOCK FALSE
