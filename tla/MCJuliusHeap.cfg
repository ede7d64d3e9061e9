\* Requests: nothing, less than the alignment, one that fits once, one that
\* needs an extension of twice its size.
CONSTANTS
  WordMod = 64
  HeapAlign = 2
  HeapInitialSize = 4
  PageSize = 2
  AddrTop = 18
  Requests = {0, 1, 3, 5}
  Counts = {2}
  MaxCalls = 3
SPECIFICATION Spec
INVARIANTS
  BlocksMapped
  BlocksDisjoint
  HeapInv
  CallocZeroed
  WritesSurvive
  WasteBounded
PROPERTIES
  RefusalLosesNothing
  PromisesKept
CHECK_DEADLOCK FALSE
