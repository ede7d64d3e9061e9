\* Sizes over the whole width of size_t (here 5 bits).
CONSTANTS
  WordMod = 32
  HeapAlign = 2
  HeapInitialSize = 4
  PageSize = 2
  AddrTop = 14
  Requests = {1, 3, 31}
  Counts = {1, 11}
  MaxCalls = 2
SPECIFICATION Spec
INVARIANT RequestCovered
CHECK_DEADLOCK FALSE
