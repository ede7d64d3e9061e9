\* A call overlaps stop.
CONSTANTS
  FifoDepth = 1
  Callers = {k1, k2}
  Kit = kit
  Polls = 2
  Round = 50000
  Clock = 24000000
  StartBaud = 115200
  Bauds = {9600}
  Lengths = {1, 2}
  Serialised = FALSE
  MaxCalls = 1
SPECIFICATION FairSpec
INVARIANT NoFault
CHECK_DEADLOCK FALSE
