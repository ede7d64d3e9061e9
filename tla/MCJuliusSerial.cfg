\* Callers take turns, and none calls around stop.
CONSTANTS
  FifoDepth = 2
  Callers = {k1, k2}
  Kit = kit
  Polls = 3
  Round = 33333
  Clock = 24000000
  StartBaud = 115200
  Bauds = {9600, 200}
  Lengths = {1, 3}
  Serialised = TRUE
  MaxCalls = 2
SPECIFICATION FairSpec
INVARIANTS
  TypeOK
  NoFault
  NoOverrun
  OneRate
  NoEmptyRead
PROPERTIES
  CharactersIntact
  GivenUpOnlyWhenBroken
  CallsReturn
CHECK_DEADLOCK FALSE
