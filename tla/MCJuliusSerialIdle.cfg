\* setBaud while characters wait to be sent.
CONSTANTS
  FifoDepth = 2
  Callers = {k1, k2}
  Kit = kit
  Polls = 2
  Round = 50000
  Clock = 24000000
  StartBaud = 115200
  Bauds = {9600, 38400}
  Lengths = {1, 3}
  Serialised = TRUE
  MaxCalls = 2
SPECIFICATION FairSpec
INVARIANT SettingsWhenIdle
CHECK_DEADLOCK FALSE
