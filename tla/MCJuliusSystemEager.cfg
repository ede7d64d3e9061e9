\* A client that sends on without collecting its PONGs.
CONSTANTS
  Ports = {boot, c1}
  Boot = boot
  NoPort = none
  QLimit = 1
  WordMod = 32
  HeapAlign = 2
  HeapInitialSize = 8
  PageSize = 4
  AddrTop = 12
  SelfTestSize = 3
  Window = 4
  MaxSends = 4
SPECIFICATION FairSpec
PROPERTY KeepsServing
CHECK_DEADLOCK FALSE
