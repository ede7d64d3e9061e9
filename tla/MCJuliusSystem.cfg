\* Clients that never have more PONGs coming than their queue holds.
CONSTANTS
  Ports = {boot, c1, c2}
  Boot = boot
  NoPort = none
  QLimit = 2
  WordMod = 32
  HeapAlign = 2
  HeapInitialSize = 8
  PageSize = 4
  AddrTop = 12
  SelfTestSize = 3
  Window = 2
  MaxSends = 2
SPECIFICATION FairSpec
INVARIANTS
  TypeOK
  PanicsOnlyEarly
  BootstrapBacked
  ReplyNeverBlocks
  PingsAccounted
PROPERTIES
  PingsServed
  PingAnswered
CHECK_DEADLOCK FALSE
