\* One function after another on four bytes of the caller's.
CONSTANTS
  Junk = 9
  UserTop = 4
  Byte = {0, 1, 200}
  HexDigits = 2
  DecDigits = 3
  IntMax = 127
  Sixteens <- MCSixteens
  Tens <- MCTens
  HexArgs = {0, 1, 10, 15, 16, 171, 255}
  DecArgs <- MCDecArgs
  FillArgs <- MCFillArgs
  TrapArgs = {1, 2}
SPECIFICATION FairSpec
INVARIANTS
  TypeOK
  StaysInBounds
  CopiesExact
  AnswersExact
  PrintsWhole
  PrintedValue
  KernelSeesCall
PROPERTIES
  CallsEnd
CHECK_DEADLOCK FALSE
