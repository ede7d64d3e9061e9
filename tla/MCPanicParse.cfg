\* Logs of up to six lines of nine kinds; two lines of a description printed.
CONSTANTS
  Line <- Lines
  MaxLines = 6
  Shown = 2
SPECIFICATION Spec
INVARIANTS
  TypeOK
  FramesExact
  DescriptionKept
  FirstPanicTold
CHECK_DEADLOCK FALSE
