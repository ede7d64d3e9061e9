\* Two architectures, three scripts, two edits of the sources at any time.  The
\* bounds stop the developer.
CONSTANTS
  Archs = {x86_64, arm64}
  MaxEdits = 2
  MaxRuns = 3
SYMMETRY ArchSymmetry
SPECIFICATION Spec
INVARIANTS
  TypeOK
  FullBuildCurrent
  PartsFit
PROPERTIES
  LaunchAfterBuild
CHECK_DEADLOCK FALSE
