SPECIFICATION Spec
CONSTANTS
  Intervals = {0, 1, 2}
  MaxClock = 3
  MaxCrashes = 1
INVARIANTS
  FilesAreWhole
PROPERTIES
  ReportsAreKept
