SPECIFICATION ArchiveSpec
CONSTANTS
  Names = {a, b}
  a = a
  b = b
  Blocks <- BlocksDefault
  Calls = 3
  MaxFaults = 2
  DirectoryMayForget = FALSE
INVARIANT TornAppendHidesNothing
CHECK_DEADLOCK FALSE
