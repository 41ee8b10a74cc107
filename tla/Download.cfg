SPECIFICATION Spec
CONSTANTS
  Job = {pkg, host}
  None = None
  Mirrors = 2
  HashKnown = TRUE
  WriteMayFail = FALSE
  MaxStarts = 2
INVARIANTS CheckedIsMoved OnlyGood
PROPERTIES NotInVain Ends StoreSpec
CHECK_DEADLOCK FALSE
