SPECIFICATION Spec
CONSTANTS
  lib = lib
  app = app
  Pkg <- MCPkg
  Order <- MCOrder
  Deps <- MCDeps
  Value = {"", "a"}
  Unset = ""
  None = None
  Second = 100
  MaxSecond = 2
  MaxEdits = 1
  MaxAborts = 0
  MaxMakes = 2
  EditWhileBuilding = TRUE
  QuickEdits = FALSE
  OptionAfterAbort = FALSE
INVARIANT NothingMissed
CHECK_DEADLOCK FALSE
