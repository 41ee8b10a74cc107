SPECIFICATION Spec
CONSTANTS
  lib = lib
  app = app
  Pkg <- MCPkg
  Order <- MCOrder
  Deps <- MCDeps
  Value = {"", "a"}
  Unset = ""
  None = None
  Second = 100
  MaxSecond = 2
  MaxEdits = 2
  MaxAborts = 1
  MaxMakes = 2
  EditWhileBuilding = FALSE
  QuickEdits = FALSE
  OptionAfterAbort = FALSE
INVARIANTS NothingMissed InstalledStands NothingOrphaned
PROPERTY NothingRepeated
CHECK_DEADLOCK FALSE
