SPECIFICATION Spec
CONSTANTS
  Tri = {"A", "B"}
  Bool = {"F", "MODULES"}
  Modules = "MODULES"
  Source <- MCSource
INVARIANTS
  MeaningKept
  SubmenuShown
PROPERTIES
  RoundsShrink
CHECK_DEADLOCK FALSE
