SPECIFICATION SpecFaulty
CONSTANTS
  Symbol = {"MODULES", "A", "B", "C"}
  Choice = {}
  Modules = "MODULES"
  None = None
  Type <- MCType
  Prompt <- MCPrompt
  Default <- MCDefault
  RevDep <- MCRevDep
  Members <- MCMembers
  ChoiceDefault <- MCMembers
  HandMade <- MCHandMade
  MCDefaultCond <- MCPlainCond
INVARIANT UnchangedMeansSaved
