SPECIFICATION Spec
CONSTANTS
  Symbol <- MCSymbol
  Choice <- MCChoice
  Modules = "MODULES"
  None = None
  Type <- MCType
  Prompt <- MCPrompt
  Default <- MCDefault
  RevDep <- MCRevDep
  Members <- MCMembers
  ChoiceDefault <- MCChoiceDefault
  HandMade <- MCHandMade
  MCChoiceType = "boolean"
INVARIANTS
  TypeOK
  ExactlyChosen
PROPERTIES
  RoundTrip
