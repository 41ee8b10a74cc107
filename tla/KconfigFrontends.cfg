SPECIFICATION Spec
CONSTANTS
  Symbol <- MCSymbol
  Choice = {"CH"}
  Modules = "MODULES"
  None = None
  Type <- MCType
  Prompt <- MCPrompt
  Default <- MCDefault
  RevDep <- MCRevDep
  Members <- MCMembers
  ChoiceDefault <- MCChoiceDefault
  TextDefault <- MCTextDefault
  Ranges <- MCRanges
  AllNoY = {"A"}
  Order <- MCOrder
  HashOrder <- MCHash
  Menu <- MCMenu
  Root = "root"
  Kids <- MCKids
  SymOf <- MCSymOf
  Kind <- MCKind
  Shown <- MCShown
  HandMade <- MCHandMade
  TypedText <- MCTypedText
  MaxSessions = 2
  MaxInputs = 2
  Sought = {"H"}
  MaxDepth = 2
  ResetIf <- MCReset
INVARIANTS
  NothingAskedTwice
  NoStaleObject
  InSync
PROPERTIES
  ReadsBack
  MinimalSuffices
  TypedTaken
  ResetIsFresh
  ConfEnds
