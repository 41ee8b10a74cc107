SPECIFICATION Spec
CONSTANTS
  MaxItems = 4
  Letter = {"a", "s"}
  ResizeScrolled = FALSE
  Char = {"a", "b"}
  Width = 3
  MaxLen = 4
  Text <- MCText
  Frame = 4
  MaxScroll = 2
  Height = {1, 2, 3}
INVARIANTS
  ShownIsSelected
  ListIsSelected
  CursorAtEdit
  PageAtLine
PROPERTIES
  CursorMoves
  LinesMove
