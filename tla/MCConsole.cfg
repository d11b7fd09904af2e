SPECIFICATION ConsoleSpec
CONSTANTS
  VGA_WIDTH = 5
  VGA_HEIGHT = 6
  Rows = 5
  CursorModulus = 7
  Letters = {"a", "b"}
  CommandSize = 8
  Programs <- MCPrograms
  MaxKeys = 6
  MaxAhead = 2
INVARIANTS
  ScreenShowsText
  CommandIsRead
CHECK_DEADLOCK FALSE
