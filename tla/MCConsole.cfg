SPECIFICATION ConsoleSpec
CONSTANTS
  WIDTH = 2
  HEIGHT = 4
  Chars = {"a", "b"}
  Prompt <- MCPrompt
  MaxRows = 10
  MaxTyped = 5
INVARIANTS
  DisplayShowsText
  CursorFollowsText
  MoveRowCountsBack
  StaysInBuffer
  ClearedScreenShown
CHECK_DEADLOCK FALSE
CONSTRAINTS
  NotStray
  NotFarApart
