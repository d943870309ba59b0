SPECIFICATION LibSpec
CONSTANTS
  NIBBLES = 3
  Calls <- MCCalls
  SIZE = 5
  Bytes = {0, 1, 2}
  COMMAND_SIZE = 4
  Chars = {"nul", "a", "b"}
  NUL = "nul"
  Commands <- MCCommands
  MaxLine = 5
INVARIANTS
  PrintsFormat
  Helped
  RunsWhatWasTyped
CHECK_DEADLOCK FALSE
