SPECIFICATION FairSpec
CONSTANTS
  MAX_PROCESSES = 3
  BOOT_PID = 4
  ADDRESS_SPACE_SIZE = 100
  Code <- MCCode
  Programs <- MCTwoShells
  Background = {}
  Instructions <- MCInstructionsLengths
  KeyChars = {0, 97}
  SerialBytes = {0, 13, 127, 255}
  PciDevicesCount = 2
PROPERTY
  ReadyRuns
CHECK_DEADLOCK FALSE
