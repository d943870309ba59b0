SPECIFICATION PanicFairSpec
CONSTANTS
  MAX_PROCESSES = 3
  BOOT_PID = 4
  ADDRESS_SPACE_SIZE = 100
  Code <- MCCode
  Programs <- MCPrograms
  Background = {1}
  Instructions = {}
  KeyChars = {0, 8, 97}
  SerialBytes = {13}
  PciDevicesCount = 2
  WORD = 2
  LINE_MAX = 2
INVARIANTS
  LocksHeld
  ReportComplete
  ReportNotMixed
PROPERTIES
  ShellReturns
  CounterCounts
  PanicReported
CHECK_DEADLOCK FALSE
