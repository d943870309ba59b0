SPECIFICATION RRSpec
CONSTANTS
  MAX_PROCESSES = 3
  BOOT_PID = 4
  ADDRESS_SPACE_SIZE = 100
  Code <- MCCode
  Programs <- MCPrograms
  Background = {1}
  Instructions <- MCInstructions
  KeyChars = {0, 97}
  SerialBytes = {0, 255}
  PciDevicesCount = 2
INVARIANTS
  TypeOK
  BlockedHasWaiter
  RunningIsReady
  BackgroundPreventsSpin
  BoundedOvertaking
PROPERTY
  ImplementsVirtualCpus
CHECK_DEADLOCK FALSE
