SPECIFICATION BootSpec
CONSTANTS
  LIMIT = 3
  EBDA_END = 32
  BUSES = 8
  SLOTS = 8
  DEVICES = 2
  PCI_MAX_DEVICES = 12
  Hardware <- MCHardware
INVARIANTS
  EndsAtLowest
  EveryDeviceListed
  KnownDeviceNamed
PROPERTIES
  BootProceeds
CHECK_DEADLOCK FALSE
