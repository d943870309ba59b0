SPECIFICATION IntFairSpec
CONSTANTS
  Procs = {p1, p2}
  Lines <- MCLines
  FIFO_BYTES = 3
  TRIGGER = 2
INVARIANTS
  HandlersDoNotNest
  InServiceIsHandled
  SerialByteThere
PROPERTIES
  RequestsServed
  SerialServed
