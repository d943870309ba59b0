SPECIFICATION KbSpec
CONSTANTS
  Keys <- MCKeys
  ExtendedKeys <- MCExtendedKeys
  QUEUE_BYTES = 4
INVARIANTS
  ModifiersFollow
  CharsAsTyped
