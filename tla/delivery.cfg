SPECIFICATION DeliverySpec
CONSTANTS
  Inputs <- MCInputs
  Calls <- MCCalls
  Bytes <- MCBytes
  MaxLen = 65535
  NULL = NULL
INVARIANTS
  PiecesTile
  AllIsWritten
  LengthsAgree
  EveryByteOnce
  DatagramIsForwarded
CHECK_DEADLOCK FALSE
