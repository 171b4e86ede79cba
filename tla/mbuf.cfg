SPECIFICATION Spec
CONSTANT Datagrams <- MCDatagrams
INVARIANTS
  BuffersSuffice
  PacketSuffices
  WrittenIsFilled
CHECK_DEADLOCK FALSE
