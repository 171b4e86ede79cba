SPECIFICATION Spec
CONSTANTS
  Sizes <- MCSizes
  MaxPackets = 3
  MaxRuns = 2
INVARIANTS
  KillLosesOnePacket
  RerunStartsOver
CHECK_DEADLOCK FALSE
