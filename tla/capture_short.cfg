SPECIFICATION Spec
CONSTANTS
  Sizes <- MCSizes
  MaxPackets = 1
  MaxRuns = 1
INVARIANT SavedOctets
CHECK_DEADLOCK FALSE
