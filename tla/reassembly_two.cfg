SPECIFICATION Spec
CONSTANTS
  Queues = {q1, q2, q3}
  None = None
  Wire <- WireMixed
  Interval = 1
  EraseLimit = 2
  MaxLag = 1
  MaxLen = 16
  MaxRecv = 3
SYMMETRY Symmetry
INVARIANTS
  TypeOK
  HeldQueueIsAllocated
  OneQueuePerKey
  QueuesAreReachable
  MbufsAreAccounted
  WholeIsDue
