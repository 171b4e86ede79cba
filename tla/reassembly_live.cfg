SPECIFICATION FairSpec
CONSTANTS
  Queues = {q1, q2, q3}
  None = None
  Wire <- WireTwo
  Interval = 0
  EraseLimit = 1
  MaxLag = 0
  MaxLen = 16
  MaxRecv = 3
PROPERTIES
  QueuesAreReclaimed
  DueIsSent
