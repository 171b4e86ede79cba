SPECIFICATION Spec
CONSTANTS
  Queues = {q1, q2, q3, q4}
  None = None
  Wire <- WireOverlap
  Interval = 1
  EraseLimit = 2
  MaxLag = 1
  MaxLen = 65535
  MaxRecv = 4
SYMMETRY Symmetry
INVARIANTS
  ReassemblyIsUndisturbed
  EmittedIsWhole
  SentOnce
  NoLostUpdate
  WholeIsNotDropped
PROPERTY
  ImplementsService
