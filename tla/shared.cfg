SPECIFICATION TallSpec
CONSTANTS
  Nodes <- MCNodes
  NULL = NULL
INVARIANTS
  StoresMakeTree
  WalkIsSafe
  UndisturbedIsExact
PROPERTY
  WalksEnd
CHECK_DEADLOCK FALSE
