SPECIFICATION FairSpec
CONSTANTS
  Threads = {r, m}
  Erasers = {m}
  Nodes = {n1, n2, n3, n4}
  Keys <- ThreeKeys
  NULL = NULL
INVARIANTS
  CountIsSize
  NodesAreOwned
  CursorIsLinked
PROPERTIES
  ImplementsOrderedSet
  LockIsReleased
