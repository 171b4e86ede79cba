SPECIFICATION TallSpec
CONSTANTS
  Nodes <- MCNodes
  NULL = NULL
  UIntSize = 8
INVARIANTS
  Ordered
  RedBlack
  LoopsAreInvariant
  NeighboursAreFound
  WalksAreComplete
  ReplaceKeepsShape
PROPERTIES
  ImplementsOrderedSet
