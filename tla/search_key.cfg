SPECIFICATION Spec
CONSTANTS
  Nodes <- MCNodes
  NULL = NULL
  UIntSize = 16
INVARIANT LessOrEqual
