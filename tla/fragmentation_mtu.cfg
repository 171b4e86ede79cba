SPECIFICATION Spec
CONSTANT Inputs <- Options
INVARIANT PiecesFitMtu
CHECK_DEADLOCK FALSE
