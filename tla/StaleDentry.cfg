CONSTANTS
  Workers = {w1, w2}
  Names = {a, b}
  Depth = 2
  MaxIno = 5
  NoPath = NoPath
SYMMETRY Symmetry
SPECIFICATION Spec
INVARIANT
  DentriesResolve
CHECK_DEADLOCK FALSE
