CONSTANTS
  Workers = {w1}
  Names = {a, b}
  Depth = 2
  MaxIno = 5
  NoPath = NoPath
SYMMETRY Symmetry
SPECIFICATION Spec
INVARIANTS
  TypeOK
  DentriesResolve
  OneNumberPerPath
  
  
CHECK_DEADLOCK FALSE
