CONSTANTS
  Workers = {w1}
  Paths <- TwoTrees
  Tokens = {t1}
  Absent = Absent
  NoEntry = NoEntry
  a = a
  b = b
  f = f
SYMMETRY Symmetry
SPECIFICATION Spec
INVARIANTS
  TypeOK
  CacheIsCurrent
