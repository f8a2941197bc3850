CONSTANTS
  Workers = {w1, w2}
  Paths <- OneFile
  Tokens = {t1}
  Absent = Absent
  NoEntry = NoEntry
  a = a
  b = b
  f = f
SPECIFICATION FairSpec
PROPERTY
  TruthReturns
