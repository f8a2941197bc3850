CONSTANTS
  Workers = {w1, w2}
  Inodes = {i1}
  Handles = {h1}
  Copies = {c1, c2}
  Writes = {}
  Sizes = {0, 1}
  NoInode = NoInode
  NoWorker = NoWorker
  NoCopy = NoCopy
  NoHandle = NoHandle
  Paths = {p1}
  Nowhere = Nowhere
  Absent = Absent
  NoFh = NoFh
SPECIFICATION FairSpec
PROPERTY
  RequestsAnswered
