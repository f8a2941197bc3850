CONSTANTS
  Workers = {w1}
  Inodes = {i1}
  Handles = {h1, h2}
  Copies = {c1, c2}
  Writes = {1}
  Sizes = {0, 1}
  NoInode = NoInode
  NoWorker = NoWorker
  NoCopy = NoCopy
  NoHandle = NoHandle
  Paths = {p1, p2, p3}
  Nowhere = Nowhere
  Absent = Absent
  NoFh = NoFh
SYMMETRY Symmetry
SPECIFICATION Spec
INVARIANTS
  CleanMeansSynced
  FlushOkMeansPushed
  PushesHitTheFile
PROPERTY
  SharedFile
