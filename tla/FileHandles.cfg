CONSTANTS
  Workers = {w1, w2}
  Inodes = {i1}
  Handles = {h1, h2}
  Copies = {c1, c2}
  Writes = {1}
  Sizes = {1}
  NoInode = NoInode
  NoWorker = NoWorker
  NoCopy = NoCopy
  NoHandle = NoHandle
  Paths = {p1}
  Nowhere = Nowhere
  Absent = Absent
  NoFh = NoFh
SYMMETRY Symmetry
SPECIFICATION Spec
INVARIANTS
  TypeOK
  NoWriteForgotten
  
  NoPullDuringPush
PROPERTY
  SharedFile
