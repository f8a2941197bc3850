CONSTANTS
  Workers = {w1, w2, w3}
  Inodes = {i1}
  Handles = {h1, h2}
  Copies = {c1, c2, c3, c4}
  NoInode = NoInode
  NoWorker = NoWorker
  NoCopy = NoCopy
  NoHandle = NoHandle
SYMMETRY Symmetry
SPECIFICATION CopySpec
INVARIANTS
  CopyTypeOK
  OneCopyPerInode
  RefsAreExact
  FilePresent
  NoClobber
  NoOrphan
