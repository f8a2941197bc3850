CONSTANTS
  Workers = {w1, w2}
  Handles = {h1}
  Dir <- MCDir
  Names <- TellingNames
  Contents <- MCContents
  NewDir <- Folder
  NewFile <- Plain
  Times <- MCTimes
  Accounts <- MCAccounts
  Scenes <- MCScenes
  Rooms = {1, 2, 3}
  Zone = 1
  Hour = 3
  Unset = Unset
  NoFile = NoFile
  NoDir = NoDir
SYMMETRY Symmetry
SPECIFICATION Spec
INVARIANT
  ErrnoIsTheDevices
CHECK_DEADLOCK FALSE
