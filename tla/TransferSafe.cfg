SPECIFICATION Spec
CONSTANTS
  N = 3
  FileSize = 3
  SegSize = 2
  Cap = 1
  peerAt <- Mixed
  Late = {2}
  OpenMayFail = FALSE
  Crashable = {}
INVARIANTS
  FilePrefix
  ReadersEndLast
  DoneIsQuiet
  NoUseAfterFree
CHECK_DEADLOCK FALSE
