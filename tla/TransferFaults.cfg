SPECIFICATION FairSpec
CONSTANTS
  N = 2
  FileSize = 5
  SegSize = 2
  Cap = 1
  peerAt <- InIdOrder
  Late = {0, 1}
  OpenMayFail = TRUE
  Crashable = {0, 1, 2}
INVARIANTS
  TypeOK
  IInv
PROPERTIES
  ImplementsFileSharing
  AllFinish
CHECK_DEADLOCK FALSE
