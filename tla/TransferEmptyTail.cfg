SPECIFICATION Spec
CONSTANTS
  N = 2
  FileSize = 4
  SegSize = 2
  Cap = 1
  peerAt <- InIdOrder
  Late = {}
  OpenMayFail = FALSE
  Crashable = {}
INVARIANT NoUseAfterFree
