SPECIFICATION FairSpec
CONSTANTS
  Clients = {c1, c2, c3}
  Nobody = Nobody
  Menu = {"dir", "file", "upload", "quit"}
  MaxDirs = 1
  MaxCuts = 1
  NChunks = 2
  MayDie = TRUE
  OpenMayFail = TRUE
INVARIANTS
  InStep
  TransfersAreWhole
  WatchesWhatIsOpen
PROPERTY AllServed
CHECK_DEADLOCK FALSE
