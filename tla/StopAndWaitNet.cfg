SPECIFICATION FairSpec
CONSTANTS
  Clients = {c1, c2}
  Nobody = Nobody
  NBlocks = 3
  InFlight = 3
  OpenMayFail = TRUE
INVARIANTS
  CopyIsPrefix
  WholeWhenDone
  CopyInOrder
  AckedIsWritten
PROPERTY Finishes
CHECK_DEADLOCK FALSE
