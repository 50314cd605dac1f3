SPECIFICATION FairSpec
CONSTANTS
  Clients = {c1, c2, c3}
  Nobody = Nobody
  NFiles = 2
  NChunks = 3
  OpenMayFail = TRUE
INVARIANTS
  
  ListBeforeFile
PROPERTY AllEnd
CHECK_DEADLOCK FALSE
