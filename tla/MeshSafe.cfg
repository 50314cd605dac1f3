SPECIFICATION FairSpec
CONSTANTS
  Receivers = {r1, r2, r3}
  NoSock = NoSock
  ConnectMayFail = TRUE
INVARIANTS
  CountIsPeers
  OneLinkPerPair
  SendingMeansMesh
  NobodyLeftWaiting
  TablesAreWholeButTheLast
PROPERTIES
  EndsWithMesh
CHECK_DEADLOCK FALSE
