SPECIFICATION Spec
CONSTANTS
  Clients = {c1}
  Nobody = Nobody
  NBlocks = 3
  InFlight = 3
  OpenMayFail = FALSE
INVARIANT ReliableTransfer
CHECK_DEADLOCK FALSE
