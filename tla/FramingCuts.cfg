SPECIFICATION FairSpec
CONSTANTS
  MaxSize = 3
  Sizes <- MCSizes
INVARIANTS
  SegmentsIntact
  PlaceIsKept
  FailureCostsOne
PROPERTY AllDelivered
CHECK_DEADLOCK FALSE
