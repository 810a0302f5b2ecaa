SPECIFICATION Spec
CONSTANTS
  p1 = p1
  p2 = p2
  Peer = {p1, p2}
  Branch <- Branches
  ForkHeight = 1
  MaxHeight = 3
  RangeLimit = 2
  SnapshotThreshold = 3
  QuarantineThreshold = 2
  MaxDisturbances = 1
INVARIANTS TypeOK StoreIsPath
PROPERTIES QuarantineHolds FittingReplyIsApplied CatchesUp
CHECK_DEADLOCK FALSE
