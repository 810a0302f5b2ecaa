SPECIFICATION Spec
CONSTANTS
  Validator = {1, 2, 3}
  Interval = 2
  Recovering = FALSE
  Resubmission = TRUE
  ManualRpc = TRUE
  Backlog = 1
  Lossy = FALSE
  Isolated = {}
  OutageEnd = 0
  MaxClock = 3
  MaxHeight = 1
  MaxCrashes = 0
INVARIANT Certified
CHECK_DEADLOCK FALSE
