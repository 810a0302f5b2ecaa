SPECIFICATION TimelySpec
CONSTANTS
  Validator = {1, 2, 3}
  Interval = 1
  Recovering = TRUE
  Resubmission = FALSE
  ManualRpc = FALSE
  Backlog = 1
  Lossy = FALSE
  Isolated = {1, 2, 3}
  OutageEnd = 2
  MaxClock = 2
  MaxHeight = 2
  MaxCrashes = 0
PROPERTY ProposalsFinalize
CHECK_DEADLOCK FALSE
