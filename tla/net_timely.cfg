SPECIFICATION TimelySpec
CONSTANTS
  Validator = {1, 2, 3}
  Interval = 1
  Recovering = TRUE
  Resubmission = FALSE
  ManualRpc = FALSE
  Backlog = 1
  Lossy = FALSE
  Isolated = {}
  OutageEnd = 0
  MaxClock = 3
  MaxHeight = 3
  MaxCrashes = 0
PROPERTIES ProposalsFinalize HeightsAdvance
CHECK_DEADLOCK FALSE
