SPECIFICATION Spec
CONSTANTS
  Validator = {1, 2, 3}
  Interval = 1
  Recovering = TRUE
  Resubmission = FALSE
  ManualRpc = FALSE
  Backlog = 1
  Lossy = TRUE
  Isolated = {}
  OutageEnd = 2
  MaxClock = 2
  MaxHeight = 2
  MaxCrashes = 1
INVARIANTS TypeOK Agreement JournalSound VotesAreJournaled PendingExtendsHead
PROPERTY LedgerSpec
CHECK_DEADLOCK FALSE
