SPECIFICATION FairSpec
CONSTANTS
  Event = {e1, e2}
  Confirmations = 2
  MaxLength = 5
  MaxReorgs = 2
INVARIANTS FinalizedIsSettled FinalizedIsPrefix
PROPERTIES FinalizedOnlyGrows SettledIsReported
CHECK_DEADLOCK FALSE
