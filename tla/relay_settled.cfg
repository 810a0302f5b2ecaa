SPECIFICATION Spec
CONSTANTS
  Message <- Messages
  Worker = {w1, w2}
  Key = {1, 2, 3, 4}
  Relayers = {1, 2, 3}
  Thresholds <- TwoOrThree
  Limits <- LimitPairs
  MaxAttempts = 2
  MaxSupply = 4
  LastDay = 1
  MaxFaults = 1
  MaxChanges = 2
PROPERTIES SettledIsFinal
CHECK_DEADLOCK FALSE
