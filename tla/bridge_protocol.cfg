SPECIFICATION Spec
CONSTANTS
  Message <- MCMessage
  Relayer = {r1, r2, r3}
  Threshold = 2
  RequiredConfirmations = 2
  PerTransactionLimit = 2
  DailyLimit = 3
  MaxConfirmations = 2
INVARIANTS ExecutionIsAttested NoneLeftPending NoReplay
CHECK_DEADLOCK FALSE
