SPECIFICATION Spec
CONSTANTS
  Address = {1, 2}
  BlockGasLimit = 2
  TargetGas = 1
  IntrinsicGas = 1
  FeeDenominator = 2
  Transactions <- SelfTransfers
  GenesisAccounts <- Accounts
  GenesisFee = 2
  MaxTransactions = 2
  MaxPerSender = 2
  MaxNonceGap = 1
  BumpPercent = 10
  MaxHeight = 3
INVARIANT NoReplay
CHECK_DEADLOCK FALSE
