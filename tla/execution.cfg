SPECIFICATION Spec
CONSTANTS
  Address = {1, 2}
  BlockGasLimit = 2
  TargetGas = 1
  IntrinsicGas = 1
  FeeDenominator = 2
  Transactions <- Transfers
  GenesisAccounts <- Accounts
  GenesisFee = 2
  MaxTransactions = 2
  MaxPerSender = 2
  MaxNonceGap = 1
  BumpPercent = 10
  MaxHeight = 3
INVARIANTS TypeOK PoolSound IncludedLeavesPool NoReplay SupplyConserved CandidateFailsOnFeeOrFunds FollowsChain
CHECK_DEADLOCK FALSE
