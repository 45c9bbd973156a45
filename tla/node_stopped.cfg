\* A node that has stopped still seals a block.
CONSTANTS
  Tx = {t1}
  Gas <- MCGas
  MaxPending = 2
  ValidatorAddr = 1
  Resubmission = FALSE
  OtherMiners = {}
  MaxStarts = 1
  MaxHeight = 3
  Address = {1, 2}
  EpochLength = 2
  MinStake = 1
  MaxActive = 2
  U64Max = 1
  StakeInputs = {1}
  PenaltyInputs = {1}
  TotalInputs = {}
  RewardInputs = {}
  BlockInputs = {1, 2, 3}
SPECIFICATION NodeSpec
CHECK_DEADLOCK FALSE
PROPERTIES
  NoBlockAfterStopped
