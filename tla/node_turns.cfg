\* With a second validator the chain stops at the height that is its turn.
CONSTANTS
  Tx = {t1}
  Gas <- MCGas
  MaxPending = 2
  ValidatorAddr = 1
  Resubmission = FALSE
  OtherMiners = {}
  MaxStarts = 1
  MaxHeight = 2
  Address = {1, 2}
  EpochLength = 2
  MinStake = 1
  MaxActive = 2
  U64Max = 1
  StakeInputs = {1}
  PenaltyInputs = {1}
  TotalInputs = {}
  RewardInputs = {}
  BlockInputs = {1, 2}
SPECIFICATION NodeFairSpec
CHECK_DEADLOCK FALSE
PROPERTIES
  ValidatorsTakeTurns
