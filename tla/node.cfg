\* A validating node among two validators, with two transactions for a mempool
\* of one, each submitted once; in smaller behaviours a node that is started
\* twice, or a caller that inserts another validator's blocks.  After Exit
\* nothing is left to run, so deadlock is not checked.
CONSTANTS
  Tx = {1, 2}
  Gas <- MCGas
  MaxPending = 1
  ValidatorAddr = 1
  Resubmission = FALSE
  OtherMiners = {2}
  MaxStarts = 2
  MaxHeight = 2
  Address = {1, 2}
  EpochLength = 2
  MinStake = 1
  MaxActive = 2
  U64Max = 1
  StakeInputs = {1}
  PenaltyInputs = {1}
  TotalInputs = {}
  RewardInputs = {}
  BlockInputs = {1, 2}
SPECIFICATION NodeFairSpec
CONSTRAINTS
  MCArrival
  MCSize
  MCDisturbance
CHECK_DEADLOCK FALSE
INVARIANTS
  NodeTypeOK
  ChainIsContiguous
  ChainIsLinked
  NoTxLost
  TxIncludedOnce
  SyncTracksChain
  OneBlockAfterSlash
  OneBlockAfterStop
PROPERTIES
  TxEventuallyIncluded
