\* Three validators compete for two seats over three epochs of two blocks.
CONSTANTS
  Address = {1, 2, 3}
  EpochLength = 2
  MinStake = 2
  MaxActive = 2
  U64Max = 1
  StakeInputs = {1, 2, 3}
  PenaltyInputs = {1}
  TotalInputs = {10, 20}
  RewardInputs = {1}
  BlockInputs = {0, 1, 2, 3, 4}
SPECIFICATION PoSASpec
INVARIANTS
  PoSATypeOK
  CommitteeIsStaked
  ActiveFlagIsSound
  RotationIsFair
PROPERTY
  CommitteeOnlyShrinksInEpoch
