\* A proposal is executed while the delay it was queued for still runs.
CONSTANTS
  Voter = {alice, bob}
  Nobody = nobody
  BlockTimes = {1}
  Blocks = {0, 1}
  Votes = {1, 2}
  Delays = {0, 1}
  MaxProposals = 1
  MaxBlock = 4
SPECIFICATION GovernorSpec
CHECK_DEADLOCK FALSE
INVARIANT
  DelayHonoured
