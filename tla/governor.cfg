\* Two holders whose tokens move, a proposal, and time for its vote, a delay
\* and an execution after it.  The blocks run out, so deadlock is not checked.
CONSTANTS
  Voter = {alice, bob}
  Nobody = nobody
  BlockTimes = {1}
  Blocks = {0, 1}
  Votes = {1, 2}
  Delays = {0, 1}
  MaxProposals = 1
  MaxBlock = 4
SPECIFICATION GovernorSpec
CHECK_DEADLOCK FALSE
INVARIANTS
  GovernorTypeOK
  ExecutedWasApproved
PROPERTY
  OutcomeIsFinal
