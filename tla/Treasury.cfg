\* The smallest treasury the constructor allows, two transactions and an
\* index that is never submitted.  The transactions run out, so deadlock is
\* not checked.
CONSTANTS
  Signer = {s1, s2, s3}
  requiredConfirmations = 2
  Target = {payee, self}
  Self = self
  Zero = zero
  Value = {1}
  MaxTx = 2
  MaxReceived = 2
SPECIFICATION TreasurySpec
CHECK_DEADLOCK FALSE
INVARIANTS
  TreasuryTypeOK
  CountMissesEarlyConfirmations
  ExecutedByInformedMajority
  FundsFollowDecisions
PROPERTY
  ExecutedIsFinal
