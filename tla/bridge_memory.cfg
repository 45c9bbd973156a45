\* An engine without a database; each event is submitted once.
\* MaxCalls ends the run, so deadlock is not checked.
CONSTANTS
  ChainName <- MCChainName
  Chain <- MCChain
  Account <- MCAccount
  LockRequest <- MCLockRequest
  BurnRequest <- MCBurnRequest
  NoTx = ""
  Signer = {relayer, stranger}
  Relayer = {relayer}
  U128Max = 2
  Database = FALSE
  DatabaseFaults = FALSE
  Resubmission = FALSE
  Caller = {c1, c2, c3}
  MaxCalls = 7
  MaxRestarts = 0
SPECIFICATION BridgeSpec
CHECK_DEADLOCK FALSE
INVARIANTS
  TokensAreConserved
PROPERTIES
  LocksPaidOnce
  BurnsPaidOnce
