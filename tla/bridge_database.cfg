\* A database that may fail, clients that retry and a process that restarts.
\* MaxCalls ends the run, so deadlock is not checked.
CONSTANTS
  ChainName <- MCChainName
  Chain <- MCChain
  Account <- MCAccount
  LockRequest <- MCLockRequest
  BurnRequest <- MCBurnRequest
  NoTx = ""
  Signer = {relayer, stranger}
  Relayer = {relayer}
  U128Max = 2
  Database = TRUE
  DatabaseFaults = TRUE
  Resubmission = TRUE
  Caller = {c1, c2}
  MaxCalls = 3
  MaxRestarts = 1
SPECIFICATION BridgeSpec
CHECK_DEADLOCK FALSE
INVARIANTS
  BridgeTypeOK
  MintsAreBounded
  UnlocksAreBounded
