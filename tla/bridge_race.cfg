\* mint() between the two writes of one lock() call, and unlock() between the two
\* writes of one burn() call.
CONSTANTS
  ChainName <- MCChainName
  Chain <- MCChain
  Account <- MCAccount
  LockRequest <- MCLockRequest
  BurnRequest <- MCBurnRequest
  NoTx = ""
  Signer = {relayer, stranger}
  Relayer = {relayer}
  U128Max = 2
  Database = TRUE
  DatabaseFaults = FALSE
  Resubmission = FALSE
  Caller = {c1, c2}
  MaxCalls = 2
  MaxRestarts = 0
SPECIFICATION BridgeSpec
CHECK_DEADLOCK FALSE
INVARIANTS
  MintOrUnlockIsIdempotent
