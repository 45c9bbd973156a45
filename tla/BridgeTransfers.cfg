\* Two calls at once, a database fault and a restart.  The ids run out, so
\* deadlock is not checked.
CONSTANTS
  ChainName = {tiger, eth, base}
  Chain = {tiger, eth}
  TransferId = {t1, t2, t3}
  Tx = {x1, x2}
  NoTx = NoTx
  Signer = {relayer, stranger}
  Relayer = {relayer}
  Database = TRUE
  Caller = {c1, c2}
  MaxFaults = 1
  MaxRestarts = 1
SPECIFICATION TransfersSpec
CHECK_DEADLOCK FALSE
INVARIANTS
  TransfersTypeOK
  AcknowledgedIsDurable
  MemoryMatchesTable
PROPERTY
  CompletedStaysCompleted
