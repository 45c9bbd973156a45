\* Two workers, loops or backfills, over two blocks that can be confirmed, at
\* an endpoint that may be one block behind.
CONSTANTS
  Worker = {w1, w2}
  start_block = 0
  confirmation_blocks = 1
  rate_limit_rps = 1
  circuit_breaker_threshold = 1
  TxPerBlock = 1
  RowCounts = {1}
  Backfills <- MCBackfills
  MaxLag = 1
  MaxHead = 2
CONSTRAINT MCUnlisted
SPECIFICATION IndexerSpec
INVARIANTS
  IndexerTypeOK
  RowsMatchTraces
  MissedBlocksAreNoted
PROPERTY
  BlocksAreSettled
