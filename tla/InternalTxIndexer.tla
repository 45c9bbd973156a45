--------------------------- MODULE InternalTxIndexer --------------------------
(***************************************************************************)
(* The indexer of internal transactions, internal_tx/src/indexer.rs, with  *)
(* its storage, rate limiter and circuit breaker.                          *)
(*                                                                         *)
(* Every call of start() runs an indexing loop until it sees `running'     *)
(* false, and every call of backfill() walks a range of blocks: a second   *)
(* start() after stop() may find the first loop still at work.  Workers    *)
(* are those calls.  They interleave at every await; a method of the       *)
(* limiter or the breaker is one step, and so is the failure of a request  *)
(* with what is recorded of it.                                            *)
(*                                                                         *)
(* The chain grows while it is read.  The endpoint may be several nodes,   *)
(* so that each answer is up to MaxLag blocks old, any request may fail    *)
(* after its retries, and a result without a list of transactions, such as *)
(* that of an unknown block, reads as a block without transactions.  The   *)
(* storage is in memory: a restart begins again.                           *)
(*                                                                         *)
(* PlainConfirmed, LoopEnds, NotCounted and NeverCached are plausible      *)
(* wrong versions of the operator that follows each of them; nothing else  *)
(* refers to them.                                                         *)
(***************************************************************************)
EXTENDS Integers

CONSTANTS
  Worker,              \* calls of start() and backfill() at work at a time
  start_block,         \* the configuration
  confirmation_blocks,
  rate_limit_rps,
  circuit_breaker_threshold,
  TxPerBlock,          \* transactions of every block
  RowCounts,           \* rows a trace may have
  Backfills,           \* ranges of blocks, <<from, to>>, to backfill
  MaxLag,              \* blocks an answer may be behind the chain
  MaxHead              \* bound: blocks of the chain

\* An endpoint that is behind by more than the confirmations answers with
\* empty blocks where the indexer counts on full ones.
ASSUME IndexerAssumption ==
  /\ start_block \in Nat
  /\ confirmation_blocks \in Nat
  /\ rate_limit_rps \in Nat
  /\ circuit_breaker_threshold \in Nat \ {0}
  /\ TxPerBlock \in Nat \ {0}
  /\ RowCounts \subseteq Nat
  /\ Backfills \subseteq Nat \X Nat
  /\ MaxLag \in 0..confirmation_blocks
  /\ MaxHead \in Nat

Block == 0..MaxHead
Tx == Block \X (1..TxPerBlock)
None == -1

VARIABLES
  head,          \* the newest block of the chain
  running,
  current_block,
  bucket,        \* RateLimiter: requests left in this second
  failures,      \* CircuitBreaker: failures since the last success, up to the
                 \*   threshold, beyond which they make no difference
  breaker,       \* CircuitBreaker: "closed", "open", or "expired" when it is
                 \*   open and its timeout has passed
  traces,        \* transaction -> rows of the trace that is stored, or None
  rows,          \* transaction -> worker -> rows it has stored
  noted,         \* history: blocks for which `errors' was counted
  unlisted,      \* history: blocks a loop passed because the answer about them had
                 \*   no list of transactions
  pc, job,       \* worker -> where it is, and whose call it runs
  block, to,     \* worker -> the block it is at, and the last of its range
  tx,            \* worker -> the transaction of the block it is at
  trace          \* worker -> rows of the trace it was answered

storage == <<traces, rows>>
history == <<noted, unlisted>>
guards == <<bucket, failures, breaker>>
locals == <<pc, job, block, to, tx, trace>>
indexerVars == <<head, running, current_block, guards, storage, history, locals>>

IndexerInit ==
  /\ head = 0
  /\ running = FALSE
  /\ current_block = 0
  /\ bucket = rate_limit_rps
  /\ failures = 0
  /\ breaker = "closed"
  /\ traces = [t \in Tx |-> None]
  /\ rows = [t \in Tx |-> [w \in Worker |-> 0]]
  /\ noted = {}
  /\ unlisted = {}
  /\ pc = [w \in Worker |-> "idle"]
  /\ job = [w \in Worker |-> "none"]
  /\ block = [w \in Worker |-> 0]
  /\ to = [w \in Worker |-> 0]
  /\ tx = [w \in Worker |-> 1]
  /\ trace = [w \in Worker |-> 0]

-----------------------------------------------------------------------------
(* start(), stop() and the loop.                                           *)

Start(w) ==
  /\ pc[w] = "idle"
  /\ running' = TRUE
  /\ job' = [job EXCEPT ![w] = "loop"]
  /\ pc' = [pc EXCEPT ![w] = "tick"]
  /\ UNCHANGED <<head, current_block, guards, storage, history, block, to, tx, trace>>

Stop ==
  /\ running
  /\ running' = FALSE
  /\ UNCHANGED <<head, current_block, guards, storage, history, locals>>

\* The call of a worker ends.
Return(w) ==
  /\ pc' = [pc EXCEPT ![w] = "idle"]
  /\ job' = [job EXCEPT ![w] = "none"]
  /\ block' = [block EXCEPT ![w] = 0]
  /\ to' = [to EXCEPT ![w] = 0]
  /\ tx' = [tx EXCEPT ![w] = 1]

\* A tick of the interval, and the test of `running' that follows it.
Tick(w) ==
  /\ pc[w] = "tick"
  /\ IF running
     THEN pc' = [pc EXCEPT ![w] = "ask"] /\ UNCHANGED <<job, block, to, tx>>
     ELSE Return(w)
  /\ UNCHANGED <<head, running, current_block, guards, storage, history, trace>>

\* saturating_sub().
PlainConfirmed(number) == number - confirmation_blocks

Confirmed(number) ==
  IF number >= confirmation_blocks THEN number - confirmation_blocks ELSE 0

Older(number, lag) == IF number >= lag THEN number - lag ELSE 0

\* get_block_number(), answered from a node that is `lag' blocks behind.
AskHead(w, lag) ==
  /\ pc[w] = "ask"
  /\ to' = [to EXCEPT ![w] = Confirmed(Older(head, lag))]
  /\ pc' = [pc EXCEPT ![w] = "read"]
  /\ UNCHANGED <<head, running, current_block, guards, storage, history, job, block, tx,
                 trace>>

\* After an error the loop waits for the next tick.
LoopEnds(w) == "idle"

AfterError(w) == "tick"

AskHeadFails(w) ==
  /\ pc[w] = "ask"
  /\ pc' = [pc EXCEPT ![w] = AfterError(w)]
  /\ UNCHANGED <<head, running, current_block, guards, storage, history, job, block, to,
                 tx, trace>>

\* The range to index, from what `current_block' is by now; its first block
\* was the last of the range before.
ReadCurrent(w) ==
  LET start == IF current_block > start_block THEN current_block ELSE start_block
  IN /\ pc[w] = "read"
     /\ IF start < to[w]
        THEN /\ block' = [block EXCEPT ![w] = start]
             /\ pc' = [pc EXCEPT ![w] = "enter"]
        ELSE /\ pc' = [pc EXCEPT ![w] = "advance"]
             /\ UNCHANGED block
     /\ UNCHANGED <<head, running, current_block, guards, storage, history, job, to, tx,
                    trace>>

\* Whatever became of the blocks, the range is done.
Advance(w) ==
  /\ pc[w] = "advance"
  /\ current_block' = to[w]
  /\ pc' = [pc EXCEPT ![w] = "tick"]
  /\ block' = [block EXCEPT ![w] = 0]
  /\ to' = [to EXCEPT ![w] = 0]
  /\ tx' = [tx EXCEPT ![w] = 1]
  /\ UNCHANGED <<head, running, guards, storage, history, job, trace>>

-----------------------------------------------------------------------------
(* backfill().                                                             *)

\* A range that is empty leaves everything as it is.
Backfill(w, range) ==
  /\ pc[w] = "idle"
  /\ range[1] <= range[2]
  /\ job' = [job EXCEPT ![w] = "backfill"]
  /\ block' = [block EXCEPT ![w] = range[1]]
  /\ to' = [to EXCEPT ![w] = range[2]]
  /\ pc' = [pc EXCEPT ![w] = "resume"]
  /\ UNCHANGED <<head, running, current_block, guards, storage, history, tx, trace>>

\* The test of `running' before every block.
Resume(w) ==
  /\ pc[w] = "resume"
  /\ IF running
     THEN pc' = [pc EXCEPT ![w] = "enter"] /\ UNCHANGED <<job, block, to, tx>>
     ELSE Return(w)
  /\ UNCHANGED <<head, running, current_block, guards, storage, history, trace>>

-----------------------------------------------------------------------------
(* index_block().                                                          *)

\* The caller goes on with the next block of its range, or is done with it.
NextBlock(w) ==
  IF block[w] < to[w]
  THEN /\ block' = [block EXCEPT ![w] = @ + 1]
       /\ tx' = [tx EXCEPT ![w] = 1]
       /\ pc' = [pc EXCEPT ![w] = IF job[w] = "loop" THEN "enter" ELSE "resume"]
       /\ UNCHANGED <<job, to>>
  ELSE IF job[w] = "loop"
       THEN /\ pc' = [pc EXCEPT ![w] = "advance"]
            /\ UNCHANGED <<job, block, to, tx>>
       ELSE Return(w)

\* The loop counts a block that failed, backfill() only logs it.
NotCounted(w) == noted

Counted(w) == IF job[w] = "loop" THEN noted \cup {block[w]} ELSE noted

BlockFails(w) ==
  /\ NextBlock(w)
  /\ noted' = Counted(w)
  /\ UNCHANGED <<unlisted, trace>>

RefusedByBreaker(w) ==
  /\ pc[w] = "enter"
  /\ breaker = "open"
  /\ BlockFails(w)
  /\ UNCHANGED <<head, running, current_block, guards, storage>>

\* is_open() closes a breaker that has expired, then allow() is asked.
PassBreaker ==
  /\ breaker # "open"
  /\ breaker' = "closed"
  /\ failures' = IF breaker = "expired" THEN 0 ELSE failures

RefusedByLimiter(w) ==
  /\ pc[w] = "enter"
  /\ PassBreaker
  /\ bucket = 0
  /\ BlockFails(w)
  /\ UNCHANGED <<head, running, current_block, bucket, storage>>

Admit(w) ==
  /\ pc[w] = "enter"
  /\ PassBreaker
  /\ bucket > 0
  /\ bucket' = bucket - 1
  /\ pc' = [pc EXCEPT ![w] = "list"]
  /\ UNCHANGED <<head, running, current_block, storage, history, job, block, to, tx, trace>>

\* get_block_transactions(), answered from a node that is `lag' blocks behind:
\* an unknown block, whose result is null, reads as one without transactions.
ListTransactions(w, lag) ==
  /\ pc[w] = "list"
  /\ IF block[w] <= head - lag
     THEN /\ pc' = [pc EXCEPT ![w] = "tx"]
          /\ UNCHANGED <<block, tx, job, to>>
     ELSE NextBlock(w)
  /\ UNCHANGED <<head, running, current_block, guards, storage, history, trace>>

\* So does every other result without a list of transactions, of a block that
\* is there.
ListsNothing(w) ==
  /\ pc[w] = "list"
  /\ block[w] <= head
  /\ NextBlock(w)
  /\ unlisted' = IF job[w] = "loop" THEN unlisted \cup {block[w]} ELSE unlisted
  /\ UNCHANGED <<head, running, current_block, guards, storage, noted, trace>>

ListFails(w) ==
  /\ pc[w] = "list"
  /\ BlockFails(w)
  /\ UNCHANGED <<head, running, current_block, guards, storage>>

-----------------------------------------------------------------------------
(* index_transaction(), and what index_block() records of it.              *)

TxOf(w) == <<block[w], tx[w]>>

NextTx(w) ==
  IF tx[w] < TxPerBlock
  THEN /\ tx' = [tx EXCEPT ![w] = @ + 1]
       /\ pc' = [pc EXCEPT ![w] = "tx"]
       /\ UNCHANGED <<block, job, to>>
  ELSE NextBlock(w)

NeverCached(t) == FALSE

\* get_trace(), the look into the cache.
IsCached(t) == traces[t] # None

RecordSuccess ==
  /\ failures' = 0
  /\ breaker' = "closed"
  /\ UNCHANGED bucket

RecordFailure ==
  /\ failures' = IF failures < circuit_breaker_threshold THEN failures + 1 ELSE failures
  /\ breaker' = IF failures' = circuit_breaker_threshold THEN "open" ELSE breaker
  /\ UNCHANGED bucket

AlreadyTraced(w) ==
  /\ pc[w] = "tx"
  /\ IsCached(TxOf(w))
  /\ RecordSuccess
  /\ NextTx(w)
  /\ UNCHANGED <<head, running, current_block, storage, history, trace>>

MissTrace(w) ==
  /\ pc[w] = "tx"
  /\ ~IsCached(TxOf(w))
  /\ pc' = [pc EXCEPT ![w] = "trace"]
  /\ UNCHANGED <<head, running, current_block, guards, storage, history, job, block, to,
                 tx, trace>>

\* trace_transaction(), whose answers need not agree: a result that is no
\* trace is taken for an empty one.  With it the rows of the trace, stored in
\* tables no worker reads.
TraceTransaction(w) ==
  /\ pc[w] = "trace"
  /\ \E n \in RowCounts :
       /\ trace' = [trace EXCEPT ![w] = n]
       /\ rows' = [rows EXCEPT ![TxOf(w)][w] = @ + n]
  /\ pc' = [pc EXCEPT ![w] = "store"]
  /\ UNCHANGED <<head, running, current_block, guards, traces, history, job, block, to, tx>>

TraceFails(w) ==
  /\ pc[w] = "trace"
  /\ RecordFailure
  /\ NextTx(w)
  /\ noted' = noted \cup {block[w]}
  /\ UNCHANGED <<head, running, current_block, storage, unlisted, trace>>

\* store_trace(), which makes the transaction one that is known.
StoreTrace(w) ==
  /\ pc[w] = "store"
  /\ traces' = [traces EXCEPT ![TxOf(w)] = trace[w]]
  /\ trace' = [trace EXCEPT ![w] = 0]
  /\ RecordSuccess
  /\ NextTx(w)
  /\ UNCHANGED <<head, running, current_block, rows, history>>

-----------------------------------------------------------------------------
(* The chain and the clock.                                                *)

ChainGrows ==
  /\ head < MaxHead
  /\ head' = head + 1
  /\ UNCHANGED <<running, current_block, guards, storage, history, locals>>

\* The limiter's bucket is refilled by the first call after a second.
SecondPasses ==
  /\ bucket' = rate_limit_rps
  /\ UNCHANGED <<head, running, current_block, failures, breaker, storage, history,
                 locals>>

BreakerTimeoutPasses ==
  /\ breaker = "open"
  /\ breaker' = "expired"
  /\ UNCHANGED <<head, running, current_block, bucket, failures, storage, history, locals>>

-----------------------------------------------------------------------------
(* The specification.                                                      *)

LoopStep(w) ==
  \/ Tick(w) \/ AskHeadFails(w) \/ ReadCurrent(w) \/ Advance(w)
  \/ \E lag \in 0..MaxLag : AskHead(w, lag)

BlockStep(w) ==
  \/ Resume(w)
  \/ RefusedByBreaker(w) \/ RefusedByLimiter(w) \/ Admit(w)
  \/ ListFails(w) \/ ListsNothing(w)
  \/ \E lag \in 0..MaxLag : ListTransactions(w, lag)

TxStep(w) ==
  \/ AlreadyTraced(w) \/ MissTrace(w)
  \/ TraceTransaction(w) \/ TraceFails(w)
  \/ StoreTrace(w)

Step(w) == LoopStep(w) \/ BlockStep(w) \/ TxStep(w)

IndexerNext ==
  \/ \E w \in Worker : Start(w) \/ Step(w)
  \/ \E w \in Worker, range \in Backfills : Backfill(w, range)
  \/ Stop
  \/ ChainGrows \/ SecondPasses \/ BreakerTimeoutPasses

\* A task that can go on does, and the endpoint is not for ever down or
\* behind when the loop asks for the head.
IndexerFairness ==
  \A w \in Worker : WF_indexerVars(Step(w)) /\ SF_indexerVars(AskHead(w, 0))

IndexerSpec == IndexerInit /\ [][IndexerNext]_indexerVars /\ IndexerFairness

-----------------------------------------------------------------------------
(* Properties.                                                             *)

Place ==
  {"idle", "tick", "ask", "read", "advance", "resume", "enter", "list", "tx", "trace",
   "store"}

\* The fields keep their types; block numbers, which are unsigned, never fall
\* below zero.
IndexerTypeOK ==
  /\ head \in Block
  /\ running \in BOOLEAN
  /\ current_block \in Block
  /\ bucket \in 0..rate_limit_rps
  /\ failures \in 0..circuit_breaker_threshold
  /\ breaker \in {"closed", "open", "expired"}
  /\ traces \in [Tx -> RowCounts \cup {None}]
  /\ rows \in [Tx -> [Worker -> Nat]]
  /\ noted \in SUBSET Nat
  /\ unlisted \in SUBSET Nat
  /\ pc \in [Worker -> Place]
  /\ job \in [Worker -> {"none", "loop", "backfill"}]
  /\ block \in [Worker -> Nat]
  /\ to \in [Worker -> Nat]
  /\ tx \in [Worker -> Nat]
  /\ trace \in [Worker -> RowCounts \cup {0}]

\* A transaction has its trace stored only when one worker has stored exactly
\* the rows of that trace; and however often blocks are indexed again, no
\* worker stores the rows of a transaction twice, so that rows are doubled
\* only by calls that met between the look into the cache and store_trace().
RowsMatchTraces ==
  \A t \in Tx :
    /\ traces[t] # None => \E w \in Worker : rows[t][w] = traces[t]
    /\ \A w \in Worker : rows[t][w] \in RowCounts \cup {0}

IsTraced(t) == traces[t] # None

\* Every transaction of the block is traced, or an error was counted, or the
\* endpoint answered for it without a list of transactions.
IsSettled(b) ==
  b \in noted \/ b \in unlisted \/ \A i \in 1..TxPerBlock : IsTraced(<<b, i>>)

\* A block behind current_block, which the loop will not look at again, is
\* indexed or was counted among the errors, unless the endpoint answered for a
\* block it has without its transactions: that loses a block in silence, but
\* no answer that is behind, no second loop, and no move of current_block back
\* and forth does.
MissedBlocksAreNoted == \A b \in start_block..current_block - 1 : IsSettled(b)

\* While the indexer runs, every confirmed block, which is one below the
\* confirmations of the bound, is settled in the end.
BlocksAreSettled ==
  \A b \in start_block..MaxHead - confirmation_blocks - 1 :
    (start_block <= b /\ b < Confirmed(head)) ~> (IsSettled(b) \/ ~running)
=============================================================================
