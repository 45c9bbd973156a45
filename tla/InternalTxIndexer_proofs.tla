------------------------ MODULE InternalTxIndexer_proofs ----------------------
(***************************************************************************)
(* What the indexer guarantees for every number of workers, every length   *)
(* of the chain and every delay of the endpoint that the confirmations     *)
(* cover.                                                                  *)
(*                                                                         *)
(* Both invariants speak of what workers have half done, so they rest on   *)
(* WorkerInv, which says of each worker what is true of its own place and  *)
(* survives the steps of all others: they only ever add to the chain, the  *)
(* traces and the errors (Grows), and leave its rows alone.                *)
(***************************************************************************)
EXTENDS InternalTxIndexer, TLAPS

USE DEF history

InTx(w) == pc[w] \in {"tx", "trace", "store"}
InBlock(w) == InTx(w) \/ pc[w] \in {"enter", "list"}

\* The blocks before b, which are in the chain, are settled.
SettledBelow(b) == b <= head /\ \A c \in start_block..b - 1 : IsSettled(c)

\* A worker that is at work on the range of a loop is so on confirmed blocks,
\* and has settled what lies behind it.
LoopInv(w) ==
  /\ pc[w] = "resume" => job[w] # "loop"
  /\ pc[w] = "read" => to[w] <= head /\ (to[w] = 0 \/ to[w] + confirmation_blocks <= head)
  /\ job[w] = "loop" /\ InBlock(w) =>
       /\ block[w] <= to[w]
       /\ to[w] + confirmation_blocks <= head
       /\ SettledBelow(block[w])
  /\ job[w] = "loop" /\ InTx(w) =>
       block[w] \in noted \/ \A i \in 1..tx[w] - 1 : IsTraced(<<block[w], i>>)
  /\ pc[w] = "advance" => SettledBelow(to[w])

\* The rows that a worker has stored are those of traces, except for the
\* transaction whose trace it is about to store.
RowsInv(w) ==
  /\ pc[w] = "trace" => rows[TxOf(w)][w] = 0
  /\ pc[w] = "store" => trace[w] \in RowCounts /\ rows[TxOf(w)][w] = trace[w]
  /\ \A t \in Tx : rows[t][w] # 0 /\ ~IsTraced(t) => pc[w] = "store" /\ TxOf(w) = t

TxInv(w) ==
  /\ InTx(w) => block[w] \in 0..head /\ tx[w] \in 1..TxPerBlock
  /\ ~InTx(w) /\ pc[w] # "advance" => tx[w] = 1

WorkerInv(w) == LoopInv(w) /\ RowsInv(w) /\ TxInv(w)

\* Behind a stored trace is a worker that has its rows and is not about to
\* store them again.
KeptInv ==
  \A t \in Tx :
    IsTraced(t) =>
      \E w \in Worker : rows[t][w] = traces[t] /\ ~(pc[w] = "trace" /\ TxOf(w) = t)

RowsBounded == \A t \in Tx, w \in Worker : rows[t][w] \in RowCounts \cup {0}

IndexerInv ==
  /\ IndexerTypeOK
  /\ SettledBelow(current_block)
  /\ KeptInv
  /\ RowsBounded
  /\ \A w \in Worker : WorkerInv(w)

\* The steps of the workers.
WorkerNext(w) ==
  Start(w) \/ Step(w) \/ \E range \in Backfills : Backfill(w, range)

-----------------------------------------------------------------------------
(* Types.                                                                  *)

LocalTypes ==
  /\ pc \in [Worker -> Place]
  /\ job \in [Worker -> {"none", "loop", "backfill"}]
  /\ block \in [Worker -> Nat]
  /\ to \in [Worker -> Nat]
  /\ tx \in [Worker -> Nat]

LEMMA ReturnTypes ==
  ASSUME LocalTypes, NEW w \in Worker, Return(w)
  PROVE  LocalTypes'
  BY DEF LocalTypes, Return, Place

LEMMA NextBlockTypes ==
  ASSUME LocalTypes, NEW w \in Worker, NextBlock(w)
  PROVE  LocalTypes'
<1>1. CASE block[w] < to[w]
  BY <1>1 DEF LocalTypes, NextBlock, Place
<1>2. CASE ~(block[w] < to[w]) /\ job[w] = "loop"
  BY <1>2 DEF LocalTypes, NextBlock, Place
<1>3. CASE ~(block[w] < to[w]) /\ job[w] # "loop"
  BY <1>3, ReturnTypes DEF NextBlock
<1> QED
  BY <1>1, <1>2, <1>3

LEMMA NextTxTypes ==
  ASSUME LocalTypes, NEW w \in Worker, NextTx(w)
  PROVE  LocalTypes'
<1>1. CASE tx[w] < TxPerBlock
  BY <1>1 DEF LocalTypes, NextTx, Place
<1>2. CASE ~(tx[w] < TxPerBlock)
  BY <1>2, NextBlockTypes DEF NextTx
<1> QED
  BY <1>1, <1>2

\* The transaction a worker is at is one.
LEMMA TxOfType ==
  ASSUME IndexerInv, NEW w \in Worker, InTx(w)
  PROVE  TxOf(w) \in Tx
  BY IndexerAssumption
     DEF IndexerInv, IndexerTypeOK, WorkerInv, TxInv, TxOf, Tx, Block

LEMMA RecordTypes ==
  ASSUME IndexerTypeOK, RecordSuccess \/ RecordFailure
  PROVE  /\ bucket' \in 0..rate_limit_rps
         /\ failures' \in 0..circuit_breaker_threshold
         /\ breaker' \in {"closed", "open", "expired"}
  BY IndexerAssumption DEF IndexerTypeOK, RecordSuccess, RecordFailure

\* A worker's step keeps the types of its locals,
LEMMA WorkerLocalTypes ==
  ASSUME IndexerInv, NEW w \in Worker, WorkerNext(w)
  PROVE  LocalTypes'
<1>0. LocalTypes /\ head \in Nat
  BY IndexerAssumption DEF IndexerInv, IndexerTypeOK, LocalTypes, Block
<1>1. CASE Start(w)
  BY <1>0, <1>1 DEF LocalTypes, Start, Place
<1>2. CASE Tick(w)
  <2>1. CASE running
    BY <1>0, <1>2, <2>1 DEF LocalTypes, Tick, Place
  <2>2. CASE ~running
    BY <1>0, <1>2, <2>2, ReturnTypes DEF Tick
  <2> QED
    BY <2>1, <2>2
<1>3. CASE AskHeadFails(w)
  BY <1>0, <1>3 DEF LocalTypes, AskHeadFails, AfterError, Place
<1>4. ASSUME NEW lag \in 0..MaxLag, AskHead(w, lag)
      PROVE  LocalTypes'
  <2>1. Confirmed(Older(head, lag)) \in Nat
    BY <1>0, IndexerAssumption DEF Confirmed, Older
  <2> QED
    BY <1>0, <1>4, <2>1 DEF LocalTypes, AskHead, Place
<1>5. CASE ReadCurrent(w)
  <2>1. current_block \in Nat /\ start_block \in Nat
    BY IndexerAssumption DEF IndexerInv, IndexerTypeOK, Block
  <2> QED
    BY <1>0, <1>5, <2>1 DEF LocalTypes, ReadCurrent, Place
<1>6. CASE Advance(w)
  BY <1>0, <1>6 DEF LocalTypes, Advance, Place
<1>7. CASE Resume(w)
  <2>1. CASE running
    BY <1>0, <1>7, <2>1 DEF LocalTypes, Resume, Place
  <2>2. CASE ~running
    BY <1>0, <1>7, <2>2, ReturnTypes DEF Resume
  <2> QED
    BY <2>1, <2>2
<1>8. CASE RefusedByBreaker(w) \/ RefusedByLimiter(w) \/ ListFails(w)
  BY <1>0, <1>8, NextBlockTypes
     DEF RefusedByBreaker, RefusedByLimiter, ListFails, BlockFails
<1>9. CASE Admit(w)
  BY <1>0, <1>9 DEF LocalTypes, Admit, Place
<1>10. ASSUME NEW lag \in 0..MaxLag, ListTransactions(w, lag)
       PROVE  LocalTypes'
  <2>1. CASE block[w] <= head - lag
    BY <1>0, <1>10, <2>1 DEF LocalTypes, ListTransactions, Place
  <2>2. CASE ~(block[w] <= head - lag)
    BY <1>0, <1>10, <2>2, NextBlockTypes DEF ListTransactions
  <2> QED
    BY <2>1, <2>2
<1>11. CASE AlreadyTraced(w) \/ TraceFails(w) \/ StoreTrace(w)
  BY <1>0, <1>11, NextTxTypes DEF AlreadyTraced, TraceFails, StoreTrace
<1>12. CASE MissTrace(w)
  BY <1>0, <1>12 DEF LocalTypes, MissTrace, Place
<1>13. CASE TraceTransaction(w)
  BY <1>0, <1>13 DEF LocalTypes, TraceTransaction, Place
<1>14. ASSUME NEW range \in Backfills, Backfill(w, range)
       PROVE  LocalTypes'
  <2>1. range[1] \in Nat /\ range[2] \in Nat
    BY IndexerAssumption
  <2> QED
    BY <1>0, <1>14, <2>1 DEF LocalTypes, Backfill, Place
<1>15. CASE ListsNothing(w)
  BY <1>0, <1>15, NextBlockTypes DEF ListsNothing
<1> QED
  BY <1>1, <1>2, <1>3, <1>4, <1>5, <1>6, <1>7, <1>8, <1>9, <1>10, <1>11, <1>12, <1>13,
     <1>14, <1>15 DEF WorkerNext, Step, LoopStep, BlockStep, TxStep

GlobalTypes ==
  /\ head \in Block
  /\ running \in BOOLEAN
  /\ current_block \in Block
  /\ bucket \in 0..rate_limit_rps
  /\ failures \in 0..circuit_breaker_threshold
  /\ breaker \in {"closed", "open", "expired"}
  /\ traces \in [Tx -> RowCounts \cup {None}]
  /\ rows \in [Tx -> [Worker -> Nat]]
  /\ noted \in SUBSET Nat
  /\ unlisted \in SUBSET Nat
  /\ trace \in [Worker -> RowCounts \cup {0}]

\* and those of the rest.
LEMMA WorkerGlobalTypes ==
  ASSUME IndexerInv, NEW w \in Worker, WorkerNext(w)
  PROVE  GlobalTypes'
<1>0. /\ GlobalTypes /\ LocalTypes
      /\ IndexerTypeOK
      /\ MaxHead \in Nat /\ rate_limit_rps \in Nat /\ RowCounts \subseteq Nat
  BY IndexerAssumption DEF IndexerInv, IndexerTypeOK, GlobalTypes, LocalTypes
<1>1. CASE \/ Start(w) \/ Tick(w) \/ AskHeadFails(w) \/ ReadCurrent(w) \/ Resume(w)
           \/ MissTrace(w)
           \/ \E lag \in 0..MaxLag : AskHead(w, lag) \/ ListTransactions(w, lag)
           \/ \E range \in Backfills : Backfill(w, range)
  BY <1>0, <1>1
     DEF GlobalTypes, Start, Tick, AskHeadFails, ReadCurrent, Resume, MissTrace, AskHead,
         ListTransactions, Backfill, guards, storage
<1>2. CASE Advance(w)
  <2>1. to[w] \in Block
    BY <1>0, <1>2
       DEF Advance, IndexerInv, WorkerInv, LoopInv, SettledBelow, GlobalTypes, LocalTypes,
           Block
  <2> QED
    BY <1>0, <1>2, <2>1 DEF GlobalTypes, Advance, guards, storage
<1>3. CASE RefusedByBreaker(w) \/ RefusedByLimiter(w) \/ ListFails(w)
  <2>1. Counted(w) \in SUBSET Nat
    BY <1>0 DEF Counted, GlobalTypes, LocalTypes
  <2>2. /\ noted' = Counted(w)
        /\ UNCHANGED <<head, running, current_block, bucket, storage, unlisted, trace>>
    BY <1>3 DEF RefusedByBreaker, RefusedByLimiter, ListFails, BlockFails, guards
  <2>3. /\ failures' \in 0..circuit_breaker_threshold
        /\ breaker' \in {"closed", "open", "expired"}
    BY <1>0, <1>3, IndexerAssumption
       DEF GlobalTypes, RefusedByBreaker, RefusedByLimiter, ListFails, PassBreaker,
           guards
  <2> QED
    BY <1>0, <2>1, <2>2, <2>3 DEF GlobalTypes, storage
<1>4. CASE Admit(w)
  BY <1>0, <1>4, IndexerAssumption DEF GlobalTypes, Admit, PassBreaker, storage
<1>5. CASE AlreadyTraced(w)
  BY <1>0, <1>5, RecordTypes DEF GlobalTypes, AlreadyTraced, storage
<1>6. CASE TraceFails(w)
  BY <1>0, <1>6, RecordTypes DEF GlobalTypes, LocalTypes, TraceFails, storage
<1>7. CASE TraceTransaction(w)
  <2>1. PICK n \in RowCounts :
          /\ trace' = [trace EXCEPT ![w] = n]
          /\ rows' = [rows EXCEPT ![TxOf(w)][w] = @ + n]
    BY <1>7 DEF TraceTransaction
  <2>2. rows' \in [Tx -> [Worker -> Nat]]
    <3>1. TxOf(w) \in Tx
      BY <1>7, TxOfType DEF TraceTransaction, InTx
    <3>2. rows[TxOf(w)][w] + n \in Nat
      BY <1>0, <3>1 DEF GlobalTypes
    <3> QED
      BY <1>0, <2>1, <3>1, <3>2 DEF GlobalTypes
  <2> QED
    BY <1>0, <1>7, <2>1, <2>2 DEF GlobalTypes, TraceTransaction, guards
<1>8. CASE StoreTrace(w)
  <2>1. trace[w] \in RowCounts
    BY <1>8 DEF StoreTrace, IndexerInv, WorkerInv, RowsInv
  <2> QED
    BY <1>0, <1>8, <2>1, RecordTypes DEF GlobalTypes, StoreTrace
<1>9. CASE ListsNothing(w)
  BY <1>0, <1>9 DEF GlobalTypes, LocalTypes, ListsNothing, guards, storage
<1> QED
  BY <1>1, <1>2, <1>3, <1>4, <1>5, <1>6, <1>7, <1>8, <1>9
     DEF WorkerNext, Step, LoopStep, BlockStep, TxStep

-----------------------------------------------------------------------------
(* What grows, and what a worker leaves alone.                             *)

Grows ==
  /\ head <= head'
  /\ noted \subseteq noted'
  /\ unlisted \subseteq unlisted'
  /\ \A t \in Tx : IsTraced(t) => IsTraced(t)'

LocalsStay(v) ==
  /\ UNCHANGED <<pc[v], job[v], block[v], to[v], tx[v], trace[v]>>
  /\ \A t \in Tx : rows'[t][v] = rows[t][v]

\* NextBlock() and its like touch the locals of their worker only.
LEMMA NextStay ==
  ASSUME IndexerInv, NEW w \in Worker, NextTx(w) \/ NextBlock(w) \/ Return(w),
         NEW v \in Worker, v # w
  PROVE  UNCHANGED <<pc[v], job[v], block[v], to[v], tx[v]>>
  BY DEF IndexerInv, IndexerTypeOK, NextTx, NextBlock, Return

LEMMA OthersStay ==
  ASSUME IndexerInv, NEW w \in Worker, WorkerNext(w), NEW v \in Worker, v # w
  PROVE  LocalsStay(v)
<1> USE DEF LocalsStay, IndexerTypeOK
<1>0. IndexerTypeOK
  BY DEF IndexerInv
<1>1. CASE Start(w) \/ AskHeadFails(w) \/ ReadCurrent(w) \/ Advance(w)
  BY <1>0, <1>1 DEF Start, AskHeadFails, ReadCurrent, Advance, storage
<1>2. CASE Tick(w) \/ Resume(w)
  BY <1>0, <1>2, NextStay DEF Tick, Resume, storage
<1>3. ASSUME NEW lag \in 0..MaxLag, AskHead(w, lag)
      PROVE  LocalsStay(v)
  BY <1>0, <1>3 DEF AskHead, storage
<1>4. CASE RefusedByBreaker(w) \/ RefusedByLimiter(w) \/ ListFails(w)
  BY <1>0, <1>4, NextStay
     DEF RefusedByBreaker, RefusedByLimiter, ListFails, BlockFails, storage
<1>5. CASE Admit(w) \/ MissTrace(w)
  BY <1>0, <1>5 DEF Admit, MissTrace, storage
<1>6. ASSUME NEW lag \in 0..MaxLag, ListTransactions(w, lag)
      PROVE  LocalsStay(v)
  BY <1>0, <1>6, NextStay DEF ListTransactions, storage
<1>10. CASE ListsNothing(w)
  BY <1>0, <1>10, NextStay DEF ListsNothing, storage
<1>7. CASE AlreadyTraced(w) \/ TraceFails(w) \/ StoreTrace(w)
  BY <1>0, <1>7, NextStay DEF AlreadyTraced, TraceFails, StoreTrace, storage
<1>8. CASE TraceTransaction(w)
  <2>1. PICK n \in RowCounts :
          /\ trace' = [trace EXCEPT ![w] = n]
          /\ rows' = [rows EXCEPT ![TxOf(w)][w] = @ + n]
    BY <1>8 DEF TraceTransaction
  <2>2. \A t \in Tx : rows'[t][v] = rows[t][v]
    BY <1>0, <2>1
  <2> QED
    BY <1>0, <1>8, <2>1, <2>2 DEF TraceTransaction
<1>9. ASSUME NEW range \in Backfills, Backfill(w, range)
      PROVE  LocalsStay(v)
  BY <1>0, <1>9 DEF Backfill, storage
<1> QED
  BY <1>1, <1>2, <1>3, <1>4, <1>5, <1>6, <1>7, <1>8, <1>9, <1>10
     DEF WorkerNext, Step, LoopStep, BlockStep, TxStep

LEMMA WorkerGrows ==
  ASSUME IndexerInv, NEW w \in Worker, WorkerNext(w)
  PROVE  Grows
<1>0. IndexerTypeOK /\ head \in Nat /\ RowCounts \subseteq Nat
  BY IndexerAssumption DEF IndexerInv, IndexerTypeOK, Block
<1>1. CASE StoreTrace(w)
  <2>1. trace[w] \in RowCounts /\ trace[w] # None
    BY <1>0, <1>1 DEF StoreTrace, IndexerInv, WorkerInv, RowsInv, None
  <2> QED
    BY <1>0, <1>1, <2>1 DEF StoreTrace, Grows, IsTraced, IndexerTypeOK
<1>2. CASE \/ Start(w) \/ Tick(w) \/ AskHeadFails(w) \/ ReadCurrent(w) \/ Advance(w)
           \/ Resume(w) \/ Admit(w) \/ AlreadyTraced(w) \/ MissTrace(w)
           \/ TraceTransaction(w)
           \/ \E lag \in 0..MaxLag : AskHead(w, lag) \/ ListTransactions(w, lag)
           \/ \E range \in Backfills : Backfill(w, range)
  BY <1>0, <1>2
     DEF Grows, IsTraced, Start, Tick, AskHeadFails, ReadCurrent, Advance, Resume, Admit,
         AlreadyTraced, MissTrace, TraceTransaction, AskHead, ListTransactions, Backfill,
         storage
<1>3. CASE \/ RefusedByBreaker(w) \/ RefusedByLimiter(w) \/ ListFails(w)
           \/ ListsNothing(w) \/ TraceFails(w)
  BY <1>0, <1>3
     DEF Grows, IsTraced, RefusedByBreaker, RefusedByLimiter, ListFails, BlockFails,
         ListsNothing, Counted, TraceFails, storage
<1> QED
  BY <1>1, <1>2, <1>3 DEF WorkerNext, Step, LoopStep, BlockStep, TxStep

\* What is settled in the chain stays so.
LEMMA SettledStays ==
  ASSUME IndexerTypeOK, IndexerTypeOK', Grows, NEW b \in Nat, SettledBelow(b)
  PROVE  SettledBelow(b)'
<1>1. /\ head \in Nat /\ head' \in Nat /\ head <= MaxHead /\ head <= head'
      /\ MaxHead \in Nat /\ start_block \in Nat
  BY IndexerAssumption DEF IndexerTypeOK, Block, Grows
<1>2. ASSUME NEW c \in start_block..b - 1
      PROVE  IsSettled(c)'
  <2>1. c \in Block /\ IsSettled(c)
    BY <1>1 DEF SettledBelow, Block
  <2>2. \A i \in 1..TxPerBlock : <<c, i>> \in Tx
    BY <2>1 DEF Tx
  <2> QED
    BY <2>1, <2>2 DEF IsSettled, Grows
<1> QED
  BY <1>1, <1>2 DEF SettledBelow

\* A worker that does not move keeps what is true of its place.
LEMMA OthersKeep ==
  ASSUME IndexerInv, IndexerTypeOK', Grows, NEW v \in Worker, LocalsStay(v)
  PROVE  WorkerInv(v)'
<1>1. /\ IndexerTypeOK /\ WorkerInv(v)
      /\ head \in Nat /\ head' \in Nat /\ head <= head' /\ head <= MaxHead
      /\ MaxHead \in Nat /\ confirmation_blocks \in Nat /\ TxPerBlock \in Nat
      /\ block[v] \in Nat /\ to[v] \in Nat /\ tx[v] \in Nat
  BY IndexerAssumption DEF IndexerInv, IndexerTypeOK, Grows, Block
<1>2. /\ pc'[v] = pc[v] /\ job'[v] = job[v] /\ block'[v] = block[v] /\ to'[v] = to[v]
      /\ tx'[v] = tx[v] /\ trace'[v] = trace[v]
      /\ InTx(v)' = InTx(v) /\ InBlock(v)' = InBlock(v) /\ TxOf(v)' = TxOf(v)
      /\ \A t \in Tx : rows'[t][v] = rows[t][v]
  BY DEF LocalsStay, InTx, InBlock, TxOf
<1>3. /\ SettledBelow(block[v]) => SettledBelow(block[v])'
      /\ SettledBelow(to[v]) => SettledBelow(to[v])'
  <2>1. ASSUME NEW b \in Nat, SettledBelow(b)
        PROVE  SettledBelow(b)'
    BY <1>1, <2>1, SettledStays
  <2>2. \A b \in Nat : SettledBelow(b) => SettledBelow(b)'
    BY <2>1
  <2> QED
    BY <1>1, <1>2, <2>2 DEF SettledBelow, IsSettled, IsTraced
<1>4. LoopInv(v)'
  <2>1. ASSUME job[v] = "loop", InTx(v)
        PROVE  \/ block[v] \in noted'
               \/ \A i \in 1..tx[v] - 1 : traces'[<<block[v], i>>] # None
    <3>1. block[v] \in Block /\ tx[v] \in 1..TxPerBlock
      BY <1>1, <2>1 DEF WorkerInv, TxInv, Block
    <3>2. \A i \in 1..tx[v] - 1 : <<block[v], i>> \in Tx
      BY <1>1, <3>1 DEF Tx
    <3>3. block[v] \in noted \/ \A i \in 1..tx[v] - 1 : IsTraced(<<block[v], i>>)
      BY <1>1, <2>1 DEF WorkerInv, LoopInv
    <3>4. CASE block[v] \in noted
      BY <3>4 DEF Grows
    <3>5. CASE \A i \in 1..tx[v] - 1 : IsTraced(<<block[v], i>>)
      BY <3>2, <3>5 DEF Grows, IsTraced
    <3> QED
      BY <3>3, <3>4, <3>5
  <2> QED
    BY <1>1, <1>2, <1>3, <2>1 DEF WorkerInv, LoopInv, IsTraced
<1>5. RowsInv(v)'
  <2>1. InTx(v) => TxOf(v) \in Tx
    BY TxOfType
  <2> QED
    BY <1>1, <1>2, <2>1 DEF WorkerInv, RowsInv, Grows, InTx
<1>6. TxInv(v)'
  BY <1>1, <1>2 DEF WorkerInv, TxInv
<1> QED
  BY <1>4, <1>5, <1>6 DEF WorkerInv

-----------------------------------------------------------------------------
(* What a worker's step makes of its own place.                            *)

\* No rows of the worker wait for their trace.
RowsDone(w) == \A t \in Tx : rows[t][w] # 0 => IsTraced(t)

LEMMA RowsAreDone ==
  ASSUME IndexerInv, NEW w \in Worker, pc[w] # "store"
  PROVE  RowsDone(w)
  BY DEF IndexerInv, WorkerInv, RowsInv, RowsDone

\* A worker that goes on to the next block has settled this one.
LEMMA NextBlockKeeps ==
  ASSUME IndexerInv, IndexerTypeOK', Grows, NEW w \in Worker, NEW b \in Nat,
         block[w] = b, InBlock(w), NextBlock(w),
         job[w] = "loop" => IsSettled(b)', RowsDone(w)'
  PROVE  WorkerInv(w)'
<1>1. /\ IndexerTypeOK /\ WorkerInv(w)
      /\ head \in Nat /\ head' \in Nat /\ head <= head'
      /\ MaxHead \in Nat /\ confirmation_blocks \in Nat
      /\ to[w] \in Nat /\ start_block \in Nat
  BY IndexerAssumption DEF IndexerInv, IndexerTypeOK, Grows, Block
<1>2. job[w] = "loop" =>
        /\ b <= to[w] /\ to[w] + confirmation_blocks <= head /\ to[w] <= head'
        /\ SettledBelow(b)'
  BY <1>1, SettledStays DEF WorkerInv, LoopInv
<1>3. CASE b < to[w]
  <2>1. /\ block'[w] = b + 1 /\ tx'[w] = 1 /\ job'[w] = job[w] /\ to'[w] = to[w]
        /\ pc'[w] = IF job[w] = "loop" THEN "enter" ELSE "resume"
    BY <1>1, <1>3 DEF NextBlock, IndexerTypeOK
  <2>2. job[w] = "loop" => SettledBelow(b + 1)'
    BY <1>1, <1>2, <1>3 DEF SettledBelow
  <2> QED
    BY <1>1, <1>2, <1>3, <2>1, <2>2
       DEF WorkerInv, LoopInv, RowsInv, TxInv, InTx, InBlock, RowsDone, SettledBelow
<1>4. CASE ~(b < to[w]) /\ job[w] = "loop"
  <2>1. b = to[w]
    BY <1>1, <1>2, <1>4
  <2>2. pc'[w] = "advance" /\ to'[w] = b
    BY <1>1, <1>4, <2>1 DEF NextBlock, IndexerTypeOK
  <2>3. SettledBelow(to[w])'
    BY <1>2, <1>4, <2>2 DEF SettledBelow
  <2> QED
    BY <2>2, <2>3 DEF WorkerInv, LoopInv, RowsInv, TxInv, InTx, InBlock, RowsDone
<1>5. CASE ~(b < to[w]) /\ job[w] # "loop"
  <2>1. pc'[w] = "idle" /\ tx'[w] = 1
    BY <1>1, <1>5 DEF NextBlock, Return, IndexerTypeOK
  <2> QED
    BY <2>1 DEF WorkerInv, LoopInv, RowsInv, TxInv, InTx, InBlock, RowsDone
<1> QED
  BY <1>3, <1>4, <1>5

\* A worker that goes on to the next transaction has traced this one, or the
\* block is noted.
LEMMA NextTxKeeps ==
  ASSUME IndexerInv, IndexerTypeOK', Grows, NEW w \in Worker,
         NEW b \in Block, NEW k \in 1..TxPerBlock, block[w] = b, tx[w] = k,
         InTx(w), NextTx(w),
         b \in noted' \/ IsTraced(<<b, k>>)', RowsDone(w)'
  PROVE  WorkerInv(w)'
<1>1. /\ IndexerTypeOK /\ WorkerInv(w)
      /\ head \in Nat /\ head' \in Nat /\ head <= head' /\ b <= head
      /\ MaxHead \in Nat /\ confirmation_blocks \in Nat /\ TxPerBlock \in Nat
      /\ to[w] \in Nat /\ start_block \in Nat /\ b \in Nat
  BY IndexerAssumption DEF IndexerInv, IndexerTypeOK, Grows, Block, WorkerInv, TxInv
<1>2. job[w] = "loop" =>
        /\ b <= to[w] /\ to[w] + confirmation_blocks <= head'
        /\ SettledBelow(b)'
  BY <1>1, SettledStays DEF WorkerInv, LoopInv, InBlock
<1>3. job[w] = "loop" => b \in noted' \/ \A i \in 1..k : IsTraced(<<b, i>>)'
  <2>1. ASSUME job[w] = "loop", \A i \in 1..k - 1 : IsTraced(<<b, i>>),
               IsTraced(<<b, k>>)'
        PROVE  \A i \in 1..k : IsTraced(<<b, i>>)'
    <3>1. ASSUME NEW i \in 1..k - 1
          PROVE  IsTraced(<<b, i>>)'
      BY <1>1, <2>1 DEF Grows, Tx
    <3> QED
      BY <2>1, <3>1
  <2> QED
    BY <1>1, <2>1 DEF WorkerInv, LoopInv, Grows
<1>4. CASE k < TxPerBlock
  <2>1. /\ block'[w] = b /\ tx'[w] = k + 1 /\ job'[w] = job[w] /\ to'[w] = to[w]
        /\ pc'[w] = "tx"
    BY <1>1, <1>4 DEF NextTx, IndexerTypeOK
  <2>2. job[w] = "loop" =>
          block'[w] \in noted' \/ \A i \in 1..tx'[w] - 1 : IsTraced(<<b, i>>)'
    BY <1>3, <2>1
  <2>3. LoopInv(w)'
    BY <1>2, <2>1, <2>2 DEF LoopInv, InTx, InBlock, SettledBelow, IsTraced, IsSettled
  <2>4. RowsInv(w)' /\ TxInv(w)'
    BY <1>1, <1>4, <2>1 DEF RowsInv, TxInv, InTx, RowsDone
  <2> QED
    BY <2>3, <2>4 DEF WorkerInv
<1>5. CASE ~(k < TxPerBlock)
  <2>1. NextBlock(w)
    BY <1>5 DEF NextTx
  <2>2. job[w] = "loop" => IsSettled(b)'
    <3>1. k = TxPerBlock
      BY <1>1, <1>5
    <3> QED
      BY <1>3, <3>1 DEF IsSettled
  <2> QED
    BY <1>1, <2>1, <2>2, NextBlockKeeps DEF InBlock
<1> QED
  BY <1>4, <1>5

-----------------------------------------------------------------------------
(* Every step of a worker keeps what is true of it.                        *)

LEMMA LoopStepKeeps ==
  ASSUME IndexerInv, IndexerTypeOK', Grows, NEW w \in Worker, Start(w) \/ LoopStep(w)
  PROVE  WorkerInv(w)'
<1>1. /\ IndexerTypeOK /\ WorkerInv(w)
      /\ head \in Nat /\ confirmation_blocks \in Nat /\ start_block \in Nat
      /\ to[w] \in Nat /\ current_block \in Nat /\ head' \in Nat /\ head <= head'
      /\ block[w] \in Nat /\ MaxLag \in Nat
  BY IndexerAssumption DEF IndexerInv, IndexerTypeOK, Grows, Block
<1>2. RowsDone(w)
  BY RowsAreDone DEF Start, LoopStep, Tick, AskHeadFails, ReadCurrent, Advance, AskHead
<1>3. ASSUME UNCHANGED storage
      PROVE  RowsDone(w)'
  BY <1>2, <1>3 DEF RowsDone, IsTraced, storage
<1>4. CASE Start(w)
  <2>1. pc'[w] = "tick" /\ tx'[w] = 1 /\ UNCHANGED storage
    BY <1>1, <1>4 DEF Start, IndexerTypeOK, WorkerInv, TxInv, InTx
  <2> QED
    BY <1>3, <2>1 DEF WorkerInv, LoopInv, RowsInv, TxInv, InTx, InBlock, RowsDone
<1>5. CASE Tick(w)
  <2>1. pc'[w] \in {"ask", "idle"} /\ tx'[w] = 1 /\ UNCHANGED storage
    BY <1>1, <1>5 DEF Tick, Return, IndexerTypeOK, WorkerInv, TxInv, InTx
  <2> QED
    BY <1>3, <2>1 DEF WorkerInv, LoopInv, RowsInv, TxInv, InTx, InBlock, RowsDone
<1>6. CASE AskHeadFails(w)
  <2>1. pc'[w] = "tick" /\ tx'[w] = 1 /\ UNCHANGED storage
    BY <1>1, <1>6 DEF AskHeadFails, AfterError, IndexerTypeOK, WorkerInv, TxInv, InTx
  <2> QED
    BY <1>3, <2>1 DEF WorkerInv, LoopInv, RowsInv, TxInv, InTx, InBlock, RowsDone
<1>7. ASSUME NEW lag \in 0..MaxLag, AskHead(w, lag)
      PROVE  WorkerInv(w)'
  <2>1. /\ pc'[w] = "read" /\ tx'[w] = 1 /\ UNCHANGED storage
        /\ to'[w] = Confirmed(Older(head, lag)) /\ UNCHANGED head
    BY <1>1, <1>7 DEF AskHead, IndexerTypeOK, WorkerInv, TxInv, InTx
  <2>2. to'[w] <= head /\ (to'[w] = 0 \/ to'[w] + confirmation_blocks <= head)
    BY <1>1, <1>7, <2>1 DEF Confirmed, Older
  <2> QED
    BY <1>3, <2>1, <2>2 DEF WorkerInv, LoopInv, RowsInv, TxInv, InTx, InBlock, RowsDone
<1>8. CASE ReadCurrent(w)
  <2> DEFINE start == IF current_block > start_block THEN current_block ELSE start_block
  <2>1. /\ tx'[w] = 1 /\ UNCHANGED <<storage, head, history>>
        /\ to'[w] = to[w] /\ job'[w] = job[w]
        /\ to[w] <= head /\ (to[w] = 0 \/ to[w] + confirmation_blocks <= head)
        /\ start \in Nat
    BY <1>1, <1>8
       DEF ReadCurrent, IndexerTypeOK, WorkerInv, LoopInv, TxInv, InTx
  <2>2. \A c \in start_block..start - 1 : IsSettled(c)
    BY <1>1 DEF IndexerInv, SettledBelow
  <2>3. CASE start < to[w]
    <3>1. pc'[w] = "enter" /\ block'[w] = start
      BY <1>1, <1>8, <2>3 DEF ReadCurrent, IndexerTypeOK
    <3>2. /\ start <= to[w] /\ to[w] + confirmation_blocks <= head /\ start <= head
      BY <1>1, <2>1, <2>3
    <3>3. SettledBelow(block[w])'
      BY <2>1, <2>2, <3>1, <3>2 DEF SettledBelow, IsSettled, IsTraced, storage
    <3> QED
      BY <1>3, <2>1, <3>1, <3>2, <3>3
         DEF WorkerInv, LoopInv, RowsInv, TxInv, InTx, InBlock, RowsDone
  <2>4. CASE ~(start < to[w])
    <3>1. pc'[w] = "advance"
      BY <1>1, <1>8, <2>4 DEF ReadCurrent, IndexerTypeOK
    <3>2. \A c \in start_block..to[w] - 1 : IsSettled(c)
      BY <1>1, <2>1, <2>2, <2>4
    <3>3. SettledBelow(to[w])'
      BY <2>1, <3>2 DEF SettledBelow, IsSettled, IsTraced, storage
    <3> QED
      BY <1>3, <2>1, <3>1, <3>3
         DEF WorkerInv, LoopInv, RowsInv, TxInv, InTx, InBlock, RowsDone
  <2> QED
    BY <2>3, <2>4
<1>9. CASE Advance(w)
  <2>1. pc'[w] = "tick" /\ tx'[w] = 1 /\ UNCHANGED storage
    BY <1>1, <1>9 DEF Advance, IndexerTypeOK
  <2> QED
    BY <1>3, <2>1 DEF WorkerInv, LoopInv, RowsInv, TxInv, InTx, InBlock, RowsDone
<1> QED
  BY <1>4, <1>5, <1>6, <1>7, <1>8, <1>9 DEF LoopStep

LEMMA BlockStepKeeps ==
  ASSUME IndexerInv, IndexerTypeOK', Grows, NEW w \in Worker,
         BlockStep(w) \/ \E range \in Backfills : Backfill(w, range)
  PROVE  WorkerInv(w)'
<1>1. /\ IndexerTypeOK /\ WorkerInv(w)
      /\ head \in Nat /\ confirmation_blocks \in Nat /\ MaxHead \in Nat
      /\ TxPerBlock \in Nat \ {0}
      /\ to[w] \in Nat /\ head' \in Nat /\ head <= head' /\ head <= MaxHead
      /\ block[w] \in Nat /\ MaxLag \in 0..confirmation_blocks
  BY IndexerAssumption DEF IndexerInv, IndexerTypeOK, Grows, Block
<1>2. RowsDone(w)
  BY RowsAreDone
     DEF BlockStep, Backfill, Resume, RefusedByBreaker, RefusedByLimiter, Admit,
         ListTransactions, ListFails, ListsNothing
<1>3. ASSUME UNCHANGED storage
      PROVE  RowsDone(w)'
  BY <1>2, <1>3 DEF RowsDone, IsTraced, storage
<1>4. ASSUME NEW range \in Backfills, Backfill(w, range)
      PROVE  WorkerInv(w)'
  <2>1. pc'[w] = "resume" /\ job'[w] = "backfill" /\ tx'[w] = 1 /\ UNCHANGED storage
    BY <1>1, <1>4 DEF Backfill, IndexerTypeOK, WorkerInv, TxInv, InTx
  <2> QED
    BY <1>3, <2>1 DEF WorkerInv, LoopInv, RowsInv, TxInv, InTx, InBlock, RowsDone
<1>5. CASE Resume(w)
  <2>1. CASE running
    <3>1. pc'[w] = "enter" /\ job'[w] # "loop" /\ tx'[w] = 1 /\ UNCHANGED storage
      BY <1>1, <1>5, <2>1
         DEF Resume, IndexerTypeOK, WorkerInv, LoopInv, TxInv, InTx
    <3> QED
      BY <1>3, <3>1 DEF WorkerInv, LoopInv, RowsInv, TxInv, InTx, InBlock, RowsDone
  <2>2. CASE ~running
    <3>1. pc'[w] = "idle" /\ tx'[w] = 1 /\ UNCHANGED storage
      BY <1>1, <1>5, <2>2 DEF Resume, Return, IndexerTypeOK
    <3> QED
      BY <1>3, <3>1 DEF WorkerInv, LoopInv, RowsInv, TxInv, InTx, InBlock, RowsDone
  <2> QED
    BY <2>1, <2>2
<1>6. CASE RefusedByBreaker(w) \/ RefusedByLimiter(w) \/ ListFails(w)
  <2>1. PICK b \in Nat : b = block[w]
    BY <1>1
  <2>2. /\ NextBlock(w) /\ InBlock(w) /\ noted' = Counted(w) /\ UNCHANGED storage
    BY <1>6
       DEF RefusedByBreaker, RefusedByLimiter, ListFails, BlockFails, InBlock
  <2>3. job[w] = "loop" => IsSettled(b)'
    BY <2>1, <2>2 DEF Counted, IsSettled
  <2> QED
    BY <1>3, <2>1, <2>2, <2>3, NextBlockKeeps
<1>7. CASE Admit(w)
  <2>1. /\ pc'[w] = "list" /\ tx'[w] = 1 /\ UNCHANGED <<storage, head, history>>
        /\ block'[w] = block[w] /\ to'[w] = to[w] /\ job'[w] = job[w]
        /\ InBlock(w)
    BY <1>1, <1>7 DEF Admit, IndexerTypeOK, WorkerInv, TxInv, InTx, InBlock
  <2>2. SettledBelow(block[w])' <=> SettledBelow(block[w])
    BY <2>1 DEF SettledBelow, IsSettled, IsTraced, storage
  <2> QED
    BY <1>1, <1>3, <2>1, <2>2
       DEF WorkerInv, LoopInv, RowsInv, TxInv, InTx, InBlock, RowsDone
<1>8. ASSUME NEW lag \in 0..MaxLag, ListTransactions(w, lag)
      PROVE  WorkerInv(w)'
  <2>1. InBlock(w) /\ UNCHANGED <<storage, head, history>> /\ tx[w] = 1
    BY <1>1, <1>8 DEF ListTransactions, InBlock, InTx, WorkerInv, TxInv
  <2>2. CASE block[w] <= head - lag
    <3>1. /\ pc'[w] = "tx" /\ tx'[w] = 1
          /\ block'[w] = block[w] /\ to'[w] = to[w] /\ job'[w] = job[w]
      BY <1>1, <1>8, <2>1, <2>2 DEF ListTransactions, IndexerTypeOK
    <3>2. SettledBelow(block[w])' <=> SettledBelow(block[w])
      BY <2>1, <3>1 DEF SettledBelow, IsSettled, IsTraced, storage
    <3>3. block[w] \in 0..head
      BY <1>1, <2>2
    <3>4. LoopInv(w)'
      BY <1>1, <2>1, <3>1, <3>2 DEF WorkerInv, LoopInv, InTx, InBlock
    <3>5. TxInv(w)'
      BY <1>1, <2>1, <3>1, <3>3 DEF TxInv, InTx
    <3> QED
      BY <1>3, <2>1, <3>1, <3>4, <3>5 DEF WorkerInv, RowsInv, RowsDone
  <2>3. CASE ~(block[w] <= head - lag)
    <3>1. PICK b \in Nat : b = block[w]
      BY <1>1
    <3>2. job[w] # "loop"
      BY <1>1, <2>1, <2>3 DEF WorkerInv, LoopInv
    <3>3. NextBlock(w)
      BY <1>8, <2>3 DEF ListTransactions
    <3> QED
      BY <1>3, <2>1, <3>1, <3>2, <3>3, NextBlockKeeps
  <2> QED
    BY <2>2, <2>3
<1>9. CASE ListsNothing(w)
  <2>1. PICK b \in Nat : b = block[w]
    BY <1>1
  <2>2. /\ NextBlock(w) /\ InBlock(w) /\ UNCHANGED storage
        /\ job[w] = "loop" => unlisted' = unlisted \cup {block[w]}
    BY <1>9 DEF ListsNothing, InBlock
  <2>3. job[w] = "loop" => IsSettled(b)'
    BY <2>1, <2>2 DEF IsSettled
  <2> QED
    BY <1>3, <2>1, <2>2, <2>3, NextBlockKeeps
<1> QED
  BY <1>4, <1>5, <1>6, <1>7, <1>8, <1>9 DEF BlockStep

LEMMA TxStepKeeps ==
  ASSUME IndexerInv, IndexerTypeOK', Grows, NEW w \in Worker, TxStep(w)
  PROVE  WorkerInv(w)'
<1>1. /\ IndexerTypeOK /\ WorkerInv(w) /\ InTx(w)
      /\ TxOf(w) \in Tx
  BY TxOfType
     DEF IndexerInv, InTx, TxStep, AlreadyTraced, MissTrace, TraceTransaction,
         TraceFails, StoreTrace
<1>2. PICK b \in Block, k \in 1..TxPerBlock :
        block[w] = b /\ tx[w] = k /\ TxOf(w) = <<b, k>>
  <2>1. block[w] \in 0..head /\ tx[w] \in 1..TxPerBlock
    BY <1>1 DEF WorkerInv, TxInv
  <2>2. head \in 0..MaxHead /\ MaxHead \in Nat
    BY <1>1, IndexerAssumption DEF IndexerTypeOK, Block
  <2>3. block[w] \in Block
    BY <2>1, <2>2 DEF Block
  <2> QED
    BY <2>1, <2>3 DEF TxOf
<1>3. CASE AlreadyTraced(w)
  <2>1. NextTx(w) /\ IsTraced(<<b, k>>) /\ UNCHANGED storage /\ RowsDone(w)
    BY <1>2, <1>3, RowsAreDone DEF AlreadyTraced, IsCached, IsTraced
  <2>2. IsTraced(<<b, k>>)' /\ RowsDone(w)'
    BY <2>1 DEF IsTraced, RowsDone, storage
  <2> QED
    BY <1>1, <1>2, <2>1, <2>2, NextTxKeeps
<1>4. CASE TraceFails(w)
  <2>1. NextTx(w) /\ b \in noted' /\ UNCHANGED storage /\ RowsDone(w)
    BY <1>2, <1>4, RowsAreDone DEF TraceFails
  <2>2. RowsDone(w)'
    BY <2>1 DEF IsTraced, RowsDone, storage
  <2> QED
    BY <1>1, <1>2, <2>1, <2>2, NextTxKeeps
<1>5. CASE StoreTrace(w)
  <2>1. NextTx(w) /\ UNCHANGED rows
    BY <1>5 DEF StoreTrace
  <2>2. IsTraced(<<b, k>>)'
    <3>1. trace[w] \in RowCounts /\ trace[w] # None
      BY <1>1, <1>5, IndexerAssumption DEF StoreTrace, WorkerInv, RowsInv, None
    <3> QED
      BY <1>1, <1>2, <1>5, <3>1 DEF StoreTrace, IsTraced, IndexerTypeOK
  <2>3. RowsDone(w)'
    BY <1>1, <1>2, <2>1, <2>2 DEF WorkerInv, RowsInv, RowsDone, Grows
  <2> QED
    BY <1>1, <1>2, <2>1, <2>2, <2>3, NextTxKeeps
<1>6. CASE MissTrace(w) \/ TraceTransaction(w)
  <2>1. /\ pc'[w] \in {"trace", "store"}
        /\ block'[w] = block[w] /\ to'[w] = to[w] /\ job'[w] = job[w] /\ tx'[w] = tx[w]
        /\ UNCHANGED <<head, history, traces>>
    BY <1>1, <1>6 DEF MissTrace, TraceTransaction, IndexerTypeOK, storage
  <2>2. SettledBelow(block[w])' <=> SettledBelow(block[w])
    BY <2>1 DEF SettledBelow, IsSettled, IsTraced
  <2>3. LoopInv(w)' /\ TxInv(w)'
    BY <1>1, <2>1, <2>2
       DEF WorkerInv, LoopInv, TxInv, InTx, InBlock, IsTraced
  <2>4. CASE MissTrace(w)
    <3>1. /\ pc[w] = "tx" /\ ~IsTraced(TxOf(w)) /\ pc'[w] = "trace" /\ UNCHANGED storage
      BY <1>1, <2>4 DEF MissTrace, IsCached, IsTraced, IndexerTypeOK
    <3>2. RowsDone(w)
      BY <3>1, RowsAreDone
    <3>3. TxOf(w)' = TxOf(w)
      BY <2>1 DEF TxOf
    <3>4. RowsInv(w)'
      BY <1>1, <3>1, <3>2, <3>3 DEF RowsInv, RowsDone, IsTraced, storage
    <3> QED
      BY <2>3, <3>4 DEF WorkerInv
  <2>5. CASE TraceTransaction(w)
    <3>1. PICK n \in RowCounts :
            /\ trace' = [trace EXCEPT ![w] = n]
            /\ rows' = [rows EXCEPT ![TxOf(w)][w] = @ + n]
      BY <2>5 DEF TraceTransaction
    <3>2. pc[w] = "trace" /\ pc'[w] = "store"
      BY <1>1, <2>5 DEF TraceTransaction, IndexerTypeOK
    <3>3. rows[TxOf(w)][w] = 0 /\ n \in Nat
      BY <1>1, <3>2, IndexerAssumption DEF WorkerInv, RowsInv
    <3>4. trace'[w] = n /\ rows'[TxOf(w)][w] = n
      BY <1>1, <3>1, <3>3 DEF IndexerTypeOK
    <3>5. \A t \in Tx : t # TxOf(w) => rows'[t][w] = rows[t][w]
      BY <1>1, <3>1 DEF IndexerTypeOK
    <3>6. RowsDone(w)
      BY <3>2, RowsAreDone
    <3>7. TxOf(w)' = TxOf(w)
      BY <2>1 DEF TxOf
    <3>8. RowsInv(w)'
      BY <2>1, <3>2, <3>4, <3>5, <3>6, <3>7 DEF RowsInv, RowsDone, IsTraced
    <3> QED
      BY <2>3, <3>8 DEF WorkerInv
  <2> QED
    BY <1>6, <2>4, <2>5
<1> QED
  BY <1>3, <1>4, <1>5, <1>6 DEF TxStep

-----------------------------------------------------------------------------
(* The invariant.                                                          *)

\* current_block moves, forward or back, to where a worker has settled all.
LEMMA CurrentKeeps ==
  ASSUME IndexerInv, IndexerTypeOK', Grows,
         \/ UNCHANGED current_block
         \/ \E w \in Worker : Advance(w)
  PROVE  SettledBelow(current_block)'
<1>1. IndexerTypeOK /\ current_block \in Nat /\ SettledBelow(current_block)
  BY DEF IndexerInv, IndexerTypeOK, Block
<1>2. \A b \in Nat : SettledBelow(b) => SettledBelow(b)'
  BY <1>1, SettledStays
<1>3. CASE UNCHANGED current_block
  BY <1>1, <1>2, <1>3 DEF SettledBelow
<1>4. ASSUME NEW w \in Worker, Advance(w)
      PROVE  SettledBelow(current_block)'
  <2>1. /\ to[w] \in Nat /\ SettledBelow(to[w]) /\ current_block' = to[w]
    BY <1>1, <1>4 DEF Advance, IndexerInv, IndexerTypeOK, WorkerInv, LoopInv
  <2> QED
    BY <1>2, <2>1 DEF SettledBelow
<1> QED
  BY <1>3, <1>4

LEMMA OnlyAdvanceMoves ==
  ASSUME NEW w \in Worker, WorkerNext(w)
  PROVE  UNCHANGED current_block \/ Advance(w)
  BY DEF WorkerNext, Step, LoopStep, BlockStep, TxStep, Start, Backfill, Tick,
         AskHeadFails, ReadCurrent, AskHead, Resume, RefusedByBreaker, RefusedByLimiter,
         Admit, ListFails, ListsNothing, ListTransactions, AlreadyTraced, MissTrace, TraceTransaction,
         TraceFails, StoreTrace

\* Stored traces keep a worker that has their rows.
LEMMA TracesKept ==
  ASSUME IndexerInv, IndexerTypeOK', NEW w \in Worker, WorkerNext(w)
  PROVE  KeptInv' /\ RowsBounded'
<1>1. /\ IndexerTypeOK /\ KeptInv /\ RowsBounded /\ WorkerInv(w)
      /\ \A v \in Worker : v # w => LocalsStay(v)
  BY OthersStay DEF IndexerInv
<1>2. CASE TraceTransaction(w)
  <2>1. PICK n \in RowCounts :
          /\ trace' = [trace EXCEPT ![w] = n]
          /\ rows' = [rows EXCEPT ![TxOf(w)][w] = @ + n]
    BY <1>2 DEF TraceTransaction
  <2>2. /\ TxOf(w) \in Tx /\ rows[TxOf(w)][w] = 0 /\ n \in Nat
        /\ pc[w] = "trace" /\ pc'[w] = "store" /\ UNCHANGED traces
    BY <1>1, <1>2, TxOfType, IndexerAssumption
       DEF TraceTransaction, InTx, WorkerInv, RowsInv, IndexerTypeOK
  <2>3. /\ rows'[TxOf(w)][w] = n
        /\ \A t \in Tx : t # TxOf(w) => rows'[t][w] = rows[t][w]
    BY <1>1, <2>1, <2>2 DEF IndexerTypeOK
  <2>4. RowsBounded'
    BY <1>1, <2>3 DEF RowsBounded, LocalsStay
  <2>5. ASSUME NEW t \in Tx, IsTraced(t)
        PROVE  \E v \in Worker :
                 rows'[t][v] = traces[t] /\ ~(pc'[v] = "trace" /\ TxOf(v)' = t)
    <3>1. PICK v \in Worker : rows[t][v] = traces[t] /\ ~(pc[v] = "trace" /\ TxOf(v) = t)
      BY <1>1, <2>5 DEF KeptInv
    <3>2. CASE v = w
      BY <2>2, <2>3, <3>1, <3>2
    <3>3. CASE v # w
      BY <1>1, <3>1, <3>3 DEF LocalsStay, TxOf
    <3> QED
      BY <3>2, <3>3
  <2> QED
    BY <2>2, <2>4, <2>5 DEF KeptInv, IsTraced
<1>3. CASE StoreTrace(w)
  <2>1. /\ TxOf(w) \in Tx /\ rows[TxOf(w)][w] = trace[w]
        /\ UNCHANGED rows
        /\ traces' = [traces EXCEPT ![TxOf(w)] = trace[w]]
    BY <1>1, <1>3, TxOfType DEF StoreTrace, InTx, WorkerInv, RowsInv
  <2>2. pc'[w] # "trace"
    BY <1>1, <1>3 DEF StoreTrace, NextTx, NextBlock, Return, IndexerTypeOK
  <2>3. ASSUME NEW t \in Tx, IsTraced(t)'
        PROVE  \E v \in Worker :
                 rows'[t][v] = traces'[t] /\ ~(pc'[v] = "trace" /\ TxOf(v)' = t)
    <3>1. CASE t = TxOf(w)
      BY <1>1, <2>1, <2>2, <3>1 DEF IndexerTypeOK
    <3>2. CASE t # TxOf(w)
      <4>1. traces'[t] = traces[t] /\ IsTraced(t)
        BY <1>1, <2>1, <2>3, <3>2 DEF IndexerTypeOK, IsTraced
      <4>2. PICK v \in Worker :
              rows[t][v] = traces[t] /\ ~(pc[v] = "trace" /\ TxOf(v) = t)
        BY <1>1, <4>1 DEF KeptInv
      <4>3. CASE v = w
        BY <2>1, <2>2, <4>1, <4>2, <4>3
      <4>4. CASE v # w
        BY <1>1, <2>1, <4>1, <4>2, <4>4 DEF LocalsStay, TxOf
      <4> QED
        BY <4>3, <4>4
    <3> QED
      BY <3>1, <3>2
  <2> QED
    BY <1>1, <2>1, <2>3 DEF KeptInv, RowsBounded
<1>4. CASE MissTrace(w)
  <2>1. /\ UNCHANGED <<rows, traces>> /\ ~IsTraced(TxOf(w))
        /\ block' = block /\ tx' = tx
    BY <1>4 DEF MissTrace, IsCached, IsTraced, storage
  <2>2. ASSUME NEW t \in Tx, IsTraced(t)
        PROVE  \E v \in Worker :
                 rows[t][v] = traces[t] /\ ~(pc'[v] = "trace" /\ TxOf(v)' = t)
    <3>1. PICK v \in Worker : rows[t][v] = traces[t] /\ ~(pc[v] = "trace" /\ TxOf(v) = t)
      BY <1>1, <2>2 DEF KeptInv
    <3>2. CASE v = w
      BY <2>1, <2>2, <3>1, <3>2 DEF TxOf
    <3>3. CASE v # w
      BY <1>1, <3>1, <3>3 DEF LocalsStay, TxOf
    <3> QED
      BY <3>2, <3>3
  <2> QED
    BY <1>1, <2>1, <2>2 DEF KeptInv, RowsBounded, IsTraced
<1>5. ASSUME UNCHANGED <<rows, traces>>, pc'[w] # "trace"
      PROVE  KeptInv' /\ RowsBounded'
  <2>1. ASSUME NEW t \in Tx, IsTraced(t)
        PROVE  \E v \in Worker :
                 rows[t][v] = traces[t] /\ ~(pc'[v] = "trace" /\ TxOf(v)' = t)
    <3>1. PICK v \in Worker : rows[t][v] = traces[t] /\ ~(pc[v] = "trace" /\ TxOf(v) = t)
      BY <1>1, <2>1 DEF KeptInv
    <3>2. CASE v # w
      BY <1>1, <3>1, <3>2 DEF LocalsStay, TxOf
    <3> QED
      BY <1>5, <3>1, <3>2
  <2> QED
    BY <1>1, <1>5, <2>1 DEF KeptInv, RowsBounded, IsTraced
<1>6. CASE \/ Start(w) \/ Tick(w) \/ AskHeadFails(w) \/ ReadCurrent(w) \/ Advance(w)
           \/ Resume(w) \/ Admit(w)
           \/ \E lag \in 0..MaxLag : AskHead(w, lag) \/ ListTransactions(w, lag)
           \/ \E range \in Backfills : Backfill(w, range)
  <2>1. UNCHANGED <<rows, traces>> /\ pc'[w] # "trace"
    BY <1>1, <1>6
       DEF Start, Tick, AskHeadFails, ReadCurrent, Advance, Resume, Admit, AskHead,
           AfterError, ListTransactions, Backfill, NextBlock, Return, storage,
           IndexerTypeOK
  <2> QED
    BY <1>5, <2>1
<1>7. CASE \/ RefusedByBreaker(w) \/ RefusedByLimiter(w) \/ ListFails(w)
           \/ ListsNothing(w) \/ AlreadyTraced(w) \/ TraceFails(w)
  <2>1. UNCHANGED <<rows, traces>> /\ pc'[w] # "trace"
    BY <1>1, <1>7
       DEF RefusedByBreaker, RefusedByLimiter, ListFails, ListsNothing, BlockFails,
           AlreadyTraced, TraceFails, NextTx, NextBlock, Return, storage, IndexerTypeOK
  <2> QED
    BY <1>5, <2>1
<1> QED
  BY <1>2, <1>3, <1>4, <1>6, <1>7 DEF WorkerNext, Step, LoopStep, BlockStep, TxStep

LEMMA WorkerKeeps ==
  ASSUME IndexerInv, NEW w \in Worker, WorkerNext(w)
  PROVE  IndexerInv'
<1>1. IndexerTypeOK'
  BY WorkerLocalTypes, WorkerGlobalTypes DEF LocalTypes, GlobalTypes, IndexerTypeOK
<1>2. Grows
  BY WorkerGrows
<1>3. WorkerInv(w)'
  BY <1>1, <1>2, LoopStepKeeps, BlockStepKeeps, TxStepKeeps DEF WorkerNext, Step
<1>4. \A v \in Worker : v # w => WorkerInv(v)'
  BY <1>1, <1>2, OthersStay, OthersKeep
<1>5. SettledBelow(current_block)'
  BY <1>1, <1>2, OnlyAdvanceMoves, CurrentKeeps
<1> QED
  BY <1>1, <1>3, <1>4, <1>5, TracesKept DEF IndexerInv

\* stop(), the chain and the clocks leave the workers alone.
LEMMA OutsideKeeps ==
  ASSUME IndexerInv,
         \/ Stop \/ ChainGrows \/ SecondPasses \/ BreakerTimeoutPasses
         \/ UNCHANGED indexerVars
  PROVE  IndexerInv'
<1>1. UNCHANGED <<storage, history, locals, current_block>>
  BY DEF Stop, ChainGrows, SecondPasses, BreakerTimeoutPasses, indexerVars
<1>2. IndexerTypeOK'
  <2>1. /\ head' \in Block /\ running' \in BOOLEAN
        /\ bucket' \in 0..rate_limit_rps
        /\ failures' \in 0..circuit_breaker_threshold
        /\ breaker' \in {"closed", "open", "expired"}
    <3>1. IndexerTypeOK /\ MaxHead \in Nat /\ rate_limit_rps \in Nat
      BY IndexerAssumption DEF IndexerInv
    <3>2. CASE Stop \/ UNCHANGED indexerVars
      BY <3>1, <3>2 DEF IndexerTypeOK, Stop, indexerVars, guards
    <3>3. CASE ChainGrows
      BY <3>1, <3>3 DEF IndexerTypeOK, ChainGrows, guards, Block
    <3>4. CASE SecondPasses \/ BreakerTimeoutPasses
      BY <3>1, <3>4 DEF IndexerTypeOK, SecondPasses, BreakerTimeoutPasses
    <3> QED
      BY <3>2, <3>3, <3>4
  <2> QED
    BY <1>1, <2>1 DEF IndexerInv, IndexerTypeOK, storage, locals
<1>3. head <= head'
  BY IndexerAssumption
     DEF IndexerInv, IndexerTypeOK, Stop, ChainGrows, SecondPasses,
         BreakerTimeoutPasses, indexerVars, Block
<1>4. Grows
  BY <1>1, <1>3 DEF Grows, IsTraced, storage
<1>5. \A v \in Worker : LocalsStay(v)
  BY <1>1 DEF LocalsStay, storage, locals
<1>6. \A v \in Worker : WorkerInv(v)'
  BY <1>2, <1>4, <1>5, OthersKeep
<1>7. SettledBelow(current_block)'
  BY <1>1, <1>2, <1>4, CurrentKeeps
<1>8. KeptInv' /\ RowsBounded'
  BY <1>1 DEF IndexerInv, KeptInv, RowsBounded, IsTraced, TxOf, storage, locals
<1> QED
  BY <1>2, <1>6, <1>7, <1>8 DEF IndexerInv

LEMMA IndexerStep == IndexerInv /\ [IndexerNext]_indexerVars => IndexerInv'
<1> SUFFICES ASSUME IndexerInv, [IndexerNext]_indexerVars
             PROVE  IndexerInv'
  OBVIOUS
<1>1. ASSUME NEW w \in Worker, WorkerNext(w)
      PROVE  IndexerInv'
  BY <1>1, WorkerKeeps
<1>2. CASE \/ Stop \/ ChainGrows \/ SecondPasses \/ BreakerTimeoutPasses
           \/ UNCHANGED indexerVars
  BY <1>2, OutsideKeeps
<1> QED
  BY <1>1, <1>2 DEF IndexerNext, WorkerNext

LEMMA IndexerInitInv == IndexerInit => IndexerInv
<1> SUFFICES ASSUME IndexerInit PROVE IndexerInv
  OBVIOUS
<1>1. IndexerTypeOK
  <2>1. /\ head \in Block /\ current_block \in Block
        /\ bucket \in 0..rate_limit_rps /\ failures \in 0..circuit_breaker_threshold
    BY IndexerAssumption DEF IndexerInit, Block
  <2>2. /\ pc \in [Worker -> Place]
        /\ job \in [Worker -> {"none", "loop", "backfill"}]
        /\ block \in [Worker -> Nat] /\ to \in [Worker -> Nat] /\ tx \in [Worker -> Nat]
        /\ trace \in [Worker -> RowCounts \cup {0}]
    BY DEF IndexerInit, Place
  <2>3. /\ traces \in [Tx -> RowCounts \cup {None}]
        /\ rows \in [Tx -> [Worker -> Nat]]
    BY DEF IndexerInit
  <2> QED
    BY <2>1, <2>2, <2>3 DEF IndexerInit, IndexerTypeOK
<1>2. \A t \in Tx : ~IsTraced(t)
  BY DEF IndexerInit, IsTraced
<1>3. SettledBelow(current_block)
  BY IndexerAssumption DEF IndexerInit, SettledBelow
<1>4. \A w \in Worker : WorkerInv(w)
  BY DEF IndexerInit, WorkerInv, LoopInv, RowsInv, TxInv, InTx, InBlock
<1>5. RowsBounded
  BY DEF IndexerInit, RowsBounded
<1> QED
  BY <1>1, <1>2, <1>3, <1>4, <1>5 DEF IndexerInv, KeptInv

LEMMA IndexerAlwaysInv == IndexerSpec => []IndexerInv
<1> QED
  BY IndexerInitInv, IndexerStep, PTL DEF IndexerSpec

-----------------------------------------------------------------------------
(* The theorems.                                                           *)

\* The fields keep their types, and no block number falls below zero.
THEOREM IndexerTyped == IndexerSpec => []IndexerTypeOK
<1>1. IndexerInv => IndexerTypeOK
  BY DEF IndexerInv
<1> QED
  BY <1>1, IndexerAlwaysInv, PTL

\* A stored trace has the rows one worker stored, and no worker stores the
\* rows of a transaction twice, whatever the endpoint answers to whom.
THEOREM RowsAlwaysMatch == IndexerSpec => []RowsMatchTraces
<1>1. IndexerInv => RowsMatchTraces
  BY DEF IndexerInv, KeptInv, RowsBounded, RowsMatchTraces, IsTraced
<1> QED
  BY <1>1, IndexerAlwaysInv, PTL

\* No block behind current_block is missing in silence, but for those that the
\* endpoint has and answers for without transactions: a delay of the endpoint
\* within the confirmations, a second loop and a backfill at the same time
\* cost no block.
THEOREM MissedBlocksAlwaysNoted == IndexerSpec => []MissedBlocksAreNoted
<1>1. IndexerInv => MissedBlocksAreNoted
  BY DEF IndexerInv, SettledBelow, MissedBlocksAreNoted
<1> QED
  BY <1>1, IndexerAlwaysInv, PTL
=============================================================================
