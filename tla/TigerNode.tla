------------------------------ MODULE TigerNode ------------------------------
(***************************************************************************)
(* A running node (node/src/node.rs) with the chain and the mempool of the *)
(* blockchain crate and the PoSA engine of module PoSA.                    *)
(*                                                                         *)
(* start() spawns two tasks: the sealing loop, which locks in turn the     *)
(* node state, the chain, the engine, the mempool, the chain and the       *)
(* mempool again, and the sync monitor.  Every step between two lock       *)
(* acquisitions of a task is one action here, so another task, stop() or a *)
(* caller of the accessors may come in between.                            *)
(*                                                                         *)
(* The accessors get_mempool(), get_consensus() and get_chain_manager()    *)
(* hand out the locks.  Nothing in the repository calls them; what their   *)
(* callers may do, at any time, is: add and remove transactions; call      *)
(* every method of the engine; and insert a block of one of OtherMiners at *)
(* any height up to the next one.  A caller that inserts a block beyond    *)
(* the next height, or a block 0, is left out, and so is one that holds a  *)
(* lock for ever; get_sync_status() is taken to be read only.              *)
(*                                                                         *)
(* As in PoSA, the operators SealerUnchecked, SealerReadTip, OrphanHeader, *)
(* ClearedBy, KeptBy and StatusKeepingHighest are plausible wrong versions *)
(* of the definition that follows each of them; nothing else refers to     *)
(* them.                                                                   *)
(***************************************************************************)
EXTENDS PoSA, FiniteSetsExt

CONSTANTS
  Tx,             \* transactions, named by their hash
  Gas,            \* Gas[tx], the gas field of a transaction
  MaxPending,     \* Mempool::max_pending
  ValidatorAddr,  \* config.validator_addr; outside Address when it is None
  Resubmission,   \* whether a client submits a transaction again
  OtherMiners,    \* the other validators whose blocks a caller inserts
  MaxStarts,      \* bound: calls of start()
  MaxHeight       \* bound: blocks sealed

ASSUME NodeAssumption ==
  /\ Gas \in [Tx -> Nat]
  /\ MaxPending \in Nat
  /\ Resubmission \in BOOLEAN
  /\ MaxStarts \in Nat \ {0}
  /\ MaxHeight \in Nat
  /\ 1..MaxHeight \subseteq BlockInputs

VARIABLES
  main,        \* where the caller of start() and stop() is
  starts,      \* the calls of start() so far
  node_state,  \* TigerNode::state
  genesis,     \* whether the chain has a genesis configuration
  blocks,      \* Blockchain::blocks, number -> block
  mempool,     \* Mempool::pending; queued is never filled
  sync_status, \* [current, highest] of SyncStatus
  sealer,      \* per start: the program counter of the sealing loop
  next_block,  \* per start: its local next_block
  pending_txs, \* per start: its local pending_txs
  monitor,     \* per start: the program counter of the sync monitor
  seen_height, \* per start: its local current_height
  accepted,    \* history: the transactions the mempool has accepted
  withdrawn,   \* history: those that a caller has removed since
  imported,    \* history: whether a caller has inserted a block
  stop_height, \* history: the height at the last call of stop()
  slash_height \* history: the height when slashing last unstaked ValidatorAddr

mainVars == <<main, starts, node_state, genesis, stop_height>>
sealerVars == <<sealer, next_block, pending_txs>>
monitorVars == <<monitor, seen_height, sync_status>>
callerVars == <<accepted, withdrawn, imported, slash_height>>
nodeVars == <<posaVars, mainVars, blocks, mempool, callerVars, sealerVars,
              monitorVars>>

Tasks == 1..MaxStarts

\* get_block and height: the blocks are keyed by number, and an empty chain
\* has height 0 like one that holds only a block 0.
Height ==
  IF DOMAIN blocks = {} THEN 0
  ELSE CHOOSE n \in DOMAIN blocks : \A k \in DOMAIN blocks : k <= n

\* A header stands for its digest: simple_hash is taken to be injective.
NoHash == <<>>
SimpleHash(header) == <<header>>

Included == UNION {blocks[n].transactions : n \in DOMAIN blocks}

NodeInit ==
  /\ PoSAInit
  /\ main = "created"
  /\ starts = 0
  /\ node_state = "Starting"
  /\ genesis = FALSE
  /\ blocks = [n \in {} |-> 0]
  /\ mempool = {}
  /\ accepted = {}
  /\ withdrawn = {}
  /\ imported = FALSE
  /\ stop_height = 0
  /\ slash_height = 0
  /\ sync_status = [current |-> 0, highest |-> 0]
  /\ sealer = [t \in Tasks |-> "unborn"]
  /\ next_block = [t \in Tasks |-> 0]
  /\ pending_txs = [t \in Tasks |-> {}]
  /\ monitor = [t \in Tasks |-> "unborn"]
  /\ seen_height = [t \in Tasks |-> 0]

-----------------------------------------------------------------------------
(* start(), stop() and the end of the process.                             *)

\* start() gives an empty chain its genesis configuration, never a block...
StartGenesis ==
  /\ main \in {"created", "stopped"}
  /\ starts < MaxStarts
  /\ starts' = starts + 1
  /\ genesis' = (genesis \/ Height = 0)
  /\ main' = "starting"
  /\ UNCHANGED <<node_state, stop_height, posaVars, blocks, mempool, callerVars,
                 sealerVars, monitorVars>>

\* ... then declares the node running and spawns both tasks.
StartRunning ==
  /\ main = "starting"
  /\ node_state' = "Running"
  /\ sealer' = [sealer EXCEPT ![starts] = "check"]
  /\ monitor' = [monitor EXCEPT ![starts] = "check"]
  /\ main' = "started"
  /\ UNCHANGED <<starts, genesis, stop_height, posaVars, blocks, mempool,
                 callerVars, next_block, pending_txs, seen_height, sync_status>>

\* stop() signals the tasks, sleeps, and finds its JoinSet empty: the tasks
\* were spawned outside it, so it waits for neither.
StopSignal ==
  /\ main = "started"
  /\ node_state' = "Stopping"
  /\ stop_height' = Height
  /\ main' = "stopping"
  /\ UNCHANGED <<starts, genesis, posaVars, blocks, mempool, callerVars,
                 sealerVars, monitorVars>>

StopFinish ==
  /\ main = "stopping"
  /\ node_state' = "Stopped"
  /\ main' = "stopped"
  /\ UNCHANGED <<starts, genesis, stop_height, posaVars, blocks, mempool,
                 callerVars, sealerVars, monitorVars>>

\* main() returns after stop(): the runtime is dropped with its tasks and their
\* locals.
Exit ==
  /\ main = "stopped"
  /\ main' = "exited"
  /\ sealer' = [t \in Tasks |-> "exited"]
  /\ monitor' = [t \in Tasks |-> "exited"]
  /\ next_block' = [t \in Tasks |-> 0]
  /\ pending_txs' = [t \in Tasks |-> {}]
  /\ seen_height' = [t \in Tasks |-> 0]
  /\ UNCHANGED <<starts, node_state, genesis, stop_height, posaVars, blocks,
                 mempool, callerVars, sync_status>>

-----------------------------------------------------------------------------
(* The sealing loop of task t.                                             *)

SealerUnchecked(t) ==
  /\ sealer[t] = "check"
  /\ sealer' = [sealer EXCEPT ![t] = "slot"]
  /\ UNCHANGED <<next_block, pending_txs, posaVars, mainVars, blocks, mempool,
                 callerVars, monitorVars>>

SealerCheck(t) ==
  /\ sealer[t] = "check"
  /\ sealer' = [sealer EXCEPT
       ![t] = IF node_state = "Running" THEN "slot" ELSE "exited"]
  /\ UNCHANGED <<next_block, pending_txs, posaVars, mainVars, blocks, mempool,
                 callerVars, monitorVars>>

\* The tick of the next slot, then the height under the chain lock.
SealerReadTip(t) ==
  /\ sealer[t] = "slot"
  /\ next_block' = [next_block EXCEPT ![t] = Height]
  /\ sealer' = [sealer EXCEPT ![t] = "elect"]
  /\ UNCHANGED <<pending_txs, posaVars, mainVars, blocks, mempool, callerVars,
                 monitorVars>>

SealerReadHeight(t) ==
  /\ sealer[t] = "slot"
  /\ Height < MaxHeight
  /\ next_block' = [next_block EXCEPT ![t] = Height + 1]
  /\ sealer' = [sealer EXCEPT ![t] = "elect"]
  /\ UNCHANGED <<pending_txs, posaVars, mainVars, blocks, mempool, callerVars,
                 monitorVars>>

\* Under the engine lock: the epoch of the block, and whose turn it is.
SealerElect(t) ==
  /\ sealer[t] = "elect"
  /\ UpdateEpoch(next_block[t])
  /\ sealer' = [sealer EXCEPT
       ![t] = IF /\ validators' # <<>>
                 /\ Proposer(validators', next_block[t]) = ValidatorAddr
              THEN "collect"
              ELSE "check"]
  /\ UNCHANGED <<next_block, pending_txs, mainVars, blocks, mempool, callerVars,
                 monitorVars>>

\* A copy of everything pending, under the mempool lock.
SealerCollect(t) ==
  /\ sealer[t] = "collect"
  /\ pending_txs' = [pending_txs EXCEPT ![t] = mempool]
  /\ sealer' = [sealer EXCEPT ![t] = "produce"]
  /\ UNCHANGED <<next_block, posaVars, mainVars, blocks, mempool, callerVars,
                 monitorVars>>

\* produce_block: the header of the block that n and txs make on this chain.
OrphanHeader(n, txs) ==
  [parent_hash |-> IF n \in DOMAIN blocks THEN SimpleHash(blocks[n].header)
                   ELSE NoHash,
   miner       |-> ValidatorAddr,
   number      |-> n,
   gas_used    |-> MapThenSumSet(LAMBDA tx : Gas[tx], txs)]

NewHeader(n, txs) ==
  [parent_hash |-> IF n - 1 \in DOMAIN blocks
                   THEN SimpleHash(blocks[n - 1].header)
                   ELSE NoHash,
   miner       |-> ValidatorAddr,
   number      |-> n,
   gas_used    |-> MapThenSumSet(LAMBDA tx : Gas[tx], txs)]

\* process_block accepts every block and insert_block keys it by its number,
\* replacing a block that is already there.
SealerProduce(t) ==
  /\ sealer[t] = "produce"
  /\ blocks' = Put(blocks, next_block[t],
                   [header |-> NewHeader(next_block[t], pending_txs[t]),
                    transactions |-> pending_txs[t]])
  /\ sealer' = [sealer EXCEPT ![t] = "remove"]
  /\ UNCHANGED <<next_block, pending_txs, posaVars, mainVars, mempool,
                 callerVars, monitorVars>>

\* What the sealed transactions leave of the mempool.
ClearedBy(txs) == {}
KeptBy(txs) == mempool

RemainingAfter(txs) == mempool \ txs

\* The end of the slot, where its locals die.
SealerRemove(t) ==
  /\ sealer[t] = "remove"
  /\ mempool' = RemainingAfter(pending_txs[t])
  /\ sealer' = [sealer EXCEPT ![t] = "check"]
  /\ next_block' = [next_block EXCEPT ![t] = 0]
  /\ pending_txs' = [pending_txs EXCEPT ![t] = {}]
  /\ UNCHANGED <<posaVars, mainVars, blocks, callerVars, monitorVars>>

SealerStep(t) ==
  \/ SealerCheck(t)
  \/ SealerReadHeight(t)
  \/ SealerElect(t)
  \/ SealerCollect(t)
  \/ SealerProduce(t)
  \/ SealerRemove(t)

-----------------------------------------------------------------------------
(* The sync monitor of task t.                                             *)

MonitorCheck(t) ==
  /\ monitor[t] = "check"
  /\ monitor' = [monitor EXCEPT
       ![t] = IF node_state = "Running" THEN "read" ELSE "exited"]
  /\ UNCHANGED <<seen_height, sync_status, posaVars, mainVars, blocks, mempool,
                 callerVars, sealerVars>>

MonitorReadHeight(t) ==
  /\ monitor[t] = "read"
  /\ seen_height' = [seen_height EXCEPT ![t] = Height]
  /\ monitor' = [monitor EXCEPT ![t] = "write"]
  /\ UNCHANGED <<sync_status, posaVars, mainVars, blocks, mempool, callerVars,
                 sealerVars>>

StatusKeepingHighest(h) == [sync_status EXCEPT !.current = h]

StatusAt(h) ==
  [current |-> h,
   highest |-> IF sync_status.highest < h THEN h ELSE sync_status.highest]

MonitorWrite(t) ==
  /\ monitor[t] = "write"
  /\ sync_status' = StatusAt(seen_height[t])
  /\ monitor' = [monitor EXCEPT ![t] = "check"]
  /\ seen_height' = [seen_height EXCEPT ![t] = 0]
  /\ UNCHANGED <<posaVars, mainVars, blocks, mempool, callerVars, sealerVars>>

MonitorStep(t) == MonitorCheck(t) \/ MonitorReadHeight(t) \/ MonitorWrite(t)

-----------------------------------------------------------------------------
(* The callers of the accessors.                                           *)

\* Mempool::add refuses at the limit, a transaction it already holds too.
AddTx(tx) ==
  /\ main # "exited"
  /\ Resubmission \/ tx \notin accepted
  /\ Cardinality(mempool) < MaxPending
  /\ mempool' = mempool \cup {tx}
  /\ accepted' = accepted \cup {tx}
  /\ withdrawn' = withdrawn \ {tx}
  /\ UNCHANGED <<imported, slash_height, posaVars, mainVars, blocks, sealerVars,
                 monitorVars>>

\* Mempool::remove; clear() is a removal of everything.
WithdrawTx(tx) ==
  /\ main # "exited"
  /\ tx \in mempool
  /\ mempool' = mempool \ {tx}
  /\ withdrawn' = withdrawn \cup {tx}
  /\ UNCHANGED <<accepted, imported, slash_height, posaVars, mainVars, blocks,
                 sealerVars, monitorVars>>

EngineCall ==
  /\ main # "exited"
  /\ PoSANext
  /\ slash_height' =
       IF ValidatorAddr \in Candidates \ Candidates' THEN Height ELSE slash_height
  /\ UNCHANGED <<accepted, withdrawn, imported, mainVars, blocks, mempool,
                 sealerVars, monitorVars>>

\* process_block inserts whatever it is given: here an empty block that
\* another validator has built on this chain, for the next height or in place
\* of a block that is there.
ImportBlock(n, miner) ==
  /\ main # "exited"
  /\ n \in 1..(Height + 1)
  /\ blocks' = Put(blocks, n, [header |-> [NewHeader(n, {}) EXCEPT !.miner = miner],
                               transactions |-> {}])
  /\ imported' = TRUE
  /\ UNCHANGED <<accepted, withdrawn, slash_height, posaVars, mainVars, mempool,
                 sealerVars, monitorVars>>

NodeNext ==
  \/ StartGenesis
  \/ StartRunning
  \/ StopSignal
  \/ StopFinish
  \/ Exit
  \/ \E t \in Tasks : SealerStep(t) \/ MonitorStep(t)
  \/ \E tx \in Tx : AddTx(tx) \/ WithdrawTx(tx)
  \/ EngineCall
  \/ \E n \in 1..MaxHeight, miner \in OtherMiners : ImportBlock(n, miner)

NodeSpec == NodeInit /\ [][NodeNext]_nodeVars

\* The runtime keeps polling a spawned task, and its timer keeps ticking.
NodeFairSpec == NodeSpec /\ \A t \in Tasks : WF_nodeVars(SealerStep(t))

-----------------------------------------------------------------------------
(* Properties.                                                             *)

SealerPC == {"unborn", "check", "slot", "elect", "collect", "produce",
             "remove", "exited"}

\* Every variable keeps the type of the field or local it models.
NodeTypeOK ==
  /\ main \in {"created", "starting", "started", "stopping", "stopped", "exited"}
  /\ starts \in 0..MaxStarts
  /\ main \in {"starting", "started"} => starts > 0
  /\ node_state \in {"Starting", "Running", "Stopping", "Stopped"}
  /\ genesis \in BOOLEAN
  /\ DOMAIN blocks \subseteq 1..MaxHeight
  /\ \A n \in DOMAIN blocks : blocks[n].transactions \subseteq Tx
  /\ mempool \subseteq Tx
  /\ accepted \subseteq Tx
  /\ withdrawn \subseteq Tx
  /\ imported \in BOOLEAN
  /\ stop_height \in 0..MaxHeight
  /\ slash_height \in 0..MaxHeight
  /\ sync_status \in [current : 0..MaxHeight, highest : 0..MaxHeight]
  /\ sealer \in [Tasks -> SealerPC]
  /\ next_block \in [Tasks -> 0..MaxHeight]
  /\ pending_txs \in [Tasks -> SUBSET Tx]
  /\ monitor \in [Tasks -> {"unborn", "check", "read", "write", "exited"}]
  /\ seen_height \in [Tasks -> 0..MaxHeight]

\* The chain has no gaps: its blocks are numbered from 1 to the height, even
\* while the sealing loops of two starts run on heights that the other one, or
\* a block of another validator, has passed.
ChainIsContiguous == DOMAIN blocks = 1..Height

\* start() was called once at most, and nobody else has inserted a block: what
\* the next properties need, since a second sealing loop or a caller replaces
\* blocks, and with them the transactions they hold.
Undisturbed == starts <= 1 /\ ~imported

\* Each block names the hash of the block below it: nothing replaces a block
\* another one was built on.
ChainIsLinked ==
  Undisturbed => \A n \in DOMAIN blocks :
    n > 1 => blocks[n].header.parent_hash = SimpleHash(blocks[n - 1].header)

\* A transaction the mempool accepted, and no caller has removed, is pending or
\* in the chain: one that arrives while a block is being sealed is not removed
\* with the sealed ones.
NoTxLost == Undisturbed => accepted \subseteq mempool \cup Included \cup withdrawn

\* A transaction submitted once is in one block at most, although the sealing
\* loop removes it from the mempool only after the block is in the chain.
TxIncludedOnce ==
  (Undisturbed /\ ~Resubmission) => \A n, k \in DOMAIN blocks :
    n # k => blocks[n].transactions \cap blocks[k].transactions = {}

\* The published sync status never runs ahead of the chain, and its highest
\* block never falls behind its current one, whatever is sealed or inserted
\* between a monitor's read and its write, and whatever the monitor of an
\* earlier start writes late.
SyncTracksChain ==
  /\ sync_status.current <= sync_status.highest
  /\ sync_status.highest <= Height

\* A validator that was slashed below the minimum stops sealing: the block of
\* the slot whose election it had already won is the last one, until it
\* registers again.  The loop keeps no committee of its own, but it does not
\* look at the engine again between the election and the block either.
OneBlockAfterSlash ==
  (Undisturbed /\ ValidatorAddr \in Registered \ Candidates) =>
    Height <= slash_height + 1

\* stop() is not obeyed at once: a slot that has begun still seals its block.
\* It seals one at most.
OneBlockAfterStop ==
  (Undisturbed /\ main \in {"stopping", "stopped", "exited"}) =>
    Height <= stop_height + 1

\* While this node holds the only stake, what it accepts gets into a block:
\* unless the node stops, the transaction is removed, someone else becomes
\* electable or inserts blocks, it is sealed (or the bound MaxHeight is
\* reached).  A committee emptied by slashing is elected again as soon as there
\* is a candidate.
TxEventuallyIncluded ==
  \A tx \in Tx :
    tx \in mempool ~> \/ tx \in Included
                      \/ tx \in withdrawn
                      \/ Height = MaxHeight
                      \/ node_state # "Running"
                      \/ Candidates # {ValidatorAddr}
                      \/ ~Undisturbed

-----------------------------------------------------------------------------
(* What the comments and documents of the code say, and the code does not  *)
(* do; each is refuted by a run.                                           *)

\* A stopped node is stopped: `spawned tasks will detect this and exit',
\* `Cancel any remaining background tasks' (stop() of node.rs).
NoBlockAfterStopped == [][node_state = "Stopped" => UNCHANGED blocks]_nodeVars

\* `Validators take turns proposing blocks every slot': a running node on the
\* committee gets past every height.
ValidatorsTakeTurns ==
  \A h \in 0..(MaxHeight - 1) :
    (node_state = "Running" /\ Height = h) ~>
      \/ Height > h
      \/ node_state # "Running"
      \/ ValidatorAddr \notin Committee
=============================================================================
