# Verification of TigerSmartChain

TLA+ modules of the parts of TigerSmartChain that carry its own logic, the TLC
runs that check them on small instances, and the theorems about them that the
TLA+ proof system checks for every value of the constants.

* [The system](#the-system)
* [What is modelled, and how](#what-is-modelled-and-how)
* [The runs](#the-runs)
* [Where the code and its documentation part](#where-the-code-and-its-documentation-part)
* [The proofs](#the-proofs)
* [What the models leave out](#what-the-models-leave-out)
* [Not modelled](#not-modelled)
* [Plan](#plan)

Paths are relative to the root of the repository. To repeat a result, run
`tlc -config node.cfg MCTigerNode` or `tlapm TigerNode_proofs.tla` here;
`PROJECT.json` lists every run, the source lines of every definition, a mutant
of the code for every property, the hazards and the theorems.

## The system

The repository holds about 150 top-level directories in Rust, Go, Solidity, C++
and TypeScript.  Most are request handlers over SQL and caches, user interfaces,
or libraries that nothing calls.  What follows are the parts with a state of
their own and a protocol over it; `PROJECT.json` lists the others by group.

| Component | State | Operations | Hard part | Correct when |
|---|---|---|---|---|
| Node, `node/src/node.rs` | `state`, `sync_status`, handles of chain, mempool and engine | `start`, `stop`, two spawned tasks, accessors that hand out the locks | each task takes and drops six locks per slot; `stop` joins nothing; `start` may be called again | no gaps, linked blocks, no transaction lost or sealed twice, stopping stops |
| Chain and mempool, `blockchain/src` | blocks by number; pending by hash | `insert_block`, `height`; `add`, `remove`, `pending` | shared with every caller of the accessors | as above |
| PoSA engine, `consensus/src/posa.rs`, `slashing.rs` | committee, registry, last epoch, pending rewards | `register_validator`, `update_epoch`, `get_proposer`, `record_block_reward`, `slash_validator` | calls in any order, epochs repeated, slashing inside an epoch | members are staked and flagged; the committee changes only by elections and slashing; fair rotation |
| Bridge engine: lock/mint, burn/unlock, `bridge-engine/src/engine.rs` | event maps and balances behind `RwLock`s, two SQL tables | `lock`, `mint`, `burn`, `unlock` | `lock` and `burn` await the database with no lock held; the database may fail; clients retry; memory dies with the process | each event is paid once; tokens are conserved |
| Bridge engine: transfers, same file | map, table | `initiate_transfer`, `complete_transfer` | a write lock held across two awaits; table and map written in different orders | an acknowledged completion is durable; nothing completed is pending again |
| Treasury, `contracts/treasury/Treasury.sol` | transactions, confirmations, counts, nonce | submit, confirm, revoke, execute, receive | confirmations of indices not yet submitted; a count kept beside a set | an execution has a majority that knew what it confirmed; final; ether follows decisions |
| Governor, `contracts/governance/Governor.sol` | proposals, receipts, five parameters | propose, vote, queue, execute, cancel, five setters | a state computed from four flags, the tally, two clocks and the quorum of the day | what is executed had its majority and quorum, once; no outcome is undone |
| Internal transaction indexer, `internal_tx/src` | `running`, `current_block`, stores in memory, a limiter and a breaker | `start`, `stop`, the loop, `backfill`, `index_block`, `index_transaction` | loops and backfills that meet; an endpoint that fails and lags; a range that is done whatever became of its blocks | no block is missed in silence; a stored trace has its rows; confirmed blocks are settled |
| Timelock, ParameterGovernor, EmergencyPause, `contracts/governance` | queues, values, flags | schedule, execute; propose, vote; pause | proposals for one parameter at once | a parameter keeps its bounds; a pause ends |
| StakingPool, LockManager, `contracts/staking` | stakes, rewards per token, totals | stake, unstake, claim, set rate; lock, release, revoke | lazily updated accumulators and totals | totals agree with entries |
| Bridge contracts, `contracts/bridge` | records, nonces, bonds, votes | send, relay, challenge, report | two chains and a relayer between | a transfer is relayed at most once; bonds are returned once |
| Reorganisation tracker, `reorg_tracker/cpp` | canonical chain, history, subscribers under three mutexes | `detect_reorg`, callbacks, a detached thread | callbacks under the mutexes | no deadlock |
| Staking service, `staking_service/src/server.go` | SQL rows | distribute, claim | several statements without a transaction | a reward is added and paid once |

How they interact: the node owns the chain, the mempool and the engine and
drives them from two tasks.  The bridge engine talks to its database and is
called by users and relayers over HTTP; it makes no call to a chain, so it
shares nothing with the node or the bridge contracts.  Nothing in the repository
submits transactions to a node, registers validators on it, or connects
`network` to it: these can only arrive through the locks that `get_mempool()`,
`get_consensus()` and `get_chain_manager()` hand out.  Transactions of a `Treasury` and actions of a
`Governor` proposal are ordinary calls to any other contract.  The indexer reads a
remote endpoint over JSON-RPC and keeps what it finds in its own memory.

## What is modelled, and how

| Module | Code | What it is |
|---|---|---|
| `PoSA` | `consensus/src/posa.rs`, `slashing.rs` | the engine: one action per method |
| `TigerNode` | `node/src/node.rs`, `main.rs`, `blockchain/src` | extends `PoSA`: start, stop, exit, the sealing loop, the monitor, and the callers of the accessors |
| `MCTigerNode` | | gas of the transactions and three constraints for TLC |
| `PayOnce` | | abstract: an event is opened once, paid once, and only after it was opened; implemented by both bridge flows, the table of transfers, the treasury and the governor |
| `BridgeEngine` | `bridge-engine/src/engine.rs`, `main.rs` | lock, mint, burn, unlock, database outcomes, restarts; implements `PayOnce` twice |
| `MCBridgeEngine` | | chains, accounts and requests for TLC |
| `BridgeTransfers` | `bridge-engine/src/engine.rs`, `main.rs` | initiate_transfer and complete_transfer |
| `Treasury` | `contracts/treasury/Treasury.sol` | the multi-signature treasury |
| `Governor` | `contracts/governance/Governor.sol` | proposals from `propose` to `execute`, with the setters, the token and the clock |
| `InternalTxIndexer` | `internal_tx/src`: `indexer.rs`, `rpc.rs`, `security.rs`, `storage.rs` | loops and backfills over a lagging, failing endpoint |
| `MCInternalTxIndexer` | | the range to backfill and a constraint for TLC |
| `*_proofs` | | theorems of the module they extend |
| `FiniteSums` | | lemmas about the sum of a function over a finite set, used by the proofs |

**Grain.**  An action runs from one point where others can interfere to the next.
In the node these points are the lock acquisitions: `SealerCheck`,
`SealerReadHeight`, `SealerElect`, `SealerCollect`, `SealerProduce` and
`SealerRemove` are the six critical sections of one slot, and the locals that
live across them are variables per task (`next_block`, `pending_txs`,
`seen_height`).  In the bridge they are the `await`s: `lock` is `LockPersist`
then `LockInsert`, `burn` is `BurnDebit`, `BurnPersist`, `BurnInsert`; `mint` and
`unlock` hold the event map to the end and are one action.  `complete_transfer`
holds the map's write lock across its awaits: `completing` is that lock, and
insertions wait for it while the table can still be written.  A contract call is
atomic; `execute` of a proposal marks it before it calls out, and what the calls do to
the contract is what the same calls do next in the same block.

**The accessors of the node** hand out the locks of the mempool, the engine and the
chain, and nothing in the repository uses them.  The model lets a caller do at any time
what they allow: `AddTx` and `WithdrawTx`; `EngineCall`, which is every method of
`PoSA`, `update_epoch` and `slash_validator` included; and `ImportBlock`, which is
`process_block` of an empty block another of the validators has built on this chain, at any
height up to the next.  What a caller cannot do in the model is to insert any other block,
one beyond the next height or a block 0 for instance, to hold a lock for ever, or to write
to what `get_sync_status()` hands out.

In the indexer the points are its `await`s on the endpoint and on the stores.  A worker
is a call of `start` or `backfill`; one slot of the loop is `Tick`, `AskHead`,
`ReadCurrent`, the blocks of the range, `Advance`; one block is `Admit` (breaker, then
limiter), `ListTransactions` or `ListsNothing`, and for each transaction `MissTrace`, `TraceTransaction`,
`StoreTrace`.  The rows of a trace are stored before the trace and no worker reads
them, so they are one step with the answer.  A method of the limiter or of the breaker
is one step.

**Failures.**  A database call in `BridgeEngine` and `BridgeTransfers` succeeds,
fails without effect, or takes effect and is reported as failed.  `Restart` loses
everything but the tables and the calls under way with it, and may come up
without a connection, which `main.rs` tolerates.  A request of the indexer fails after
its retries at any moment, and an answer is up to `MaxLag` blocks old.  The lag is
assumed to be at most `confirmation_blocks`: at an endpoint that is further behind, a
block that reads as empty is passed as indexed, which the code cannot notice.  The same
happens to a block that is there when the result has no list of transactions (`rpc.rs:104`):
`ListsNothing` is that answer, `unlisted` remembers the blocks a loop lost by it, and the
properties show that nothing else loses one.  The
stores of the indexer are in memory whatever its configuration says, so a restart is a
new beginning and not an action.

**History variables** (`accepted`, `withdrawn`, `imported`, `stop_height`, `slash_height`, `mints`, `asked_locks`, `early`,
`informed`, `acknowledged`, `runs`, `noted`,
`unlisted`, ...) are only written by the actions and
only read by properties.  The exceptions: `asked_locks`, `asked_burns` and `accepted` tell
clients that do not repeat themselves (`Resubmission = FALSE`) what was asked
before, `issued` keeps random ids from repeating, and `received` carries the bound
on the ether a treasury receives.

**Wrong versions.**  Operators such as `StillLocked` or `OrphanHeader` stand before
the definition they are a plausible wrong version of.  No specification refers to
them; replacing the definition by them must make TLC find the property of the
mutant violated, which shows that the property depends on the code.

## The runs

Every run is bounded by its constants; `node` and `internal_tx` have constraints beside them,
which are explained under the bounds.  Deadlock is checked in `posa` and `internal_tx`; the
other systems may stop (the process exits, or a bound is reached).

| Run | States | Question | Properties |
|---|---|---|---|
| `posa` | 68 000 | Does any order of calls break the committee? | `PoSATypeOK`, `CommitteeIsStaked`, `ActiveFlagIsSound`, `RotationIsFair`, `CommitteeOnlyShrinksInEpoch` |
| `node` | 789 000 | Start, stop and start again beside callers of every accessor | `NodeTypeOK`, `ChainIsContiguous`, `ChainIsLinked`, `NoTxLost`, `TxIncludedOnce`, `SyncTracksChain`, `OneBlockAfterSlash`, `OneBlockAfterStop`, `TxEventuallyIncluded` |
| `node_stopped`, `node_turns` | | see the next section | one each |
| `bridge_memory` | 4 600 | Without a database and repeated calls | `TokensAreConserved`, `LocksPaidOnce`, `BurnsPaidOnce` |
| `bridge_database` | 370 000 | Failing database, repeated calls, restart | `BridgeTypeOK`, `MintsAreBounded`, `UnlocksAreBounded` |
| `bridge_race` | | see the next section | `MintOrUnlockIsIdempotent` |
| `transfers` | 212 000 | Concurrent transfers, a fault, a restart | `TransfersTypeOK`, `AcknowledgedIsDurable`, `MemoryMatchesTable`, `CompletedStaysCompleted` |
| `treasury` | 1 090 000 | Every order of submit, confirm, revoke, execute, also on an index to come | `TreasuryTypeOK`, `CountMissesEarlyConfirmations`, `ExecutedByInformedMajority`, `FundsFollowDecisions`, `ExecutedIsFinal` |
| `governor` | 1 730 000 | Every order of votes, queues, executions, cancellations and changes of parameters | `GovernorTypeOK`, `ExecutedWasApproved`, `OutcomeIsFinal` |
| `governor_delay` | | see the next section | `DelayHonoured` |
| `internal_tx` | 712 000 | Two loops or backfills over a chain that grows and an endpoint that fails, lags and answers without transactions | `IndexerTypeOK`, `RowsMatchTraces`, `MissedBlocksAreNoted`, `BlocksAreSettled` |

What they show:

* **The engine.**  Registering, slashing, rewarding and updating in any order never
  leaves an unstaked or duplicate member.  A flag is cleared early by registering
  again, but never set on a validator that is off the committee.
* **The node.**  With one start, what `main()` does, the gaps between its locks are
  harmless: the height it read is still the height, what it copied is still pending
  unless a caller removed it, and a slash, an epoch update or a registration during a
  slot changes the proposer of the next slot only: `OneBlockAfterSlash`.  `stop()` too
  lets one block through at most.  With two starts, or a caller that inserts blocks, the
  chain still has no gaps and the sync status does not run ahead of it
  (`ChainIsContiguous`, `SyncTracksChain`); but a block can replace one of the same
  height, so links and transactions are then not guaranteed.  The properties about these
  say so: they hold until the node is disturbed (`Undisturbed`).
* **The bridge.**  In memory it pays each event once and conserves tokens.  With the
  database, what it can guarantee is a bound: at most one credit per write of
  `lock()` and start of the process, and none for an event nobody asked for; the same
  for `burn()` and `unlock()`.  That bound is weaker than the idempotency the code
  documents, which does not hold: see `bridge_race` in the next section.
* **Transfers.**  `complete_transfer` changes the map before the table, and the lock
  it holds keeps this from being seen; an acknowledged completion survives
  everything; the late `Pending` that `initiate_transfer` inserts never overwrites
  a completion in memory, because an id that is not in the map cannot be completed
  there.
* **The treasury.**  Confirming an index before it is submitted can make a transaction
  impossible to execute, but never lets one pass without the required number of
  signers who knew its content.
* **The governor.**  `state()` does not know an execution of a proposal that was queued: it
  reads `Succeeded` again, and the proposal can be queued or cancelled after the fact.
  What keeps the outcome is the flag `executed`, which `execute()` itself looks at: nothing
  runs twice, and what ran keeps the majority and quorum it ran with.  A proposal executed
  without a queue can still be marked cancelled once the quorum is raised above its
  votes, since it then reads `Defeated`.
* **The indexer.**  `current_block` moves past blocks that failed, and goes backwards when
  loops meet or the endpoint lags; still, no block is passed in silence: it is indexed
  or an error was counted, or the endpoint had it and answered without its transactions.  Callers that meet can store the rows of a transaction once
  each, never the same caller twice.

**Bounds, and why they are enough.**  `posa` has three validators for two seats
over three epochs of two blocks, so that an election leaves someone out, ties are
broken, stakes pass the minimum in both directions, rewards wrap and old block
numbers come back.  `node` has two transactions for a mempool of one, so it is full after the first; two
validators, so the turn can be another's; heights in two epochs; two starts and blocks
of the other validator.  Its three constraints keep apart what would only multiply.
`MCArrival` names the transactions, which are alike, in the order of their arrival.
`MCSize` leaves out behaviours in which both transactions are accepted and both
validators registered: how many transactions a block takes does not depend on whose turn
it is.  `MCDisturbance` has second starts and inserted blocks in behaviours without
transactions and with one validator only, and one of the two in each: the properties that
are checked there, `ChainIsContiguous`, `SyncTracksChain` and the types, read no
transaction, and the theorems state them without any constraint.
The properties are invariants and a liveness property that excuses a disturbed node; no
constraint cuts a step of the sealing loop, so every fair behaviour that stays within the
constraints is explored to its end.
`bridge_memory` lets every
request be called and three of them overlap; the requests include two recipients
under one id, both directions, rejected chains and amounts that overflow together.
`bridge_database` has two callers, three calls (lock, its repetition, a burn), and a
restart.  `transfers` has two callers, three ids and one failed call: one more fault
only repeats what one can do, since the properties count faults as none or some.
`treasury` is the smallest the constructor allows, with two transactions and an
index that is never submitted.  `governor` has one proposal, since two share nothing but
the parameters, with four blocks: propose, vote, queue, and an execution before or
after the delay; and two holders whose votes pass the quorum together or alone.
`internal_tx` has two workers, so that any two calls meet, three blocks of which two can
be confirmed, a lag of one, one request a second and a breaker that opens on one
failure, so that both refuse.  Its constraint `MCUnlisted` has the endpoint answer a loop without
a list only for blocks that `current_block` can pass: about the others no property says
anything.  Its traces all have one row: answers that differ are left to
`RowsAlwaysMatch`, which holds for any `RowCounts`.

**Fairness.**  `NodeFairSpec` has weak fairness of each sealing loop.
tokio polls a spawned task again whenever what it waits for is ready, the interval
ticks every three seconds, and its mutexes are first come, first served; so a loop
that can take its next step takes it.  Nothing is assumed of clients, of `stop()`
or of the monitor.  `TxEventuallyIncluded` accordingly excuses a node that is
stopped or not the only candidate.

`IndexerFairness` has weak fairness of each worker, for the same reason, and strong
fairness of an up-to-date answer to `eth_blockNumber`: a loop that asks for ever is not
for ever refused or told an old number.  Without it the loop need not see the chain
grow.  The requests for blocks and traces may fail for ever, the bucket may stay empty
and the breaker open: a block is then settled by the error that is counted.

## Where the code and its documentation part

Each is a run whose one property is refuted.

* `node_stopped`: `stop()` says the tasks detect the change and exit and that it
  cancels the remaining ones (`node.rs:278`, `:285`).  The loop checks the state
  before it waits for the slot, and the `JoinSet` is empty: a block is sealed after
  the state is `Stopped`.
* `node_turns`: `validators take turns` (`node.rs:176`).  The turn is a function of
  the height; a node inserts its own blocks only; with a second validator the
  height stops.
* `bridge_race`: `Idempotent: re-submitting an already-minted lock returns the current
  wrapped balance without re-minting` (`engine.rs:520`) and `Idempotent: re-submitting an
  already-unlocked burn returns the current unlocked balance without re-unlocking`
  (`:739`).  The insertion that `lock()` makes after its row was committed replaces a
  `Minted` event by a `Locked` one (`:510`), and that of `burn()` an `Unlocked` event by a
  `Burned` one (`:730`); the next call pays again.  One execution of two callers, without
  a fault, a retry or a restart, does both.  A restart has the same effect: an event that
  is only in the table is rebuilt as `Locked` (`:568`) or `Burned` (`:783`) whatever its row
  says.  `MintsAreBounded` and `UnlocksAreBounded` count these payments and allow them.
* `governor_delay`: `Timelock delay (seconds)` and `Queue proposal for execution`
  (`Governor.sol:31`, `:308`).  `execute()` accepts a proposal that is still `Queued`, and
  one that was never queued (`:286`).

Noted while reading, without a run: the hash `produce_block` returns starts with
`0x` and the parent hash it writes does not (`node.rs:386`, `:415`); `start()` gives an
empty chain a genesis configuration but no block 0 (`node.rs:157`), so the first
block is 1 and has an empty parent hash; `blockchain/src/chain.rs` names a header
field `hash` that the header lacks.  Everything pending goes into one block and its gas
is summed beside the limit of 30 million, not compared with it (`node.rs:215`).
`Timelock.execute()` never compares `eta` with the time (`Governor.sol:460`).
`MultiSigWallet` counts the confirmations of owners removed since (`:161`).
`complete_transfer` of a transfer that only the table has updates the row and then
returns an error (`engine.rs:355`).  `index_transaction()` returns a trace where its type
is `()` (`indexer.rs:307`), so it does not compile as it stands; it is modelled as the
return it means.

## The proofs

| Theorem | Of | Assumes beyond the modules' ASSUMEs |
|---|---|---|
| `PoSATypeCorrect`, `CommitteeAlwaysStaked`, `ActiveFlagAlwaysSound`, `CommitteeShrinksInEpoch`, `RotationAlwaysFair`, `ElectionAlwaysDecided` | `PoSASpec` | |
| `NodeDrivesEngine`, `NodeCommitteeStaked`, `NodeRotationFair` | `NodeSpec` | |
| `NodeTypeCorrect`, `ChainAlwaysContiguous`, `SyncAlwaysTracksChain` | `NodeSpec` | |
| `NoTxEverLost`, `ChainAlwaysLinked`, `AtMostOneBlockAfterSlash`, `AtMostOneBlockAfterStop`, `BlocksNeverReplaced`, `TxAlwaysIncludedOnce` | `NodeSpec` | the properties speak of an undisturbed node; the last also of `~Resubmission` |
| `BridgeTypeCorrect`, `MintsAlwaysBounded`, `UnlocksAlwaysBounded` | `BridgeSpec` | |
| `SupplyAlwaysBacked` | `BridgeSpec` | finite `Chain`, `Account` |
| `TokensAlwaysConserved` | `BridgeSpec` | `~Database`, `~Resubmission`, finite `Chain`, `Account`, `Caller` |
| `LocksPaidOnceInMemory`, `BurnsPaidOnceInMemory` | `BridgeSpec` | `~Database`, `~Resubmission`, `MaxRestarts = 0` |
| `TransfersTypeCorrect`, `AcknowledgedAlwaysDurable`, `MemoryAlwaysMatchesTable`, `CompletedAlwaysStays`, `RowsCompletedOnce` | `TransfersSpec` | |
| `TreasuryTypeCorrect`, `CountAlwaysMissesEarly`, `AlwaysExecutedByInformedMajority`, `ExecutedAlwaysFinal`, `FundsAlwaysFollowDecisions`, `TransactionsExecutedOnce` | `TreasurySpec` | |
| `GovernorTyped`, `ExecutedAlwaysApproved`, `OutcomeAlwaysFinal`, `ProposalsExecutedOnce` | `GovernorSpec` | |
| `TallyAlwaysIsBallots` | `GovernorSpec` | finite `Voter` |
| `IndexerTyped`, `RowsAlwaysMatch`, `MissedBlocksAlwaysNoted` | `IndexerSpec` | |

Every invariant and action property of a passing run is stated by a theorem.  Beside
`NodeDrivesEngine`, seven theorems say more than the runs: `OneCommitteeIsElected` (of `ElectionAlwaysDecided`),
`BlocksNeverReplaced`, `SupplyIsBacked`, `TallyIsBallots`, and the three further
implementations of `PayOnce` (`TransferLedger`, `TransactionLedger`, `ProposalLedger`);
they are stated in the proof modules, next to their theorems.

The extra assumptions, `Undisturbed` among them, are needed: without them TLC finds
counterexamples (two loops replace blocks; a resubmitted transaction is sealed again; a retried
`lock()` is paid again; a restart forgets what was paid).  That chains, accounts,
callers and voters are finitely many is what a sum over them needs: `Chain` is an enum
in the code, the others are those of one execution.  Each argument rests on an
inductive invariant:

* `PoSAInv` adds to the properties that no validator is on the committee twice.
  Without it, removing a slashed member (`Without`) could leave a second copy behind.
* `RotationAlwaysFair` follows from the types by arithmetic: among as many consecutive
  numbers as the committee has members, each remainder occurs once.
* `ElectionAlwaysDecided`: `IsElected` describes the list that sorting and truncating
  gives.  That no two lists fit is a comparison of ranks (`ElectionUnique`); that one
  fits is shown by taking the candidates off a list one at a time, the last in rank
  first, with the smallest set that has none as the counterexample (`ElectionExists`).
* `ChainInv` (any number of starts, any inserted block): a loop that has chosen a block
  is at most one above the height, so producing replaces or appends; what a monitor has read is
  at most the height, which never falls.
* `LoopInv` and `SingleInv` (until the node is disturbed) say what the loop can rely on
  at each program counter: the block it chose is still the next, what it copied is still
  pending or was removed by a caller, the block on top holds what it is about to remove;
  and that after the stop signal a height above the one at the signal means the loop is
  done with its slot.  `SlashInv` says the same of a slash: while a loop holds an election
  it won, the height has not moved since, and otherwise by one at most; it cannot win
  another, since a proposer is on the committee and the committee is staked.
* `OnceInv`: a transaction that is both pending and in the chain is in the block
  whose removal is under way.
* `NodeDrivesEngine` shows that every step of the node is a step of the engine or
  leaves it alone, so the theorems about `PoSA` carry over without being proved again.
* `LockInv` and `BurnInv` of the bridge: an event in memory as `Locked` is a credit
  still to come and is charged to a write of `lock()` or, once per process, to the
  table; the bound alone is not inductive.
* The refinement maps `open` to the `Locked` events and `paid` to the `Minted` ones
  (`Burned` and `Unlocked` for the other flow).  Its invariant `InFlight` says that
  calls under way have distinct ids that are in no map yet, so that an insertion
  opens a new event.
* `TokensAlwaysConserved` rests on `InFlight` too, which restarts keep.  Each step
  moves an amount between the four sums of the property: `mint()` from nowhere into a
  balance and into what was minted, `burn()` from a balance into the call, the
  call into the burn event, `unlock()` from there into a balance.
* `SupplyInv`, for every configuration: an event that nobody asked for has no credits, so
  that asking for one adds nothing to the sum of credits; and that sum is never negative,
  so that a restart, which empties the balances, keeps the bound.
* `TransfersInv`: `TableInv` (what is in memory or about to be has a row while there is
  a pool), `DrawInv` (an id about to be inserted is in no map, so it cannot have been
  completed there) and `LockInv` (memory differs from the table only in the entry
  whose completion holds the lock).
* `TreasuryInv`: the count falls short of the confirmations by the early ones exactly,
  and whoever has confirmed and was not early is informed; the majority then
  follows from the cardinalities of the two parts.
* `FundsInv` adds that an index that was not submitted is blank (`UnsubmittedIsBlank`):
  it can be executed, which moves nothing, and submission clears the mark.
* `GovernorInv`: an id that is still to come has no votes and an empty window (`FreshInv`),
  so that nobody can vote on it or execute it, although it can be cancelled; and a
  window ends no earlier than it begins (`WindowInv`), so that a proposal whose vote is
  over cannot be `Active` again.  From these a tally is settled when it is executed.
  `TallyAlwaysIsBallots`: a vote adds the weight of its one receipt to one tally, and an
  id that is still to come has empty tallies, so that `propose` clears nothing.
* `PayOnce` of the table of transfers, the treasury and the governor: a row is open while
  it is `Pending` and paid once `Completed`; a transaction is open once submitted, a
  proposal once proposed, and each is paid once executed.  What happens
  to an index before it is submitted, or to an id before it is proposed, is a stutter.
* `IndexerInv` says of each worker what holds at its place: `LoopInv`, that the blocks of
  its range are confirmed and those it has passed are settled; `RowsInv`, that rows
  without a trace belong to the transaction it is about to store.  What another worker
  does only adds to the chain, the traces and what is noted, which keeps both.  `KeptInv`
  says that behind every trace is a worker with exactly its rows that will not store
  them again.  That an old answer does no harm uses `MaxLag <= confirmation_blocks`.

**Sums.**  `SumFunction` is a fold, a recursive function that takes one chosen element
away at a time.  Its induction needs no rule with an operator parameter: `FiniteSums`
takes a smallest subset for which the claim fails, which exists since the strict subsets
of a finite set are well-founded, and shows that it cannot be the smallest.  From this
come the five lemmas the proofs use: a sum is an integer, depends on the values only, is
zero over zeros, and changes by what one element changes or one new element adds.

**Only model-checked.**  `TxEventuallyIncluded` and `BlocksAreSettled`, which are liveness
properties: the provers have no rule for fairness or ENABLED.  The refuted properties.

## What the models leave out

* A header stands for its hash: `simple_hash` is taken to be injective, as are the
  event ids of the bridge.  Signatures are their signers.
* One token on the bridge; balances of different tokens never meet.
* Timestamps, fees, logs, and fields nothing decides on.  `gas_price`, nonces and
  signatures of transactions are not checked by the node, and so not modelled.
* `queued` of the mempool and `headers` of the chain, which nothing fills;
  `delegated`, which nothing changes from 0.
* What the call of a treasury transaction does, beyond moving ether, and what the actions
  of a proposal do beyond calling the governor again.
* `batch_index` of the indexer, the check of hashes, its statistics beside `errors`, and its
  queries.
* Heights, calls, starts, restarts and faults are bounded by constants named as
  bounds; the theorems hold for every value of them.

## Not modelled

`PROJECT.json` lists every component with its status and reason.  The execution layer,
cryptography and analysis tools are computations on data with no protocol; storage, APIs
and explorers are I/O around databases; `network` and the `*_sync` crates are tables that
nothing connects to a node; the helpers of `consensus` and the validators, relayers and
adapters of the bridge engine have no caller.  These stay out: a model of them would
restate assignments.

The parts below have a protocol of their own and are worth modelling next, in this order.

## Plan

1. **Done.** `PoSA`, `TigerNode`, `BridgeEngine` with `PayOnce`, `BridgeTransfers`,
   `Treasury`, `Governor`, `InternalTxIndexer`.
2. **`StakingPool`**, **`LockManager`**: the accumulators against a reference that pays every
   staker each second; totals agree with the entries.
3. **`TokenHub`** with `Relay`: two hubs and a relayer that loses, repeats and reorders;
   a transfer is paid at most once, `PayOnce` again as the abstract specification.
   **`ChallengeSystem`**: the ether held equals the open bonds.
4. **`MultiSigWallet`**, **`TreasuryVester`**, **`TokenVesting`**: owners that change under
   open transactions; what is released never exceeds what has vested.
5. **`ParameterGovernor`**, **`EmergencyPause`**, `Timelock`: a parameter stays within its
   bounds through concurrent proposals; a pause ends.
6. **`ReorgTracker`**: its mutexes and callbacks, deadlock checked.
7. **`StakingService`**: distribution and claims by statement, with failures and
   retries; `batch_index` of the indexer belongs with it.
