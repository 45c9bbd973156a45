--------------------------- MODULE TigerNode_proofs ---------------------------
(***************************************************************************)
(* What the node guarantees for every set of transactions and validators,  *)
(* every mempool limit and every height.                                   *)
(*                                                                         *)
(* ChainInv holds whatever number of starts overlap and whoever inserts    *)
(* blocks: a sealing loop may work on a height that the chain has passed,  *)
(* but never beyond the next, so the chain has no gaps.  LoopInv, SlashInv *)
(* and OnceInv are what a sealing loop can rely on between its locks while *)
(* the node is undisturbed: the height it read is still the height, what   *)
(* it copied is still pending or withdrawn, what it sealed is in the block *)
(* on top, and it won its slot as a staked validator.                      *)
(***************************************************************************)
EXTENDS TigerNode, PoSA_proofs

\* A sealing loop that has chosen its block and not sealed it yet.
Chosen(t) == sealer[t] \in {"elect", "collect", "produce"}

ChainInv ==
  /\ NodeTypeOK
  /\ ChainIsContiguous
  /\ Height \in 0..MaxHeight
  /\ \A t \in Tasks : Chosen(t) => next_block[t] \in 1..(Height + 1)
  /\ \A t \in Tasks : seen_height[t] <= Height
  /\ SyncTracksChain

\* The highest number of a chain without gaps.
LEMMA HighestOf ==
  ASSUME NEW h \in Nat
  PROVE  h = IF 1..h = {} THEN 0
             ELSE CHOOSE n \in 1..h : \A k \in 1..h : k <= n
<1>1. CASE h = 0
  BY <1>1
<1>2. CASE h > 0
  <2>1. h \in 1..h /\ \A k \in 1..h : k <= h
    BY <1>2
  <2>2. \A n \in 1..h : (\A k \in 1..h : k <= n) => n = h
    BY <2>1
  <2> QED
    BY <2>1, <2>2
<1> QED
  BY <1>1, <1>2

-----------------------------------------------------------------------------
(* The chain under any number of starts.                                   *)

\* A block inserted at a height up to the next one replaces a block or is the
\* new top.
LEMMA InsertGrowsChain ==
  ASSUME ChainInv, NEW n \in 1..MaxHeight, n \in 1..(Height + 1),
         DOMAIN blocks' = DOMAIN blocks \cup {n}
  PROVE  /\ DOMAIN blocks' = 1..Height'
         /\ Height' \in 0..MaxHeight
         /\ Height' = IF n = Height + 1 THEN Height + 1 ELSE Height
<1>1. DOMAIN blocks = 1..Height /\ Height \in 0..MaxHeight /\ MaxHeight \in Nat
  BY NodeAssumption DEF ChainInv, ChainIsContiguous
<1> DEFINE top == IF n = Height + 1 THEN Height + 1 ELSE Height
<1>2. top \in 0..MaxHeight /\ top \in Nat
  BY <1>1
<1>3. DOMAIN blocks' = 1..top
  BY <1>1
<1> HIDE DEF top
<1>4. Height' = top
  BY <1>2, <1>3, HighestOf DEF Height
<1> QED
  BY <1>2, <1>3, <1>4 DEF top

\* The block a sealing loop produces is at such a height.
LEMMA ProduceInserts ==
  ASSUME ChainInv, NEW t \in Tasks, SealerProduce(t)
  PROVE  /\ next_block[t] \in 1..MaxHeight /\ next_block[t] \in 1..(Height + 1)
         /\ DOMAIN blocks' = DOMAIN blocks \cup {next_block[t]}
<1>1. next_block[t] \in 1..(Height + 1) /\ next_block[t] \in 0..MaxHeight
  BY DEF ChainInv, NodeTypeOK, SealerProduce, Chosen
<1>2. DOMAIN blocks' = DOMAIN blocks \cup {next_block[t]}
  BY DEF SealerProduce, Put
<1> QED
  BY <1>1, <1>2, NodeAssumption DEF ChainInv

LEMMA ImportInserts ==
  ASSUME ChainInv, NEW n \in 1..MaxHeight, NEW miner \in OtherMiners,
         ImportBlock(n, miner)
  PROVE  /\ n \in 1..(Height + 1)
         /\ DOMAIN blocks' = DOMAIN blocks \cup {n}
  BY DEF ImportBlock, Put

LEMMA ProduceKeepsType ==
  ASSUME ChainInv, NEW t \in Tasks, SealerProduce(t)
  PROVE  NodeTypeOK'
<1>1. DOMAIN blocks' \subseteq 1..MaxHeight
  BY ProduceInserts DEF ChainInv, NodeTypeOK
<1>2. \A n \in DOMAIN blocks' : blocks'[n].transactions \subseteq Tx
  BY DEF SealerProduce, Put, ChainInv, NodeTypeOK
<1>3. sealer' \in [Tasks -> SealerPC]
  BY DEF SealerProduce, ChainInv, NodeTypeOK, SealerPC
<1> QED
  BY <1>1, <1>2, <1>3
  DEF SealerProduce, ChainInv, NodeTypeOK, mainVars, monitorVars, callerVars

LEMMA ImportKeepsType ==
  ASSUME ChainInv, NEW n \in 1..MaxHeight, NEW miner \in OtherMiners,
         ImportBlock(n, miner)
  PROVE  NodeTypeOK'
<1>1. DOMAIN blocks' \subseteq 1..MaxHeight
  BY ImportInserts DEF ChainInv, NodeTypeOK
<1>2. \A k \in DOMAIN blocks' : blocks'[k].transactions \subseteq Tx
  BY DEF ImportBlock, Put, ChainInv, NodeTypeOK
<1> QED
  BY <1>1, <1>2
  DEF ImportBlock, ChainInv, NodeTypeOK, mainVars, sealerVars, monitorVars

LEMMA MainKeepsType ==
  ASSUME ChainInv,
         StartGenesis \/ StartRunning \/ StopSignal \/ StopFinish \/ Exit
  PROVE  NodeTypeOK'
<1> USE DEF ChainInv, NodeTypeOK, mainVars, sealerVars, monitorVars, callerVars
<1>1. CASE StartGenesis
  BY <1>1, NodeAssumption DEF StartGenesis
<1>2. CASE StartRunning
  <2>1. /\ sealer' \in [Tasks -> SealerPC]
        /\ monitor' \in [Tasks -> {"unborn", "check", "read", "write", "exited"}]
    BY <1>2 DEF StartRunning, SealerPC
  <2> QED
    BY <1>2, <2>1 DEF StartRunning
<1>3. CASE StopSignal
  BY <1>3 DEF StopSignal
<1>4. CASE StopFinish
  BY <1>4 DEF StopFinish
<1>5. CASE Exit
  <2>1. /\ sealer' \in [Tasks -> SealerPC]
        /\ monitor' \in [Tasks -> {"unborn", "check", "read", "write", "exited"}]
        /\ next_block' \in [Tasks -> 0..MaxHeight]
        /\ seen_height' \in [Tasks -> 0..MaxHeight]
        /\ pending_txs' \in [Tasks -> SUBSET Tx]
    BY <1>5, NodeAssumption DEF Exit, SealerPC
  <2> QED
    BY <1>5, <2>1 DEF Exit
<1> QED
  BY <1>1, <1>2, <1>3, <1>4, <1>5

LEMMA SealerKeepsType ==
  ASSUME ChainInv, NEW t \in Tasks, SealerStep(t)
  PROVE  NodeTypeOK'
<1>1. sealer' \in [Tasks -> SealerPC]
  BY DEF SealerStep, SealerCheck, SealerReadHeight, SealerElect, SealerCollect,
         SealerProduce, SealerRemove, ChainInv, NodeTypeOK, SealerPC
<1> USE DEF ChainInv, NodeTypeOK, mainVars, monitorVars, callerVars
<1>2. CASE SealerCheck(t)
  BY <1>1, <1>2 DEF SealerCheck
<1>3. CASE SealerReadHeight(t)
  BY <1>1, <1>3, NodeAssumption DEF SealerReadHeight
<1>4. CASE SealerElect(t)
  BY <1>1, <1>4 DEF SealerElect
<1>5. CASE SealerCollect(t)
  BY <1>1, <1>5 DEF SealerCollect
<1>6. CASE SealerProduce(t)
  BY <1>6, ProduceKeepsType
<1>7. CASE SealerRemove(t)
  BY <1>1, <1>7, NodeAssumption DEF SealerRemove, RemainingAfter
<1> QED
  BY <1>2, <1>3, <1>4, <1>5, <1>6, <1>7 DEF SealerStep

LEMMA OthersKeepType ==
  ASSUME ChainInv,
         \/ \E t \in Tasks : MonitorStep(t)
         \/ \E tx \in Tx : AddTx(tx) \/ WithdrawTx(tx)
         \/ EngineCall
  PROVE  NodeTypeOK'
<1> USE DEF ChainInv, NodeTypeOK, mainVars, sealerVars, monitorVars, callerVars
<1>1. ASSUME NEW t \in Tasks, MonitorCheck(t)
      PROVE  NodeTypeOK'
  BY <1>1 DEF MonitorCheck
<1>2. ASSUME NEW t \in Tasks, MonitorReadHeight(t)
      PROVE  NodeTypeOK'
  BY <1>2 DEF MonitorReadHeight
<1>3. ASSUME NEW t \in Tasks, MonitorWrite(t)
      PROVE  NodeTypeOK'
  BY <1>3, NodeAssumption DEF MonitorWrite, StatusAt
<1>4. ASSUME NEW tx \in Tx, AddTx(tx) \/ WithdrawTx(tx)
      PROVE  NodeTypeOK'
  BY <1>4 DEF AddTx, WithdrawTx
<1>5. CASE EngineCall
  BY <1>5 DEF EngineCall
<1> QED
  BY <1>1, <1>2, <1>3, <1>4, <1>5 DEF MonitorStep

\* Every other step leaves the chain, and so its height, alone.
LEMMA OthersKeepHeight ==
  ASSUME UNCHANGED blocks
  PROVE  Height' = Height
  BY DEF Height

\* While the chain stays as it is, a loop gets to a chosen block by reading
\* the height, and keeps the block it has chosen.
LEMMA ChosenStep ==
  ASSUME NodeTypeOK, [NodeNext]_nodeVars, UNCHANGED blocks, NEW u \in Tasks, Chosen(u)'
  PROVE  \/ Chosen(u) /\ next_block'[u] = next_block[u]
         \/ next_block'[u] = Height + 1 /\ Height < MaxHeight
<1>1. sealer \in [Tasks -> SealerPC] /\ next_block \in [Tasks -> 0..MaxHeight]
  BY DEF NodeTypeOK
<1>2. CASE UNCHANGED <<sealer, next_block>>
  BY <1>2 DEF Chosen
<1>3. CASE StartRunning
  BY <1>1, <1>3 DEF StartRunning, Chosen, sealerVars
<1>4. CASE Exit
  BY <1>1, <1>4 DEF Exit, Chosen
<1>5. ASSUME NEW t \in Tasks, SealerCheck(t) \/ SealerRemove(t)
      PROVE  Chosen(u) /\ next_block'[u] = next_block[u]
  BY <1>1, <1>5 DEF SealerCheck, SealerRemove, Chosen
<1>6. ASSUME NEW t \in Tasks, SealerReadHeight(t)
      PROVE  \/ Chosen(u) /\ next_block'[u] = next_block[u]
             \/ next_block'[u] = Height + 1 /\ Height < MaxHeight
  BY <1>1, <1>6 DEF SealerReadHeight, Chosen
<1>7. ASSUME NEW t \in Tasks, SealerElect(t) \/ SealerCollect(t)
      PROVE  Chosen(u) /\ next_block'[u] = next_block[u]
  BY <1>1, <1>7 DEF SealerElect, SealerCollect, Chosen
<1>8. ASSUME NEW t \in Tasks, SealerProduce(t)
      PROVE  Chosen(u) /\ next_block'[u] = next_block[u]
  BY <1>1, <1>8 DEF SealerProduce, Chosen
<1>9. CASE StartGenesis \/ StopSignal \/ StopFinish \/ EngineCall
           \/ (\E t \in Tasks : MonitorStep(t))
           \/ (\E tx \in Tx : AddTx(tx) \/ WithdrawTx(tx))
           \/ (\E n \in 1..MaxHeight, miner \in OtherMiners : ImportBlock(n, miner))
  <2>1. UNCHANGED <<sealer, next_block>>
    BY <1>9 DEF StartGenesis, StopSignal, StopFinish, EngineCall, MonitorStep,
       MonitorCheck, MonitorReadHeight, MonitorWrite, AddTx, WithdrawTx, ImportBlock,
       sealerVars
  <2> QED
    BY <1>2, <2>1
<1>10. CASE UNCHANGED nodeVars
  BY <1>2, <1>10 DEF nodeVars, sealerVars
<1> QED
  BY <1>3, <1>4, <1>5, <1>6, <1>7, <1>8, <1>9, <1>10 DEF NodeNext, SealerStep

\* The monitor publishes a height it has read, and the chain never shrinks.
LEMMA MonitorStaysBehind ==
  ASSUME ChainInv, [NodeNext]_nodeVars
  PROVE  /\ \A u \in Tasks : seen_height'[u] <= Height
         /\ sync_status'.current <= sync_status'.highest
         /\ sync_status'.highest <= Height
<1>1. /\ seen_height \in [Tasks -> 0..MaxHeight]
      /\ \A u \in Tasks : seen_height[u] <= Height
      /\ sync_status \in [current : 0..MaxHeight, highest : 0..MaxHeight]
      /\ sync_status.current <= sync_status.highest /\ sync_status.highest <= Height
      /\ Height \in 0..MaxHeight /\ MaxHeight \in Nat
  BY NodeAssumption DEF ChainInv, NodeTypeOK, SyncTracksChain
<1>2. CASE UNCHANGED <<seen_height, sync_status>>
  BY <1>1, <1>2
<1>3. ASSUME NEW t \in Tasks, MonitorReadHeight(t)
      PROVE  UNCHANGED sync_status /\ seen_height' = [seen_height EXCEPT ![t] = Height]
  BY <1>3 DEF MonitorReadHeight
<1>4. ASSUME NEW t \in Tasks, MonitorWrite(t)
      PROVE  /\ seen_height' = [seen_height EXCEPT ![t] = 0]
             /\ sync_status' = StatusAt(seen_height[t])
  BY <1>4 DEF MonitorWrite
<1>5. \/ UNCHANGED <<seen_height, sync_status>>
      \/ Exit
      \/ \E t \in Tasks : MonitorReadHeight(t) \/ MonitorWrite(t)
  BY DEF nodeVars, monitorVars, NodeNext, StartGenesis, StartRunning, StopSignal,
         StopFinish, SealerStep, SealerCheck, SealerReadHeight, SealerElect,
         SealerCollect, SealerProduce, SealerRemove, MonitorStep, MonitorCheck,
         AddTx, WithdrawTx, EngineCall, ImportBlock
<1>6. CASE \E t \in Tasks : MonitorReadHeight(t)
  BY <1>1, <1>3, <1>6
<1>7. CASE \E t \in Tasks : MonitorWrite(t)
  BY <1>1, <1>4, <1>7 DEF StatusAt
<1>8. CASE Exit
  BY <1>1, <1>8 DEF Exit
<1> QED
  BY <1>2, <1>5, <1>6, <1>7, <1>8

\* An inserted block leaves every loop and monitor behind the chain.
LEMMA InsertKeepsChain ==
  ASSUME ChainInv, NodeTypeOK', NEW n \in 1..MaxHeight, n \in 1..(Height + 1),
         DOMAIN blocks' = DOMAIN blocks \cup {n},
         UNCHANGED <<next_block, seen_height, sync_status>>,
         \A u \in Tasks : Chosen(u)' => Chosen(u)
  PROVE  ChainInv'
<1>1. /\ DOMAIN blocks' = 1..Height'
      /\ Height' \in 0..MaxHeight
      /\ Height' = IF n = Height + 1 THEN Height + 1 ELSE Height
  BY InsertGrowsChain
<1>2. /\ Height \in 0..MaxHeight /\ MaxHeight \in Nat
      /\ next_block \in [Tasks -> 0..MaxHeight] /\ seen_height \in [Tasks -> 0..MaxHeight]
      /\ sync_status \in [current : 0..MaxHeight, highest : 0..MaxHeight]
  BY NodeAssumption DEF ChainInv, NodeTypeOK
<1>3. \A u \in Tasks : Chosen(u)' => next_block'[u] \in 1..(Height' + 1)
  BY <1>1, <1>2 DEF ChainInv
<1>4. \A u \in Tasks : seen_height'[u] <= Height'
  BY <1>1, <1>2 DEF ChainInv
<1>5. SyncTracksChain'
  BY <1>1, <1>2 DEF ChainInv, SyncTracksChain
<1> QED
  BY <1>1, <1>3, <1>4, <1>5 DEF ChainInv, ChainIsContiguous

LEMMA ChainStep ==
  ASSUME ChainInv, [NodeNext]_nodeVars
  PROVE  ChainInv'
<1>1. NodeTypeOK'
  <2>1. CASE UNCHANGED nodeVars
    BY <2>1 DEF nodeVars, ChainInv, NodeTypeOK, mainVars, sealerVars, monitorVars,
       callerVars
  <2>2. CASE NodeNext
    BY <2>2, MainKeepsType, SealerKeepsType, OthersKeepType, ImportKeepsType
    DEF NodeNext
  <2> QED
    BY <2>1, <2>2
<1>2. ASSUME NEW t \in Tasks, SealerProduce(t)
      PROVE  ChainInv'
  <2>1. UNCHANGED <<next_block, seen_height, sync_status>>
    BY <1>2 DEF SealerProduce, monitorVars
  <2>2. \A u \in Tasks : Chosen(u)' => Chosen(u)
    BY <1>2 DEF SealerProduce, ChainInv, NodeTypeOK, Chosen
  <2> QED
    BY <1>1, <1>2, <2>1, <2>2, ProduceInserts, InsertKeepsChain
<1>3. ASSUME NEW n \in 1..MaxHeight, NEW miner \in OtherMiners, ImportBlock(n, miner)
      PROVE  ChainInv'
  <2>1. UNCHANGED <<next_block, seen_height, sync_status>>
    BY <1>3 DEF ImportBlock, sealerVars, monitorVars
  <2>2. \A u \in Tasks : Chosen(u)' => Chosen(u)
    BY <1>3 DEF ImportBlock, sealerVars, Chosen
  <2> QED
    BY <1>1, <1>3, <2>1, <2>2, ImportInserts, InsertKeepsChain
<1>4. CASE UNCHANGED blocks
  <2>1. Height' = Height /\ DOMAIN blocks' = DOMAIN blocks
    BY <1>4, OthersKeepHeight
  <2>2. \A t \in Tasks : Chosen(t)' => next_block'[t] \in 1..(Height + 1)
    BY <1>4, ChosenStep, NodeAssumption DEF ChainInv
  <2>3. /\ \A t \in Tasks : seen_height'[t] <= Height
        /\ sync_status'.current <= sync_status'.highest
        /\ sync_status'.highest <= Height
    BY MonitorStaysBehind
  <2> QED
    BY <1>1, <2>1, <2>2, <2>3 DEF ChainInv, ChainIsContiguous, SyncTracksChain
<1>5. \/ UNCHANGED blocks
      \/ \E t \in Tasks : SealerProduce(t)
      \/ \E n \in 1..MaxHeight, miner \in OtherMiners : ImportBlock(n, miner)
  BY DEF nodeVars, NodeNext, StartGenesis, StartRunning, StopSignal, StopFinish, Exit,
         SealerStep, SealerCheck, SealerReadHeight, SealerElect, SealerCollect,
         SealerRemove, MonitorStep, MonitorCheck, MonitorReadHeight, MonitorWrite,
         AddTx, WithdrawTx, EngineCall
<1> QED
  BY <1>2, <1>3, <1>4, <1>5

LEMMA ChainInit == NodeInit => ChainInv
<1> SUFFICES ASSUME NodeInit
             PROVE  ChainInv
  OBVIOUS
<1>1. DOMAIN blocks = {} /\ Height = 0
  BY DEF NodeInit, Height
<1>2. NodeTypeOK
  <2>1. 0 \in 0..MaxHeight /\ 0 \in 0..MaxStarts
    BY NodeAssumption
  <2>2. /\ sealer \in [Tasks -> SealerPC] /\ next_block \in [Tasks -> 0..MaxHeight]
        /\ pending_txs \in [Tasks -> SUBSET Tx] /\ seen_height \in [Tasks -> 0..MaxHeight]
        /\ monitor \in [Tasks -> {"unborn", "check", "read", "write", "exited"}]
    BY <2>1 DEF NodeInit, SealerPC
  <2>3. sync_status \in [current : 0..MaxHeight, highest : 0..MaxHeight]
    BY <2>1 DEF NodeInit
  <2>4. \A n \in DOMAIN blocks : blocks[n].transactions \subseteq Tx
    BY <1>1
  <2> QED
    BY <1>1, <2>1, <2>2, <2>3, <2>4 DEF NodeInit, NodeTypeOK
<1> QED
  BY <1>1, <1>2, NodeAssumption
  DEF NodeInit, ChainInv, ChainIsContiguous, Chosen, SyncTracksChain, Tasks

\* The invariant of the chain holds under any number of starts.
THEOREM ChainInvariant == NodeSpec => []ChainInv
<1> QED
  BY ChainInit, ChainStep, PTL DEF NodeSpec

\* Every variable of the node keeps its type.
THEOREM NodeTypeCorrect == NodeSpec => []NodeTypeOK
<1>1. ChainInv => NodeTypeOK
  BY DEF ChainInv
<1> QED
  BY <1>1, ChainInvariant, PTL

\* The chain has no gaps, also while sealing loops of several starts run and
\* callers insert blocks of other validators.
THEOREM ChainAlwaysContiguous == NodeSpec => []ChainIsContiguous
<1>1. ChainInv => ChainIsContiguous
  BY DEF ChainInv
<1> QED
  BY <1>1, ChainInvariant, PTL

\* The published sync status never runs ahead of the chain.
THEOREM SyncAlwaysTracksChain == NodeSpec => []SyncTracksChain
<1>1. ChainInv => SyncTracksChain
  BY DEF ChainInv
<1> QED
  BY <1>1, ChainInvariant, PTL

-----------------------------------------------------------------------------
(* The engine inside the node.                                             *)

\* A step of the node is one call of the engine, or none.
LEMMA EngineStep ==
  ASSUME ChainInv, [NodeNext]_nodeVars
  PROVE  [PoSANext]_posaVars
<1>1. ASSUME NEW t \in Tasks, SealerElect(t)
      PROVE  PoSANext
  <2>1. next_block[t] \in 1..(Height + 1) /\ next_block[t] \in 0..MaxHeight
    BY <1>1 DEF SealerElect, ChainInv, NodeTypeOK, Chosen
  <2>2. next_block[t] \in BlockInputs
    BY <2>1, NodeAssumption DEF ChainInv
  <2> QED
    BY <1>1, <2>2 DEF SealerElect, PoSANext
<1>2. CASE EngineCall
  BY <1>2 DEF EngineCall
<1>3. CASE UNCHANGED posaVars
  BY <1>3
<1>4. UNCHANGED posaVars \/ EngineCall \/ \E t \in Tasks : SealerElect(t)
  BY DEF nodeVars, NodeNext, StartGenesis, StartRunning, StopSignal, StopFinish, Exit,
         SealerStep, SealerCheck, SealerReadHeight, SealerCollect, SealerProduce,
         SealerRemove, MonitorStep, MonitorCheck, MonitorReadHeight, MonitorWrite, AddTx,
         WithdrawTx, ImportBlock
<1> QED
  BY <1>1, <1>2, <1>3, <1>4

\* The node drives the engine as module PoSA says it may be driven, so every
\* property of the engine is a property of the engine in the node.
THEOREM NodeDrivesEngine == NodeSpec => PoSASpec
<1>1. NodeInit => PoSAInit
  BY DEF NodeInit
<1>2. ChainInv /\ [NodeNext]_nodeVars => [PoSANext]_posaVars
  BY EngineStep
<1> QED
  BY <1>1, <1>2, ChainInvariant, PTL DEF NodeSpec, PoSASpec

\* In a running node too the committee stays staked.
THEOREM NodeCommitteeStaked == NodeSpec => []CommitteeIsStaked
<1> QED
  BY NodeDrivesEngine, CommitteeAlwaysStaked, PTL

\* And the members take turns, each once in a window of their number.
THEOREM NodeRotationFair == NodeSpec => []RotationIsFair
<1> QED
  BY NodeDrivesEngine, RotationAlwaysFair, PTL

-----------------------------------------------------------------------------
(* The undisturbed node: one sealing loop, and nobody else's blocks.       *)

\* Whether the sealing loop has passed its check and not sealed yet.
UnderWay == sealer[1] \in {"slot", "elect", "collect", "produce"}

\* Whether it has won the turn of the block it has not sealed yet.
Elected == sealer[1] \in {"collect", "produce"}

LoopInv ==
  /\ starts = 0 <=> main = "created"
  /\ main \in {"created", "starting"} => sealer[1] = "unborn"
  /\ \A t \in Tasks \ {1} : sealer[t] \in {"unborn", "exited"}
  /\ main \in {"stopping", "stopped", "exited"} =>
       /\ node_state # "Running"
       /\ Height <= stop_height + 1
       /\ UnderWay => Height <= stop_height
  /\ Chosen(1) => next_block[1] = Height + 1
  /\ sealer[1] = "produce" => pending_txs[1] \subseteq mempool \cup withdrawn
  /\ sealer[1] = "remove" =>
       /\ Height > 0
       /\ blocks[Height].transactions = pending_txs[1]
  /\ \A n \in DOMAIN blocks :
       n > 1 => blocks[n].header.parent_hash = SimpleHash(blocks[n - 1].header)
  /\ accepted \subseteq mempool \cup Included \cup withdrawn

SingleInv == Undisturbed => LoopInv

SlashInv ==
  (Undisturbed /\ ValidatorAddr \in Registered \ Candidates) =>
    Height <= slash_height + (IF Elected THEN 0 ELSE 1)

OnceInv ==
  (Undisturbed /\ ~Resubmission) =>
    /\ mempool \subseteq accepted /\ withdrawn \subseteq accepted
    /\ Included \subseteq accepted
    /\ sealer[1] # "exited" =>
         mempool \cap Included \subseteq
           IF sealer[1] = "remove" THEN pending_txs[1] ELSE {}
    /\ sealer[1] = "produce" => pending_txs[1] \subseteq accepted \ Included
    /\ TxIncludedOnce

\* A node once disturbed stays disturbed.
LEMMA DisturbedForEver ==
  ASSUME NodeTypeOK, [NodeNext]_nodeVars, Undisturbed'
  PROVE  Undisturbed /\ UNCHANGED imported
<1>1. starts \in Nat /\ imported \in BOOLEAN
  BY NodeAssumption DEF NodeTypeOK
<1>2. CASE UNCHANGED <<starts, imported>>
  BY <1>2 DEF Undisturbed
<1>3. CASE StartGenesis
  BY <1>1, <1>3 DEF StartGenesis, Undisturbed, callerVars
<1>4. CASE \E n \in 1..MaxHeight, miner \in OtherMiners : ImportBlock(n, miner)
  BY <1>4 DEF ImportBlock, Undisturbed
<1>5. \/ UNCHANGED <<starts, imported>> \/ StartGenesis
      \/ \E n \in 1..MaxHeight, miner \in OtherMiners : ImportBlock(n, miner)
  BY DEF nodeVars, NodeNext, StartRunning, StopSignal, StopFinish, Exit,
         SealerStep, SealerCheck, SealerReadHeight, SealerElect, SealerCollect,
         SealerProduce, SealerRemove, MonitorStep, MonitorCheck, MonitorReadHeight,
         MonitorWrite, AddTx, WithdrawTx, EngineCall, callerVars, mainVars
<1> QED
  BY <1>2, <1>3, <1>4, <1>5

\* The steps of an undisturbed node: those of its one loop, and those of the
\* callers and the monitors, which leave the chain and the loop alone.
Loop ==
  \/ SealerCheck(1) \/ SealerReadHeight(1) \/ SealerElect(1)
  \/ SealerCollect(1) \/ SealerProduce(1) \/ SealerRemove(1)

Others ==
  \/ StartGenesis \/ StopSignal \/ StopFinish \/ EngineCall
  \/ \E t \in Tasks : MonitorStep(t)
  \/ \E tx \in Tx : AddTx(tx) \/ WithdrawTx(tx)
  \/ UNCHANGED nodeVars

LEMMA UndisturbedStep ==
  ASSUME LoopInv, [NodeNext]_nodeVars, Undisturbed'
  PROVE  Loop \/ Others \/ StartRunning \/ Exit
<1>1. ASSUME NEW t \in Tasks, SealerStep(t)
      PROVE  t = 1
  BY <1>1 DEF LoopInv, SealerStep, SealerCheck, SealerReadHeight, SealerElect,
     SealerCollect, SealerProduce, SealerRemove
<1>2. ASSUME NEW n \in 1..MaxHeight, NEW miner \in OtherMiners, ImportBlock(n, miner)
      PROVE  FALSE
  BY <1>2 DEF ImportBlock, Undisturbed
<1>3. CASE \E t \in Tasks : SealerStep(t)
  BY <1>1, <1>3 DEF SealerStep, Loop
<1> QED
  BY <1>2, <1>3 DEF NodeNext, Others

LEMMA OthersLeaveLoop ==
  ASSUME Others
  PROVE  UNCHANGED <<blocks, sealer, next_block, pending_txs>>
  BY DEF Others, StartGenesis, StopSignal, StopFinish, EngineCall, MonitorStep,
     MonitorCheck, MonitorReadHeight, MonitorWrite, AddTx, WithdrawTx, nodeVars,
     sealerVars

\* What a step that moves neither the loop nor the chain has to keep.
LEMMA LoopFrame ==
  ASSUME LoopInv,
         UNCHANGED <<blocks, sealer, next_block, pending_txs>>,
         mempool \cup withdrawn \subseteq mempool' \cup withdrawn',
         accepted' \subseteq accepted \cup mempool',
         starts' = 0 <=> main' = "created",
         main' \in {"created", "starting"} => sealer[1] = "unborn",
         main' \in {"stopping", "stopped", "exited"} =>
           /\ node_state' # "Running"
           /\ Height <= stop_height' + 1
           /\ UnderWay => Height <= stop_height'
  PROVE  LoopInv'
<1>1. Height' = Height /\ Included' = Included
  BY OthersKeepHeight DEF Included
<1>2. accepted' \subseteq mempool' \cup Included' \cup withdrawn'
  BY <1>1 DEF LoopInv
<1>3. sealer[1] = "produce" => pending_txs[1] \subseteq mempool' \cup withdrawn'
  BY DEF LoopInv
<1> QED
  BY <1>1, <1>2, <1>3 DEF LoopInv, UnderWay, Chosen

LEMMA OthersKeepLoop ==
  ASSUME LoopInv, ChainInv, Undisturbed', Others
  PROVE  LoopInv'
<1> USE DEF callerVars
<1>1. Height \in Nat /\ starts \in Nat /\ stop_height \in Nat
  BY NodeAssumption DEF ChainInv, NodeTypeOK
<1>2. CASE StartGenesis
  <2>1. starts = 0
    BY <1>1, <1>2 DEF StartGenesis, Undisturbed
  <2> QED
    BY <1>1, <1>2, <2>1, LoopFrame DEF StartGenesis, LoopInv, sealerVars
<1>3. CASE StopSignal
  BY <1>1, <1>3, LoopFrame DEF StopSignal, LoopInv, sealerVars
<1>4. CASE StopFinish
  BY <1>1, <1>4, LoopFrame DEF StopFinish, LoopInv, sealerVars
<1>5. CASE EngineCall
  BY <1>1, <1>5, LoopFrame DEF EngineCall, LoopInv, sealerVars, mainVars
<1>6. ASSUME NEW t \in Tasks, MonitorStep(t)
      PROVE  LoopInv'
  BY <1>1, <1>6, LoopFrame DEF MonitorStep, MonitorCheck, MonitorReadHeight,
     MonitorWrite, LoopInv, sealerVars, mainVars
<1>7. ASSUME NEW tx \in Tx, AddTx(tx) \/ WithdrawTx(tx)
      PROVE  LoopInv'
  BY <1>1, <1>7, LoopFrame DEF AddTx, WithdrawTx, LoopInv, sealerVars, mainVars
<1>8. CASE UNCHANGED nodeVars
  BY <1>1, <1>8, LoopFrame DEF nodeVars, LoopInv, sealerVars, mainVars
<1> QED
  BY <1>2, <1>3, <1>4, <1>5, <1>6, <1>7, <1>8 DEF Others

\* The steps of the loop, and those that start and end it, that leave the
\* chain alone.
LEMMA LoopKeepsLoop ==
  ASSUME LoopInv, ChainInv, Undisturbed,
         \/ StartRunning \/ Exit
         \/ SealerCheck(1) \/ SealerReadHeight(1) \/ SealerElect(1)
         \/ SealerCollect(1) \/ SealerRemove(1)
  PROVE  LoopInv'
<1> USE DEF callerVars, mainVars
<1>1. /\ Height \in Nat /\ starts \in Nat /\ stop_height \in Nat
      /\ sealer \in [Tasks -> SealerPC] /\ next_block \in [Tasks -> 0..MaxHeight]
      /\ pending_txs \in [Tasks -> SUBSET Tx] /\ 1 \in Tasks
  BY NodeAssumption DEF ChainInv, NodeTypeOK, Tasks
<1>2. UNCHANGED <<blocks, accepted, withdrawn, stop_height, starts>>
  BY DEF StartRunning, Exit, SealerCheck, SealerReadHeight, SealerElect, SealerCollect,
         SealerRemove
<1>3. Height' = Height /\ Included' = Included
  BY <1>2, OthersKeepHeight DEF Included
<1>4. accepted' \subseteq mempool' \cup Included' \cup withdrawn'
  <2>1. CASE UNCHANGED mempool
    BY <1>2, <1>3, <2>1 DEF LoopInv
  <2>2. CASE SealerRemove(1)
    <3>1. Height \in DOMAIN blocks
      BY <1>1, <2>2 DEF SealerRemove, LoopInv, ChainInv, ChainIsContiguous
    <3>2. pending_txs[1] \subseteq Included
      BY <2>2, <3>1 DEF SealerRemove, LoopInv, Included
    <3> QED
      BY <1>2, <1>3, <2>2, <3>2 DEF SealerRemove, RemainingAfter, LoopInv
  <2> QED
    BY <2>1, <2>2 DEF StartRunning, Exit, SealerCheck, SealerReadHeight, SealerElect,
       SealerCollect
<1>5. \A n \in DOMAIN blocks' :
        n > 1 => blocks'[n].header.parent_hash = SimpleHash(blocks'[n - 1].header)
  BY <1>2 DEF LoopInv
<1> USE DEF LoopInv, UnderWay, Chosen
<1>6. CASE StartRunning
  <2>1. starts = 1
    BY <1>1, <1>6 DEF StartRunning, Undisturbed
  <2>2. sealer' = [sealer EXCEPT ![1] = "check"]
    BY <1>6, <2>1 DEF StartRunning
  <2> QED
    BY <1>1, <1>2, <1>3, <1>4, <1>5, <1>6, <2>1, <2>2 DEF StartRunning
<1>7. CASE Exit
  BY <1>1, <1>2, <1>3, <1>4, <1>5, <1>7 DEF Exit
<1>8. CASE SealerCheck(1)
  BY <1>1, <1>2, <1>3, <1>4, <1>5, <1>8 DEF SealerCheck
<1>9. CASE SealerReadHeight(1)
  BY <1>1, <1>2, <1>3, <1>4, <1>5, <1>9 DEF SealerReadHeight
<1>10. CASE SealerElect(1)
  BY <1>1, <1>2, <1>3, <1>4, <1>5, <1>10 DEF SealerElect
<1>11. CASE SealerCollect(1)
  BY <1>1, <1>2, <1>3, <1>4, <1>5, <1>11 DEF SealerCollect
<1>12. CASE SealerRemove(1)
  BY <1>1, <1>2, <1>3, <1>4, <1>5, <1>12 DEF SealerRemove
<1> QED
  BY <1>6, <1>7, <1>8, <1>9, <1>10, <1>11, <1>12

\* The chain a single loop makes: the new block goes on top.
LEMMA ProduceOnTop ==
  ASSUME LoopInv, ChainInv, SealerProduce(1)
  PROVE  /\ Height \in Nat /\ next_block[1] = Height + 1 /\ Height' = Height + 1
         /\ Height + 1 \notin DOMAIN blocks
         /\ DOMAIN blocks' = DOMAIN blocks \cup {Height + 1}
         /\ \A n \in DOMAIN blocks : blocks'[n] = blocks[n]
         /\ blocks'[Height + 1] = [header |-> NewHeader(Height + 1, pending_txs[1]),
                                   transactions |-> pending_txs[1]]
         /\ Included' = Included \cup pending_txs[1]
<1>1. Height \in Nat /\ next_block[1] = Height + 1 /\ 1 \in Tasks
  BY NodeAssumption DEF SealerProduce, LoopInv, Chosen, ChainInv, Tasks
<1>2. Height' = Height + 1
  BY <1>1, ProduceInserts, InsertGrowsChain
<1>3. Height + 1 \notin DOMAIN blocks
  BY <1>1 DEF ChainInv, ChainIsContiguous
<1> DEFINE new == [header |-> NewHeader(Height + 1, pending_txs[1]),
                   transactions |-> pending_txs[1]]
<1>4. blocks' = Put(blocks, Height + 1, new) /\ new.transactions = pending_txs[1]
  BY <1>1 DEF SealerProduce
<1> HIDE DEF new
<1>5. /\ DOMAIN blocks' = DOMAIN blocks \cup {Height + 1}
      /\ \A n \in DOMAIN blocks : blocks'[n] = blocks[n]
      /\ blocks'[Height + 1] = new
  BY <1>3, <1>4 DEF Put
<1>6. Included' = Included \cup pending_txs[1]
  BY <1>3, <1>4, <1>5 DEF Included
<1> QED
  BY <1>1, <1>2, <1>3, <1>5, <1>6 DEF new

LEMMA ProduceKeepsLoop ==
  ASSUME LoopInv, ChainInv, SealerProduce(1)
  PROVE  LoopInv'
<1>1. /\ stop_height \in Nat /\ sealer \in [Tasks -> SealerPC] /\ 1 \in Tasks
  BY NodeAssumption DEF ChainInv, NodeTypeOK, Tasks
<1>2. UNCHANGED <<mempool, accepted, withdrawn, next_block, pending_txs, main, starts,
                  node_state, stop_height>>
  BY DEF SealerProduce, mainVars, callerVars
<1>3. sealer[1] = "produce" /\ sealer' = [sealer EXCEPT ![1] = "remove"]
  BY DEF SealerProduce
<1>4. /\ Height \in Nat /\ next_block[1] = Height + 1 /\ Height' = Height + 1
      /\ Included' = Included \cup pending_txs[1]
  BY ProduceOnTop
<1>5. blocks'[Height + 1].transactions = pending_txs[1]
  BY ProduceOnTop
<1>6. accepted' \subseteq mempool' \cup Included' \cup withdrawn'
  BY <1>2, <1>4 DEF LoopInv
<1>7. ASSUME NEW n \in DOMAIN blocks', n > 1
      PROVE  blocks'[n].header.parent_hash = SimpleHash(blocks'[n - 1].header)
  <2>1. DOMAIN blocks = 1..Height
    BY DEF ChainInv, ChainIsContiguous
  <2>2. CASE n \in DOMAIN blocks
    <3>1. n - 1 \in DOMAIN blocks
      BY <1>4, <1>7, <2>1, <2>2
    <3> QED
      BY <1>7, <2>2, <3>1, ProduceOnTop DEF LoopInv
  <2>3. CASE n = Height + 1
    <3>1. n - 1 \in DOMAIN blocks /\ n - 1 = Height
      BY <1>4, <1>7, <2>1, <2>3
    <3>2. blocks'[n].header = NewHeader(Height + 1, pending_txs[1])
      BY <2>3, ProduceOnTop
    <3>3. NewHeader(Height + 1, pending_txs[1]).parent_hash = SimpleHash(blocks[n - 1].header)
      BY <1>4, <3>1 DEF NewHeader
    <3> QED
      BY <3>1, <3>2, <3>3, ProduceOnTop
  <2> QED
    BY <2>2, <2>3, ProduceOnTop
<1> QED
  BY <1>1, <1>2, <1>3, <1>4, <1>5, <1>6, <1>7 DEF LoopInv, UnderWay, Chosen

LEMMA SingleStep == SingleInv /\ ChainInv /\ [NodeNext]_nodeVars => SingleInv'
<1> SUFFICES ASSUME SingleInv, ChainInv, [NodeNext]_nodeVars, Undisturbed'
             PROVE  LoopInv'
  BY DEF SingleInv
<1>1. Undisturbed /\ LoopInv
  BY DisturbedForEver DEF ChainInv, SingleInv
<1>2. Loop \/ Others \/ StartRunning \/ Exit
  BY <1>1, UndisturbedStep
<1> QED
  BY <1>1, <1>2, OthersKeepLoop, LoopKeepsLoop, ProduceKeepsLoop DEF Loop

LEMMA SingleInit == NodeInit => SingleInv
<1> SUFFICES ASSUME NodeInit
             PROVE  LoopInv
  BY DEF SingleInv
<1>1. DOMAIN blocks = {} /\ Height = 0 /\ 1 \in Tasks
  BY NodeAssumption DEF NodeInit, Height, Tasks
<1>2. \A t \in Tasks : sealer[t] = "unborn"
  BY DEF NodeInit
<1> QED
  BY <1>1, <1>2 DEF NodeInit, LoopInv, UnderWay, Chosen

\* What one sealing loop may rely on between its locks.
LEMMA SingleInvariant == NodeSpec => []SingleInv
<1> QED
  BY SingleInit, SingleStep, ChainInvariant, PTL DEF NodeSpec

\* A sealed block is never replaced or dropped, although insert_block replaces
\* whatever block has the number: the height the loop read slots ago is still
\* the height when it inserts.  (A second start, or a caller's block, ends this.)
THEOREM BlocksNeverReplaced ==
  NodeSpec => [][Undisturbed' =>
                   \A n \in DOMAIN blocks :
                     n \in DOMAIN blocks' /\ blocks'[n] = blocks[n]]_nodeVars
<1>1. SingleInv /\ ChainInv /\ [NodeNext]_nodeVars =>
        [Undisturbed' =>
           \A n \in DOMAIN blocks :
             n \in DOMAIN blocks' /\ blocks'[n] = blocks[n]]_nodeVars
  <2> SUFFICES ASSUME SingleInv, ChainInv, [NodeNext]_nodeVars, Undisturbed',
                      NEW n \in DOMAIN blocks
               PROVE  n \in DOMAIN blocks' /\ blocks'[n] = blocks[n]
    OBVIOUS
  <2>1. LoopInv
    BY DisturbedForEver DEF ChainInv, SingleInv
  <2>2. CASE SealerProduce(1)
    BY <2>1, <2>2, ProduceOnTop
  <2>3. UNCHANGED blocks \/ SealerProduce(1)
    BY <2>1, UndisturbedStep, OthersLeaveLoop
    DEF Loop, StartRunning, Exit, SealerCheck, SealerReadHeight, SealerElect,
        SealerCollect, SealerRemove
  <2> QED
    BY <2>2, <2>3
<1> QED
  BY <1>1, SingleInvariant, ChainInvariant, PTL DEF NodeSpec

\* No accepted transaction is lost, whenever it arrives.
THEOREM NoTxEverLost == NodeSpec => []NoTxLost
<1>1. SingleInv => NoTxLost
  BY DEF SingleInv, LoopInv, NoTxLost
<1> QED
  BY <1>1, SingleInvariant, PTL

\* Every block names the hash of the block below it.
THEOREM ChainAlwaysLinked == NodeSpec => []ChainIsLinked
<1>1. SingleInv => ChainIsLinked
  BY DEF SingleInv, LoopInv, ChainIsLinked
<1> QED
  BY <1>1, SingleInvariant, PTL

\* A slot that has begun when stop() is called seals the last block.
THEOREM AtMostOneBlockAfterStop == NodeSpec => []OneBlockAfterStop
<1>1. SingleInv => OneBlockAfterStop
  BY DEF SingleInv, LoopInv, OneBlockAfterStop
<1> QED
  BY <1>1, SingleInvariant, PTL

-----------------------------------------------------------------------------
(* A validator that falls below the minimum stake.                         *)

\* Nobody joins the registry with less than the minimum.
LEMMA NewcomersAreStaked ==
  ASSUME PoSANext
  PROVE  Registered' \ Registered \subseteq Candidates'
<1>1. ASSUME NEW a \in Address, NEW s \in StakeInputs, RegisterValidator(a, s)
      PROVE  Registered' \ Registered \subseteq Candidates'
  BY <1>1 DEF RegisterValidator, Put, Registered, Candidates
<1>2. ASSUME NEW n \in BlockInputs, UpdateEpoch(n)
      PROVE  Registered' = Registered
  BY <1>2 DEF UpdateEpoch, Elect, Flagged, Registered, posaVars
<1>3. ASSUME NEW a \in Address, NEW p, SlashValidator(a, p)
      PROVE  Registered' = Registered
  BY <1>3 DEF SlashValidator, Put, Registered
<1>4. ASSUME NEW a \in Address, NEW r \in RewardInputs, RecordBlockReward(a, r)
      PROVE  Registered' = Registered
  BY <1>4 DEF RecordBlockReward, Registered
<1> QED
  BY <1>1, <1>2, <1>3, <1>4 DEF PoSANext, Slash

\* An election moves nobody's stake.
LEMMA UpdateKeepsStakes ==
  ASSUME NEW n, UpdateEpoch(n), PoSATypeOK
  PROVE  Registered' = Registered /\ Candidates' = Candidates
<1>1. CASE UNCHANGED posaVars
  BY <1>1 DEF posaVars, Registered, Candidates
<1>2. CASE Elect(n)
  <2>1. PICK s \in Committees : validator_registry' = Flagged(s)
    BY <1>2 DEF Elect
  <2>2. Registered' = Registered
    BY <2>1 DEF Flagged, Registered
  <2>3. \A a \in Registered : validator_registry'[a].stake = validator_registry[a].stake
    BY <2>1 DEF Flagged, PoSATypeOK
  <2> QED
    BY <2>2, <2>3 DEF Candidates
<1> QED
  BY <1>1, <1>2 DEF UpdateEpoch

LEMMA SlashStep ==
  SlashInv /\ SingleInv /\ ChainInv /\ PoSAInv /\ PoSAInv' /\ [NodeNext]_nodeVars
    => SlashInv'
<1> SUFFICES ASSUME SlashInv, SingleInv, ChainInv, PoSAInv, PoSAInv',
                    [NodeNext]_nodeVars, Undisturbed',
                    (ValidatorAddr \in Registered \ Candidates)'
             PROVE  Height' <= slash_height' + (IF Elected' THEN 0 ELSE 1)
  BY DEF SlashInv
<1>1. Undisturbed /\ LoopInv
  BY DisturbedForEver DEF ChainInv, SingleInv
<1>2. /\ Height \in Nat /\ slash_height \in Nat
      /\ sealer \in [Tasks -> SealerPC] /\ 1 \in Tasks
  BY NodeAssumption DEF ChainInv, NodeTypeOK, Tasks
<1>3. ValidatorAddr \in Registered \ Candidates =>
        Height <= slash_height + (IF Elected THEN 0 ELSE 1)
  BY <1>1 DEF SlashInv
<1>4. CASE /\ UNCHANGED <<blocks, slash_height, Registered, Candidates>>
           /\ Elected' => Elected
  BY <1>2, <1>3, <1>4, OthersKeepHeight
<1>5. CASE EngineCall
  <2>1. Height' = Height /\ Elected' = Elected /\ PoSANext
    BY <1>5, OthersKeepHeight DEF EngineCall, Elected, sealerVars
  <2>2. CASE ValidatorAddr \in Candidates \ Candidates'
    BY <1>2, <1>5, <2>1, <2>2 DEF EngineCall
  <2>3. CASE ValidatorAddr \notin Candidates \ Candidates'
    <3>1. ValidatorAddr \in Registered \ Candidates
      BY <2>1, <2>3, NewcomersAreStaked
    <3>2. UNCHANGED slash_height
      BY <1>5, <2>3 DEF EngineCall
    <3> QED
      BY <1>3, <2>1, <3>1, <3>2
  <2> QED
    BY <2>2, <2>3
<1>6. CASE SealerElect(1)
  <2>1. UpdateEpoch(next_block[1]) /\ UNCHANGED <<blocks, slash_height>>
    BY <1>6 DEF SealerElect, callerVars
  <2>2. Registered' = Registered /\ Candidates' = Candidates
    BY <2>1, UpdateKeepsStakes DEF PoSAInv
  <2>3. ~Elected /\ sealer[1] = "elect"
    BY <1>6 DEF SealerElect, Elected
  <2>4. CASE validators' # <<>> /\ Proposer(validators', next_block[1]) = ValidatorAddr
    <3>1. PICK i \in DOMAIN validators' : validators'[i] = ValidatorAddr
      <4>1. Len(validators') \in Nat \ {0} /\ DOMAIN validators' = 1..Len(validators')
        BY <2>4 DEF PoSAInv, PoSATypeOK
      <4>2. next_block[1] \in Nat
        BY <1>2, NodeAssumption DEF ChainInv, NodeTypeOK
      <4>3. next_block[1] % Len(validators') \in 0..(Len(validators') - 1)
        BY <4>1, <4>2
      <4> QED
        BY <2>4, <4>1, <4>3 DEF Proposer
    <3>2. ValidatorAddr \in Committee'
      BY <3>1 DEF Committee
    <3>3. ValidatorAddr \in Candidates'
      BY <3>2 DEF PoSAInv, CommitteeIsStaked, Candidates
    <3> QED
      BY <3>3
  <2>5. CASE sealer' = [sealer EXCEPT ![1] = "check"]
    <3>1. ~Elected'
      BY <1>2, <2>5 DEF Elected
    <3> QED
      BY <1>2, <1>3, <2>1, <2>2, <2>3, <3>1, OthersKeepHeight
  <2> QED
    BY <1>6, <2>4, <2>5 DEF SealerElect
<1>7. CASE SealerProduce(1)
  <2>1. Height' = Height + 1
    BY <1>1, <1>7, ProduceOnTop
  <2>2. Elected /\ ~Elected'
    BY <1>2, <1>7 DEF SealerProduce, Elected
  <2>3. /\ UNCHANGED slash_height
        /\ Registered' = Registered /\ Candidates' = Candidates
    BY <1>7 DEF SealerProduce, callerVars, posaVars, Registered, Candidates
  <2> QED
    BY <1>2, <1>3, <2>1, <2>2, <2>3
<1>8. CASE \/ StartRunning \/ Exit \/ SealerCheck(1) \/ SealerReadHeight(1)
           \/ SealerCollect(1) \/ SealerRemove(1)
  <2>1. UNCHANGED <<blocks, slash_height, validator_registry>>
    BY <1>8 DEF StartRunning, Exit, SealerCheck, SealerReadHeight, SealerCollect,
       SealerRemove, callerVars, posaVars
  <2>2. Elected' => Elected
    BY <1>1, <1>2, <1>8 DEF StartRunning, Exit, SealerCheck, SealerReadHeight,
       SealerCollect, SealerRemove, Elected
  <2> QED
    BY <1>4, <2>1, <2>2 DEF Registered, Candidates
<1>9. CASE Others /\ ~EngineCall
  <2>1. UNCHANGED <<slash_height, validator_registry>>
    BY <1>9 DEF Others, StartGenesis, StopSignal, StopFinish, MonitorStep, MonitorCheck,
       MonitorReadHeight, MonitorWrite, AddTx, WithdrawTx, nodeVars, callerVars, posaVars
  <2> QED
    BY <1>4, <1>9, <2>1, OthersLeaveLoop DEF Registered, Candidates, Elected
<1> QED
  BY <1>1, <1>5, <1>6, <1>7, <1>8, <1>9, UndisturbedStep DEF Loop

\* A validator slashed below the minimum stake seals at most the block whose
\* turn it had already won, whatever the callers of the engine do.
THEOREM AtMostOneBlockAfterSlash == NodeSpec => []OneBlockAfterSlash
<1>1. NodeInit => SlashInv
  BY DEF NodeInit, PoSAInit, SlashInv, Registered, NoEntries
<1>2. ChainInv /\ SlashInv => OneBlockAfterSlash
  <2> SUFFICES ASSUME ChainInv, SlashInv, Undisturbed,
                      ValidatorAddr \in Registered \ Candidates
               PROVE  Height <= slash_height + 1
    BY DEF OneBlockAfterSlash
  <2>1. Height \in Nat /\ slash_height \in Nat
    BY NodeAssumption DEF ChainInv, NodeTypeOK
  <2> QED
    BY <2>1 DEF SlashInv
<1>3. NodeSpec => []PoSAInv
  BY NodeDrivesEngine, PoSAInvariant, PTL
<1> QED
  BY <1>1, <1>2, <1>3, SlashStep, SingleInvariant, ChainInvariant, PTL DEF NodeSpec

-----------------------------------------------------------------------------
(* Clients that submit a transaction once.                                 *)

LEMMA OnceStep == OnceInv /\ SingleInv /\ ChainInv /\ [NodeNext]_nodeVars => OnceInv'
<1> SUFFICES ASSUME OnceInv, SingleInv, ChainInv, [NodeNext]_nodeVars, Undisturbed',
                    ~Resubmission
             PROVE  OnceInv'
  BY DEF OnceInv
<1>1. Undisturbed /\ LoopInv
  BY DisturbedForEver DEF ChainInv, SingleInv
<1>2. /\ sealer \in [Tasks -> SealerPC] /\ pending_txs \in [Tasks -> SUBSET Tx]
      /\ 1 \in Tasks
  BY NodeAssumption DEF ChainInv, NodeTypeOK, Tasks
<1> USE DEF callerVars
<1>3. CASE SealerProduce(1)
  <2>1. /\ UNCHANGED <<mempool, accepted, withdrawn, pending_txs>>
        /\ sealer[1] = "produce" /\ sealer' = [sealer EXCEPT ![1] = "remove"]
    BY <1>3 DEF SealerProduce
  <2>2. pending_txs[1] \subseteq accepted \ Included /\ mempool \cap Included = {}
    BY <1>1, <2>1 DEF OnceInv
  <2>3. Included' = Included \cup pending_txs[1]
    BY <1>1, <1>3, ProduceOnTop
  <2>4. TxIncludedOnce'
    <3>1. \A n \in DOMAIN blocks : blocks[n].transactions \subseteq Included
      BY DEF Included
    <3>2. \A n \in DOMAIN blocks :
            blocks'[n].transactions \cap blocks'[Height + 1].transactions = {}
      BY <1>1, <1>3, <2>2, <3>1, ProduceOnTop
    <3>3. \A n, k \in DOMAIN blocks : n # k =>
            blocks'[n].transactions \cap blocks'[k].transactions = {}
      BY <1>1, <1>3, ProduceOnTop DEF OnceInv, TxIncludedOnce
    <3>4. DOMAIN blocks' = DOMAIN blocks \cup {Height + 1}
      BY <1>1, <1>3, ProduceOnTop
    <3> QED
      BY <3>2, <3>3, <3>4 DEF TxIncludedOnce
  <2> QED
    BY <1>1, <1>2, <2>1, <2>2, <2>3, <2>4 DEF OnceInv
<1>4. CASE UNCHANGED blocks
  <2>1. Included' = Included
    BY <1>4 DEF Included
  <2>2. TxIncludedOnce'
    BY <1>1, <1>4 DEF OnceInv, TxIncludedOnce
  <2>3. CASE UNCHANGED <<mempool, accepted, withdrawn, sealer, pending_txs>>
    BY <1>1, <2>1, <2>2, <2>3 DEF OnceInv
  <2>4. ASSUME NEW tx \in Tx, AddTx(tx)
        PROVE  OnceInv'
    BY <1>1, <2>1, <2>2, <2>4 DEF AddTx, OnceInv, sealerVars
  <2>5. ASSUME NEW tx \in Tx, WithdrawTx(tx)
        PROVE  OnceInv'
    BY <1>1, <2>1, <2>2, <2>5 DEF WithdrawTx, OnceInv, sealerVars
  <2>6. CASE SealerRemove(1)
    BY <1>1, <1>2, <2>1, <2>2, <2>6 DEF SealerRemove, RemainingAfter, OnceInv
  <2>7. CASE SealerCollect(1)
    BY <1>1, <1>2, <2>1, <2>2, <2>7 DEF SealerCollect, OnceInv
  <2>8. CASE SealerCheck(1) \/ SealerReadHeight(1) \/ SealerElect(1)
    <3>1. /\ UNCHANGED <<mempool, accepted, withdrawn, pending_txs>>
          /\ sealer[1] \notin {"remove", "exited"} /\ sealer'[1] # "produce"
      BY <1>2, <2>8 DEF SealerCheck, SealerReadHeight, SealerElect
    <3> QED
      BY <1>1, <2>1, <2>2, <3>1 DEF OnceInv
  <2>9. CASE StartRunning
    <3>1. UNCHANGED <<mempool, accepted, withdrawn, pending_txs>>
      BY <2>9 DEF StartRunning
    <3>2. sealer[1] = "unborn" /\ sealer'[1] # "produce"
      BY <1>1, <1>2, <2>9 DEF StartRunning, LoopInv
    <3> QED
      BY <1>1, <2>1, <2>2, <3>1, <3>2 DEF OnceInv
  <2>10. CASE Exit
    <3>1. UNCHANGED <<mempool, accepted, withdrawn>> /\ sealer'[1] = "exited"
      BY <1>2, <2>10 DEF Exit
    <3> QED
      BY <1>1, <2>1, <2>2, <3>1 DEF OnceInv
  <2>11. CASE StartGenesis \/ StopSignal \/ StopFinish \/ EngineCall
              \/ (\E t \in Tasks : MonitorStep(t)) \/ UNCHANGED nodeVars
    <3>1. UNCHANGED <<mempool, accepted, withdrawn, sealer, pending_txs>>
      BY <2>11 DEF StartGenesis, StopSignal, StopFinish, EngineCall, MonitorStep,
         MonitorCheck, MonitorReadHeight, MonitorWrite, nodeVars, sealerVars
    <3> QED
      BY <2>3, <3>1
  <2> QED
    BY <1>1, <1>3, <2>4, <2>5, <2>6, <2>7, <2>8, <2>9, <2>10, <2>11, UndisturbedStep
    DEF Loop, Others
<1>5. UNCHANGED blocks \/ SealerProduce(1)
  BY <1>1, UndisturbedStep, OthersLeaveLoop
  DEF Loop, StartRunning, Exit, SealerCheck, SealerReadHeight, SealerElect,
      SealerCollect, SealerRemove
<1> QED
  BY <1>3, <1>4, <1>5

\* Although it stays in the mempool until after the block is in the chain, a
\* transaction submitted once gets into one block at most.
THEOREM TxAlwaysIncludedOnce == NodeSpec => []TxIncludedOnce
<1>1. NodeInit => OnceInv
  <2>1. 1 \in Tasks
    BY NodeAssumption DEF Tasks
  <2> QED
    BY <2>1 DEF NodeInit, OnceInv, Included, TxIncludedOnce
<1>2. OnceInv => TxIncludedOnce
  BY DEF OnceInv, TxIncludedOnce
<1> QED
  BY <1>1, <1>2, OnceStep, ChainInvariant, SingleInvariant, PTL DEF NodeSpec
=============================================================================
