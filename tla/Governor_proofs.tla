---------------------------- MODULE Governor_proofs ---------------------------
(***************************************************************************)
(* What the governance contract guarantees for every number of proposals,  *)
(* every clock and every choice of its parameters.                         *)
(*                                                                         *)
(* That an execution was approved is not inductive alone: an id that is    *)
(* still to come must be one nobody can vote on or execute (FreshInv), and *)
(* a vote must not end before it begins (WindowInv).                       *)
(*                                                                         *)
(* On that invariant rest two more facts: the tallies are the sums of the  *)
(* ballots on record, and a proposal is to its execution what an event of  *)
(* the bridge is to its payment (module PayOnce).                          *)
(***************************************************************************)
EXTENDS Governor, FiniteSums

FreshInv ==
  \A i \in ProposalId :
    i > proposalCount =>
      /\ proposals[i].startBlock = 0
      /\ proposals[i].endBlock = 0
      /\ proposals[i].forVotes = 0
      /\ proposals[i].againstVotes = 0

WindowInv == \A i \in ProposalId : proposals[i].startBlock <= proposals[i].endBlock

GovernorInv ==
  /\ GovernorTypeOK
  /\ FreshInv
  /\ WindowInv
  /\ ExecutedWasApproved

-----------------------------------------------------------------------------
(* What the state() of a proposal says of its fields.                      *)

\* A vote is counted only for a proposal that was created, in its window,
\* and that was not executed.
LEMMA ActiveMeans ==
  ASSUME GovernorInv, NEW i \in ProposalId, State(i) = "Active"
  PROVE  /\ ~proposals[i].canceled
         /\ number > proposals[i].startBlock
         /\ number <= proposals[i].endBlock
         /\ i <= proposalCount
         /\ ~proposals[i].executed
<1>1. /\ ~proposals[i].canceled
      /\ number > proposals[i].startBlock
      /\ ~(number > proposals[i].endBlock)
  BY DEF State, HasEnded, GovernorInv, GovernorTypeOK, ProposalType
<1>2. number <= proposals[i].endBlock
  BY <1>1 DEF GovernorInv, GovernorTypeOK, ProposalType
<1>3. i <= proposalCount
  BY <1>1, <1>2 DEF GovernorInv, GovernorTypeOK, FreshInv, ProposalId
<1>4. ~proposals[i].executed
  BY <1>1 DEF GovernorInv, ExecutedWasApproved
<1> QED
  BY <1>1, <1>2, <1>3, <1>4

\* What can be queued or executed has won its vote; and what was executed
\* without having been queued has no such state.
LEMMA SucceededMeans ==
  ASSUME GovernorInv, NEW i \in ProposalId, State(i) \in {"Succeeded", "Queued"}
  PROVE  /\ ~proposals[i].canceled
         /\ number > proposals[i].endBlock
         /\ proposals[i].forVotes > proposals[i].againstVotes
         /\ proposals[i].forVotes >= params.quorumVotes
         /\ i <= proposalCount
         /\ proposals[i].executed => proposals[i].queued
<1>1. /\ ~proposals[i].canceled
      /\ number > proposals[i].endBlock
      /\ proposals[i].forVotes > proposals[i].againstVotes
      /\ proposals[i].forVotes >= params.quorumVotes
      /\ proposals[i].executed => proposals[i].queued
  BY DEF State, HasEnded, IsApproved
<1>2. i <= proposalCount
  BY <1>1 DEF GovernorInv, GovernorTypeOK, FreshInv, ProposalId
<1> QED
  BY <1>1, <1>2

\* An executed proposal that was not queued, and is not cancelled, leaves the
\* state Executed only when the quorum rises above its votes.
LEMMA ExecutedMeans ==
  ASSUME GovernorInv, NEW i \in ProposalId,
         proposals[i].executed, ~proposals[i].queued, ~proposals[i].canceled,
         proposals[i].forVotes >= params.quorumVotes
  PROVE  State(i) = "Executed"
<1>1. /\ number > proposals[i].endBlock
      /\ proposals[i].forVotes > proposals[i].againstVotes
      /\ proposals[i].startBlock <= proposals[i].endBlock
      /\ proposals[i] \in ProposalType /\ number \in Nat
  BY DEF GovernorInv, GovernorTypeOK, ExecutedWasApproved, WindowInv
<1>2. ~(number <= proposals[i].startBlock)
  BY <1>1 DEF ProposalType
<1> QED
  BY <1>1, <1>2 DEF State, HasEnded, IsApproved

-----------------------------------------------------------------------------
(* Every call keeps the invariant.                                         *)

LEMMA ProposeKeeps ==
  ASSUME GovernorInv, NEW v \in Voter, Propose(v)
  PROVE  GovernorInv'
<1> DEFINE n == proposalCount + 1
<1> DEFINE p == [proposals[n] EXCEPT
                   !.proposer = v, !.startBlock = number + params.votingDelay,
                   !.endBlock = number + params.votingDelay + params.votingPeriod]
<1>1. /\ n \in ProposalId
      /\ proposals[n] \in ProposalType
      /\ number + params.votingDelay \in Nat
      /\ number + params.votingDelay + params.votingPeriod \in Nat
      /\ number + params.votingDelay <= number + params.votingDelay + params.votingPeriod
  <2>1. n \in ProposalId
    BY GovernorAssumption DEF GovernorInv, GovernorTypeOK, Propose, ProposalId
  <2>2. params.votingDelay \in Nat /\ params.votingPeriod \in Nat /\ number \in Nat
    BY DEF GovernorInv, GovernorTypeOK, ParamsType
  <2> QED
    BY <2>1, <2>2 DEF GovernorInv, GovernorTypeOK
<1>2. proposals' = [proposals EXCEPT ![n] = p]
  BY DEF Propose
<1>3. p \in ProposalType
  BY <1>1 DEF ProposalType
<1>4. ~proposals[n].executed
  BY <1>1 DEF GovernorInv, GovernorTypeOK, ExecutedWasApproved
<1>5. GovernorTypeOK'
  BY <1>1, <1>2, <1>3, GovernorAssumption
     DEF GovernorInv, GovernorTypeOK, Propose, ProposalId, clock
<1>6. FreshInv'
  BY <1>1, <1>2 DEF GovernorInv, GovernorTypeOK, FreshInv, Propose, ProposalId
<1>7. WindowInv'
  BY <1>1, <1>2, <1>3 DEF GovernorInv, GovernorTypeOK, WindowInv, ProposalType
<1>8. ExecutedWasApproved'
  <2>1. /\ \A i \in ProposalId : i # n => proposals'[i] = proposals[i]
        /\ ~proposals'[n].executed
    BY <1>1, <1>2, <1>4 DEF GovernorInv, GovernorTypeOK, ProposalType
  <2>2. \A i \in ProposalId : i <= proposalCount => i <= proposalCount'
    BY GovernorAssumption DEF GovernorInv, GovernorTypeOK, Propose, ProposalId
  <2>3. UNCHANGED <<number, runs>>
    BY DEF Propose, clock
  <2> QED
    BY <1>4, <2>1, <2>2, <2>3 DEF GovernorInv, ExecutedWasApproved
<1> QED
  BY <1>5, <1>6, <1>7, <1>8 DEF GovernorInv

LEMMA CastVoteKeeps ==
  ASSUME GovernorInv, NEW v \in Voter, NEW i \in ProposalId, NEW support \in BOOLEAN,
         CastVote(v, i, support)
  PROVE  GovernorInv'
<1> DEFINE p == Counted(proposals[i], support, votesOf[v])
<1>1. proposals' = [proposals EXCEPT ![i] = p]
  BY DEF CastVote
<1>2. i <= proposalCount /\ ~proposals[i].executed
  BY ActiveMeans DEF CastVote
<1>3. proposals[i] \in ProposalType /\ votesOf[v] \in Nat
  BY DEF GovernorInv, GovernorTypeOK
<1>4. /\ p \in ProposalType
      /\ p.startBlock = proposals[i].startBlock
      /\ p.endBlock = proposals[i].endBlock
      /\ p.executed = proposals[i].executed
  <2>1. CASE support
    BY <1>3, <2>1 DEF Counted, ProposalType
  <2>2. CASE ~support
    BY <1>3, <2>2 DEF Counted, ProposalType
  <2> QED
    BY <2>1, <2>2
<1>5. GovernorTypeOK'
  <2>1. receipts' \in [ProposalId -> [Voter -> ReceiptType]]
    BY <1>3 DEF GovernorInv, GovernorTypeOK, CastVote, ReceiptType
  <2> QED
    BY <1>1, <1>4, <2>1 DEF GovernorInv, GovernorTypeOK, CastVote, clock
<1>6. FreshInv'
  BY <1>1, <1>2
     DEF GovernorInv, GovernorTypeOK, FreshInv, CastVote, ProposalId
<1>7. WindowInv'
  BY <1>1, <1>4 DEF GovernorInv, GovernorTypeOK, WindowInv
<1>8. ExecutedWasApproved'
  BY <1>1, <1>2, <1>4
     DEF GovernorInv, GovernorTypeOK, ExecutedWasApproved, CastVote, clock
<1> QED
  BY <1>5, <1>6, <1>7, <1>8 DEF GovernorInv

LEMMA ExecuteKeeps ==
  ASSUME GovernorInv, NEW i \in ProposalId, Execute(i)
  PROVE  GovernorInv'
<1> DEFINE r == [count |-> runs[i].count + 1, quorum |-> params.quorumVotes,
                 early |-> State(i) = "Queued"]
<1>1. /\ proposals' = [proposals EXCEPT ![i].executed = TRUE]
      /\ runs' = [runs EXCEPT ![i] = r]
  BY DEF Execute
<1>2. /\ i <= proposalCount
      /\ number > proposals[i].endBlock
      /\ proposals[i].forVotes > proposals[i].againstVotes
      /\ proposals[i].forVotes >= params.quorumVotes
  BY SucceededMeans DEF Execute
<1>3. ~proposals[i].executed
  BY DEF Execute, IsUnexecuted
<1>4. runs[i].count = 0
  BY <1>3 DEF GovernorInv, ExecutedWasApproved
<1>5. GovernorTypeOK'
  <2>1. proposals' \in [ProposalId -> ProposalType]
    BY <1>1 DEF GovernorInv, GovernorTypeOK, ProposalType
  <2>2. r \in [count : Nat, quorum : Nat, early : BOOLEAN]
    BY <1>4 DEF GovernorInv, GovernorTypeOK, ParamsType
  <2> QED
    BY <1>1, <2>1, <2>2 DEF GovernorInv, GovernorTypeOK, Execute, clock
<1>6. FreshInv'
  BY <1>1, <1>2 DEF GovernorInv, GovernorTypeOK, FreshInv, Execute, ProposalType
<1>7. WindowInv'
  BY <1>1 DEF GovernorInv, GovernorTypeOK, WindowInv, ProposalType
<1>8. ExecutedWasApproved'
  <2>1. /\ proposals'[i] = [proposals[i] EXCEPT !.executed = TRUE]
        /\ \A j \in ProposalId : j # i => proposals'[j] = proposals[j]
        /\ runs'[i] = r
        /\ \A j \in ProposalId : j # i => runs'[j] = runs[j]
    BY <1>1 DEF GovernorInv, GovernorTypeOK
  <2>2. /\ proposals'[i].executed
        /\ proposals'[i].endBlock = proposals[i].endBlock
        /\ proposals'[i].forVotes = proposals[i].forVotes
        /\ proposals'[i].againstVotes = proposals[i].againstVotes
        /\ runs'[i].count = 1
        /\ runs'[i].quorum = params.quorumVotes
    BY <1>4, <2>1 DEF GovernorInv, GovernorTypeOK, ProposalType
  <2>3. UNCHANGED <<number, proposalCount>>
    BY DEF Execute, clock
  <2> QED
    BY <1>2, <2>1, <2>2, <2>3 DEF GovernorInv, ExecutedWasApproved
<1> QED
  BY <1>5, <1>6, <1>7, <1>8 DEF GovernorInv

\* queue() and cancel() touch neither the tally, nor the window, nor whether
\* the proposal was executed.
LEMMA FlagsKeep ==
  ASSUME GovernorInv, NEW i \in ProposalId, NEW p \in ProposalType,
         \A f \in {"startBlock", "endBlock", "forVotes", "againstVotes", "executed"} :
           p[f] = proposals[i][f],
         proposals' = [proposals EXCEPT ![i] = p],
         UNCHANGED <<clock, votesOf, params, proposalCount, receipts, runs>>
  PROVE  GovernorInv'
<1>1. /\ p.startBlock = proposals[i].startBlock
      /\ p.endBlock = proposals[i].endBlock
      /\ p.forVotes = proposals[i].forVotes
      /\ p.againstVotes = proposals[i].againstVotes
      /\ p.executed = proposals[i].executed
  BY DEF ProposalType
<1>2. GovernorTypeOK'
  BY DEF GovernorInv, GovernorTypeOK, clock
<1>3. FreshInv'
  BY <1>1 DEF GovernorInv, GovernorTypeOK, FreshInv
<1>4. WindowInv'
  BY <1>1 DEF GovernorInv, GovernorTypeOK, WindowInv
<1>5. ExecutedWasApproved'
  BY <1>1 DEF GovernorInv, GovernorTypeOK, ExecutedWasApproved, clock
<1> QED
  BY <1>2, <1>3, <1>4, <1>5 DEF GovernorInv

LEMMA QueueKeeps ==
  ASSUME GovernorInv, NEW i \in ProposalId, Queue(i)
  PROVE  GovernorInv'
<1> DEFINE p == [proposals[i] EXCEPT !.queued = TRUE,
                                     !.queueTime = timestamp + params.timelockDelay]
<1>1. /\ proposals' = [proposals EXCEPT ![i] = p]
      /\ UNCHANGED <<clock, votesOf, params, proposalCount, receipts, runs>>
  BY DEF Queue
<1>2. /\ p \in ProposalType
      /\ \A f \in {"startBlock", "endBlock", "forVotes", "againstVotes", "executed"} :
           p[f] = proposals[i][f]
  <2>1. timestamp + params.timelockDelay \in Nat
    BY DEF GovernorInv, GovernorTypeOK, ParamsType
  <2> QED
    BY <2>1 DEF GovernorInv, GovernorTypeOK, ProposalType
<1> QED
  BY <1>1, <1>2, FlagsKeep

LEMMA CancelKeeps ==
  ASSUME GovernorInv, NEW i \in ProposalId, Cancel(i)
  PROVE  GovernorInv'
<1> DEFINE p == [proposals[i] EXCEPT !.canceled = TRUE]
<1>1. /\ proposals' = [proposals EXCEPT ![i] = p]
      /\ UNCHANGED <<clock, votesOf, params, proposalCount, receipts, runs>>
  BY DEF Cancel
<1>2. /\ p \in ProposalType
      /\ \A f \in {"startBlock", "endBlock", "forVotes", "againstVotes", "executed"} :
           p[f] = proposals[i][f]
  BY DEF GovernorInv, GovernorTypeOK, ProposalType
<1> QED
  BY <1>1, <1>2, FlagsKeep

LEMMA SetParameterKeeps ==
  ASSUME GovernorInv, SetParameter
  PROVE  GovernorInv'
<1>1. params' \in ParamsType
  BY GovernorAssumption DEF GovernorInv, GovernorTypeOK, SetParameter, ParamsType
<1> QED
  BY <1>1
     DEF GovernorInv, GovernorTypeOK, FreshInv, WindowInv, ExecutedWasApproved,
         SetParameter, clock

LEMMA TransferVotesKeeps ==
  ASSUME GovernorInv, NEW from \in Voter, NEW to \in Voter, TransferVotes(from, to)
  PROVE  GovernorInv'
<1>1. votesOf' \in [Voter -> Nat]
  BY DEF GovernorInv, GovernorTypeOK, TransferVotes
<1> QED
  BY <1>1
     DEF GovernorInv, GovernorTypeOK, FreshInv, WindowInv, ExecutedWasApproved,
         TransferVotes, clock

LEMMA NextBlockKeeps ==
  ASSUME GovernorInv, NextBlock
  PROVE  GovernorInv'
<1>1. number' = number + 1 /\ number \in Nat /\ timestamp' \in Nat
  BY GovernorAssumption DEF GovernorInv, GovernorTypeOK, NextBlock
<1>2. GovernorTypeOK' /\ FreshInv' /\ WindowInv'
  BY <1>1 DEF GovernorInv, GovernorTypeOK, FreshInv, WindowInv, NextBlock
<1>3. ExecutedWasApproved'
  <2>1. \A i \in ProposalId : proposals[i].endBlock \in Nat
    BY DEF GovernorInv, GovernorTypeOK, ProposalType
  <2> QED
    BY <1>1, <2>1 DEF GovernorInv, ExecutedWasApproved, NextBlock
<1> QED
  BY <1>2, <1>3 DEF GovernorInv

LEMMA GovernorStep == GovernorInv /\ [GovernorNext]_governorVars => GovernorInv'
<1> SUFFICES ASSUME GovernorInv, [GovernorNext]_governorVars
             PROVE  GovernorInv'
  OBVIOUS
<1>1. ASSUME NEW v \in Voter, Propose(v)
      PROVE  GovernorInv'
  BY <1>1, ProposeKeeps
<1>2. ASSUME NEW v \in Voter, NEW i \in ProposalId, NEW support \in BOOLEAN,
             CastVote(v, i, support)
      PROVE  GovernorInv'
  BY <1>2, CastVoteKeeps
<1>3. ASSUME NEW i \in ProposalId, Execute(i) \/ Queue(i) \/ Cancel(i)
      PROVE  GovernorInv'
  BY <1>3, ExecuteKeeps, QueueKeeps, CancelKeeps
<1>4. CASE SetParameter
  BY <1>4, SetParameterKeeps
<1>5. ASSUME NEW from \in Voter, NEW to \in Voter, TransferVotes(from, to)
      PROVE  GovernorInv'
  BY <1>5, TransferVotesKeeps
<1>6. CASE NextBlock
  BY <1>6, NextBlockKeeps
<1>7. CASE UNCHANGED governorVars
  BY <1>7
     DEF GovernorInv, GovernorTypeOK, FreshInv, WindowInv, ExecutedWasApproved,
         governorVars, clock
<1> QED
  BY <1>1, <1>2, <1>3, <1>4, <1>5, <1>6, <1>7 DEF GovernorNext

LEMMA GovernorInitInv == GovernorInit => GovernorInv
<1> SUFFICES ASSUME GovernorInit PROVE GovernorInv
  OBVIOUS
<1>1. Blank \in ProposalType
  BY DEF Blank, ProposalType
<1>2. GovernorTypeOK
  <2>1. params \in ParamsType
    <3>1. Blocks \subseteq Nat /\ Votes \subseteq Nat /\ {0} \subseteq Nat
      BY GovernorAssumption
    <3>2. params \in [votingDelay : Blocks, votingPeriod : Blocks,
                      proposalThreshold : Votes, quorumVotes : Votes,
                      timelockDelay : {0}]
      BY DEF GovernorInit
    <3> QED
      BY <3>1, <3>2 DEF ParamsType
  <2>2. votesOf \in [Voter -> Nat]
    BY GovernorAssumption DEF GovernorInit
  <2>3. NoReceipt \in ReceiptType
    BY DEF NoReceipt, ReceiptType
  <2>4. runs \in [ProposalId -> [count : Nat, quorum : Nat, early : BOOLEAN]]
    BY DEF GovernorInit
  <2> QED
    BY <1>1, <2>1, <2>2, <2>3, <2>4, GovernorAssumption DEF GovernorInit, GovernorTypeOK
<1>3. FreshInv /\ WindowInv /\ ExecutedWasApproved
  BY DEF GovernorInit, FreshInv, WindowInv, ExecutedWasApproved, Blank
<1> QED
  BY <1>2, <1>3 DEF GovernorInv

LEMMA GovernorAlwaysInv == GovernorSpec => []GovernorInv
<1> QED
  BY GovernorInitInv, GovernorStep, PTL DEF GovernorSpec

-----------------------------------------------------------------------------
(* The theorems.                                                           *)

\* The fields of the contract keep their types.
THEOREM GovernorTyped == GovernorSpec => []GovernorTypeOK
<1>1. GovernorInv => GovernorTypeOK
  BY DEF GovernorInv
<1> QED
  BY <1>1, GovernorAlwaysInv, PTL

\* Whatever the setters do, what execute() has executed was executed once and
\* is what the votes decided.
THEOREM ExecutedAlwaysApproved == GovernorSpec => []ExecutedWasApproved
<1>1. GovernorInv => ExecutedWasApproved
  BY DEF GovernorInv
<1> QED
  BY <1>1, GovernorAlwaysInv, PTL

\* One step undoes no outcome.
LEMMA OutcomeStep ==
  ASSUME GovernorInv, GovernorNext, NEW i \in ProposalId
  PROVE  /\ proposals[i].canceled =>
              /\ proposals'[i].canceled
              /\ proposals'[i].executed = proposals[i].executed
         /\ proposals[i].executed =>
              /\ proposals'[i].executed
              /\ proposals'[i].forVotes = proposals[i].forVotes
              /\ proposals'[i].againstVotes = proposals[i].againstVotes
              /\ receipts'[i] = receipts[i]
         /\ proposals[i].executed /\ ~proposals[i].queued =>
              /\ ~proposals'[i].queued
              /\ proposals'[i].canceled # proposals[i].canceled =>
                   proposals[i].forVotes < params.quorumVotes
<1> USE DEF GovernorInv, GovernorTypeOK
<1>1. ASSUME NEW v \in Voter, Propose(v)
      PROVE  /\ UNCHANGED receipts
             /\ proposals[i].executed => proposals'[i] = proposals[i]
             /\ proposals'[i].canceled = proposals[i].canceled
             /\ proposals'[i].executed = proposals[i].executed
  <2>1. proposalCount + 1 \in ProposalId /\ ~proposals[proposalCount + 1].executed
    BY <1>1, GovernorAssumption DEF Propose, ExecutedWasApproved, ProposalId
  <2>2. \A j \in ProposalId : proposals[j] \in ProposalType
    OBVIOUS
  <2> QED
    BY <1>1, <2>1, <2>2 DEF Propose, ProposalType
<1>2. ASSUME NEW v \in Voter, NEW j \in ProposalId, NEW support \in BOOLEAN,
             CastVote(v, j, support)
      PROVE  /\ proposals[i].executed => UNCHANGED <<proposals[i], receipts[i]>>
             /\ proposals[i].canceled => UNCHANGED proposals[i]
  <2>1. ~proposals[j].executed /\ ~proposals[j].canceled
    BY <1>2, ActiveMeans DEF CastVote
  <2> QED
    BY <1>2, <2>1 DEF CastVote
<1>3. ASSUME NEW j \in ProposalId, Execute(j)
      PROVE  /\ proposals[i].executed \/ proposals[i].canceled => UNCHANGED proposals[i]
             /\ UNCHANGED receipts
  <2>1. ~proposals[j].executed /\ ~proposals[j].canceled
    BY <1>3, SucceededMeans DEF Execute, IsUnexecuted
  <2> QED
    BY <1>3, <2>1 DEF Execute
<1>4. ASSUME NEW j \in ProposalId, Queue(j)
      PROVE  /\ proposals[i].canceled => UNCHANGED proposals[i]
             /\ proposals[i].executed /\ ~proposals[i].queued => UNCHANGED proposals[i]
             /\ UNCHANGED receipts
             /\ proposals'[i].executed = proposals[i].executed
             /\ proposals'[i].forVotes = proposals[i].forVotes
             /\ proposals'[i].againstVotes = proposals[i].againstVotes
  <2>1. ~proposals[j].canceled /\ (proposals[j].executed => proposals[j].queued)
    BY <1>4, SucceededMeans DEF Queue
  <2>2. \A k \in ProposalId : proposals[k] \in ProposalType
    OBVIOUS
  <2> QED
    BY <1>4, <2>1, <2>2 DEF Queue, ProposalType
<1>5. ASSUME NEW j \in ProposalId, Cancel(j)
      PROVE  /\ proposals[i].canceled => proposals'[i].canceled
             /\ UNCHANGED receipts
             /\ proposals'[i].executed = proposals[i].executed
             /\ proposals'[i].queued = proposals[i].queued
             /\ proposals'[i].forVotes = proposals[i].forVotes
             /\ proposals'[i].againstVotes = proposals[i].againstVotes
             /\ proposals[i].executed /\ ~proposals[i].queued
                  /\ proposals'[i].canceled # proposals[i].canceled =>
                  proposals[i].forVotes < params.quorumVotes
  <2>1. /\ proposals[i] \in ProposalType
        /\ params \in ParamsType
        /\ proposals'[i] = IF i = j THEN [proposals[i] EXCEPT !.canceled = TRUE]
                                    ELSE proposals[i]
        /\ UNCHANGED receipts
        /\ State(j) # "Executed"
    BY <1>5 DEF Cancel, MayCancel
  <2>2. ASSUME proposals[i].executed, ~proposals[i].queued,
               proposals'[i].canceled # proposals[i].canceled
        PROVE  proposals[i].forVotes < params.quorumVotes
    <3>1. i = j /\ ~proposals[i].canceled
      BY <2>1, <2>2 DEF ProposalType
    <3>2. ~(proposals[i].forVotes >= params.quorumVotes)
      BY <2>1, <2>2, <3>1, ExecutedMeans
    <3> QED
      BY <2>1, <3>2 DEF ProposalType, ParamsType
  <2> QED
    BY <2>1, <2>2 DEF ProposalType
<1>6. ASSUME SetParameter \/ NextBlock \/ \E from, to \in Voter : TransferVotes(from, to)
      PROVE  UNCHANGED <<proposals, receipts>>
  BY <1>6 DEF SetParameter, NextBlock, TransferVotes
<1> QED
  BY <1>1, <1>2, <1>3, <1>4, <1>5, <1>6 DEF GovernorNext

\* No outcome is undone: cancelled stays cancelled, executed stays executed
\* with its ballots, although the quorum and the clock that state() looks at
\* go on changing.
THEOREM OutcomeAlwaysFinal == GovernorSpec => OutcomeIsFinal
<1>1. GovernorInv /\ [GovernorNext]_governorVars =>
        [\A i \in ProposalId :
           LET p == proposals[i]
               q == proposals'[i]
           IN /\ p.canceled => q.canceled /\ q.executed = p.executed
              /\ p.executed =>
                   /\ q.executed
                   /\ q.forVotes = p.forVotes
                   /\ q.againstVotes = p.againstVotes
                   /\ receipts'[i] = receipts[i]
              /\ p.executed /\ ~p.queued =>
                   /\ ~q.queued
                   /\ q.canceled # p.canceled => p.forVotes < params.quorumVotes]_governorVars
  BY OutcomeStep
<1> QED
  BY <1>1, GovernorAlwaysInv, PTL DEF GovernorSpec, OutcomeIsFinal
-----------------------------------------------------------------------------
(* The ballots behind the tallies.                                         *)

Ballots(i, support) ==
  [v \in Voter |->
     IF receipts[i][v].hasVoted /\ receipts[i][v].support = support
     THEN receipts[i][v].votes ELSE 0]

\* The two tallies of a proposal are the sums of the ballots on record for
\* each side.
TallyIsBallots ==
  \A i \in ProposalId :
    /\ proposals[i].forVotes = SumFunction(Ballots(i, TRUE))
    /\ proposals[i].againstVotes = SumFunction(Ballots(i, FALSE))

\* The tally of one side.
Tally(p, support) == IF support THEN p.forVotes ELSE p.againstVotes

\* A vote moves the tally of its side and the sum of its side's ballots by the
\* same amount, and nothing else.
LEMMA CastVoteKeepsTally ==
  ASSUME GovernorInv, TallyIsBallots, IsFiniteSet(Voter), NEW v \in Voter,
         NEW i \in ProposalId, NEW support \in BOOLEAN, CastVote(v, i, support)
  PROVE  TallyIsBallots'
<1>1. /\ proposals[i] \in ProposalType /\ votesOf[v] \in Nat
      /\ ~receipts[i][v].hasVoted
      /\ proposals'[i] = Counted(proposals[i], support, votesOf[v])
      /\ receipts'[i][v] = [hasVoted |-> TRUE, support |-> support, votes |-> votesOf[v]]
      /\ \A w \in Voter \ {v} : receipts'[i][w] = receipts[i][w]
      /\ \A j \in ProposalId \ {i} :
           proposals'[j] = proposals[j] /\ receipts'[j] = receipts[j]
  BY DEF CastVote, GovernorInv, GovernorTypeOK
<1>2. ASSUME NEW side \in BOOLEAN
      PROVE  Tally(proposals'[i], side) = SumFunction(Ballots(i, side)')
  <2> DEFINE f == Ballots(i, side)
             h == Ballots(i, side)'
  <2>1. f \in [Voter -> Int]
    BY DEF Ballots, GovernorInv, GovernorTypeOK, ReceiptType
  <2>2. /\ f[v] = 0
        /\ h[v] = IF side = support THEN votesOf[v] ELSE 0
        /\ \A w \in Voter \ {v} : h[w] = f[w]
    BY <1>1 DEF Ballots
  <2>3. h \in [Voter -> Int]
    <3>1. h = [w \in Voter |-> h[w]]
      BY DEF Ballots
    <3> HIDE DEF f, h
    <3>2. \A w \in Voter : h[w] \in Int
      BY <1>1, <2>1, <2>2
    <3> QED
      BY <3>1, <3>2
  <2>4. SumFunction(h) = SumFunction(f) + h[v] /\ SumFunction(f) \in Int
    <3> HIDE DEF f, h
    <3>1. SumFunction(h) = SumFunction(f) - f[v] + h[v]
      BY <2>1, <2>2, <2>3, SumChanged
    <3>2. SumFunction(f) \in Int
      BY <2>1, SumInt
    <3> QED
      BY <2>2, <2>3, <3>1, <3>2
  <2>5. Tally(proposals[i], side) = SumFunction(f)
    BY DEF TallyIsBallots, Tally
  <2>6. Tally(proposals'[i], side) = Tally(proposals[i], side) + h[v]
    BY <1>1, <2>2 DEF Tally, Counted, ProposalType
  <2> QED
    BY <2>4, <2>5, <2>6
<1>3. ASSUME NEW j \in ProposalId \ {i}
      PROVE  /\ proposals'[j].forVotes = SumFunction(Ballots(j, TRUE)')
             /\ proposals'[j].againstVotes = SumFunction(Ballots(j, FALSE)')
  <2>1. Ballots(j, TRUE)' = Ballots(j, TRUE) /\ Ballots(j, FALSE)' = Ballots(j, FALSE)
    BY <1>1 DEF Ballots
  <2> QED
    BY <1>1, <2>1 DEF TallyIsBallots
<1>4. /\ proposals'[i].forVotes = SumFunction(Ballots(i, TRUE)')
      /\ proposals'[i].againstVotes = SumFunction(Ballots(i, FALSE)')
  BY <1>2 DEF Tally
<1> QED
  BY <1>3, <1>4 DEF TallyIsBallots

\* No other step touches a tally or a ballot.
LEMMA OthersKeepTally ==
  ASSUME GovernorInv, TallyIsBallots, UNCHANGED receipts,
         \A i \in ProposalId : /\ proposals'[i].forVotes = proposals[i].forVotes
                               /\ proposals'[i].againstVotes = proposals[i].againstVotes
  PROVE  TallyIsBallots'
<1>1. \A i \in ProposalId, s \in BOOLEAN : Ballots(i, s)' = Ballots(i, s)
  BY DEF Ballots
<1> QED
  BY <1>1 DEF TallyIsBallots

\* propose() writes neither a tally nor the flag of an execution.
LEMMA ProposeLeaves ==
  ASSUME GovernorInv, NEW v \in Voter, Propose(v), NEW i \in ProposalId
  PROVE  /\ proposals'[i].forVotes = proposals[i].forVotes
         /\ proposals'[i].againstVotes = proposals[i].againstVotes
         /\ proposals'[i].executed = proposals[i].executed
<1>1. proposals[i] \in ProposalType /\ proposals \in [ProposalId -> ProposalType]
  BY DEF GovernorInv, GovernorTypeOK
<1>2. CASE i = proposalCount + 1
  BY <1>1, <1>2 DEF Propose, ProposalType
<1>3. CASE i # proposalCount + 1
  BY <1>1, <1>3 DEF Propose
<1> QED
  BY <1>2, <1>3

\* Votes aside, no call writes a tally.
LEMMA StepKeepsTally ==
  ASSUME GovernorInv, TallyIsBallots, IsFiniteSet(Voter), [GovernorNext]_governorVars
  PROVE  TallyIsBallots'
<1>1. \A i \in ProposalId : proposals[i] \in ProposalType
  BY DEF GovernorInv, GovernorTypeOK
<1>2. CASE \E v \in Voter, i \in ProposalId, support \in BOOLEAN : CastVote(v, i, support)
  BY <1>2, CastVoteKeepsTally
<1>3. CASE \E v \in Voter : Propose(v)
  <2>1. UNCHANGED receipts
    BY <1>3 DEF Propose
  <2> QED
    BY <1>3, <2>1, ProposeLeaves, OthersKeepTally
<1>4. CASE \E i \in ProposalId : Execute(i) \/ Queue(i) \/ Cancel(i)
  <2>1. PICK i \in ProposalId : Execute(i) \/ Queue(i) \/ Cancel(i)
    BY <1>4
  <2>2. UNCHANGED receipts
    BY <2>1 DEF Execute, Queue, Cancel
  <2>3. CASE Execute(i)
    BY <1>1, <2>2, <2>3, OthersKeepTally DEF Execute, GovernorInv, GovernorTypeOK, ProposalType
  <2>4. CASE Queue(i)
    BY <1>1, <2>2, <2>4, OthersKeepTally DEF Queue, GovernorInv, GovernorTypeOK, ProposalType
  <2>5. CASE Cancel(i)
    BY <1>1, <2>2, <2>5, OthersKeepTally DEF Cancel, GovernorInv, GovernorTypeOK, ProposalType
  <2> QED
    BY <2>1, <2>3, <2>4, <2>5
<1>5. CASE \/ SetParameter \/ NextBlock \/ UNCHANGED governorVars
           \/ \E from, to \in Voter : TransferVotes(from, to)
  <2>1. UNCHANGED <<proposals, receipts>>
    BY <1>5 DEF SetParameter, NextBlock, TransferVotes, governorVars
  <2> QED
    BY <2>1, OthersKeepTally
<1> QED
  BY <1>2, <1>3, <1>4, <1>5 DEF GovernorNext

\* However often tokens change hands and parameters change, what a proposal
\* is decided by is the sum of the ballots on record, with finitely many
\* accounts.
THEOREM TallyAlwaysIsBallots ==
  ASSUME IsFiniteSet(Voter)
  PROVE  GovernorSpec => []TallyIsBallots
<1>1. GovernorInit => TallyIsBallots
  <2> SUFFICES ASSUME GovernorInit PROVE TallyIsBallots
    OBVIOUS
  <2>1. ASSUME NEW i \in ProposalId, NEW support \in BOOLEAN
        PROVE  SumFunction(Ballots(i, support)) = 0
    <3>1. Ballots(i, support) \in [Voter -> {0}]
      BY DEF GovernorInit, Ballots, NoReceipt
    <3> QED
      BY <3>1, SumZero
  <2> QED
    BY <2>1 DEF GovernorInit, TallyIsBallots, Blank
<1>2. GovernorInv /\ TallyIsBallots /\ [GovernorNext]_governorVars => TallyIsBallots'
  BY StepKeepsTally
<1> QED
  BY <1>1, <1>2, GovernorAlwaysInv, PTL DEF GovernorSpec

-----------------------------------------------------------------------------
(* Proposals are executed once.                                            *)

Proposed == {i \in ProposalId : i <= proposalCount /\ ~proposals[i].executed}
Executed == {i \in ProposalId : proposals[i].executed}

ProposalLedger ==
  INSTANCE PayOnce WITH Event <- ProposalId, open <- Proposed, paid <- Executed

\* A proposal is executed at most once and only after it was proposed: for
\* every history of votes, settings, queueing and cancelling the contract
\* implements PayOnce.  In particular propose() never takes an id again.
THEOREM ProposalsExecutedOnce == GovernorSpec => ProposalLedger!Spec
<1>1. GovernorInit => ProposalLedger!Init
  BY DEF GovernorInit, ProposalLedger!Init, Proposed, Executed, Blank, ProposalId
<1>2. GovernorInv /\ [GovernorNext]_governorVars =>
        [ProposalLedger!Next]_<<Proposed, Executed>>
  <2> SUFFICES ASSUME GovernorInv, [GovernorNext]_governorVars
               PROVE  ProposalLedger!Next \/ UNCHANGED <<Proposed, Executed>>
    OBVIOUS
  <2>1. /\ \A i \in ProposalId : proposals[i] \in ProposalType
        /\ proposalCount \in Nat
        /\ \A i \in ProposalId : proposals[i].executed => i <= proposalCount
    BY GovernorAssumption DEF GovernorInv, GovernorTypeOK, ExecutedWasApproved
  <2>2. ASSUME UNCHANGED proposalCount,
               \A i \in ProposalId : proposals'[i].executed = proposals[i].executed
        PROVE  UNCHANGED <<Proposed, Executed>>
    BY <2>2 DEF Proposed, Executed
  <2>3. ASSUME NEW v \in Voter, Propose(v)
        PROVE  ProposalLedger!Next
    <3> DEFINE n == proposalCount + 1
    <3>1. n \in ProposalId /\ ~proposals[n].executed
      BY <2>1, <2>3, GovernorAssumption DEF Propose, ProposalId
    <3>2. \A i \in ProposalId : proposals'[i].executed = proposals[i].executed
      BY <2>3, ProposeLeaves
    <3>3. \A i \in ProposalId : i <= proposalCount' <=> i <= proposalCount \/ i = n
      BY <2>1, <2>3 DEF Propose, ProposalId
    <3>4. Proposed' = Proposed \cup {n} /\ Executed' = Executed
      BY <3>1, <3>2, <3>3 DEF Proposed, Executed
    <3>5. n \notin Proposed \cup Executed
      BY <2>1, <3>1 DEF Proposed, Executed
    <3> QED
      BY <3>1, <3>4, <3>5 DEF ProposalLedger!Next, ProposalLedger!Open
  <2>4. ASSUME NEW i \in ProposalId, Execute(i)
        PROVE  ProposalLedger!Next
    <3>1. i <= proposalCount /\ ~proposals[i].executed /\ UNCHANGED proposalCount
      BY <2>4, SucceededMeans DEF Execute, IsUnexecuted
    <3>2. /\ proposals'[i].executed
          /\ \A j \in ProposalId \ {i} : proposals'[j].executed = proposals[j].executed
      BY <2>1, <2>4 DEF Execute, GovernorInv, GovernorTypeOK, ProposalType
    <3>3. i \in Proposed /\ Proposed' = Proposed \ {i} /\ Executed' = Executed \cup {i}
      BY <3>1, <3>2 DEF Proposed, Executed
    <3> QED
      BY <3>3 DEF ProposalLedger!Next, ProposalLedger!Pay
  <2>5. ASSUME NEW i \in ProposalId, Queue(i) \/ Cancel(i)
        PROVE  UNCHANGED <<Proposed, Executed>>
    <3>1. \A j \in ProposalId : proposals'[j].executed = proposals[j].executed
      BY <2>1, <2>5 DEF Queue, Cancel, GovernorInv, GovernorTypeOK, ProposalType
    <3> QED
      BY <2>2, <2>5, <3>1 DEF Queue, Cancel
  <2>6. ASSUME NEW v \in Voter, NEW i \in ProposalId, NEW support \in BOOLEAN,
               CastVote(v, i, support)
        PROVE  UNCHANGED <<Proposed, Executed>>
    <3>1. \A j \in ProposalId : proposals'[j].executed = proposals[j].executed
      BY <2>1, <2>6 DEF CastVote, Counted, GovernorInv, GovernorTypeOK, ProposalType
    <3> QED
      BY <2>2, <2>6, <3>1 DEF CastVote
  <2>7. CASE \/ SetParameter \/ NextBlock \/ UNCHANGED governorVars
             \/ \E from, to \in Voter : TransferVotes(from, to)
    <3>1. UNCHANGED <<proposals, proposalCount>>
      BY <2>7 DEF SetParameter, NextBlock, TransferVotes, governorVars
    <3> QED
      BY <2>2, <3>1
  <2> QED
    BY <2>3, <2>4, <2>5, <2>6, <2>7 DEF GovernorNext
<1> QED
  BY <1>1, <1>2, GovernorAlwaysInv, PTL DEF GovernorSpec, ProposalLedger!Spec
=============================================================================
