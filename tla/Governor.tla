-------------------------------- MODULE Governor -----------------------------
(***************************************************************************)
(* The on-chain governance of contracts/governance/Governor.sol.           *)
(*                                                                         *)
(* Holders of the token propose, vote with the balance they have at the    *)
(* moment, and anybody queues and executes what succeeded.  A proposal has *)
(* no stored state: state() computes it from four flags, the tally, the    *)
(* block, the time and the quorum of the day, and every call decides by    *)
(* what it returns.                                                        *)
(*                                                                         *)
(* A call is atomic, and one that reverts changes nothing.  execute() is   *)
(* nonReentrant and marks the proposal before it makes the proposal's      *)
(* calls; what they do through the other functions, the setters included,  *)
(* is what the same calls do afterwards in the same block.                 *)
(*                                                                         *)
(* NetCounted, AnyProposal and AnyState are plausible wrong versions of    *)
(* the operator that follows each of them; nothing else refers to them.    *)
(***************************************************************************)
EXTENDS Integers

CONSTANTS
  Voter,         \* accounts that hold the token
  Nobody,        \* address(0)
  BlockTimes,    \* seconds that may pass between two blocks
  Blocks,        \* values of the delay and the period of voting
  Votes,         \* values of the quorum, the threshold and first balances
  Delays,        \* values of timelockDelay, in seconds
  MaxProposals,  \* bound: proposals created
  MaxBlock       \* bound: blocks

ASSUME GovernorAssumption ==
  /\ Nobody \notin Voter
  /\ BlockTimes \subseteq Nat
  /\ Blocks \subseteq Nat
  /\ Votes \subseteq Nat
  /\ Delays \subseteq Nat
  /\ MaxProposals \in Nat
  /\ MaxBlock \in Nat

ProposalId == 1..MaxProposals

VARIABLES
  number,         \* block.number
  timestamp,      \* block.timestamp
  votesOf,        \* the token: voter -> balance
  params,         \* what the constructor and the setters choose
  proposalCount,
  proposals,      \* id -> the proposal, all zero before it is created
  receipts,       \* id -> voter -> [hasVoted, support, votes]
  runs            \* history: id -> [count, quorum, early] of its executions

clock == <<number, timestamp>>
governorVars ==
  <<clock, votesOf, params, proposalCount, proposals, receipts, runs>>

Blank ==
  [proposer |-> Nobody, startBlock |-> 0, endBlock |-> 0, forVotes |-> 0,
   againstVotes |-> 0, canceled |-> FALSE, executed |-> FALSE, queued |-> FALSE,
   queueTime |-> 0]

NoReceipt == [hasVoted |-> FALSE, support |-> FALSE, votes |-> 0]

\* The constructor leaves timelockDelay zero.
GovernorInit ==
  /\ number = 1
  /\ timestamp = 0
  /\ votesOf \in [Voter -> Votes]
  /\ params \in [votingDelay : Blocks, votingPeriod : Blocks,
                 proposalThreshold : Votes, quorumVotes : Votes, timelockDelay : {0}]
  /\ proposalCount = 0
  /\ proposals = [i \in ProposalId |-> Blank]
  /\ receipts = [i \in ProposalId |-> [v \in Voter |-> NoReceipt]]
  /\ runs = [i \in ProposalId |-> [count |-> 0, quorum |-> 0, early |-> FALSE]]

-----------------------------------------------------------------------------
(* state().                                                                *)

HasEnded(p) == number > p.endBlock

IsApproved(p) == p.forVotes > p.againstVotes /\ p.forVotes >= params.quorumVotes

\* The conditions in the order of the code: a proposal that is queued is
\* Queued or Succeeded again, executed or not.
State(i) ==
  LET p == proposals[i]
  IN IF p.canceled THEN "Canceled"
     ELSE IF number <= p.startBlock THEN "Pending"
     ELSE IF ~HasEnded(p) THEN "Active"
     ELSE IF ~IsApproved(p) THEN "Defeated"
     ELSE IF p.queued /\ timestamp < p.queueTime THEN "Queued"
     ELSE IF p.executed /\ ~p.queued THEN "Executed"
     ELSE "Succeeded"

-----------------------------------------------------------------------------
(* The calls.                                                              *)

\* propose().  It does not touch the flags: an id cancelled in advance stays
\* cancelled.
Propose(v) ==
  /\ proposalCount < MaxProposals
  /\ votesOf[v] >= params.proposalThreshold
  /\ proposalCount' = proposalCount + 1
  /\ proposals' = [proposals EXCEPT
       ![proposalCount + 1].proposer = v,
       ![proposalCount + 1].startBlock = number + params.votingDelay,
       ![proposalCount + 1].endBlock = number + params.votingDelay + params.votingPeriod]
  /\ UNCHANGED <<clock, votesOf, params, receipts, runs>>

\* A ballot counted for one side.
NetCounted(p, support, votes) ==
  [p EXCEPT !.forVotes = IF support THEN @ + votes ELSE @ - votes]

Counted(p, support, votes) ==
  IF support THEN [p EXCEPT !.forVotes = @ + votes]
             ELSE [p EXCEPT !.againstVotes = @ + votes]

\* _castVote(), for castVote(), castVoteWithReason() and castVoteBySig().
CastVote(v, i, support) ==
  /\ State(i) = "Active"
  /\ ~receipts[i][v].hasVoted
  /\ votesOf[v] > 0
  /\ receipts' = [receipts EXCEPT ![i][v] =
       [hasVoted |-> TRUE, support |-> support, votes |-> votesOf[v]]]
  /\ proposals' = [proposals EXCEPT ![i] = Counted(@, support, votesOf[v])]
  /\ UNCHANGED <<clock, votesOf, params, proposalCount, runs>>

AnyProposal(p) == TRUE

IsUnexecuted(p) == ~p.executed

\* execute(), when every call of the proposal succeeds.
Execute(i) ==
  /\ State(i) \in {"Succeeded", "Queued"}
  /\ IsUnexecuted(proposals[i])
  /\ proposals' = [proposals EXCEPT ![i].executed = TRUE]
  /\ runs' = [runs EXCEPT ![i] =
       [count |-> @.count + 1, quorum |-> params.quorumVotes,
        early |-> State(i) = "Queued"]]
  /\ UNCHANGED <<clock, votesOf, params, proposalCount, receipts>>

\* queue().
Queue(i) ==
  /\ State(i) = "Succeeded"
  /\ proposals' = [proposals EXCEPT ![i].queued = TRUE,
                                    ![i].queueTime = timestamp + params.timelockDelay]
  /\ UNCHANGED <<clock, votesOf, params, proposalCount, receipts, runs>>

\* What cancel() requires of the proposal.
AnyState(i) == TRUE

MayCancel(i) == State(i) # "Executed"

\* cancel(), by the proposer or an administrator: by an administrator also
\* for an id that is still to come.
Cancel(i) ==
  /\ MayCancel(i)
  /\ proposals' = [proposals EXCEPT ![i].canceled = TRUE]
  /\ UNCHANGED <<clock, votesOf, params, proposalCount, receipts, runs>>

\* The five setters of the administrator.
SetParameter ==
  /\ params' \in
       {[params EXCEPT !.votingDelay = x] : x \in Blocks} \cup
       {[params EXCEPT !.votingPeriod = x] : x \in Blocks} \cup
       {[params EXCEPT !.proposalThreshold = x] : x \in Votes} \cup
       {[params EXCEPT !.quorumVotes = x] : x \in Votes} \cup
       {[params EXCEPT !.timelockDelay = x] : x \in Delays}
  /\ UNCHANGED <<clock, votesOf, proposalCount, proposals, receipts, runs>>

-----------------------------------------------------------------------------
(* The token and the chain, which the contract only reads.                 *)

TransferVotes(from, to) ==
  /\ from # to
  /\ \E amount \in 1..votesOf[from] :
       votesOf' = [votesOf EXCEPT ![from] = @ - amount, ![to] = @ + amount]
  /\ UNCHANGED <<clock, params, proposalCount, proposals, receipts, runs>>

NextBlock ==
  /\ number < MaxBlock
  /\ number' = number + 1
  /\ \E s \in BlockTimes : timestamp' = timestamp + s
  /\ UNCHANGED <<votesOf, params, proposalCount, proposals, receipts, runs>>

GovernorNext ==
  \/ \E v \in Voter : Propose(v)
  \/ \E v \in Voter, i \in ProposalId, support \in BOOLEAN : CastVote(v, i, support)
  \/ \E i \in ProposalId : Execute(i) \/ Queue(i) \/ Cancel(i)
  \/ SetParameter
  \/ \E from, to \in Voter : TransferVotes(from, to)
  \/ NextBlock

GovernorSpec == GovernorInit /\ [][GovernorNext]_governorVars

-----------------------------------------------------------------------------
(* Properties.                                                             *)

ProposalType ==
  [proposer : Voter \cup {Nobody}, startBlock : Nat, endBlock : Nat, forVotes : Nat,
   againstVotes : Nat, canceled : BOOLEAN, executed : BOOLEAN, queued : BOOLEAN,
   queueTime : Nat]

ReceiptType == [hasVoted : BOOLEAN, support : BOOLEAN, votes : Nat]

ParamsType ==
  [votingDelay : Nat, votingPeriod : Nat, proposalThreshold : Nat, quorumVotes : Nat,
   timelockDelay : Nat]

\* The contract's fields keep their types; no balance and no tally, which are
\* unsigned, falls below zero.
GovernorTypeOK ==
  /\ number \in Nat
  /\ timestamp \in Nat
  /\ votesOf \in [Voter -> Nat]
  /\ params \in ParamsType
  /\ proposalCount \in 0..MaxProposals
  /\ proposals \in [ProposalId -> ProposalType]
  /\ receipts \in [ProposalId -> [Voter -> ReceiptType]]
  /\ runs \in [ProposalId -> [count : Nat, quorum : Nat, early : BOOLEAN]]

\* A proposal that is executed was executed once, was proposed by somebody,
\* its vote is over, and the tally it still has is the majority and quorum
\* it was executed with: neither a later ballot nor a change of the quorum
\* or of the voting period can make the execution one the votes do not
\* bear out, although state() forgets, for a proposal that was queued, that
\* it was executed.
ExecutedWasApproved ==
  \A i \in ProposalId :
    LET p == proposals[i]
    IN /\ p.executed =>
            /\ i <= proposalCount
            /\ number > p.endBlock
            /\ p.forVotes > p.againstVotes
            /\ p.forVotes >= runs[i].quorum
       /\ runs[i].count = IF p.executed THEN 1 ELSE 0

\* No outcome is undone.  A cancelled proposal stays cancelled, and whether
\* it was executed is settled with it; an executed one stays executed, with
\* its tally and its ballots; and one that was executed without having been
\* queued is never queued any more, and can be cancelled after the fact only
\* while the quorum has been raised above the votes it won with.
OutcomeIsFinal ==
  [][\A i \in ProposalId :
       LET p == proposals[i]
           q == proposals'[i]
       IN /\ p.canceled => q.canceled /\ q.executed = p.executed
          /\ p.executed =>
               /\ q.executed
               /\ q.forVotes = p.forVotes
               /\ q.againstVotes = p.againstVotes
               /\ receipts'[i] = receipts[i]
          /\ p.executed /\ ~p.queued =>
               /\ ~q.queued
               /\ q.canceled # p.canceled => p.forVotes < params.quorumVotes]_governorVars

\* A proposal that was queued is executed only when its delay is over.
DelayHonoured == \A i \in ProposalId : ~runs[i].early
=============================================================================
