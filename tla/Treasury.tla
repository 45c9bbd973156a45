-------------------------------- MODULE Treasury -----------------------------
(***************************************************************************)
(* The multi-signature treasury of contracts/treasury/Treasury.sol.        *)
(*                                                                         *)
(* Signers submit transactions, confirm them and take confirmations back;  *)
(* anybody may execute one that enough signers confirmed.  A call is       *)
(* atomic: one that reverts changes nothing.  The call that a transaction  *)
(* makes may come back to confirmTransaction() and revokeConfirmation(),   *)
(* which are not nonReentrant, but only for transactions not executed; the *)
(* effect is that of the same calls made afterwards.                       *)
(*                                                                         *)
(* Neither confirmTransaction() nor executeTransaction() checks that a     *)
(* transaction was submitted: an index that is still to come has the zero  *)
(* fields of its storage slot, and can be confirmed and even executed.     *)
(*                                                                         *)
(* AnyCount, AnyTransaction, Unmarked and OneMore are plausible wrong      *)
(* versions of the operator that follows each of them; nothing else refers *)
(* to them.                                                                *)
(***************************************************************************)
EXTENDS Integers, FiniteSets, Functions

CONSTANTS
  Signer,                 \* the constructor's _signers
  requiredConfirmations,  \* the constructor's _requiredConfirmations
  Target,                 \* addresses a transaction may call
  Self,                   \* the treasury's own address
  Zero,                   \* address(0)
  Value,                  \* amounts a transaction may carry
  MaxTx,                  \* bound: transactions submitted
  MaxReceived             \* bound: ether received

\* What the constructor requires, and what addresses are.
ASSUME TreasuryAssumption ==
  /\ IsFiniteSet(Signer)
  /\ Cardinality(Signer) \in 3..25
  /\ requiredConfirmations \in (Cardinality(Signer) \div 2) + 1..Cardinality(Signer)
  /\ Self \in Target
  /\ Value \subseteq Nat
  /\ MaxTx \in Nat
  /\ MaxReceived \in Nat

TxIndex == 0..MaxTx

VARIABLES
  nonce,              \* the index of the next transaction
  transactions,       \* index -> [to, value, executed]
  confirmations,      \* index -> the signers whose confirmation is set
  confirmationCount,  \* index -> the count kept beside it
  balance,            \* the contract's ether
  received,           \* history: the ether received
  early,              \* history: the confirmations an index already had when
                      \*   it was submitted, the submitter's left out
  informed,           \* history: index -> the signers who confirmed the
                      \*   transaction after it was submitted
  approvers           \* history: index -> `informed' when it was executed

history == <<received, early, informed, approvers>>
treasuryVars ==
  <<nonce, transactions, confirmations, confirmationCount, balance, history>>

Blank == [to |-> Zero, value |-> 0, executed |-> FALSE]

TreasuryInit ==
  /\ nonce = 0
  /\ transactions = [i \in TxIndex |-> Blank]
  /\ confirmations = [i \in TxIndex |-> {}]
  /\ confirmationCount = [i \in TxIndex |-> 0]
  /\ balance = 0
  /\ received = 0
  /\ early = [i \in TxIndex |-> {}]
  /\ informed = [i \in TxIndex |-> {}]
  /\ approvers = [i \in TxIndex |-> {}]

AnyTransaction(i) == TRUE

IsOpen(i) == ~transactions[i].executed

\* The confirmations counted at submission: the submitter's alone, although
\* others may be set already.
OneMore(i) == confirmationCount[i] + 1

InitialCount(i) == 1

\* submitTransaction().
SubmitTransaction(s, to, value) ==
  /\ nonce < MaxTx
  /\ transactions' = [transactions EXCEPT ![nonce] =
                       [to |-> to, value |-> value, executed |-> FALSE]]
  /\ confirmations' = [confirmations EXCEPT ![nonce] = @ \cup {s}]
  /\ confirmationCount' = [confirmationCount EXCEPT ![nonce] = InitialCount(nonce)]
  /\ nonce' = nonce + 1
  /\ early' = [early EXCEPT ![nonce] = confirmations[nonce] \ {s}]
  /\ informed' = [informed EXCEPT ![nonce] = {s}]
  /\ UNCHANGED <<balance, received, approvers>>

\* confirmTransaction().
ConfirmTransaction(s, i) ==
  /\ s \notin confirmations[i]
  /\ IsOpen(i)
  /\ confirmations' = [confirmations EXCEPT ![i] = @ \cup {s}]
  /\ confirmationCount' = [confirmationCount EXCEPT ![i] = @ + 1]
  /\ informed' = IF i < nonce THEN [informed EXCEPT ![i] = @ \cup {s}] ELSE informed
  /\ UNCHANGED <<nonce, transactions, balance, received, early, approvers>>

\* A subtraction that reverts below zero.
AnyCount(n) == TRUE

CanDecrement(n) == n > 0

\* revokeConfirmation().
RevokeConfirmation(s, i) ==
  /\ s \in confirmations[i]
  /\ IsOpen(i)
  /\ CanDecrement(confirmationCount[i])
  /\ confirmations' = [confirmations EXCEPT ![i] = @ \ {s}]
  /\ confirmationCount' = [confirmationCount EXCEPT ![i] = @ - 1]
  /\ informed' = [informed EXCEPT ![i] = @ \ {s}]
  /\ UNCHANGED <<nonce, transactions, balance, received, early, approvers>>

\* A transaction once its call is made, and the ether it moved.
Unmarked(tx) == tx

Marked(tx) == [tx EXCEPT !.executed = TRUE]

Outlay(tx) == IF tx.to = Self THEN 0 ELSE tx.value

\* executeTransaction(), by anybody, when the call succeeds; a call that
\* fails reverts.  No call succeeds that the ether does not suffice for.
ExecuteTransaction(i) ==
  /\ IsOpen(i)
  /\ confirmationCount[i] >= requiredConfirmations
  /\ transactions[i].value <= balance
  /\ transactions' = [transactions EXCEPT ![i] = Marked(@)]
  /\ balance' = balance - Outlay(transactions[i])
  /\ approvers' = [approvers EXCEPT ![i] = informed[i]]
  /\ UNCHANGED <<nonce, confirmations, confirmationCount, received, early, informed>>

\* receive().
Receive(amount) ==
  /\ received + amount <= MaxReceived
  /\ balance' = balance + amount
  /\ received' = received + amount
  /\ UNCHANGED <<nonce, transactions, confirmations, confirmationCount, early,
                 informed, approvers>>

TreasuryNext ==
  \/ \E s \in Signer, to \in Target, value \in Value : SubmitTransaction(s, to, value)
  \/ \E s \in Signer, i \in TxIndex : ConfirmTransaction(s, i) \/ RevokeConfirmation(s, i)
  \/ \E i \in TxIndex : ExecuteTransaction(i)
  \/ \E amount \in Value : Receive(amount)

TreasurySpec == TreasuryInit /\ [][TreasuryNext]_treasuryVars

-----------------------------------------------------------------------------
(* Properties.                                                             *)

TransactionType == [to : Target \cup {Zero}, value : Value \cup {0}, executed : BOOLEAN]

\* The contract's fields keep their types; the counts, which are unsigned,
\* never fall below zero.
TreasuryTypeOK ==
  /\ nonce \in TxIndex
  /\ transactions \in [TxIndex -> TransactionType]
  /\ confirmations \in [TxIndex -> SUBSET Signer]
  /\ confirmationCount \in [TxIndex -> Nat]
  /\ balance \in Nat
  /\ received \in Nat
  /\ early \in [TxIndex -> SUBSET Signer]
  /\ informed \in [TxIndex -> SUBSET Signer]
  /\ approvers \in [TxIndex -> SUBSET Signer]

\* The count beside the confirmations is exact before the submission, and
\* after it falls short by the confirmations that were there already: they
\* can be revoked and given again, but what they lack is never made up.
\* With enough of them the transaction can never be executed.
CountMissesEarlyConfirmations ==
  \A i \in TxIndex :
    Cardinality(confirmations[i]) =
      confirmationCount[i] + (IF i < nonce THEN Cardinality(early[i]) ELSE 0)

\* A transaction that was submitted and executed had been confirmed by the
\* required number of signers, each of them when its content was known, and
\* none of them had withdrawn: although an index can be confirmed before it
\* is submitted, the count that decides does not profit from it.
ExecutedByInformedMajority ==
  \A i \in TxIndex :
    i < nonce /\ transactions[i].executed =>
      Cardinality(approvers[i]) >= requiredConfirmations

\* What was submitted and executed is final: neither the transaction nor its
\* confirmations change again.
ExecutedIsFinal ==
  [][\A i \in TxIndex :
       i < nonce /\ transactions[i].executed =>
         /\ transactions'[i] = transactions[i]
         /\ confirmations'[i] = confirmations[i]
         /\ confirmationCount'[i] = confirmationCount[i]]_treasuryVars

\* What an executed transaction took with it.
Paid == [i \in TxIndex |->
           IF transactions[i].executed THEN Outlay(transactions[i]) ELSE 0]

\* The ether that is missing from what was received is what the executed
\* transactions carried, each of them once.
FundsFollowDecisions == received - balance = SumFunction(Paid)
=============================================================================
