--------------------------- MODULE Treasury_proofs ---------------------------
(***************************************************************************)
(* What the treasury guarantees for every number of signers the            *)
(* constructor allows, and of transactions.                                *)
(*                                                                         *)
(* That a majority who knew the content stands behind every execution does *)
(* not follow from the count alone, which is one number beside a set.      *)
(* CountInv says how the two differ, and InformedInv that whoever has      *)
(* confirmed and was not early is informed.                                *)
(*                                                                         *)
(* The account of the ether needs UnsubmittedIsBlank as well: an index can *)
(* be executed before its transaction is submitted, and pays nothing.      *)
(***************************************************************************)
EXTENDS Treasury, FiniteSums

CountInv == CountMissesEarlyConfirmations

InformedInv ==
  \A i \in TxIndex : i < nonce => confirmations[i] \ early[i] \subseteq informed[i]

TreasuryInv ==
  /\ TreasuryTypeOK
  /\ CountInv
  /\ InformedInv
  /\ ExecutedByInformedMajority

-----------------------------------------------------------------------------
(* Sets of signers.                                                        *)

\* Sets of signers are finite.
LEMMA SignersFinite ==
  ASSUME NEW S \in SUBSET Signer
  PROVE  IsFiniteSet(S) /\ Cardinality(S) \in Nat
  BY TreasuryAssumption, FS_Subset, FS_CardinalityType

\* A new confirmation adds one to the set, a withdrawn one takes one off.
LEMMA OneSigner ==
  ASSUME NEW S \in SUBSET Signer, NEW s \in Signer
  PROVE  /\ s \notin S => Cardinality(S \cup {s}) = Cardinality(S) + 1
         /\ s \in S => Cardinality(S \ {s}) = Cardinality(S) - 1
         /\ Cardinality(S \cup {s}) = Cardinality(S \ {s}) + 1
<1>1. IsFiniteSet(S) /\ IsFiniteSet(S \ {s}) /\ S \ {s} \in SUBSET Signer
  BY SignersFinite
<1>2. s \notin S => Cardinality(S \cup {s}) = Cardinality(S) + 1
  BY <1>1, FS_AddElement
<1>3. s \in S => Cardinality(S \ {s}) = Cardinality(S) - 1
  BY <1>1, FS_RemoveElement
<1>4. Cardinality((S \ {s}) \cup {s}) = Cardinality(S \ {s}) + 1
  BY <1>1, FS_AddElement
<1>5. (S \ {s}) \cup {s} = S \cup {s}
  OBVIOUS
<1> QED
  BY <1>2, <1>3, <1>4, <1>5

\* Taking the members of T from S leaves at least |S| - |T|, and a set that
\* has what is left is no smaller.
LEMMA WithoutEarly ==
  ASSUME NEW S \in SUBSET Signer, NEW T \in SUBSET Signer, NEW I \in SUBSET Signer,
         S \ T \subseteq I
  PROVE  Cardinality(S) <= Cardinality(I) + Cardinality(T)
<1>1. /\ IsFiniteSet(S) /\ IsFiniteSet(T) /\ IsFiniteSet(I)
      /\ Cardinality(S) \in Nat /\ Cardinality(T) \in Nat /\ Cardinality(I) \in Nat
  BY SignersFinite
<1>2. Cardinality(S \ T) = Cardinality(S) - Cardinality(S \cap T)
  BY <1>1, FS_Difference
<1>3. Cardinality(S \cap T) \in Nat /\ Cardinality(S \cap T) <= Cardinality(T)
  <2>1. S \cap T \in SUBSET T /\ S \cap T \in SUBSET Signer
    OBVIOUS
  <2> QED
    BY <1>1, <2>1, FS_Subset, SignersFinite
<1>4. Cardinality(S \ T) <= Cardinality(I)
  BY <1>1, FS_Subset
<1> QED
  BY <1>1, <1>2, <1>3, <1>4

-----------------------------------------------------------------------------
(* Every call keeps the invariant.                                         *)

LEMMA SubmitKeeps ==
  ASSUME TreasuryInv, NEW s \in Signer, NEW to \in Target, NEW value \in Value,
         SubmitTransaction(s, to, value)
  PROVE  TreasuryInv'
<1> USE DEF TreasuryInv, TxIndex
<1>1. /\ nonce \in TxIndex /\ nonce < MaxTx /\ nonce' = nonce + 1
      /\ UNCHANGED <<balance, received, approvers>>
  BY DEF SubmitTransaction, TreasuryTypeOK
<1>2. /\ confirmations'[nonce] = confirmations[nonce] \cup {s}
      /\ confirmationCount'[nonce] = 1
      /\ early'[nonce] = confirmations[nonce] \ {s}
      /\ informed'[nonce] = {s}
      /\ ~transactions'[nonce].executed
      /\ \A i \in TxIndex \ {nonce} :
           /\ confirmations'[i] = confirmations[i]
           /\ confirmationCount'[i] = confirmationCount[i]
           /\ early'[i] = early[i] /\ informed'[i] = informed[i]
           /\ transactions'[i] = transactions[i]
  BY <1>1 DEF SubmitTransaction, TreasuryTypeOK, InitialCount
<1>3. \A i \in TxIndex : i < nonce' <=> i < nonce \/ i = nonce
  BY <1>1, TreasuryAssumption
<1>4. TreasuryTypeOK'
  <2>1. [to |-> to, value |-> value, executed |-> FALSE] \in TransactionType
    BY DEF TransactionType
  <2>2. nonce' \in TxIndex
    BY <1>1, TreasuryAssumption
  <2> QED
    BY <1>1, <2>1, <2>2 DEF SubmitTransaction, TreasuryTypeOK, InitialCount
<1>5. CountInv'
  <2>1. confirmations[nonce] \in SUBSET Signer
    BY <1>1 DEF TreasuryTypeOK
  <2>2. Cardinality(confirmations'[nonce]) =
          confirmationCount'[nonce] + Cardinality(early'[nonce])
    <3>1. Cardinality(confirmations[nonce] \cup {s}) =
            Cardinality(confirmations[nonce] \ {s}) + 1
      BY <2>1, OneSigner
    <3>2. confirmations[nonce] \ {s} \in SUBSET Signer
      BY <2>1
    <3>3. Cardinality(confirmations[nonce] \ {s}) \in Nat
      BY <3>2, SignersFinite
    <3> QED
      BY <1>2, <3>1, <3>3
  <2> QED
    BY <1>1, <1>2, <1>3, <2>2 DEF CountInv, CountMissesEarlyConfirmations
<1>6. InformedInv'
  BY <1>2, <1>3 DEF InformedInv
<1>7. ExecutedByInformedMajority'
  BY <1>1, <1>2, <1>3 DEF ExecutedByInformedMajority
<1> QED
  BY <1>4, <1>5, <1>6, <1>7

LEMMA ConfirmKeeps ==
  ASSUME TreasuryInv, NEW s \in Signer, NEW k \in TxIndex, ConfirmTransaction(s, k)
  PROVE  TreasuryInv'
<1> USE DEF TreasuryInv
<1>1. /\ s \notin confirmations[k] /\ ~transactions[k].executed
      /\ confirmations'[k] = confirmations[k] \cup {s}
      /\ confirmationCount'[k] = confirmationCount[k] + 1
      /\ k < nonce => informed'[k] = informed[k] \cup {s}
      /\ \A i \in TxIndex \ {k} :
           /\ confirmations'[i] = confirmations[i]
           /\ confirmationCount'[i] = confirmationCount[i]
           /\ informed'[i] = informed[i]
      /\ UNCHANGED <<nonce, transactions, balance, received, early, approvers>>
  BY DEF ConfirmTransaction, IsOpen, TreasuryTypeOK
<1>2. TreasuryTypeOK'
  BY DEF ConfirmTransaction, TreasuryTypeOK
<1>3. CountInv'
  <2>1. confirmations[k] \in SUBSET Signer /\ confirmationCount[k] \in Nat
    BY DEF TreasuryTypeOK
  <2>2. Cardinality(confirmations'[k]) = Cardinality(confirmations[k]) + 1
    BY <1>1, <2>1, OneSigner
  <2>3. early[k] \in SUBSET Signer
    BY DEF TreasuryTypeOK
  <2>4. Cardinality(early[k]) \in Nat
    BY <2>3, SignersFinite
  <2>5. Cardinality(confirmations[k]) =
          confirmationCount[k] + (IF k < nonce THEN Cardinality(early[k]) ELSE 0)
    BY DEF CountInv, CountMissesEarlyConfirmations
  <2>6. Cardinality(confirmations'[k]) =
          confirmationCount'[k] + (IF k < nonce THEN Cardinality(early[k]) ELSE 0)
    BY <1>1, <2>1, <2>2, <2>4, <2>5
  <2> QED
    BY <1>1, <2>6 DEF CountInv, CountMissesEarlyConfirmations
<1>4. InformedInv'
  BY <1>1 DEF InformedInv
<1>5. ExecutedByInformedMajority'
  BY <1>1 DEF ExecutedByInformedMajority
<1> QED
  BY <1>2, <1>3, <1>4, <1>5

LEMMA RevokeKeeps ==
  ASSUME TreasuryInv, NEW s \in Signer, NEW k \in TxIndex, RevokeConfirmation(s, k)
  PROVE  TreasuryInv'
<1> USE DEF TreasuryInv
<1>1. /\ s \in confirmations[k] /\ ~transactions[k].executed
      /\ confirmationCount[k] > 0
      /\ confirmations'[k] = confirmations[k] \ {s}
      /\ confirmationCount'[k] = confirmationCount[k] - 1
      /\ informed'[k] = informed[k] \ {s}
      /\ \A i \in TxIndex \ {k} :
           /\ confirmations'[i] = confirmations[i]
           /\ confirmationCount'[i] = confirmationCount[i]
           /\ informed'[i] = informed[i]
      /\ UNCHANGED <<nonce, transactions, balance, received, early, approvers>>
  BY DEF RevokeConfirmation, IsOpen, CanDecrement, TreasuryTypeOK
<1>2. TreasuryTypeOK'
  BY DEF RevokeConfirmation, CanDecrement, TreasuryTypeOK
<1>3. CountInv'
  <2>1. confirmations[k] \in SUBSET Signer /\ confirmationCount[k] \in Nat
    BY DEF TreasuryTypeOK
  <2>2. Cardinality(confirmations'[k]) = Cardinality(confirmations[k]) - 1
    BY <1>1, <2>1, OneSigner
  <2>3. early[k] \in SUBSET Signer
    BY DEF TreasuryTypeOK
  <2>4. Cardinality(early[k]) \in Nat
    BY <2>3, SignersFinite
  <2>5. Cardinality(confirmations[k]) =
          confirmationCount[k] + (IF k < nonce THEN Cardinality(early[k]) ELSE 0)
    BY DEF CountInv, CountMissesEarlyConfirmations
  <2>6. Cardinality(confirmations'[k]) =
          confirmationCount'[k] + (IF k < nonce THEN Cardinality(early[k]) ELSE 0)
    BY <1>1, <2>1, <2>2, <2>4, <2>5
  <2> QED
    BY <1>1, <2>6 DEF CountInv, CountMissesEarlyConfirmations
<1>4. InformedInv'
  BY <1>1 DEF InformedInv
<1>5. ExecutedByInformedMajority'
  BY <1>1 DEF ExecutedByInformedMajority
<1> QED
  BY <1>2, <1>3, <1>4, <1>5

LEMMA ExecuteKeeps ==
  ASSUME TreasuryInv, NEW k \in TxIndex, ExecuteTransaction(k)
  PROVE  TreasuryInv'
<1> USE DEF TreasuryInv
<1>1. /\ confirmationCount[k] >= requiredConfirmations
      /\ approvers'[k] = informed[k]
      /\ \A i \in TxIndex \ {k} :
           transactions'[i] = transactions[i] /\ approvers'[i] = approvers[i]
      /\ UNCHANGED <<nonce, confirmations, confirmationCount, received, early, informed>>
  BY DEF ExecuteTransaction, TreasuryTypeOK
<1>2. TreasuryTypeOK'
  <2>1. transactions[k] \in TransactionType /\ transactions[k].value \in Nat
    <3>1. transactions[k] \in TransactionType
      BY DEF TreasuryTypeOK
    <3>2. transactions[k].value \in Value \cup {0}
      BY <3>1 DEF TransactionType
    <3>3. Value \subseteq Nat
      BY TreasuryAssumption
    <3>4. Value \cup {0} \subseteq Nat
      BY <3>3
    <3> QED
      BY <3>1, <3>2, <3>4, Zenon
  <2>2. Marked(transactions[k]) \in TransactionType
    BY <2>1 DEF Marked, TransactionType
  <2>3. balance' \in Nat
    <3>1. balance \in Nat /\ transactions[k].value <= balance
      BY DEF ExecuteTransaction, TreasuryTypeOK
    <3>2. balance' = balance - Outlay(transactions[k])
      BY DEF ExecuteTransaction
    <3>3. Outlay(transactions[k]) \in {0, transactions[k].value}
      BY DEF Outlay
    <3> QED
      BY <2>1, <3>1, <3>2, <3>3
  <2>4. transactions' \in [TxIndex -> TransactionType]
    <3>1. transactions' = [transactions EXCEPT ![k] = Marked(transactions[k])]
      BY DEF ExecuteTransaction
    <3> QED
      BY <2>2, <3>1 DEF TreasuryTypeOK
  <2>5. approvers' \in [TxIndex -> SUBSET Signer]
    BY DEF ExecuteTransaction, TreasuryTypeOK
  <2> QED
    BY <1>1, <2>3, <2>4, <2>5 DEF TreasuryTypeOK
<1>3. CountInv'
  BY <1>1 DEF CountInv, CountMissesEarlyConfirmations
<1>4. InformedInv'
  BY <1>1 DEF InformedInv
<1>5. ASSUME k < nonce
      PROVE  Cardinality(informed[k]) >= requiredConfirmations
  <2>1. /\ confirmations[k] \in SUBSET Signer /\ early[k] \in SUBSET Signer
        /\ informed[k] \in SUBSET Signer /\ confirmationCount[k] \in Nat
    BY DEF TreasuryTypeOK
  <2>2. /\ Cardinality(early[k]) \in Nat /\ Cardinality(informed[k]) \in Nat
    BY <2>1, SignersFinite
  <2>3. Cardinality(confirmations[k]) <= Cardinality(informed[k]) + Cardinality(early[k])
    BY <1>5, <2>1, WithoutEarly DEF InformedInv
  <2>4. Cardinality(confirmations[k]) = confirmationCount[k] + Cardinality(early[k])
    BY <1>5 DEF CountInv, CountMissesEarlyConfirmations
  <2>5. requiredConfirmations \in Nat
    BY TreasuryAssumption, SignersFinite
  <2> QED
    BY <1>1, <2>1, <2>2, <2>3, <2>4, <2>5
<1>6. ExecutedByInformedMajority'
  BY <1>1, <1>5 DEF ExecutedByInformedMajority
<1> QED
  BY <1>2, <1>3, <1>4, <1>6

LEMMA ReceiveKeeps ==
  ASSUME TreasuryInv, NEW amount \in Value, Receive(amount)
  PROVE  TreasuryInv'
<1>1. UNCHANGED <<nonce, transactions, confirmations, confirmationCount, early, informed,
                  approvers>>
  BY DEF Receive
<1>2. balance' \in Nat /\ received' \in Nat
  BY TreasuryAssumption DEF Receive, TreasuryInv, TreasuryTypeOK
<1> QED
  BY <1>1, <1>2 DEF TreasuryInv, TreasuryTypeOK, CountInv, CountMissesEarlyConfirmations,
                    InformedInv, ExecutedByInformedMajority

LEMMA StepKeeps ==
  ASSUME TreasuryInv, [TreasuryNext]_treasuryVars
  PROVE  TreasuryInv'
<1>1. CASE \E s \in Signer, to \in Target, value \in Value :
             SubmitTransaction(s, to, value)
  BY <1>1, SubmitKeeps
<1>2. CASE \E s \in Signer, i \in TxIndex : ConfirmTransaction(s, i)
  BY <1>2, ConfirmKeeps
<1>3. CASE \E s \in Signer, i \in TxIndex : RevokeConfirmation(s, i)
  BY <1>3, RevokeKeeps
<1>4. CASE \E i \in TxIndex : ExecuteTransaction(i)
  BY <1>4, ExecuteKeeps
<1>5. CASE \E amount \in Value : Receive(amount)
  BY <1>5, ReceiveKeeps
<1>6. CASE UNCHANGED treasuryVars
  BY <1>6 DEF treasuryVars, history, TreasuryInv, TreasuryTypeOK, CountInv,
              CountMissesEarlyConfirmations, InformedInv, ExecutedByInformedMajority
<1> QED
  BY <1>1, <1>2, <1>3, <1>4, <1>5, <1>6 DEF TreasuryNext

LEMMA InitInv == TreasuryInit => TreasuryInv
<1> SUFFICES ASSUME TreasuryInit PROVE TreasuryInv
  OBVIOUS
<1>1. TreasuryTypeOK
  BY TreasuryAssumption
  DEF TreasuryInit, TreasuryTypeOK, TransactionType, Blank, TxIndex
<1>2. CountInv
  <2>1. Cardinality({}) = 0
    BY FS_EmptySet
  <2> QED
    BY <2>1, TreasuryAssumption
    DEF TreasuryInit, CountInv, CountMissesEarlyConfirmations, TxIndex
<1>3. InformedInv /\ ExecutedByInformedMajority
  BY DEF TreasuryInit, InformedInv, ExecutedByInformedMajority, Blank
<1> QED
  BY <1>1, <1>2, <1>3 DEF TreasuryInv

-----------------------------------------------------------------------------
(* The ether.                                                              *)

\* An index that is still to come carries nothing, even if it was executed:
\* its storage slot is blank.
UnsubmittedIsBlank ==
  \A i \in TxIndex : i >= nonce => transactions[i].to = Zero /\ transactions[i].value = 0

FundsInv == UnsubmittedIsBlank /\ FundsFollowDecisions

\* Values are natural numbers, and so is what executions took with them.
LEMMA PaidType ==
  ASSUME TreasuryTypeOK
  PROVE  /\ IsFiniteSet(TxIndex)
         /\ \A i \in TxIndex :
              transactions[i] \in TransactionType /\ transactions[i].value \in Nat
         /\ Paid \in [TxIndex -> Int]
<1>1. IsFiniteSet(TxIndex)
  BY TreasuryAssumption, FS_Interval DEF TxIndex
<1>2. ASSUME NEW i \in TxIndex
      PROVE  transactions[i] \in TransactionType /\ transactions[i].value \in Nat
  <2>1. transactions[i] \in TransactionType
    BY DEF TreasuryTypeOK
  <2>2. transactions[i].value \in Value \cup {0}
    BY <2>1 DEF TransactionType
  <2>3. Value \cup {0} \subseteq Nat
    BY TreasuryAssumption
  <2> QED
    BY <2>1, <2>2, <2>3, Zenon
<1>3. Paid \in [TxIndex -> Int]
  BY <1>2 DEF Paid, Outlay
<1> QED
  BY <1>1, <1>2, <1>3

\* A submission fills an index whose execution, if there was one, paid nothing.
LEMMA SubmitKeepsFunds ==
  ASSUME TreasuryTypeOK, FundsInv, NEW s \in Signer, NEW to \in Target,
         NEW value \in Value, SubmitTransaction(s, to, value)
  PROVE  FundsInv'
<1>1. /\ nonce \in TxIndex /\ nonce' = nonce + 1 /\ UNCHANGED <<balance, received>>
      /\ ~transactions'[nonce].executed
      /\ \A i \in TxIndex \ {nonce} : transactions'[i] = transactions[i]
  BY DEF SubmitTransaction, TreasuryTypeOK
<1>2. Outlay(transactions[nonce]) = 0
  BY <1>1 DEF FundsInv, UnsubmittedIsBlank, Outlay, TxIndex
<1>3. Paid' = Paid
  BY <1>1, <1>2 DEF Paid
<1>4. UnsubmittedIsBlank'
  BY <1>1 DEF FundsInv, UnsubmittedIsBlank, TxIndex
<1> QED
  BY <1>1, <1>3, <1>4 DEF FundsInv, FundsFollowDecisions

\* An execution takes its own outlay, which had not been taken before.
LEMMA ExecuteKeepsFunds ==
  ASSUME TreasuryTypeOK, TreasuryTypeOK', FundsInv, NEW k \in TxIndex,
         ExecuteTransaction(k)
  PROVE  FundsInv'
<1>1. /\ ~transactions[k].executed
      /\ balance' = balance - Outlay(transactions[k])
      /\ transactions'[k] = Marked(transactions[k])
      /\ \A i \in TxIndex \ {k} : transactions'[i] = transactions[i]
      /\ UNCHANGED <<nonce, received>>
  BY DEF ExecuteTransaction, IsOpen, TreasuryTypeOK
<1>2. /\ transactions'[k].to = transactions[k].to
      /\ transactions'[k].value = transactions[k].value
      /\ transactions'[k].executed
  BY <1>1, PaidType DEF Marked, TransactionType
<1>3. UnsubmittedIsBlank'
  BY <1>1, <1>2 DEF FundsInv, UnsubmittedIsBlank
<1>4. Paid[k] = 0 /\ Paid'[k] = Outlay(transactions[k])
  BY <1>1, <1>2 DEF Paid, Outlay
<1>5. \A i \in TxIndex \ {k} : Paid'[i] = Paid[i]
  BY <1>1 DEF Paid
<1>6. Paid \in [TxIndex -> Int] /\ Paid' \in [TxIndex -> Int] /\ IsFiniteSet(TxIndex)
  <2>1. IsFiniteSet(TxIndex)
    BY PaidType
  <2>2. \A i \in TxIndex : Paid'[i] = Paid[i] \/ Paid'[i] = Outlay(transactions[k])
    BY <1>4, <1>5
  <2>3. Outlay(transactions[k]) \in Int
    BY PaidType DEF Outlay
  <2>4. Paid \in [TxIndex -> Int]
    BY PaidType
  <2>5. Paid' \in [TxIndex -> Int]
    BY <2>2, <2>3, <2>4 DEF Paid
  <2> QED
    BY <2>1, <2>4, <2>5
<1>7. SumFunction(Paid') = SumFunction(Paid) - Paid[k] + Paid'[k]
  BY <1>5, <1>6, SumChanged
<1>8. SumFunction(Paid)' = SumFunction(Paid')
  OBVIOUS
<1>9. SumFunction(Paid) \in Int /\ Outlay(transactions[k]) \in Int
  BY <1>6, SumInt, PaidType DEF Outlay
<1>10. received - balance = SumFunction(Paid) /\ received \in Int /\ balance \in Int
  BY DEF FundsInv, FundsFollowDecisions, TreasuryTypeOK
<1>11. received' - balance' = SumFunction(Paid)'
  BY <1>1, <1>4, <1>7, <1>8, <1>9, <1>10
<1> QED
  BY <1>3, <1>11 DEF FundsInv, FundsFollowDecisions

-----------------------------------------------------------------------------

\* The inductive invariant holds in every state of the treasury.
THEOREM TreasuryInvariant == TreasurySpec => []TreasuryInv
<1>1. TreasuryInv /\ [TreasuryNext]_treasuryVars => TreasuryInv'
  BY StepKeeps
<1> QED
  BY InitInv, <1>1, PTL DEF TreasurySpec

\* The fields keep their types, and no count falls below zero.
THEOREM TreasuryTypeCorrect == TreasurySpec => []TreasuryTypeOK
<1>1. TreasuryInv => TreasuryTypeOK
  BY DEF TreasuryInv
<1> QED
  BY <1>1, TreasuryInvariant, PTL

\* confirmationCount is the number of confirmations, less those that were set
\* before the transaction was submitted.
THEOREM CountAlwaysMissesEarly == TreasurySpec => []CountMissesEarlyConfirmations
<1>1. TreasuryInv => CountMissesEarlyConfirmations
  BY DEF TreasuryInv, CountInv
<1> QED
  BY <1>1, TreasuryInvariant, PTL

\* Behind every executed transaction stand the required number of signers
\* who confirmed it knowing its content.
THEOREM AlwaysExecutedByInformedMajority == TreasurySpec => []ExecutedByInformedMajority
<1>1. TreasuryInv => ExecutedByInformedMajority
  BY DEF TreasuryInv
<1> QED
  BY <1>1, TreasuryInvariant, PTL

\* No call changes a transaction that was submitted and executed, or its
\* confirmations.
THEOREM ExecutedAlwaysFinal == TreasurySpec => ExecutedIsFinal
<1> DEFINE Final ==
      \A i \in TxIndex :
        i < nonce /\ transactions[i].executed =>
          /\ transactions'[i] = transactions[i]
          /\ confirmations'[i] = confirmations[i]
          /\ confirmationCount'[i] = confirmationCount[i]
<1>1. TreasuryInv /\ [TreasuryNext]_treasuryVars => [Final]_treasuryVars
  <2> SUFFICES ASSUME TreasuryInv, TreasuryNext, NEW i \in TxIndex,
                      i < nonce, transactions[i].executed
               PROVE  /\ transactions'[i] = transactions[i]
                      /\ confirmations'[i] = confirmations[i]
                      /\ confirmationCount'[i] = confirmationCount[i]
    OBVIOUS
  <2>1. nonce \in Nat
    BY DEF TreasuryInv, TreasuryTypeOK, TxIndex
  <2>2. CASE \E s \in Signer, to \in Target, value \in Value :
               SubmitTransaction(s, to, value)
    BY <2>1, <2>2 DEF SubmitTransaction, TreasuryInv, TreasuryTypeOK
  <2>3. CASE \E s \in Signer, k \in TxIndex : ConfirmTransaction(s, k)
    BY <2>3 DEF ConfirmTransaction, IsOpen, TreasuryInv, TreasuryTypeOK
  <2>4. CASE \E s \in Signer, k \in TxIndex : RevokeConfirmation(s, k)
    BY <2>4 DEF RevokeConfirmation, IsOpen, TreasuryInv, TreasuryTypeOK
  <2>5. CASE \E k \in TxIndex : ExecuteTransaction(k)
    BY <2>5 DEF ExecuteTransaction, IsOpen, TreasuryInv, TreasuryTypeOK
  <2>6. CASE \E amount \in Value : Receive(amount)
    BY <2>6 DEF Receive
  <2> QED
    BY <2>2, <2>3, <2>4, <2>5, <2>6 DEF TreasuryNext
<1> QED
  BY <1>1, TreasuryInvariant, PTL DEF TreasurySpec, ExecutedIsFinal

\* The ether that has left the treasury is what its executed transactions
\* carried, each counted once, whatever was confirmed, withdrawn or executed
\* before its time.
THEOREM FundsAlwaysFollowDecisions == TreasurySpec => []FundsFollowDecisions
<1>1. TreasuryInit => FundsInv
  <2> SUFFICES ASSUME TreasuryInit PROVE FundsInv
    OBVIOUS
  <2>1. UnsubmittedIsBlank
    BY DEF TreasuryInit, UnsubmittedIsBlank, Blank
  <2>2. Paid \in [TxIndex -> {0}]
    BY DEF TreasuryInit, Paid, Blank
  <2>3. IsFiniteSet(TxIndex)
    BY TreasuryAssumption, FS_Interval DEF TxIndex
  <2>4. SumFunction(Paid) = 0
    BY <2>2, <2>3, SumZero
  <2> QED
    BY <2>1, <2>4 DEF TreasuryInit, FundsInv, FundsFollowDecisions
<1>2. TreasuryInv /\ FundsInv /\ [TreasuryNext]_treasuryVars => FundsInv'
  <2> SUFFICES ASSUME TreasuryInv, FundsInv, [TreasuryNext]_treasuryVars
               PROVE  FundsInv'
    OBVIOUS
  <2>1. TreasuryTypeOK /\ TreasuryTypeOK'
    BY StepKeeps DEF TreasuryInv
  <2>2. CASE \E s \in Signer, to \in Target, value \in Value :
               SubmitTransaction(s, to, value)
    BY <2>1, <2>2, SubmitKeepsFunds
  <2>3. CASE \E k \in TxIndex : ExecuteTransaction(k)
    BY <2>1, <2>3, ExecuteKeepsFunds
  <2>4. CASE UNCHANGED <<nonce, transactions, balance, received>>
    BY <2>4 DEF FundsInv, UnsubmittedIsBlank, FundsFollowDecisions, Paid
  <2>5. CASE \E amount \in Value : Receive(amount)
    <3>1. PICK amount \in Value : Receive(amount)
      BY <2>5
    <3>2. /\ UNCHANGED <<nonce, transactions>>
          /\ balance' = balance + amount /\ received' = received + amount
          /\ amount \in Nat /\ balance \in Nat /\ received \in Nat
      BY <2>1, <3>1, TreasuryAssumption DEF Receive, TreasuryTypeOK
    <3>3. Paid' = Paid
      BY <3>2 DEF Paid
    <3>4. received' - balance' = received - balance
      BY <3>2
    <3> QED
      BY <3>2, <3>3, <3>4 DEF FundsInv, UnsubmittedIsBlank, FundsFollowDecisions
  <2>6. CASE \E s \in Signer, i \in TxIndex :
               ConfirmTransaction(s, i) \/ RevokeConfirmation(s, i)
    BY <2>4, <2>6 DEF ConfirmTransaction, RevokeConfirmation
  <2>7. CASE UNCHANGED treasuryVars
    BY <2>4, <2>7 DEF treasuryVars, history
  <2> QED
    BY <2>2, <2>3, <2>5, <2>6, <2>7 DEF TreasuryNext
<1>3. FundsInv => FundsFollowDecisions
  BY DEF FundsInv
<1> QED
  BY <1>1, <1>2, <1>3, TreasuryInvariant, PTL DEF TreasurySpec
-----------------------------------------------------------------------------
(* Transactions are executed once.                                         *)

Submitted == {i \in TxIndex : i < nonce /\ IsOpen(i)}
Executed == {i \in TxIndex : i < nonce /\ ~IsOpen(i)}

TransactionLedger ==
  INSTANCE PayOnce WITH Event <- TxIndex, open <- Submitted, paid <- Executed

\* A transaction is executed at most once and only after it was submitted: an
\* execution that comes before the submission is not one of the transaction
\* that takes the index later.  The treasury implements PayOnce.
THEOREM TransactionsExecutedOnce == TreasurySpec => TransactionLedger!Spec
<1>1. TreasuryInit => TransactionLedger!Init
  BY DEF TreasuryInit, TransactionLedger!Init, Submitted, Executed, TxIndex
<1>2. TreasuryInv /\ [TreasuryNext]_treasuryVars =>
        [TransactionLedger!Next]_<<Submitted, Executed>>
  <2> SUFFICES ASSUME TreasuryInv, [TreasuryNext]_treasuryVars
               PROVE  TransactionLedger!Next \/ UNCHANGED <<Submitted, Executed>>
    OBVIOUS
  <2>1. nonce \in TxIndex /\ nonce \in Nat /\ \A i \in TxIndex : i \in Nat
    BY TreasuryAssumption DEF TreasuryInv, TreasuryTypeOK, TxIndex
  <2>2. ASSUME UNCHANGED <<nonce, transactions>>
        PROVE  UNCHANGED <<Submitted, Executed>>
    BY <2>2 DEF Submitted, Executed, IsOpen
  <2>3. ASSUME NEW s \in Signer, NEW to \in Target, NEW value \in Value,
               SubmitTransaction(s, to, value)
        PROVE  TransactionLedger!Next
    <3>1. /\ nonce' = nonce + 1
          /\ ~transactions'[nonce].executed
          /\ \A i \in TxIndex \ {nonce} : transactions'[i] = transactions[i]
      BY <2>1, <2>3 DEF SubmitTransaction, TreasuryInv, TreasuryTypeOK
    <3>2. Submitted' = Submitted \cup {nonce} /\ Executed' = Executed
      <4>1. \A i \in TxIndex : i < nonce' <=> i < nonce \/ i = nonce
        BY <2>1, <3>1
      <4>2. ~(nonce < nonce) /\ nonce \in TxIndex
        BY <2>1
      <4>3. /\ ~transactions'[nonce].executed
            /\ \A i \in TxIndex : i # nonce => transactions'[i] = transactions[i]
        BY <3>1
      <4>4. Submitted' = Submitted \cup {nonce}
        BY <4>1, <4>2, <4>3, Zenon DEF Submitted, IsOpen
      <4>5. Executed' = Executed
        BY <4>1, <4>2, <4>3, Zenon DEF Executed, IsOpen
      <4> QED
        BY <4>4, <4>5
    <3>3. nonce \notin Submitted \cup Executed
      BY <2>1 DEF Submitted, Executed
    <3> QED
      BY <2>1, <3>2, <3>3 DEF TransactionLedger!Next, TransactionLedger!Open
  <2>4. ASSUME NEW k \in TxIndex, ExecuteTransaction(k)
        PROVE  TransactionLedger!Next \/ UNCHANGED <<Submitted, Executed>>
    <3>1. /\ ~transactions[k].executed /\ transactions'[k].executed /\ UNCHANGED nonce
          /\ \A i \in TxIndex \ {k} : transactions'[i] = transactions[i]
      BY <2>4 DEF ExecuteTransaction, IsOpen, Marked, TreasuryInv, TreasuryTypeOK,
                  TransactionType
    <3>2. CASE k < nonce
      <4>1. k \in Submitted /\ Submitted' = Submitted \ {k} /\ Executed' = Executed \cup {k}
        BY <3>1, <3>2 DEF Submitted, Executed, IsOpen
      <4> QED
        BY <4>1 DEF TransactionLedger!Next, TransactionLedger!Pay
    <3>3. CASE ~(k < nonce)
      BY <3>1, <3>3 DEF Submitted, Executed, IsOpen
    <3> QED
      BY <3>2, <3>3
  <2>5. CASE \/ UNCHANGED treasuryVars
             \/ \E amount \in Value : Receive(amount)
             \/ \E s \in Signer, i \in TxIndex :
                  ConfirmTransaction(s, i) \/ RevokeConfirmation(s, i)
    <3>1. UNCHANGED <<nonce, transactions>>
      BY <2>5 DEF treasuryVars, Receive, ConfirmTransaction, RevokeConfirmation
    <3> QED
      BY <2>2, <3>1
  <2> QED
    BY <2>3, <2>4, <2>5 DEF TreasuryNext
<1> QED
  BY <1>1, <1>2, TreasuryInvariant, PTL DEF TreasurySpec, TransactionLedger!Spec
=============================================================================
