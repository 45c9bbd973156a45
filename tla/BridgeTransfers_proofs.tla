------------------------ MODULE BridgeTransfers_proofs -----------------------
(***************************************************************************)
(* What the transfer flow guarantees for every number of transfers,        *)
(* callers, faults and restarts.                                           *)
(*                                                                         *)
(* The invariants of the runs are not inductive by themselves.  TableInv   *)
(* adds that the table is ahead of the map, DrawInv that an id about to be *)
(* inserted is in no map yet, and LockInv what holds while the write lock  *)
(* is taken: the only entry that may differ from its row is the one whose  *)
(* update is under way.                                                    *)
(*                                                                         *)
(* The table implements PayOnce in every configuration.                    *)
(***************************************************************************)
EXTENDS BridgeTransfers, TLAPS

Inserting(c) == starting[c].step = "insert"
Updating == completing.step = "update"

TableInv ==
  /\ completing # NoCall => db
  /\ db => DOMAIN transfers \subseteq DOMAIN db_transfers
  /\ db => \A c \in Caller : Inserting(c) => starting[c].id \in DOMAIN db_transfers
  /\ Updating => completing.id \in DOMAIN db_transfers
  /\ AcknowledgedIsDurable

DrawInv ==
  /\ \A c \in Caller : Inserting(c) => starting[c].id \notin DOMAIN transfers
  /\ \A c, d \in Caller :
       c # d /\ Inserting(c) /\ Inserting(d) => starting[c].id # starting[d].id
  /\ completing.step = "select" => completing.id \notin DOMAIN transfers

LockInv ==
  db /\ faults = 0 =>
    \A id \in DOMAIN transfers :
      IF Updating /\ completing.id = id
      THEN transfers[id] = Completed(completing.tx)
      ELSE transfers[id] # Pending => db_transfers[id] = transfers[id]

TransfersInv == TransfersTypeOK /\ TableInv /\ DrawInv /\ LockInv

-----------------------------------------------------------------------------
(* The data.                                                               *)

\* Writing one entry changes that entry alone.
LEMMA PutProperties ==
  ASSUME NEW f, NEW x, NEW v
  PROVE  /\ DOMAIN Put(f, x, v) = DOMAIN f \cup {x}
         /\ Put(f, x, v)[x] = v
         /\ \A y \in DOMAIN f \ {x} : Put(f, x, v)[y] = f[y]
  BY DEF Put

\* Adding a pending transfer keeps a map of transfers typed, and a map that
\* had none under that id keeps what it has.
LEMMA PutPending ==
  ASSUME NEW f, NEW S, NEW x \in S, DOMAIN f \subseteq S,
         f \in [DOMAIN f -> TransferType]
  PROVE  /\ DOMAIN Put(f, x, Pending) \subseteq S
         /\ Put(f, x, Pending) \in [DOMAIN Put(f, x, Pending) -> TransferType]
         /\ x \notin DOMAIN f => KeepsCompleted(f, Put(f, x, Pending))
  BY DEF Put, TransferType, KeepsCompleted

\* A completed transfer is not a pending one.
LEMMA CompletedType ==
  ASSUME NEW tx \in Tx
  PROVE  /\ Completed(tx) \in TransferType
         /\ Completed(tx) # Pending
         /\ Completed(tx).status = "Completed"
  BY DEF Completed, TransferType, Pending

\* An update touches its own row, if there is one, and completes it.
LEMMA UpdateProperties ==
  ASSUME NEW f, f \in [DOMAIN f -> TransferType], NEW x, NEW tx \in Tx
  PROVE  /\ DOMAIN UpdateRow(f, x, tx) = DOMAIN f
         /\ UpdateRow(f, x, tx) \in [DOMAIN f -> TransferType]
         /\ x \in DOMAIN f => UpdateRow(f, x, tx)[x] = Completed(tx)
         /\ \A y \in DOMAIN f \ {x} : UpdateRow(f, x, tx)[y] = f[y]
         /\ KeepsCompleted(f, UpdateRow(f, x, tx))
  BY CompletedType DEF UpdateRow, KeepsCompleted

\* A database call that succeeds was applied exactly if there is a pool, and
\* one that fails is counted.
LEMMA OutcomeProperties ==
  ASSUME NEW outcome \in Outcome, faults \in Nat, CountFault(outcome)
  PROVE  /\ outcome.ok => outcome.applied = db /\ faults' = faults
         /\ ~outcome.ok => faults' = faults + 1 /\ faults' # 0
         /\ faults' \in Nat
         /\ outcome.ok \in BOOLEAN
<1>1. \/ outcome = [ok |-> TRUE, applied |-> db]
      \/ \E a \in BOOLEAN : outcome = [ok |-> FALSE, applied |-> a]
  BY Zenon DEF Outcome
<1>2. CASE outcome = [ok |-> TRUE, applied |-> db]
  <2>1. outcome.ok = TRUE /\ outcome.applied = db
    BY <1>2
  <2> QED
    BY <2>1 DEF CountFault
<1>3. CASE \E a \in BOOLEAN : outcome = [ok |-> FALSE, applied |-> a]
  <2>1. outcome.ok = FALSE
    BY <1>3
  <2>2. faults' = faults + 1
    BY <2>1, Zenon DEF CountFault
  <2>3. faults' \in Nat /\ faults' # 0
    BY <2>2
  <2> QED
    BY <2>1, <2>2, <2>3, Zenon
<1> QED
  BY <1>1, <1>2, <1>3

-----------------------------------------------------------------------------
(* Every step keeps the invariant, and the completions.                    *)

Keeps ==
  /\ TransfersInv'
  /\ KeepsCompleted(db_transfers, db_transfers')
  /\ restarts' = restarts => KeepsCompleted(transfers, transfers')

LEMMA InitiatePersistKeeps ==
  ASSUME TransfersInv, NEW c \in Caller, NEW source, NEW dest, NEW id \in TransferId,
         InitiatePersist(c, source, dest, id)
  PROVE  Keeps
<1> USE DEF TransfersInv
<1>1. PICK outcome \in Outcome :
        /\ CountFault(outcome)
        /\ db_transfers' = IF outcome.applied
                           THEN Put(db_transfers, id, Pending) ELSE db_transfers
        /\ starting' = [starting EXCEPT ![c] =
                         IF outcome.ok THEN [step |-> "insert", id |-> id] ELSE NoCall]
  BY DEF InitiatePersist
<1>2. /\ id \notin issued /\ issued' = issued \cup {id}
      /\ UNCHANGED <<db, transfers, completing, acknowledged, restarts>>
  BY DEF InitiatePersist, FreshId
<1>3. /\ id \notin DOMAIN db_transfers /\ id \notin DOMAIN transfers
      /\ id \notin acknowledged
      /\ \A d \in Caller : Inserting(d) => starting[d].id # id
  BY <1>2 DEF TransfersTypeOK, StartType, NoCall, Inserting
<1>4. faults \in Nat /\ starting \in [Caller -> StartType]
  BY DEF TransfersTypeOK
<1>5. /\ outcome.ok => outcome.applied = db /\ faults' = faults
      /\ ~outcome.ok => faults' # 0
      /\ faults' \in Nat /\ outcome.ok \in BOOLEAN
  BY <1>1, <1>4, OutcomeProperties
<1>6. /\ DOMAIN db_transfers \subseteq DOMAIN db_transfers'
      /\ DOMAIN db_transfers' \subseteq issued'
      /\ db_transfers' \in [DOMAIN db_transfers' -> TransferType]
      /\ \A k \in DOMAIN db_transfers : db_transfers'[k] = db_transfers[k]
      /\ outcome.applied => id \in DOMAIN db_transfers'
      /\ KeepsCompleted(db_transfers, db_transfers')
  <2>1. DOMAIN db_transfers \subseteq issued' /\ id \in issued'
        /\ db_transfers \in [DOMAIN db_transfers -> TransferType]
    BY <1>2 DEF TransfersTypeOK
  <2>2. CASE outcome.applied
    <3>1. db_transfers' = Put(db_transfers, id, Pending)
      BY <1>1, <2>2
    <3>2. /\ DOMAIN db_transfers' = DOMAIN db_transfers \cup {id}
          /\ \A k \in DOMAIN db_transfers : db_transfers'[k] = db_transfers[k]
      BY <1>3, <3>1 DEF Put
    <3>3. /\ DOMAIN db_transfers' \subseteq issued'
          /\ db_transfers' \in [DOMAIN db_transfers' -> TransferType]
          /\ KeepsCompleted(db_transfers, db_transfers')
      BY <1>3, <2>1, <3>1, PutPending
    <3> QED
      BY <3>2, <3>3
  <2>3. CASE ~outcome.applied
    BY <1>1, <2>1, <2>3 DEF KeepsCompleted
  <2> QED
    BY <2>2, <2>3
<1>7. /\ starting' \in [Caller -> StartType']
      /\ Inserting(c)' => outcome.ok /\ starting'[c].id = id
      /\ \A d \in Caller \ {c} : starting'[d] = starting[d]
  BY <1>1, <1>2, <1>4 DEF StartType, Inserting, NoCall
<1>8. TransfersTypeOK'
  BY <1>2, <1>5, <1>6, <1>7 DEF TransfersTypeOK, CompleteType
<1>9. TableInv'
  <2>1. AcknowledgedIsDurable'
    BY <1>2, <1>6 DEF TableInv, AcknowledgedIsDurable
  <2>2. db' => \A d \in Caller : Inserting(d)' => starting'[d].id \in DOMAIN db_transfers'
    BY <1>2, <1>5, <1>6, <1>7 DEF TableInv, Inserting
  <2> QED
    BY <1>2, <1>6, <2>1, <2>2 DEF TableInv, Updating
<1>10. DrawInv'
  BY <1>2, <1>3, <1>7 DEF DrawInv, Inserting
<1>11. LockInv'
  <2>1. faults' = 0 => faults = 0
    BY <1>5
  <2>2. db => DOMAIN transfers \subseteq DOMAIN db_transfers
    BY DEF TableInv
  <2> QED
    BY <1>2, <1>6, <2>1, <2>2 DEF LockInv, Updating
<1> QED
  BY <1>2, <1>6, <1>8, <1>9, <1>10, <1>11 DEF Keeps, KeepsCompleted

LEMMA InitiateInsertKeeps ==
  ASSUME TransfersInv, NEW c \in Caller, InitiateInsert(c)
  PROVE  Keeps
<1> USE DEF TransfersInv
<1> DEFINE id == starting[c].id
<1>1. /\ Inserting(c) /\ LockIsFree
      /\ transfers' = Put(transfers, id, Pending)
      /\ starting' = [starting EXCEPT ![c] = NoCall]
      /\ UNCHANGED <<db, db_transfers, completing, issued, acknowledged, faults, restarts>>
  BY DEF InitiateInsert, Inserting, counters
<1>2. id \in issued /\ id \notin DOMAIN transfers
  BY <1>1 DEF TransfersTypeOK, StartType, NoCall, Inserting, DrawInv
<1>3. /\ DOMAIN transfers' = DOMAIN transfers \cup {id}
      /\ transfers'[id] = Pending
      /\ \A k \in DOMAIN transfers : transfers'[k] = transfers[k]
  BY <1>1, <1>2 DEF Put
<1>4. /\ DOMAIN transfers' \subseteq issued
      /\ transfers' \in [DOMAIN transfers' -> TransferType]
      /\ KeepsCompleted(transfers, transfers')
  <2> HIDE DEF id
  <2> QED
    BY <1>1, <1>2, PutPending DEF TransfersTypeOK
<1>5. /\ starting' \in [Caller -> StartType]
      /\ ~Inserting(c)'
      /\ \A d \in Caller \ {c} : starting'[d] = starting[d]
  BY <1>1 DEF TransfersTypeOK, StartType, Inserting, NoCall
<1>6. TransfersTypeOK'
  BY <1>1, <1>4, <1>5 DEF TransfersTypeOK, StartType, CompleteType
<1>7. TableInv'
  <2>1. db => id \in DOMAIN db_transfers
    BY <1>1 DEF TableInv
  <2> QED
    BY <1>1, <1>3, <1>5, <2>1 DEF TableInv, Inserting, Updating, AcknowledgedIsDurable
<1>8. DrawInv'
  BY <1>1, <1>3, <1>5 DEF DrawInv, Inserting, LockIsFree, NoCall
<1>9. LockInv'
  BY <1>1, <1>3 DEF LockInv, Updating, LockIsFree, NoCall
<1> QED
  BY <1>1, <1>4, <1>6, <1>7, <1>8, <1>9 DEF Keeps, KeepsCompleted

LEMMA CompleteKnownKeeps ==
  ASSUME TransfersInv, NEW id \in TransferId, NEW tx \in Tx, NEW signer \in Signer,
         CompleteKnown(id, tx, signer)
  PROVE  Keeps
<1> USE DEF TransfersInv
<1>1. /\ LockIsFree /\ id \in DOMAIN transfers
      /\ transfers' = [transfers EXCEPT ![id] = Completed(tx)]
      /\ completing' = IF db THEN [step |-> "update", id |-> id, tx |-> tx] ELSE NoCall
      /\ UNCHANGED <<db, db_transfers, starting, issued, acknowledged, faults, restarts>>
  BY DEF CompleteKnown, counters
<1>2. /\ DOMAIN transfers' = DOMAIN transfers
      /\ transfers' \in [DOMAIN transfers' -> TransferType]
      /\ transfers'[id] = Completed(tx)
      /\ \A k \in DOMAIN transfers \ {id} : transfers'[k] = transfers[k]
      /\ KeepsCompleted(transfers, transfers')
  BY <1>1, CompletedType DEF TransfersTypeOK, KeepsCompleted
<1>3. TransfersTypeOK'
  BY <1>1, <1>2 DEF TransfersTypeOK, StartType, CompleteType
<1>4. TableInv'
  BY <1>1, <1>2 DEF TableInv, Inserting, Updating, AcknowledgedIsDurable, NoCall
<1>5. DrawInv'
  BY <1>1, <1>2 DEF DrawInv, Inserting, NoCall
<1>6. LockInv'
  BY <1>1, <1>2 DEF LockInv, Updating, LockIsFree, NoCall
<1> QED
  BY <1>1, <1>2, <1>3, <1>4, <1>5, <1>6 DEF Keeps, KeepsCompleted

LEMMA CompleteUnknownKeeps ==
  ASSUME TransfersInv, NEW id \in TransferId, NEW tx \in Tx, NEW signer \in Signer,
         CompleteUnknown(id, tx, signer)
  PROVE  Keeps
<1> USE DEF TransfersInv
<1>1. /\ db /\ LockIsFree
      /\ completing' = [step |-> "select", id |-> id, tx |-> tx]
      /\ UNCHANGED <<db, transfers, db_transfers, starting, issued, acknowledged,
                     faults, restarts>>
  BY DEF CompleteUnknown, counters
<1>2. TransfersTypeOK'
  BY <1>1 DEF TransfersTypeOK, StartType, CompleteType
<1>3. id \notin DOMAIN transfers
  BY DEF CompleteUnknown
<1>4. TableInv'
  BY <1>1 DEF TableInv, Inserting, Updating, AcknowledgedIsDurable
<1>5. DrawInv'
  BY <1>1, <1>3 DEF DrawInv, Inserting
<1>6. LockInv'
  BY <1>1 DEF LockInv, Updating, LockIsFree, NoCall
<1> QED
  BY <1>1, <1>2, <1>4, <1>5, <1>6 DEF Keeps, KeepsCompleted

LEMMA CompleteSelectKeeps ==
  ASSUME TransfersInv, CompleteSelect
  PROVE  Keeps
<1> USE DEF TransfersInv
<1>1. PICK outcome \in Outcome :
        /\ CountFault(outcome)
        /\ completing' = IF outcome.ok /\ completing.id \in DOMAIN db_transfers
                         THEN [completing EXCEPT !.step = "update"] ELSE NoCall
  BY DEF CompleteSelect
<1>2. /\ completing.step = "select"
      /\ UNCHANGED <<db, transfers, db_transfers, starting, issued, acknowledged, restarts>>
  BY DEF CompleteSelect
<1>3. faults \in Nat
  BY DEF TransfersTypeOK
<1>4. /\ faults' \in Nat
      /\ faults' = 0 => faults = 0
  BY <1>1, <1>3, OutcomeProperties
<1>5. /\ completing \in [step : {"select", "update"}, id : TransferId, tx : Tx]
      /\ db
  BY <1>2 DEF TransfersTypeOK, CompleteType, NoCall, TableInv
<1>6. \/ completing' = NoCall
      \/ /\ completing.id \in DOMAIN db_transfers
         /\ completing' = [step |-> "update", id |-> completing.id, tx |-> completing.tx]
  BY <1>1, <1>5
<1>7. TransfersTypeOK'
  BY <1>2, <1>4, <1>5, <1>6 DEF TransfersTypeOK, StartType, CompleteType
<1>8. TableInv'
  BY <1>2, <1>5, <1>6 DEF TableInv, Inserting, Updating, AcknowledgedIsDurable, NoCall
<1>9. DrawInv'
  BY <1>2, <1>6 DEF DrawInv, Inserting, NoCall
<1>10. LockInv'
  BY <1>2, <1>4, <1>6 DEF LockInv, Updating, NoCall, DrawInv
<1> QED
  BY <1>2, <1>7, <1>8, <1>9, <1>10 DEF Keeps, KeepsCompleted

LEMMA CompleteUpdateKeeps ==
  ASSUME TransfersInv, CompleteUpdate
  PROVE  Keeps
<1> USE DEF TransfersInv
<1> DEFINE id == completing.id
           tx == completing.tx
<1>1. PICK outcome \in Outcome :
        /\ CountFault(outcome)
        /\ db_transfers' = IF outcome.applied
                           THEN UpdateRow(db_transfers, id, tx) ELSE db_transfers
        /\ acknowledged' = IF ReturnsOk(outcome)
                           THEN acknowledged \cup {id} ELSE acknowledged
  BY DEF CompleteUpdate
<1>2. /\ Updating /\ completing' = NoCall
      /\ UNCHANGED <<db, transfers, starting, issued, restarts>>
  BY DEF CompleteUpdate, Updating
<1>3. /\ id \in DOMAIN db_transfers /\ id \in issued /\ tx \in Tx /\ db
      /\ faults \in Nat
      /\ db_transfers \in [DOMAIN db_transfers -> TransferType]
  BY <1>2 DEF TableInv, Updating, TransfersTypeOK, CompleteType, NoCall
<1>4. /\ outcome.ok => outcome.applied = db /\ faults' = faults
      /\ ~outcome.ok => faults' # 0
      /\ faults' \in Nat
  BY <1>1, <1>3, OutcomeProperties
<1>5. /\ DOMAIN db_transfers' = DOMAIN db_transfers
      /\ db_transfers' \in [DOMAIN db_transfers -> TransferType]
      /\ \A k \in DOMAIN db_transfers \ {id} : db_transfers'[k] = db_transfers[k]
      /\ db_transfers'[id] \in {db_transfers[id], Completed(tx)}
      /\ outcome.applied => db_transfers'[id] = Completed(tx)
      /\ KeepsCompleted(db_transfers, db_transfers')
  <2> HIDE DEF id, tx
  <2>1. CASE outcome.applied
    <3>1. db_transfers' = UpdateRow(db_transfers, id, tx)
      BY <1>1, <2>1
    <3> QED
      BY <1>3, <3>1, UpdateProperties
  <2>2. CASE ~outcome.applied
    BY <1>1, <1>3, <2>2 DEF KeepsCompleted
  <2> QED
    BY <2>1, <2>2
<1>6. acknowledged' \in {acknowledged, acknowledged \cup {id}}
      /\ (acknowledged' # acknowledged => outcome.ok)
  BY <1>1 DEF ReturnsOk
<1> HIDE DEF id, tx
<1>7. TransfersTypeOK'
  BY <1>2, <1>3, <1>4, <1>5, <1>6 DEF TransfersTypeOK, StartType, CompleteType
<1>8. TableInv'
  <2>1. AcknowledgedIsDurable'
    <3> SUFFICES ASSUME NEW k \in acknowledged'
                 PROVE  k \in DOMAIN db_transfers' /\ db_transfers'[k].status = "Completed"
      BY DEF AcknowledgedIsDurable
    <3>1. Completed(tx).status = "Completed"
      BY <1>3, CompletedType
    <3>2. CASE k \in acknowledged
      BY <1>5, <3>1, <3>2 DEF TableInv, AcknowledgedIsDurable
    <3>3. CASE k \notin acknowledged
      BY <1>3, <1>4, <1>5, <1>6, <3>1, <3>3
    <3> QED
      BY <3>2, <3>3
  <2> QED
    BY <1>2, <1>5, <2>1 DEF TableInv, Inserting, Updating, NoCall
<1>9. DrawInv'
  BY <1>2 DEF DrawInv, Inserting, NoCall
<1>10. LockInv'
  <2> SUFFICES ASSUME faults' = 0, NEW k \in DOMAIN transfers, transfers[k] # Pending
               PROVE  db_transfers'[k] = transfers[k]
    BY <1>2 DEF LockInv, Updating, NoCall
  <2>1. k \in DOMAIN db_transfers /\ faults = 0 /\ outcome.applied
    BY <1>3, <1>4 DEF TableInv
  <2>2. CASE k = id
    BY <1>2, <1>3, <1>5, <2>1, <2>2 DEF LockInv, id, tx
  <2>3. CASE k # id
    BY <1>2, <1>3, <1>5, <2>1, <2>3 DEF LockInv, id
  <2> QED
    BY <2>2, <2>3
<1> QED
  BY <1>2, <1>5, <1>7, <1>8, <1>9, <1>10 DEF Keeps, KeepsCompleted

LEMMA RestartKeeps ==
  ASSUME TransfersInv, Restart
  PROVE  Keeps
<1> USE DEF TransfersInv
<1>1. /\ restarts' = restarts + 1 /\ completing' = NoCall
      /\ DOMAIN transfers' = {} /\ transfers' \in [DOMAIN transfers' -> TransferType]
      /\ starting' = [c \in Caller |-> NoCall]
      /\ UNCHANGED <<db_transfers, issued, acknowledged, faults>>
  BY DEF Restart, NoTransfers
<1>2. db' \in BOOLEAN
  <2>1. db' \in (IF Database THEN BOOLEAN ELSE {FALSE})
    BY DEF Restart
  <2> QED
    BY <2>1, Zenon
<1>3. TransfersTypeOK'
  BY <1>1, <1>2 DEF TransfersTypeOK, StartType, CompleteType
<1>4. TableInv' /\ DrawInv' /\ LockInv'
  BY <1>1 DEF TableInv, DrawInv, LockInv, Inserting, Updating, NoCall,
              AcknowledgedIsDurable
<1>5. restarts' # restarts
  BY <1>1 DEF TransfersTypeOK
<1> QED
  BY <1>1, <1>3, <1>4, <1>5 DEF Keeps, KeepsCompleted

LEMMA StutterKeeps ==
  ASSUME TransfersInv, UNCHANGED transferVars
  PROVE  Keeps
<1>1. UNCHANGED <<db, transfers, db_transfers, starting, completing, issued,
                  acknowledged, faults, restarts>>
  BY DEF transferVars, counters
<1>2. TransfersTypeOK' /\ TableInv' /\ DrawInv' /\ LockInv'
  BY <1>1 DEF TransfersInv, TransfersTypeOK, StartType, CompleteType, TableInv, DrawInv,
              LockInv, Inserting, Updating, AcknowledgedIsDurable
<1> QED
  BY <1>1, <1>2 DEF Keeps, KeepsCompleted, TransfersInv

\* Whatever the step, the invariant and the completions stay.
LEMMA StepKeeps ==
  ASSUME TransfersInv, [TransfersNext]_transferVars
  PROVE  Keeps
<1>1. CASE \E c \in Caller, source, dest \in ChainName, id \in TransferId :
             InitiatePersist(c, source, dest, id)
  BY <1>1, InitiatePersistKeeps
<1>2. CASE \E c \in Caller : InitiateInsert(c)
  BY <1>2, InitiateInsertKeeps
<1>3. CASE \E id \in TransferId, tx \in Tx, s \in Signer : CompleteKnown(id, tx, s)
  BY <1>3, CompleteKnownKeeps
<1>4. CASE \E id \in TransferId, tx \in Tx, s \in Signer : CompleteUnknown(id, tx, s)
  BY <1>4, CompleteUnknownKeeps
<1>5. CASE CompleteSelect
  BY <1>5, CompleteSelectKeeps
<1>6. CASE CompleteUpdate
  BY <1>6, CompleteUpdateKeeps
<1>7. CASE Restart
  BY <1>7, RestartKeeps
<1>8. CASE UNCHANGED transferVars
  BY <1>8, StutterKeeps
<1> QED
  BY <1>1, <1>2, <1>3, <1>4, <1>5, <1>6, <1>7, <1>8 DEF TransfersNext

LEMMA InitInv == TransfersInit => TransfersInv
<1> SUFFICES ASSUME TransfersInit PROVE TransfersInv
  OBVIOUS
<1>1. db \in BOOLEAN
  <2>1. db \in (IF Database THEN BOOLEAN ELSE {FALSE})
    BY DEF TransfersInit
  <2> QED
    BY <2>1, Zenon
<1>2. /\ DOMAIN transfers = {} /\ transfers \in [DOMAIN transfers -> TransferType]
      /\ DOMAIN db_transfers = {}
      /\ db_transfers \in [DOMAIN db_transfers -> TransferType]
      /\ starting = [c \in Caller |-> NoCall] /\ completing = NoCall
      /\ issued = {} /\ acknowledged = {} /\ faults = 0 /\ restarts = 0
  BY DEF TransfersInit, NoTransfers
<1>3. TransfersTypeOK
  BY <1>1, <1>2 DEF TransfersTypeOK, StartType, CompleteType
<1>4. TableInv /\ DrawInv /\ LockInv
  BY <1>2 DEF TableInv, DrawInv, LockInv, Inserting, Updating, NoCall,
              AcknowledgedIsDurable
<1> QED
  BY <1>3, <1>4 DEF TransfersInv

-----------------------------------------------------------------------------

\* The inductive invariant holds in every state of the transfer flow.
THEOREM TransfersInvariant == TransfersSpec => []TransfersInv
<1>1. TransfersInv /\ [TransfersNext]_transferVars => TransfersInv'
  BY StepKeeps DEF Keeps
<1> QED
  BY InitInv, <1>1, PTL DEF TransfersSpec

\* Maps, table and calls keep their types, and a transfer has a destination
\* transaction exactly when it is Completed.
THEOREM TransfersTypeCorrect == TransfersSpec => []TransfersTypeOK
<1>1. TransfersInv => TransfersTypeOK
  BY DEF TransfersInv
<1> QED
  BY <1>1, TransfersInvariant, PTL

\* What complete_transfer() acknowledged is Completed in the table forever,
\* whatever fails and however often the process restarts.
THEOREM AcknowledgedAlwaysDurable == TransfersSpec => []AcknowledgedIsDurable
<1>1. TransfersInv => AcknowledgedIsDurable
  BY DEF TransfersInv, TableInv
<1> QED
  BY <1>1, TransfersInvariant, PTL

\* With no database failure so far, nobody who takes the map's lock reads a
\* completion that the table does not have.
THEOREM MemoryAlwaysMatchesTable == TransfersSpec => []MemoryMatchesTable
<1>1. TransfersInv => MemoryMatchesTable
  BY DEF TransfersInv, TableInv, LockInv, MemoryMatchesTable, Updating, LockIsFree, NoCall
<1> QED
  BY <1>1, TransfersInvariant, PTL

\* No step turns a completed transfer back into a pending one.
THEOREM CompletedAlwaysStays == TransfersSpec => CompletedStaysCompleted
<1>1. TransfersInv /\ [TransfersNext]_transferVars =>
        [/\ KeepsCompleted(db_transfers, db_transfers')
         /\ restarts' = restarts => KeepsCompleted(transfers, transfers')]_transferVars
  BY StepKeeps DEF Keeps
<1> QED
  BY <1>1, TransfersInvariant, PTL DEF TransfersSpec, CompletedStaysCompleted
-----------------------------------------------------------------------------
(* What the table promises.                                                *)

PendingRows == {id \in DOMAIN db_transfers : db_transfers[id] = Pending}
CompletedRows == {id \in DOMAIN db_transfers : db_transfers[id] # Pending}

TransferLedger ==
  INSTANCE PayOnce WITH Event <- TransferId, open <- PendingRows, paid <- CompletedRows

\* A row is inserted once and completed once, in this order, whatever calls
\* run at the same time, fail half-way or are cut short by a restart: the
\* table implements PayOnce.  The map does not, for a restart empties it.
THEOREM RowsCompletedOnce == TransfersSpec => TransferLedger!Spec
<1>1. TransfersInit => TransferLedger!Init
  BY DEF TransfersInit, TransferLedger!Init, PendingRows, CompletedRows, NoTransfers
<1>2. TransfersInv /\ [TransfersNext]_transferVars =>
        [TransferLedger!Next]_<<PendingRows, CompletedRows>>
  <2> SUFFICES ASSUME TransfersInv, [TransfersNext]_transferVars
               PROVE  TransferLedger!Next \/ UNCHANGED <<PendingRows, CompletedRows>>
    OBVIOUS
  <2>1. ASSUME UNCHANGED db_transfers
        PROVE  UNCHANGED <<PendingRows, CompletedRows>>
    BY <2>1 DEF PendingRows, CompletedRows
  <2>2. ASSUME NEW c \in Caller, NEW source \in ChainName, NEW dest \in ChainName,
               NEW id \in TransferId, InitiatePersist(c, source, dest, id)
        PROVE  TransferLedger!Next \/ UNCHANGED <<PendingRows, CompletedRows>>
    <3>1. id \notin DOMAIN db_transfers
      BY <2>2 DEF InitiatePersist, FreshId, TransfersInv, TransfersTypeOK
    <3>2. CASE db_transfers' = Put(db_transfers, id, Pending)
      <4>1. /\ DOMAIN db_transfers' = DOMAIN db_transfers \cup {id}
            /\ db_transfers'[id] = Pending
            /\ \A y \in DOMAIN db_transfers \ {id} : db_transfers'[y] = db_transfers[y]
        BY <3>2 DEF Put
      <4>2. /\ PendingRows' = PendingRows \cup {id}
            /\ CompletedRows' = CompletedRows
            /\ id \notin PendingRows \cup CompletedRows
        BY <3>1, <4>1 DEF PendingRows, CompletedRows
      <4> QED
        BY <4>2 DEF TransferLedger!Next, TransferLedger!Open
    <3>3. CASE UNCHANGED db_transfers
      BY <2>1, <3>3
    <3> QED
      BY <2>2, <3>2, <3>3 DEF InitiatePersist
  <2>3. ASSUME CompleteUpdate
        PROVE  TransferLedger!Next \/ UNCHANGED <<PendingRows, CompletedRows>>
    <3> DEFINE id == completing.id
               tx == completing.tx
    <3>1. id \in TransferId /\ tx \in Tx
      BY <2>3 DEF CompleteUpdate, TransfersInv, TransfersTypeOK, CompleteType, NoCall
    <3>2. id \in DOMAIN db_transfers
      BY <2>3 DEF CompleteUpdate, TransfersInv, TableInv, Updating
    <3> HIDE DEF id, tx
    <3>3. ASSUME db_transfers' = UpdateRow(db_transfers, id, tx)
          PROVE  /\ PendingRows' = PendingRows \ {id}
                 /\ CompletedRows' = CompletedRows \cup {id}
      <4>1. db_transfers \in [DOMAIN db_transfers -> TransferType]
        BY DEF TransfersInv, TransfersTypeOK
      <4>2. /\ DOMAIN db_transfers' = DOMAIN db_transfers
            /\ db_transfers'[id] # Pending
            /\ \A y \in DOMAIN db_transfers \ {id} : db_transfers'[y] = db_transfers[y]
        BY <3>1, <3>2, <3>3, <4>1, UpdateProperties, CompletedType
      <4> QED
        BY <3>2, <4>2 DEF PendingRows, CompletedRows
    <3>4. CASE db_transfers' = UpdateRow(db_transfers, id, tx)
      <4>1. CASE id \in PendingRows
        BY <3>1, <3>3, <3>4, <4>1 DEF TransferLedger!Next, TransferLedger!Pay
      <4>2. CASE id \notin PendingRows
        <5>1. id \in CompletedRows
          BY <3>2, <4>2 DEF PendingRows, CompletedRows
        <5> QED
          BY <3>3, <3>4, <4>2, <5>1
      <4> QED
        BY <4>1, <4>2
    <3>5. CASE UNCHANGED db_transfers
      BY <2>1, <3>5
    <3> QED
      BY <2>3, <3>4, <3>5 DEF CompleteUpdate, id, tx
  <2>4. CASE \/ UNCHANGED transferVars \/ CompleteSelect \/ Restart
             \/ \E c \in Caller : InitiateInsert(c)
             \/ \E id \in TransferId, tx \in Tx, s \in Signer :
                  CompleteKnown(id, tx, s) \/ CompleteUnknown(id, tx, s)
    <3>1. UNCHANGED db_transfers
      BY <2>4 DEF transferVars, CompleteSelect, Restart, InitiateInsert, CompleteKnown,
                  CompleteUnknown
    <3> QED
      BY <2>1, <3>1
  <2> QED
    BY <2>2, <2>3, <2>4 DEF TransfersNext
<1> QED
  BY <1>1, <1>2, TransfersInvariant, PTL DEF TransfersSpec, TransferLedger!Spec
=============================================================================
