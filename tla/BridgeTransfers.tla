---------------------------- MODULE BridgeTransfers --------------------------
(***************************************************************************)
(* The transfer flow of bridge-engine/src/engine.rs.                       *)
(*                                                                         *)
(* initiate_transfer() inserts a row in PostgreSQL, with no lock held, and *)
(* then an entry in the map `transfers'.  complete_transfer(), called with *)
(* a relayer's signature, holds the map's write lock until it returns:     *)
(* across its change of the entry and across the SELECT and UPDATE that    *)
(* it awaits.  Insertions in the map and other completions wait for it;    *)
(* insertions in the table do not.                                         *)
(*                                                                         *)
(* A transfer is its status and destination_tx; the other fields are never *)
(* changed and nothing depends on them.  A signature is its signer.        *)
(*                                                                         *)
(* AnyId, ForgetTx, FirstTx and EvenFailed are plausible wrong versions of *)
(* the operator that follows each of them; nothing else refers to them.    *)
(***************************************************************************)
EXTENDS Naturals

CONSTANTS
  ChainName,    \* the values of the enum Chain
  Chain,        \* the configured ones: supported_chains()
  TransferId,   \* bound: the random ids there are
  Tx,           \* destination transactions
  NoTx,         \* the destination_tx None
  Signer,       \* holders of secp256k1 keys
  Relayer,      \* config.relayers
  Database,     \* whether database_url is configured
  Caller,       \* bound: concurrent calls of initiate_transfer()
  MaxFaults,    \* bound: database calls that fail
  MaxRestarts   \* bound: restarts of the process

ASSUME TransfersAssumption ==
  /\ Chain \subseteq ChainName
  /\ Relayer \subseteq Signer
  /\ NoTx \notin Tx
  /\ Database \in BOOLEAN
  /\ MaxFaults \in Nat
  /\ MaxRestarts \in Nat

VARIABLES
  db,            \* BridgeEngine::db is Some: the pool was connected
  transfers,     \* BridgeEngine::transfers, id -> [status, destination_tx]
  db_transfers,  \* table bridge_transfers, id -> [status, destination_tx]
  starting,      \* per caller: the id whose row is written and whose entry
                 \*   in the map is not
  completing,    \* the complete_transfer() that holds the write lock
  issued,        \* history: the ids drawn
  acknowledged,  \* history: the ids completed with Ok while there was a pool
  faults,        \* the database calls that failed
  restarts       \* the restarts so far

counters == <<faults, restarts>>
transferVars ==
  <<db, transfers, db_transfers, starting, completing, issued, acknowledged, counters>>

NoCall == [step |-> "idle"]
NoTransfers == [id \in {} |-> 0]
LockIsFree == completing = NoCall

Pending == [status |-> "Pending", destination_tx |-> NoTx]

\* The fields that a completion changes.
ForgetTx(tx) == [status |-> "Completed", destination_tx |-> NoTx]

Completed(tx) == [status |-> "Completed", destination_tx |-> tx]

Put(f, x, v) == [y \in DOMAIN f \cup {x} |-> IF y = x THEN v ELSE f[y]]

\* UPDATE ... WHERE id, which ignores the row's status.
FirstTx(table, id, tx) ==
  IF id \in DOMAIN table /\ table[id] = Pending
  THEN [table EXCEPT ![id] = Completed(tx)] ELSE table

UpdateRow(table, id, tx) ==
  IF id \in DOMAIN table THEN [table EXCEPT ![id] = Completed(tx)] ELSE table

\* A database call does what it says, fails without effect, or takes effect
\* although the caller is told it failed; without a pool it is skipped.
Outcome ==
  {[ok |-> TRUE, applied |-> db]}
    \cup (IF db /\ faults < MaxFaults
          THEN {[ok |-> FALSE, applied |-> a] : a \in BOOLEAN} ELSE {})

CountFault(outcome) == faults' = IF outcome.ok THEN faults ELSE faults + 1

TransfersInit ==
  /\ db \in (IF Database THEN BOOLEAN ELSE {FALSE})
  /\ transfers = NoTransfers
  /\ db_transfers = NoTransfers
  /\ starting = [c \in Caller |-> NoCall]
  /\ completing = NoCall
  /\ issued = {}
  /\ acknowledged = {}
  /\ faults = 0
  /\ restarts = 0

-----------------------------------------------------------------------------
(* initiate_transfer().                                                    *)

Accepts(source, dest) == {source, dest} \subseteq Chain /\ source # dest

\* 32 random bytes.
AnyId(id) == id \in TransferId

FreshId(id) == id \in TransferId \ issued

\* The checks, the id and the row; an error of the database is returned.
InitiatePersist(c, source, dest, id) ==
  /\ starting[c] = NoCall
  /\ Accepts(source, dest)
  /\ FreshId(id)
  /\ issued' = issued \cup {id}
  /\ \E outcome \in Outcome :
       /\ CountFault(outcome)
       /\ db_transfers' = IF outcome.applied
                          THEN Put(db_transfers, id, Pending) ELSE db_transfers
       /\ starting' = [starting EXCEPT ![c] =
                        IF outcome.ok THEN [step |-> "insert", id |-> id] ELSE NoCall]
  /\ UNCHANGED <<db, transfers, completing, acknowledged, restarts>>

InitiateInsert(c) ==
  /\ starting[c].step = "insert"
  /\ LockIsFree
  /\ transfers' = Put(transfers, starting[c].id, Pending)
  /\ starting' = [starting EXCEPT ![c] = NoCall]
  /\ UNCHANGED <<db, db_transfers, completing, issued, acknowledged, counters>>

-----------------------------------------------------------------------------
(* complete_transfer().                                                    *)

\* The write lock is taken; an entry in the map becomes Completed whatever
\* its status was, before the table is written.
CompleteKnown(id, tx, signer) ==
  /\ signer \in Relayer
  /\ LockIsFree
  /\ id \in DOMAIN transfers
  /\ transfers' = [transfers EXCEPT ![id] = Completed(tx)]
  /\ completing' = IF db THEN [step |-> "update", id |-> id, tx |-> tx] ELSE NoCall
  /\ UNCHANGED <<db, db_transfers, starting, issued, acknowledged, counters>>

\* No entry: only the table can know the id.
CompleteUnknown(id, tx, signer) ==
  /\ signer \in Relayer
  /\ LockIsFree
  /\ id \notin DOMAIN transfers
  /\ db
  /\ completing' = [step |-> "select", id |-> id, tx |-> tx]
  /\ UNCHANGED <<db, transfers, db_transfers, starting, issued, acknowledged, counters>>

\* SELECT: `Transfer not found' and a database error end the call.
CompleteSelect ==
  /\ completing.step = "select"
  /\ \E outcome \in Outcome :
       /\ CountFault(outcome)
       /\ completing' = IF outcome.ok /\ completing.id \in DOMAIN db_transfers
                        THEN [completing EXCEPT !.step = "update"] ELSE NoCall
  /\ UNCHANGED <<db, transfers, db_transfers, starting, issued, acknowledged, restarts>>

\* The call returns Ok for a transfer it updated and has in memory; with
\* none in memory it returns an error after the update.
EvenFailed(outcome) == completing.id \in DOMAIN transfers

ReturnsOk(outcome) == outcome.ok /\ completing.id \in DOMAIN transfers

CompleteUpdate ==
  /\ completing.step = "update"
  /\ \E outcome \in Outcome :
       /\ CountFault(outcome)
       /\ db_transfers' = IF outcome.applied
                          THEN UpdateRow(db_transfers, completing.id, completing.tx)
                          ELSE db_transfers
       /\ acknowledged' = IF ReturnsOk(outcome)
                          THEN acknowledged \cup {completing.id} ELSE acknowledged
  /\ completing' = NoCall
  /\ UNCHANGED <<db, transfers, starting, issued, restarts>>

-----------------------------------------------------------------------------
(* The process ends, with the calls under way, and a new one starts.       *)

Restart ==
  /\ restarts < MaxRestarts
  /\ restarts' = restarts + 1
  /\ db' \in (IF Database THEN BOOLEAN ELSE {FALSE})
  /\ transfers' = NoTransfers
  /\ starting' = [c \in Caller |-> NoCall]
  /\ completing' = NoCall
  /\ UNCHANGED <<db_transfers, issued, acknowledged, faults>>

TransfersNext ==
  \/ \E c \in Caller, source, dest \in ChainName, id \in TransferId :
       InitiatePersist(c, source, dest, id)
  \/ \E c \in Caller : InitiateInsert(c)
  \/ \E id \in TransferId, tx \in Tx, s \in Signer :
       CompleteKnown(id, tx, s) \/ CompleteUnknown(id, tx, s)
  \/ CompleteSelect
  \/ CompleteUpdate
  \/ Restart

TransfersSpec == TransfersInit /\ [][TransfersNext]_transferVars

-----------------------------------------------------------------------------
(* Properties.                                                             *)

TransferType == {Pending} \cup [status : {"Completed"}, destination_tx : Tx]
StartType == {NoCall} \cup [step : {"insert"}, id : issued]
CompleteType ==
  {NoCall} \cup [step : {"select", "update"}, id : TransferId, tx : Tx]

\* Every variable keeps its type; a destination transaction is there exactly
\* when the transfer is Completed.
TransfersTypeOK ==
  /\ db \in BOOLEAN
  /\ issued \subseteq TransferId
  /\ DOMAIN transfers \subseteq issued
  /\ transfers \in [DOMAIN transfers -> TransferType]
  /\ DOMAIN db_transfers \subseteq issued
  /\ db_transfers \in [DOMAIN db_transfers -> TransferType]
  /\ starting \in [Caller -> StartType]
  /\ completing \in CompleteType
  /\ acknowledged \subseteq issued
  /\ faults \in Nat
  /\ restarts \in Nat

\* What complete_transfer() answered with Ok while there was a pool is
\* Completed in the table, and stays so whatever fails or restarts later:
\* `The completed transfer is persisted to PostgreSQL'.
AcknowledgedIsDurable ==
  \A id \in acknowledged :
    id \in DOMAIN db_transfers /\ db_transfers[id].status = "Completed"

\* While no database call has failed, nobody reads a completion the table
\* does not have: with the lock free, a transfer Completed in memory is the
\* same in the table, its latest destination transaction included.  That
\* complete_transfer() changes the map first is hidden by its lock.
MemoryMatchesTable ==
  db /\ faults = 0 /\ LockIsFree =>
    \A id \in DOMAIN transfers :
      /\ id \in DOMAIN db_transfers
      /\ transfers[id] # Pending => db_transfers[id] = transfers[id]

KeepsCompleted(f, g) ==
  \A id \in DOMAIN f : f[id] # Pending => id \in DOMAIN g /\ g[id] # Pending

\* A completed transfer never becomes pending again: not in the table, and
\* not in memory while the process lives, although initiate_transfer()
\* writes the entry in the map after others may have completed the row.
CompletedStaysCompleted ==
  [][/\ KeepsCompleted(db_transfers, db_transfers')
     /\ restarts' = restarts => KeepsCompleted(transfers, transfers')]_transferVars
=============================================================================
