------------------------- MODULE BridgeEngine_proofs -------------------------
(***************************************************************************)
(* What the bridge guarantees for every set of requests, every number of   *)
(* callers, retries and restarts, with or without a database that fails:   *)
(* the types, the bounds on how often an event is paid, and that no        *)
(* balance holds more than was credited.  Without a database and repeated  *)
(* calls: both flows implement PayOnce, and the tokens are conserved.      *)
(*                                                                         *)
(* The bounds need a stronger invariant, LockInv: an event that sits in    *)
(* memory as Locked is a credit still to come, and it got there by a write *)
(* of lock() or, once per start of the process, from the table.  The       *)
(* refinement needs InFlight: calls under way have distinct ids that are   *)
(* in no map yet.                                                          *)
(***************************************************************************)
EXTENDS BridgeEngine, FiniteSums

One(P) == IF P THEN 1 ELSE 0

LockInv ==
  /\ DOMAIN locks \cup DOMAIN db_locks \subseteq asked_locks
  /\ \A c \in Caller : call[c].step = "lock" => EventArgs(call[c].request) \in asked_locks
  /\ \A id \in LockId :
       /\ mints[id] + One(id \in DOMAIN locks /\ locks[id].status = "Locked")
            <= lock_writes[id] + restarts + One(id \in DOMAIN locks)
       /\ mints[id] > 0 => id \in asked_locks

BurnInv ==
  /\ DOMAIN burns \cup DOMAIN db_burns \subseteq asked_burns
  /\ \A c \in Caller : call[c].step \in {"burn", "burned"} => call[c].request \in asked_burns
  /\ \A id \in BurnId :
       /\ unlocks[id] + One(id \in DOMAIN burns /\ burns[id].status = "Burned")
            <= burn_writes[id] + restarts + One(id \in DOMAIN burns)
       /\ unlocks[id] > 0 => id \in asked_burns

BridgeInv == BridgeTypeOK /\ LockInv /\ BurnInv

-----------------------------------------------------------------------------
(* The data the engine works on.                                           *)

\* The id of an accepted lock() names configured chains and a known user.
LEMMA LockIdType ==
  ASSUME NEW id \in LockId
  PROVE  /\ id.source \in Chain /\ id.target \in Chain /\ id.user \in Account
         /\ id.amount \in Nat
<1>1. PICK r \in LockRequest : Accepts(r) /\ id = EventArgs(r)
  BY DEF LockId
<1> QED
  BY <1>1, BridgeAssumption DEF Accepts, EventArgs

\* The same of an accepted burn().
LEMMA BurnIdType ==
  ASSUME NEW id \in BurnId
  PROVE  /\ id.source \in Chain /\ id.target \in Chain /\ id.user \in Account
         /\ id.amount \in Nat
  BY BridgeAssumption DEF BurnId, Accepts

\* The event that mint() finds is a row of the right type, and one that it
\* takes from the table is Locked.
LEMMA FoundLockType ==
  ASSUME BridgeTypeOK, NEW id \in LockId, NEW event \in FoundLock(id)
  PROVE  /\ event \in LockRow
         /\ id \in DOMAIN locks => event = locks[id]
         /\ id \notin DOMAIN locks => id \in DOMAIN db_locks /\ event.status = "Locked"
  BY DEF BridgeTypeOK, FoundLock, LockRow

\* The event that unlock() finds, likewise.
LEMMA FoundBurnType ==
  ASSUME BridgeTypeOK, NEW id \in BurnId, NEW event \in FoundBurn(id)
  PROVE  /\ event \in BurnRow
         /\ id \in DOMAIN burns => event = burns[id]
         /\ id \notin DOMAIN burns => id \in DOMAIN db_burns /\ event.status = "Burned"
  BY DEF BridgeTypeOK, FoundBurn, BurnRow

\* Writing one entry changes that entry alone.
LEMMA PutProperties ==
  ASSUME NEW f, NEW x, NEW v
  PROVE  /\ DOMAIN Put(f, x, v) = DOMAIN f \cup {x}
         /\ Put(f, x, v)[x] = v
         /\ \A y \in DOMAIN f \ {x} : Put(f, x, v)[y] = f[y]
  BY DEF Put

\* Writing a row of type R to a table of such rows keeps the table typed.
LEMMA PutType ==
  ASSUME NEW f, NEW S, NEW R, DOMAIN f \subseteq S, f \in [DOMAIN f -> R],
         NEW x \in S, NEW v \in R
  PROVE  /\ DOMAIN Put(f, x, v) \subseteq S
         /\ Put(f, x, v) \in [DOMAIN Put(f, x, v) -> R]
  BY DEF Put

\* An insertion that does nothing on a conflict adds at most its own row.
LEMMA InsertNewType ==
  ASSUME NEW f, NEW S, NEW R, DOMAIN f \subseteq S, f \in [DOMAIN f -> R],
         NEW x \in S, NEW v \in R
  PROVE  /\ DOMAIN InsertNew(f, x, v) \subseteq S
         /\ InsertNew(f, x, v) \in [DOMAIN InsertNew(f, x, v) -> R]
         /\ DOMAIN InsertNew(f, x, v) \subseteq DOMAIN f \cup {x}
  BY PutType, PutProperties DEF InsertNew

\* An update of a row that is not there does nothing, and no update adds one.
LEMMA UpdateLockType ==
  ASSUME NEW f, DOMAIN f \subseteq LockId, f \in [DOMAIN f -> LockRow], NEW id \in LockId
  PROVE  /\ DOMAIN UpdateStatus(f, id, "Minted") = DOMAIN f
         /\ UpdateStatus(f, id, "Minted") \in [DOMAIN f -> LockRow]
  BY DEF UpdateStatus, LockRow

LEMMA UpdateBurnType ==
  ASSUME NEW f, DOMAIN f \subseteq BurnId, f \in [DOMAIN f -> BurnRow], NEW id \in BurnId
  PROVE  /\ DOMAIN UpdateStatus(f, id, "Unlocked") = DOMAIN f
         /\ UpdateStatus(f, id, "Unlocked") \in [DOMAIN f -> BurnRow]
  BY DEF UpdateStatus, BurnRow

-----------------------------------------------------------------------------
(* Every step keeps the types.                                             *)

LEMMA LockPersistType ==
  ASSUME BridgeTypeOK, NEW c \in Caller, NEW r \in LockRequest, LockPersist(c, r)
  PROVE  BridgeTypeOK'
<1> DEFINE row == [recipient |-> r.recipient, status |-> "Locked"]
<1>1. Accepts(r) /\ EventArgs(r) \in LockId
  BY DEF LockPersist, LockId
<1>2. row \in LockRow
  BY BridgeAssumption DEF LockRow
<1>3. DOMAIN db_locks' \subseteq LockId /\ db_locks' \in [DOMAIN db_locks' -> LockRow]
  <2>1. db_locks' = InsertNew(db_locks, EventArgs(r), row) \/ db_locks' = db_locks
    BY DEF LockPersist
  <2>2. DOMAIN db_locks \subseteq LockId /\ db_locks \in [DOMAIN db_locks -> LockRow]
    BY DEF BridgeTypeOK
  <2> HIDE DEF row
  <2>3. CASE db_locks' = InsertNew(db_locks, EventArgs(r), row)
    BY <1>1, <1>2, <2>2, <2>3, InsertNewType
  <2> QED
    BY <2>1, <2>2, <2>3
<1>4. call' \in [Caller -> CallType]
  BY <1>1 DEF LockPersist, BridgeTypeOK, CallType
<1>5. calls' \in Nat /\ asked_locks' \subseteq LockId
  BY <1>1 DEF LockPersist, BridgeTypeOK
<1> QED
  BY <1>3, <1>4, <1>5
  DEF LockPersist, BridgeTypeOK, memory

LEMMA LockInsertType ==
  ASSUME BridgeTypeOK, NEW c \in Caller, LockInsert(c)
  PROVE  BridgeTypeOK'
<1> DEFINE r  == call[c].request
           id == EventArgs(r)
           row == [recipient |-> r.recipient, status |-> "Locked"]
<1>1. r \in LockRequest /\ Accepts(r) /\ id \in LockId
  <2>1. call[c] \in CallType /\ call[c].step = "lock"
    BY DEF LockInsert, BridgeTypeOK, CallType
  <2>2. r \in LockRequest /\ Accepts(r)
    BY <2>1 DEF CallType, NoCall
  <2> QED
    BY <2>2 DEF LockId
<1>2. row \in LockRow
  BY <1>1, BridgeAssumption DEF LockRow
<1>3. DOMAIN locks' \subseteq LockId /\ locks' \in [DOMAIN locks' -> LockRow]
  <2>1. locks' = Put(locks, id, row)
    BY DEF LockInsert
  <2> HIDE DEF row, id
  <2> QED
    BY <1>1, <1>2, <2>1, PutType DEF BridgeTypeOK
<1>4. call' \in [Caller -> CallType]
  <2>1. NoCall \in CallType /\ call \in [Caller -> CallType]
    BY DEF CallType, BridgeTypeOK
  <2>2. call' = [call EXCEPT ![c] = NoCall]
    BY DEF LockInsert
  <2> QED
    BY <2>1, <2>2
<1>5. lock_writes' \in [LockId -> Nat]
  BY <1>1 DEF LockInsert, BridgeTypeOK
<1> QED
  BY <1>3, <1>4, <1>5
  DEF LockInsert, BridgeTypeOK, tables

LEMMA MintType ==
  ASSUME BridgeTypeOK, NEW id \in LockId, NEW s \in Signer, Mint(id, s)
  PROVE  BridgeTypeOK'
<1>1. PICK event \in FoundLock(id) :
        /\ Fits(wrapped[<<id.target, event.recipient>>], id.amount)
        /\ wrapped' = [wrapped EXCEPT ![<<id.target, event.recipient>>] = @ + id.amount]
        /\ locks' = Put(locks, id, Minted(event))
  BY DEF Mint
<1>2. event \in LockRow /\ Minted(event) \in LockRow
  BY FoundLockType DEF Minted, LockRow
<1>3. DOMAIN locks' \subseteq LockId /\ locks' \in [DOMAIN locks' -> LockRow]
  BY <1>1, <1>2, PutType DEF BridgeTypeOK
<1>4. wrapped' \in [Balances -> 0..U128Max]
  <2>1. <<id.target, event.recipient>> \in Balances /\ id.amount \in Nat
    BY <1>2, LockIdType DEF LockRow, Balances
  <2>2. /\ wrapped[<<id.target, event.recipient>>] + id.amount \in 0..U128Max
    BY <2>1, <1>1, BridgeAssumption DEF Fits, BridgeTypeOK
  <2> QED
    BY <2>1, <2>2, <1>1 DEF BridgeTypeOK
<1>5. DOMAIN db_locks' \subseteq LockId /\ db_locks' \in [DOMAIN db_locks' -> LockRow]
  BY UpdateLockType DEF Mint, BridgeTypeOK
<1>6. mints' \in [LockId -> Nat]
  BY DEF Mint, BridgeTypeOK
<1> QED
  BY <1>3, <1>4, <1>5, <1>6 DEF Mint, BridgeTypeOK, LockRow

LEMMA MintOverflowType ==
  ASSUME BridgeTypeOK, NEW id \in LockId, NEW s \in Signer, MintOverflow(id, s)
  PROVE  BridgeTypeOK'
<1>1. PICK event \in FoundLock(id) : locks' = Put(locks, id, event)
  BY DEF MintOverflow
<1>2. DOMAIN locks' \subseteq LockId /\ locks' \in [DOMAIN locks' -> LockRow]
  BY <1>1, FoundLockType, PutType DEF BridgeTypeOK
<1> QED
  BY <1>2 DEF MintOverflow, BridgeTypeOK, LockRow, tables, history

LEMMA BurnDebitType ==
  ASSUME BridgeTypeOK, NEW c \in Caller, NEW r \in BurnRequest, BurnDebit(c, r)
  PROVE  BridgeTypeOK'
<1>1. r \in BurnId
  BY DEF BurnDebit, BurnId
<1>2. wrapped' \in [Balances -> 0..U128Max]
  <2>1. <<r.target, r.user>> \in Balances /\ r.amount \in Nat
    BY <1>1, BurnIdType DEF Balances
  <2>2. wrapped[<<r.target, r.user>>] - r.amount \in 0..U128Max
    BY <2>1, BridgeAssumption DEF BurnDebit, BridgeTypeOK
  <2> QED
    BY <2>1, <2>2 DEF BurnDebit, BridgeTypeOK
<1>3. call' \in [Caller -> CallType]
  BY <1>1 DEF BurnDebit, BridgeTypeOK, CallType
<1>4. calls' \in Nat /\ asked_burns' \subseteq BurnId
  BY <1>1 DEF BurnDebit, BridgeTypeOK
<1> QED
  BY <1>2, <1>3, <1>4 DEF BurnDebit, BridgeTypeOK, CallType, tables

\* A caller inside burn() holds an accepted request.
LEMMA BurnCallType ==
  ASSUME BridgeTypeOK, NEW c \in Caller, call[c].step \in {"burn", "burned"}
  PROVE  call[c].request \in BurnId
<1>1. call[c] \in CallType
  BY DEF BridgeTypeOK, CallType
<1> QED
  BY <1>1 DEF CallType, NoCall

LEMMA BurnPersistType ==
  ASSUME BridgeTypeOK, NEW c \in Caller, BurnPersist(c)
  PROVE  BridgeTypeOK'
<1>1. call[c].request \in BurnId /\ call[c].step = "burn"
  BY BurnCallType DEF BurnPersist
<1>2. DOMAIN db_burns' \subseteq BurnId /\ db_burns' \in [DOMAIN db_burns' -> BurnRow]
  <2> DEFINE row == [status |-> "Burned"]
             id  == call[c].request
  <2>1. row \in BurnRow /\ id \in BurnId
    BY <1>1 DEF BurnRow
  <2>2. db_burns' = InsertNew(db_burns, id, row) \/ db_burns' = db_burns
    BY DEF BurnPersist
  <2>3. DOMAIN db_burns \subseteq BurnId /\ db_burns \in [DOMAIN db_burns -> BurnRow]
    BY DEF BridgeTypeOK
  <2> HIDE DEF row, id
  <2>4. CASE db_burns' = InsertNew(db_burns, id, row)
    BY <2>1, <2>3, <2>4, InsertNewType
  <2> QED
    BY <2>2, <2>3, <2>4
<1>3. call' \in [Caller -> CallType]
  <2>1. call[c] \in [step : {"burn", "burned"}, request : BurnId]
    <3>1. call[c] \in CallType /\ NoCall.step # "burn"
      BY DEF BridgeTypeOK, NoCall
    <3> QED
      BY <3>1, <1>1 DEF CallType
  <2>2. [call[c] EXCEPT !.step = "burned"] \in CallType
    BY <2>1 DEF CallType
  <2> QED
    BY <2>2 DEF BurnPersist, BridgeTypeOK, CallType
<1> QED
  BY <1>2, <1>3 DEF BurnPersist, BridgeTypeOK, CallType, BurnRow, memory, history

LEMMA BurnInsertType ==
  ASSUME BridgeTypeOK, NEW c \in Caller, BurnInsert(c)
  PROVE  BridgeTypeOK'
<1>1. call[c].request \in BurnId
  BY BurnCallType DEF BurnInsert
<1>2. DOMAIN burns' \subseteq BurnId /\ burns' \in [DOMAIN burns' -> BurnRow]
  <2>1. [status |-> "Burned"] \in BurnRow
    BY DEF BurnRow
  <2> QED
    BY <2>1, <1>1, PutType DEF BurnInsert, BridgeTypeOK
<1>3. call' \in [Caller -> CallType]
  BY DEF BurnInsert, BridgeTypeOK, CallType
<1>4. burn_writes' \in [BurnId -> Nat]
  BY <1>1 DEF BurnInsert, BridgeTypeOK
<1> QED
  BY <1>2, <1>3, <1>4 DEF BurnInsert, BridgeTypeOK, CallType, BurnRow, tables

LEMMA UnlockType ==
  ASSUME BridgeTypeOK, NEW id \in BurnId, NEW s \in Signer, Unlock(id, s)
  PROVE  BridgeTypeOK'
<1>1. PICK event \in FoundBurn(id) :
        /\ Fits(unlocked[<<id.source, id.user>>], id.amount)
        /\ unlocked' = [unlocked EXCEPT ![<<id.source, id.user>>] = @ + id.amount]
        /\ burns' = Put(burns, id, Unlocked(event))
  BY DEF Unlock
<1>2. event \in BurnRow /\ Unlocked(event) \in BurnRow
  BY FoundBurnType DEF Unlocked, BurnRow
<1>3. DOMAIN burns' \subseteq BurnId /\ burns' \in [DOMAIN burns' -> BurnRow]
  BY <1>1, <1>2, PutType DEF BridgeTypeOK
<1>4. unlocked' \in [Balances -> 0..U128Max]
  <2>1. <<id.source, id.user>> \in Balances /\ id.amount \in Nat
    BY BurnIdType DEF Balances
  <2>2. unlocked[<<id.source, id.user>>] + id.amount \in 0..U128Max
    BY <2>1, <1>1, BridgeAssumption DEF Fits, BridgeTypeOK
  <2> QED
    BY <2>1, <2>2, <1>1 DEF BridgeTypeOK
<1>5. DOMAIN db_burns' \subseteq BurnId /\ db_burns' \in [DOMAIN db_burns' -> BurnRow]
  BY UpdateBurnType DEF Unlock, BridgeTypeOK
<1>6. unlocks' \in [BurnId -> Nat]
  BY DEF Unlock, BridgeTypeOK
<1> QED
  BY <1>3, <1>4, <1>5, <1>6 DEF Unlock, BridgeTypeOK, BurnRow

LEMMA UnlockOverflowType ==
  ASSUME BridgeTypeOK, NEW id \in BurnId, NEW s \in Signer, UnlockOverflow(id, s)
  PROVE  BridgeTypeOK'
<1>1. PICK event \in FoundBurn(id) : burns' = Put(burns, id, event)
  BY DEF UnlockOverflow
<1>2. DOMAIN burns' \subseteq BurnId /\ burns' \in [DOMAIN burns' -> BurnRow]
  BY <1>1, FoundBurnType, PutType DEF BridgeTypeOK
<1> QED
  BY <1>2 DEF UnlockOverflow, BridgeTypeOK, BurnRow, tables, history

LEMMA RestartType ==
  ASSUME BridgeTypeOK, Restart
  PROVE  BridgeTypeOK'
<1>1. wrapped' \in [Balances -> 0..U128Max] /\ unlocked' \in [Balances -> 0..U128Max]
  BY BridgeAssumption DEF Restart, Empty
<1>2. db' \in BOOLEAN /\ restarts' \in Nat
  <2>1. db' \in (IF Database THEN BOOLEAN ELSE {FALSE})
    BY DEF Restart
  <2>2. db' \in BOOLEAN
    BY <2>1, Zenon
  <2>3. restarts' \in Nat
    BY DEF Restart, BridgeTypeOK
  <2> QED
    BY <2>2, <2>3
<1>3. call' \in [Caller -> CallType]
  <2>1. NoCall \in CallType
    BY DEF CallType
  <2> QED
    BY <2>1 DEF Restart
<1>4. /\ DOMAIN locks' \subseteq LockId /\ locks' \in [DOMAIN locks' -> LockRow]
      /\ DOMAIN burns' \subseteq BurnId /\ burns' \in [DOMAIN burns' -> BurnRow]
  BY DEF Restart, NoEvents
<1> QED
  BY <1>1, <1>2, <1>3, <1>4 DEF Restart, BridgeTypeOK, tables, history

\* One of the actions takes each step: the cases of the proofs below.
LEMMA StepType ==
  ASSUME BridgeTypeOK, [BridgeNext]_bridgeVars
  PROVE  BridgeTypeOK'
<1>1. CASE UNCHANGED bridgeVars
  BY <1>1 DEF bridgeVars, memory, tables, history, BridgeTypeOK
<1>2. CASE BridgeNext
  BY <1>2, LockPersistType, LockInsertType, MintType, MintOverflowType,
     BurnDebitType, BurnPersistType, BurnInsertType, UnlockType,
     UnlockOverflowType, RestartType
  DEF BridgeNext, BurnId
<1> QED
  BY <1>1, <1>2

-----------------------------------------------------------------------------
(* Every step keeps the bound on mints.                                    *)

\* What a step that concerns no lock leaves alone.
LEMMA LockFrame ==
  ASSUME LockInv, UNCHANGED <<locks, db_locks, restarts, asked_locks, lock_writes, mints>>,
         \A c \in Caller : call'[c].step = "lock" => call'[c] = call[c]
  PROVE  LockInv'
  BY DEF LockInv, One

LEMMA LockPersistKeepsLocks ==
  ASSUME BridgeTypeOK, LockInv, NEW c \in Caller, NEW r \in LockRequest, LockPersist(c, r)
  PROVE  LockInv'
<1> DEFINE row == [recipient |-> r.recipient, status |-> "Locked"]
           id  == EventArgs(r)
<1>1. asked_locks' = asked_locks \cup {id}
  BY DEF LockPersist
<1>2. DOMAIN db_locks' \subseteq DOMAIN db_locks \cup {id}
  <2>1. db_locks' = InsertNew(db_locks, id, row) \/ db_locks' = db_locks
    BY DEF LockPersist
  <2> HIDE DEF row, id
  <2> QED
    BY <2>1 DEF InsertNew, Put
<1>3. \A d \in Caller : call'[d].step = "lock" => EventArgs(call'[d].request) \in asked_locks'
  <2>1. call' = [call EXCEPT ![c] = [step |-> "lock", request |-> r]]
        \/ call' = [call EXCEPT ![c] = NoCall]
    BY DEF LockPersist
  <2>2. call \in [Caller -> CallType]
    BY DEF BridgeTypeOK
  <2> QED
    BY <1>1, <2>1, <2>2 DEF LockInv, NoCall
<1>4. UNCHANGED <<locks, restarts, lock_writes, mints>>
  BY DEF LockPersist, memory
<1> HIDE DEF id
<1> QED
  BY <1>1, <1>2, <1>3, <1>4 DEF LockInv, One

\* A write of lock() may revive the event: one credit more, and one write.
LEMMA LockInsertKeepsLocks ==
  ASSUME BridgeTypeOK, LockInv, NEW c \in Caller, LockInsert(c)
  PROVE  LockInv'
<1> DEFINE row == [recipient |-> call[c].request.recipient, status |-> "Locked"]
           id  == EventArgs(call[c].request)
<1>1. id \in asked_locks /\ id \in LockId
  BY DEF LockInsert, LockInv, BridgeTypeOK
<1>2. locks' = Put(locks, id, row) /\ lock_writes' = [lock_writes EXCEPT ![id] = @ + 1]
  BY DEF LockInsert
<1>3. UNCHANGED <<db_locks, restarts, asked_locks, mints>>
  BY DEF LockInsert, tables
<1>4. \A d \in Caller : call'[d].step = "lock" => call'[d] = call[d]
  <2>1. call \in [Caller -> CallType] /\ call' = [call EXCEPT ![c] = NoCall]
    BY DEF LockInsert, BridgeTypeOK
  <2> QED
    BY <2>1 DEF NoCall
<1>5. /\ lock_writes \in [LockId -> Nat] /\ mints \in [LockId -> Nat] /\ restarts \in Nat
      /\ DOMAIN locks \subseteq LockId
  BY DEF BridgeTypeOK
<1> HIDE DEF row, id
<1>6. /\ DOMAIN locks' = DOMAIN locks \cup {id}
      /\ \A e \in DOMAIN locks \ {id} : locks'[e] = locks[e]
  BY <1>2 DEF Put
<1>7. ASSUME NEW e \in LockId
      PROVE  /\ mints'[e] + One(e \in DOMAIN locks' /\ locks'[e].status = "Locked")
                  <= lock_writes'[e] + restarts' + One(e \in DOMAIN locks')
             /\ mints'[e] > 0 => e \in asked_locks'
  <2>1. /\ mints[e] + One(e \in DOMAIN locks /\ locks[e].status = "Locked")
             <= lock_writes[e] + restarts + One(e \in DOMAIN locks)
        /\ mints[e] > 0 => e \in asked_locks
    BY DEF LockInv
  <2>2. CASE e = id
    BY <1>2, <1>3, <1>5, <1>6, <2>1, <2>2 DEF One
  <2>3. CASE e # id
    BY <1>2, <1>3, <1>5, <1>6, <2>1, <2>3 DEF One
  <2> QED
    BY <2>2, <2>3
<1> QED
  BY <1>1, <1>3, <1>4, <1>6, <1>7 DEF LockInv

\* A credit uses up the Locked event, wherever it was found.
LEMMA MintKeepsLocks ==
  ASSUME BridgeTypeOK, LockInv, NEW id \in LockId, NEW s \in Signer, Mint(id, s)
  PROVE  LockInv'
<1>1. PICK event \in FoundLock(id) : event.status = "Locked" /\ locks' = Put(locks, id, Minted(event))
  BY DEF Mint
<1>2. /\ event \in LockRow
      /\ id \in DOMAIN locks => event = locks[id]
      /\ id \notin DOMAIN locks => id \in DOMAIN db_locks
  BY FoundLockType
<1>3. mints' = [mints EXCEPT ![id] = @ + 1]
  BY DEF Mint
<1>4. UNCHANGED <<call, restarts, asked_locks, lock_writes>>
  BY DEF Mint
<1>5. /\ lock_writes \in [LockId -> Nat] /\ mints \in [LockId -> Nat] /\ restarts \in Nat
      /\ DOMAIN locks \subseteq LockId
  BY DEF BridgeTypeOK
<1>6. /\ DOMAIN locks' = DOMAIN locks \cup {id}
      /\ locks'[id] = Minted(event)
      /\ \A e \in DOMAIN locks \ {id} : locks'[e] = locks[e]
  BY <1>1 DEF Put
<1>7. Minted(event).status = "Minted"
  BY <1>2 DEF Minted, LockRow
<1>8. DOMAIN db_locks' = DOMAIN db_locks
  BY UpdateLockType DEF Mint, BridgeTypeOK
<1>9. id \in asked_locks
  BY <1>2 DEF LockInv
<1>10. ASSUME NEW e \in LockId
       PROVE  /\ mints'[e] + One(e \in DOMAIN locks' /\ locks'[e].status = "Locked")
                   <= lock_writes'[e] + restarts' + One(e \in DOMAIN locks')
              /\ mints'[e] > 0 => e \in asked_locks'
  <2>1. /\ mints[e] + One(e \in DOMAIN locks /\ locks[e].status = "Locked")
             <= lock_writes[e] + restarts + One(e \in DOMAIN locks)
        /\ mints[e] > 0 => e \in asked_locks
    BY DEF LockInv
  <2>2. CASE e = id
    BY <1>1, <1>2, <1>3, <1>4, <1>5, <1>6, <1>7, <1>9, <2>1, <2>2 DEF One
  <2>3. CASE e # id
    BY <1>3, <1>4, <1>5, <1>6, <2>1, <2>3 DEF One
  <2> QED
    BY <2>2, <2>3
<1> QED
  BY <1>4, <1>6, <1>8, <1>9, <1>10 DEF LockInv

\* A lock() row that does not fit is taken to memory as Locked all the same.
LEMMA MintOverflowKeepsLocks ==
  ASSUME BridgeTypeOK, LockInv, NEW id \in LockId, NEW s \in Signer, MintOverflow(id, s)
  PROVE  LockInv'
<1>1. PICK event \in FoundLock(id) : locks' = Put(locks, id, event)
  BY DEF MintOverflow
<1>2. /\ id \in DOMAIN locks => event = locks[id]
      /\ id \notin DOMAIN locks => id \in DOMAIN db_locks
  BY FoundLockType
<1>3. UNCHANGED <<call, db_locks, restarts, asked_locks, lock_writes, mints>>
  BY DEF MintOverflow, tables, history
<1>4. /\ lock_writes \in [LockId -> Nat] /\ mints \in [LockId -> Nat] /\ restarts \in Nat
  BY DEF BridgeTypeOK
<1>5. /\ DOMAIN locks' = DOMAIN locks \cup {id}
      /\ \A e \in DOMAIN locks : locks'[e] = locks[e]
  BY <1>1, <1>2 DEF Put
<1>6. ASSUME NEW e \in LockId
      PROVE  mints'[e] + One(e \in DOMAIN locks' /\ locks'[e].status = "Locked")
               <= lock_writes'[e] + restarts' + One(e \in DOMAIN locks')
  <2>1. mints[e] + One(e \in DOMAIN locks /\ locks[e].status = "Locked")
          <= lock_writes[e] + restarts + One(e \in DOMAIN locks)
    BY DEF LockInv
  <2> QED
    BY <1>3, <1>4, <1>5, <2>1 DEF One
<1> QED
  BY <1>2, <1>3, <1>5, <1>6 DEF LockInv

\* A restart forgets the events: what was Locked in memory may be taken from
\* the table once more.
LEMMA RestartKeepsLocks ==
  ASSUME BridgeTypeOK, LockInv, Restart
  PROVE  LockInv'
<1>1. /\ locks' = NoEvents /\ restarts' = restarts + 1
      /\ call' = [c \in Caller |-> NoCall]
      /\ UNCHANGED <<db_locks, asked_locks, lock_writes, mints>>
  BY DEF Restart, tables, history
<1>2. DOMAIN locks' = {}
  BY <1>1 DEF NoEvents
<1>3. /\ lock_writes \in [LockId -> Nat] /\ mints \in [LockId -> Nat] /\ restarts \in Nat
  BY DEF BridgeTypeOK
<1>4. ASSUME NEW e \in LockId
      PROVE  mints'[e] + One(e \in DOMAIN locks' /\ locks'[e].status = "Locked")
               <= lock_writes'[e] + restarts' + One(e \in DOMAIN locks')
  <2>1. mints[e] + One(e \in DOMAIN locks /\ locks[e].status = "Locked")
          <= lock_writes[e] + restarts + One(e \in DOMAIN locks)
    BY DEF LockInv
  <2> QED
    BY <1>1, <1>2, <1>3, <2>1 DEF One
<1>5. \A c \in Caller : call'[c].step # "lock"
  BY <1>1 DEF NoCall
<1> QED
  BY <1>1, <1>2, <1>4, <1>5 DEF LockInv

-----------------------------------------------------------------------------
(* Every step keeps the bound on unlocks.                                  *)

\* What a step that concerns no burn leaves alone.
LEMMA BurnFrame ==
  ASSUME BurnInv, UNCHANGED <<burns, db_burns, restarts, asked_burns, burn_writes, unlocks>>,
         \A c \in Caller : call'[c].step \in {"burn", "burned"} => call'[c] = call[c]
  PROVE  BurnInv'
  BY DEF BurnInv, One

LEMMA BurnDebitKeepsBurns ==
  ASSUME BridgeTypeOK, BurnInv, NEW c \in Caller, NEW r \in BurnRequest, BurnDebit(c, r)
  PROVE  BurnInv'
<1>1. asked_burns' = asked_burns \cup {r}
  BY DEF BurnDebit
<1>2. \A d \in Caller : call'[d].step \in {"burn", "burned"} => call'[d].request \in asked_burns'
  <2>1. call' = [call EXCEPT ![c] = [step |-> "burn", request |-> r]]
        /\ call \in [Caller -> CallType]
    BY DEF BurnDebit, BridgeTypeOK
  <2> QED
    BY <1>1, <2>1 DEF BurnInv
<1>3. UNCHANGED <<burns, db_burns, restarts, burn_writes, unlocks>>
  BY DEF BurnDebit, tables
<1> QED
  BY <1>1, <1>2, <1>3 DEF BurnInv, One

LEMMA BurnPersistKeepsBurns ==
  ASSUME BridgeTypeOK, BurnInv, NEW c \in Caller, BurnPersist(c)
  PROVE  BurnInv'
<1> DEFINE row == [status |-> "Burned"]
           id  == call[c].request
<1>1. id \in asked_burns
  BY DEF BurnPersist, BurnInv
<1>2. DOMAIN db_burns' \subseteq DOMAIN db_burns \cup {id}
  <2>1. db_burns' = InsertNew(db_burns, id, row) \/ db_burns' = db_burns
    BY DEF BurnPersist
  <2> HIDE DEF row, id
  <2> QED
    BY <2>1 DEF InsertNew, Put
<1>3. \A d \in Caller : call'[d].step \in {"burn", "burned"} => call'[d].request \in asked_burns
  <2>1. call' = [call EXCEPT ![c] = [@ EXCEPT !.step = "burned"]]
        \/ call' = [call EXCEPT ![c] = NoCall]
    BY DEF BurnPersist
  <2>2. call[c] \in [step : {"burn", "burned"}, request : BurnId]
    <3>1. call[c] \in CallType /\ call[c].step = "burn" /\ NoCall.step # "burn"
      BY DEF BurnPersist, BridgeTypeOK, NoCall
    <3> QED
      BY <3>1 DEF CallType
  <2>3. call \in [Caller -> CallType]
    BY DEF BridgeTypeOK
  <2>4. NoCall.step \notin {"burn", "burned"}
    BY DEF NoCall
  <2> QED
    BY <1>1, <2>1, <2>2, <2>3, <2>4 DEF BurnInv
<1>4. UNCHANGED <<burns, restarts, asked_burns, burn_writes, unlocks>>
  BY DEF BurnPersist, memory, history
<1> HIDE DEF id
<1> QED
  BY <1>1, <1>2, <1>3, <1>4 DEF BurnInv, One

\* A write of burn() may revive the event: one credit more, and one write.
LEMMA BurnInsertKeepsBurns ==
  ASSUME BridgeTypeOK, BurnInv, NEW c \in Caller, BurnInsert(c)
  PROVE  BurnInv'
<1> DEFINE row == [status |-> "Burned"]
           id  == call[c].request
<1>1. id \in asked_burns /\ id \in BurnId
  BY DEF BurnInsert, BurnInv, BridgeTypeOK
<1>2. burns' = Put(burns, id, row) /\ burn_writes' = [burn_writes EXCEPT ![id] = @ + 1]
  BY DEF BurnInsert
<1>3. UNCHANGED <<db_burns, restarts, asked_burns, unlocks>>
  BY DEF BurnInsert, tables
<1>4. \A d \in Caller : call'[d].step \in {"burn", "burned"} => call'[d] = call[d]
  <2>1. call \in [Caller -> CallType] /\ call' = [call EXCEPT ![c] = NoCall]
    BY DEF BurnInsert, BridgeTypeOK
  <2> QED
    BY <2>1 DEF NoCall
<1>5. /\ burn_writes \in [BurnId -> Nat] /\ unlocks \in [BurnId -> Nat] /\ restarts \in Nat
      /\ DOMAIN burns \subseteq BurnId
  BY DEF BridgeTypeOK
<1> HIDE DEF row, id
<1>6. /\ DOMAIN burns' = DOMAIN burns \cup {id}
      /\ \A e \in DOMAIN burns \ {id} : burns'[e] = burns[e]
  BY <1>2 DEF Put
<1>7. ASSUME NEW e \in BurnId
      PROVE  /\ unlocks'[e] + One(e \in DOMAIN burns' /\ burns'[e].status = "Burned")
                  <= burn_writes'[e] + restarts' + One(e \in DOMAIN burns')
             /\ unlocks'[e] > 0 => e \in asked_burns'
  <2>1. /\ unlocks[e] + One(e \in DOMAIN burns /\ burns[e].status = "Burned")
             <= burn_writes[e] + restarts + One(e \in DOMAIN burns)
        /\ unlocks[e] > 0 => e \in asked_burns
    BY DEF BurnInv
  <2>2. CASE e = id
    BY <1>2, <1>3, <1>5, <1>6, <2>1, <2>2 DEF One
  <2>3. CASE e # id
    BY <1>2, <1>3, <1>5, <1>6, <2>1, <2>3 DEF One
  <2> QED
    BY <2>2, <2>3
<1> QED
  BY <1>1, <1>3, <1>4, <1>6, <1>7 DEF BurnInv

\* A credit uses up the Burned event, wherever it was found.
LEMMA UnlockKeepsBurns ==
  ASSUME BridgeTypeOK, BurnInv, NEW id \in BurnId, NEW s \in Signer, Unlock(id, s)
  PROVE  BurnInv'
<1>1. PICK event \in FoundBurn(id) : event.status = "Burned" /\ burns' = Put(burns, id, Unlocked(event))
  BY DEF Unlock
<1>2. /\ event \in BurnRow
      /\ id \in DOMAIN burns => event = burns[id]
      /\ id \notin DOMAIN burns => id \in DOMAIN db_burns
  BY FoundBurnType
<1>3. unlocks' = [unlocks EXCEPT ![id] = @ + 1]
  BY DEF Unlock
<1>4. UNCHANGED <<call, restarts, asked_burns, burn_writes>>
  BY DEF Unlock
<1>5. /\ burn_writes \in [BurnId -> Nat] /\ unlocks \in [BurnId -> Nat] /\ restarts \in Nat
      /\ DOMAIN burns \subseteq BurnId
  BY DEF BridgeTypeOK
<1>6. /\ DOMAIN burns' = DOMAIN burns \cup {id}
      /\ burns'[id] = Unlocked(event)
      /\ \A e \in DOMAIN burns \ {id} : burns'[e] = burns[e]
  BY <1>1 DEF Put
<1>7. Unlocked(event).status = "Unlocked"
  BY <1>2 DEF Unlocked, BurnRow
<1>8. DOMAIN db_burns' = DOMAIN db_burns
  BY UpdateBurnType DEF Unlock, BridgeTypeOK
<1>9. id \in asked_burns
  BY <1>2 DEF BurnInv
<1>10. ASSUME NEW e \in BurnId
       PROVE  /\ unlocks'[e] + One(e \in DOMAIN burns' /\ burns'[e].status = "Burned")
                   <= burn_writes'[e] + restarts' + One(e \in DOMAIN burns')
              /\ unlocks'[e] > 0 => e \in asked_burns'
  <2>1. /\ unlocks[e] + One(e \in DOMAIN burns /\ burns[e].status = "Burned")
             <= burn_writes[e] + restarts + One(e \in DOMAIN burns)
        /\ unlocks[e] > 0 => e \in asked_burns
    BY DEF BurnInv
  <2>2. CASE e = id
    BY <1>1, <1>2, <1>3, <1>4, <1>5, <1>6, <1>7, <1>9, <2>1, <2>2 DEF One
  <2>3. CASE e # id
    BY <1>3, <1>4, <1>5, <1>6, <2>1, <2>3 DEF One
  <2> QED
    BY <2>2, <2>3
<1> QED
  BY <1>4, <1>6, <1>8, <1>9, <1>10 DEF BurnInv

\* A burn() row that does not fit is taken to memory as Burned all the same.
LEMMA UnlockOverflowKeepsBurns ==
  ASSUME BridgeTypeOK, BurnInv, NEW id \in BurnId, NEW s \in Signer, UnlockOverflow(id, s)
  PROVE  BurnInv'
<1>1. PICK event \in FoundBurn(id) : burns' = Put(burns, id, event)
  BY DEF UnlockOverflow
<1>2. /\ id \in DOMAIN burns => event = burns[id]
      /\ id \notin DOMAIN burns => id \in DOMAIN db_burns
  BY FoundBurnType
<1>3. UNCHANGED <<call, db_burns, restarts, asked_burns, burn_writes, unlocks>>
  BY DEF UnlockOverflow, tables, history
<1>4. /\ burn_writes \in [BurnId -> Nat] /\ unlocks \in [BurnId -> Nat] /\ restarts \in Nat
  BY DEF BridgeTypeOK
<1>5. /\ DOMAIN burns' = DOMAIN burns \cup {id}
      /\ \A e \in DOMAIN burns : burns'[e] = burns[e]
  BY <1>1, <1>2 DEF Put
<1>6. ASSUME NEW e \in BurnId
      PROVE  unlocks'[e] + One(e \in DOMAIN burns' /\ burns'[e].status = "Burned")
               <= burn_writes'[e] + restarts' + One(e \in DOMAIN burns')
  <2>1. unlocks[e] + One(e \in DOMAIN burns /\ burns[e].status = "Burned")
          <= burn_writes[e] + restarts + One(e \in DOMAIN burns)
    BY DEF BurnInv
  <2> QED
    BY <1>3, <1>4, <1>5, <2>1 DEF One
<1> QED
  BY <1>2, <1>3, <1>5, <1>6 DEF BurnInv

\* A restart forgets the events: what was Burned in memory may be taken from
\* the table once more.
LEMMA RestartKeepsBurns ==
  ASSUME BridgeTypeOK, BurnInv, Restart
  PROVE  BurnInv'
<1>1. /\ burns' = NoEvents /\ restarts' = restarts + 1
      /\ call' = [c \in Caller |-> NoCall]
      /\ UNCHANGED <<db_burns, asked_burns, burn_writes, unlocks>>
  BY DEF Restart, tables, history
<1>2. DOMAIN burns' = {}
  BY <1>1 DEF NoEvents
<1>3. /\ burn_writes \in [BurnId -> Nat] /\ unlocks \in [BurnId -> Nat] /\ restarts \in Nat
  BY DEF BridgeTypeOK
<1>4. ASSUME NEW e \in BurnId
      PROVE  unlocks'[e] + One(e \in DOMAIN burns' /\ burns'[e].status = "Burned")
               <= burn_writes'[e] + restarts' + One(e \in DOMAIN burns')
  <2>1. unlocks[e] + One(e \in DOMAIN burns /\ burns[e].status = "Burned")
          <= burn_writes[e] + restarts + One(e \in DOMAIN burns)
    BY DEF BurnInv
  <2> QED
    BY <1>1, <1>2, <1>3, <2>1 DEF One
<1>5. \A c \in Caller : call'[c].step \notin {"burn", "burned"}
  BY <1>1 DEF NoCall
<1> QED
  BY <1>1, <1>2, <1>4, <1>5 DEF BurnInv

-----------------------------------------------------------------------------
(* The invariant, and what follows from it.                                *)

LEMMA StepKeepsLocks ==
  ASSUME BridgeInv, [BridgeNext]_bridgeVars
  PROVE  LockInv'
<1> USE DEF BridgeInv
<1>1. CASE UNCHANGED bridgeVars
  BY <1>1, LockFrame DEF bridgeVars, memory, tables, history
<1>2. ASSUME NEW c \in Caller, NEW r \in LockRequest, LockPersist(c, r)
      PROVE  LockInv'
  BY <1>2, LockPersistKeepsLocks
<1>3. ASSUME NEW c \in Caller, LockInsert(c)
      PROVE  LockInv'
  BY <1>3, LockInsertKeepsLocks
<1>4. ASSUME NEW id \in LockId, NEW s \in Signer, Mint(id, s) \/ MintOverflow(id, s)
      PROVE  LockInv'
  BY <1>4, MintKeepsLocks, MintOverflowKeepsLocks
<1>5. ASSUME NEW c \in Caller, NEW r \in BurnRequest, BurnDebit(c, r)
      PROVE  LockInv'
  <2>1. call' = [call EXCEPT ![c] = [step |-> "burn", request |-> r]]
        /\ call \in [Caller -> CallType]
    BY <1>5 DEF BurnDebit, BridgeTypeOK
  <2>2. \A d \in Caller : call'[d].step = "lock" => call'[d] = call[d]
    BY <2>1
  <2> QED
    BY <1>5, <2>2, LockFrame DEF BurnDebit, tables
<1>6. ASSUME NEW c \in Caller, BurnPersist(c)
      PROVE  LockInv'
  <2>1. call[c] \in [step : {"burn", "burned"}, request : BurnId]
    <3>1. call[c] \in CallType /\ call[c].step = "burn" /\ NoCall.step # "burn"
      BY <1>6 DEF BurnPersist, BridgeTypeOK, NoCall
    <3> QED
      BY <3>1 DEF CallType
  <2>2. call' = [call EXCEPT ![c] = [@ EXCEPT !.step = "burned"]]
        \/ call' = [call EXCEPT ![c] = NoCall]
    BY <1>6 DEF BurnPersist
  <2>3. \A d \in Caller : call'[d].step = "lock" => call'[d] = call[d]
    <3>1. call \in [Caller -> CallType] /\ NoCall.step # "lock"
      BY DEF BridgeTypeOK, NoCall
    <3> QED
      BY <2>1, <2>2, <3>1
  <2> QED
    BY <1>6, <2>3, LockFrame DEF BurnPersist, memory, history
<1>7. ASSUME NEW c \in Caller, BurnInsert(c)
      PROVE  LockInv'
  <2>1. call' = [call EXCEPT ![c] = NoCall] /\ call \in [Caller -> CallType]
    BY <1>7 DEF BurnInsert, BridgeTypeOK
  <2>2. \A d \in Caller : call'[d].step = "lock" => call'[d] = call[d]
    BY <2>1 DEF NoCall
  <2> QED
    BY <1>7, <2>2, LockFrame DEF BurnInsert, tables
<1>8. ASSUME NEW id \in BurnId, NEW s \in Signer, Unlock(id, s) \/ UnlockOverflow(id, s)
      PROVE  LockInv'
  BY <1>8, LockFrame DEF Unlock, UnlockOverflow, tables, history
<1>9. CASE Restart
  BY <1>9, RestartKeepsLocks
<1> QED
  BY <1>1, <1>2, <1>3, <1>4, <1>5, <1>6, <1>7, <1>8, <1>9 DEF BridgeNext

LEMMA StepKeepsBurns ==
  ASSUME BridgeInv, [BridgeNext]_bridgeVars
  PROVE  BurnInv'
<1> USE DEF BridgeInv
<1>1. CASE UNCHANGED bridgeVars
  BY <1>1, BurnFrame DEF bridgeVars, memory, tables, history
<1>2. ASSUME NEW c \in Caller, NEW r \in LockRequest, LockPersist(c, r)
      PROVE  BurnInv'
  <2>1. call' = [call EXCEPT ![c] = [step |-> "lock", request |-> r]]
        \/ call' = [call EXCEPT ![c] = NoCall]
    BY <1>2 DEF LockPersist
  <2>2. \A d \in Caller : call'[d].step \in {"burn", "burned"} => call'[d] = call[d]
    <3>1. call \in [Caller -> CallType] /\ NoCall.step \notin {"burn", "burned"}
      BY DEF BridgeTypeOK, NoCall
    <3> QED
      BY <2>1, <3>1
  <2> QED
    BY <1>2, <2>2, BurnFrame DEF LockPersist, memory
<1>3. ASSUME NEW c \in Caller, LockInsert(c)
      PROVE  BurnInv'
  <2>1. call' = [call EXCEPT ![c] = NoCall] /\ call \in [Caller -> CallType]
    BY <1>3 DEF LockInsert, BridgeTypeOK
  <2>2. \A d \in Caller : call'[d].step \in {"burn", "burned"} => call'[d] = call[d]
    BY <2>1 DEF NoCall
  <2> QED
    BY <1>3, <2>2, BurnFrame DEF LockInsert, tables
<1>4. ASSUME NEW id \in LockId, NEW s \in Signer, Mint(id, s) \/ MintOverflow(id, s)
      PROVE  BurnInv'
  BY <1>4, BurnFrame DEF Mint, MintOverflow, tables, history
<1>5. ASSUME NEW c \in Caller, NEW r \in BurnRequest, BurnDebit(c, r)
      PROVE  BurnInv'
  BY <1>5, BurnDebitKeepsBurns
<1>6. ASSUME NEW c \in Caller, BurnPersist(c) \/ BurnInsert(c)
      PROVE  BurnInv'
  BY <1>6, BurnPersistKeepsBurns, BurnInsertKeepsBurns
<1>7. ASSUME NEW id \in BurnId, NEW s \in Signer, Unlock(id, s) \/ UnlockOverflow(id, s)
      PROVE  BurnInv'
  BY <1>7, UnlockKeepsBurns, UnlockOverflowKeepsBurns
<1>8. CASE Restart
  BY <1>8, RestartKeepsBurns
<1> QED
  BY <1>1, <1>2, <1>3, <1>4, <1>5, <1>6, <1>7, <1>8 DEF BridgeNext

LEMMA InitInv ==
  ASSUME BridgeInit
  PROVE  BridgeInv
<1>1. wrapped \in [Balances -> 0..U128Max] /\ unlocked \in [Balances -> 0..U128Max]
  BY BridgeAssumption DEF BridgeInit, Empty
<1>2. db \in BOOLEAN
  <2>1. db \in (IF Database THEN BOOLEAN ELSE {FALSE})
    BY DEF BridgeInit
  <2> QED
    BY <2>1, Zenon
<1>3. call \in [Caller -> CallType]
  BY DEF BridgeInit, CallType
<1>4. /\ DOMAIN locks = {} /\ DOMAIN burns = {} /\ DOMAIN db_locks = {} /\ DOMAIN db_burns = {}
      /\ locks \in [DOMAIN locks -> LockRow] /\ burns \in [DOMAIN burns -> BurnRow]
      /\ db_locks \in [DOMAIN db_locks -> LockRow]
      /\ db_burns \in [DOMAIN db_burns -> BurnRow]
  BY DEF BridgeInit, NoEvents
<1>5. /\ calls \in Nat /\ restarts \in Nat
      /\ asked_locks \subseteq LockId /\ asked_burns \subseteq BurnId
      /\ lock_writes \in [LockId -> Nat] /\ burn_writes \in [BurnId -> Nat]
      /\ mints \in [LockId -> Nat] /\ unlocks \in [BurnId -> Nat]
  BY DEF BridgeInit
<1>6. BridgeTypeOK
  BY <1>1, <1>2, <1>3, <1>4, <1>5 DEF BridgeTypeOK
<1>7. \A c \in Caller : call[c].step \notin {"lock", "burn", "burned"}
  BY DEF BridgeInit, NoCall
<1>8. LockInv
  BY <1>4, <1>7 DEF BridgeInit, LockInv, One
<1>9. BurnInv
  BY <1>4, <1>7 DEF BridgeInit, BurnInv, One
<1> QED
  BY <1>6, <1>8, <1>9 DEF BridgeInv

\* The inductive invariant holds in every state of the bridge.
THEOREM BridgeInvariant == BridgeSpec => []BridgeInv
<1>1. BridgeInit => BridgeInv
  BY InitInv
<1>2. BridgeInv /\ [BridgeNext]_bridgeVars => BridgeInv'
  BY StepType, StepKeepsLocks, StepKeepsBurns DEF BridgeInv
<1> QED
  BY <1>1, <1>2, PTL DEF BridgeSpec

\* Balances stay within u128, and maps, tables and calls keep their types.
THEOREM BridgeTypeCorrect == BridgeSpec => []BridgeTypeOK
<1>1. BridgeInv => BridgeTypeOK
  BY DEF BridgeInv
<1> QED
  BY <1>1, BridgeInvariant, PTL

\* mint() credits a lock at most once per write of lock() and start of the
\* process, and never one that nobody asked for.
THEOREM MintsAlwaysBounded == BridgeSpec => []MintsAreBounded
<1>1. BridgeInv => MintsAreBounded
  BY DEF BridgeInv, BridgeTypeOK, LockInv, MintsAreBounded, One
<1> QED
  BY <1>1, BridgeInvariant, PTL

\* unlock() credits a burn at most once per write of burn() and start of the
\* process, and never one whose tokens were not debited.
THEOREM UnlocksAlwaysBounded == BridgeSpec => []UnlocksAreBounded
<1>1. BridgeInv => UnlocksAreBounded
  BY DEF BridgeInv, BridgeTypeOK, BurnInv, UnlocksAreBounded, One
<1> QED
  BY <1>1, BridgeInvariant, PTL

-----------------------------------------------------------------------------
(* The engine without a database.  If no client repeats a call either, the *)
(* two relayer flows implement PayOnce and tokens are conserved.           *)
(*                                                                         *)
(* The database and the repeated call break both, and the restart breaks   *)
(* PayOnce, which keeps what was paid: each assumption is needed.          *)

InLock(c) == call[c].step = "lock"
Burning(c) == call[c].step \in {"burn", "burned"}

\* A call under way is the only one of its event, which is not in memory yet.
InFlight ==
  /\ ~db
  /\ \A c \in Caller : InLock(c) => EventArgs(call[c].request) \notin DOMAIN locks
  /\ \A c, d \in Caller :
       InLock(c) /\ InLock(d) /\ EventArgs(call[c].request) = EventArgs(call[d].request)
         => c = d
  /\ \A c \in Caller : Burning(c) => call[c].request \notin DOMAIN burns
  /\ \A c, d \in Caller :
       Burning(c) /\ Burning(d) /\ call[c].request = call[d].request => c = d

\* Without a pool the database call is skipped.
LEMMA NoOutcome ==
  ASSUME ~db, NEW outcome \in Outcome
  PROVE  outcome.ok /\ ~outcome.applied
  BY DEF Outcome

\* Without a pool an event is only found in memory.
LEMMA FoundInMemory ==
  ASSUME ~db
  PROVE  /\ \A id \in LockId : \A event \in FoundLock(id) :
              id \in DOMAIN locks /\ event = locks[id]
         /\ \A id \in BurnId : \A event \in FoundBurn(id) :
              id \in DOMAIN burns /\ event = burns[id]
  BY DEF FoundLock, FoundBurn

\* The bound on restarts rules them out.
LEMMA NoRestart ==
  ASSUME MaxRestarts = 0, BridgeInv
  PROVE  ~Restart
<1> SUFFICES ASSUME Restart
             PROVE  FALSE
  OBVIOUS
<1>1. restarts < MaxRestarts
  BY DEF Restart
<1>2. restarts \in Nat
  BY DEF BridgeInv, BridgeTypeOK
<1> QED
  BY <1>1, <1>2

\* An event that does not fit and is in memory already stays as it is.
LEMMA OverflowInMemory ==
  ASSUME InFlight
  PROVE  /\ \A id \in LockId, s \in Signer : MintOverflow(id, s) =>
              DOMAIN locks' = DOMAIN locks /\ \A e \in DOMAIN locks : locks'[e] = locks[e]
         /\ \A id \in BurnId, s \in Signer : UnlockOverflow(id, s) =>
              DOMAIN burns' = DOMAIN burns /\ \A e \in DOMAIN burns : burns'[e] = burns[e]
<1>1. ASSUME NEW id \in LockId, NEW s \in Signer, MintOverflow(id, s)
      PROVE  DOMAIN locks' = DOMAIN locks /\ \A e \in DOMAIN locks : locks'[e] = locks[e]
  <2>1. PICK event \in FoundLock(id) : locks' = Put(locks, id, event)
    BY <1>1 DEF MintOverflow
  <2>2. id \in DOMAIN locks /\ event = locks[id]
    BY FoundInMemory DEF InFlight
  <2> QED
    BY <2>1, <2>2 DEF Put
<1>2. ASSUME NEW id \in BurnId, NEW s \in Signer, UnlockOverflow(id, s)
      PROVE  DOMAIN burns' = DOMAIN burns /\ \A e \in DOMAIN burns : burns'[e] = burns[e]
  <2>1. PICK event \in FoundBurn(id) : burns' = Put(burns, id, event)
    BY <1>2 DEF UnlockOverflow
  <2>2. id \in DOMAIN burns /\ event = burns[id]
    BY FoundInMemory DEF InFlight
  <2> QED
    BY <2>1, <2>2 DEF Put
<1> QED
  BY <1>1, <1>2

\* A call that begins has a new event, and its insertion ends it.
LEMMA StepInFlight ==
  ASSUME ~Database, ~Resubmission, BridgeInv, InFlight, [BridgeNext]_bridgeVars
  PROVE  InFlight'
<1>1. call \in [Caller -> CallType] /\ restarts \in Nat
  BY DEF BridgeInv, BridgeTypeOK
<1>2. NoCall.step \notin {"lock", "burn", "burned"}
  BY DEF NoCall
<1>3. CASE UNCHANGED bridgeVars
  BY <1>3 DEF bridgeVars, memory, InFlight, InLock, Burning
<1>4. ASSUME NEW c \in Caller, NEW r \in LockRequest, LockPersist(c, r)
      PROVE  InFlight'
  <2>1. EventArgs(r) \notin asked_locks /\ UNCHANGED <<db, locks, burns>>
    BY <1>4 DEF LockPersist, MayBegin, memory
  <2>2. call' = [call EXCEPT ![c] = [step |-> "lock", request |-> r]]
    BY <1>4, NoOutcome DEF LockPersist, InFlight
  <2>3. /\ \A d \in Caller : InLock(d) => EventArgs(call[d].request) # EventArgs(r)
        /\ EventArgs(r) \notin DOMAIN locks
    BY <2>1 DEF BridgeInv, LockInv, InLock
  <2> QED
    BY <1>1, <2>1, <2>2, <2>3 DEF InFlight, InLock, Burning
<1>5. ASSUME NEW c \in Caller, LockInsert(c)
      PROVE  InFlight'
  <2> DEFINE id == EventArgs(call[c].request)
  <2>1. DOMAIN locks' = DOMAIN locks \cup {id} /\ UNCHANGED <<db, burns>> /\ InLock(c)
    BY <1>5 DEF LockInsert, Put, InLock
  <2>2. call' = [call EXCEPT ![c] = NoCall]
    BY <1>5 DEF LockInsert
  <2>3. \A d \in Caller : d # c /\ InLock(d) => EventArgs(call[d].request) # id
    BY <2>1 DEF InFlight
  <2> HIDE DEF id
  <2> QED
    BY <1>1, <1>2, <2>1, <2>2, <2>3 DEF InFlight, InLock, Burning
<1>6. ASSUME NEW id \in LockId, NEW s \in Signer, Mint(id, s) \/ MintOverflow(id, s)
      PROVE  InFlight'
  <2>1. ASSUME Mint(id, s)
        PROVE  DOMAIN locks' = DOMAIN locks
    <3>1. PICK event \in FoundLock(id) : locks' = Put(locks, id, Minted(event))
      BY <2>1 DEF Mint
    <3>2. id \in DOMAIN locks
      BY FoundInMemory DEF InFlight
    <3> QED
      BY <3>1, <3>2 DEF Put
  <2>2. DOMAIN locks' = DOMAIN locks
    BY <1>6, <2>1, OverflowInMemory
  <2>3. UNCHANGED <<db, burns, call>>
    BY <1>6 DEF Mint, MintOverflow
  <2> QED
    BY <2>2, <2>3 DEF InFlight, InLock, Burning
<1>7. ASSUME NEW c \in Caller, NEW r \in BurnRequest, BurnDebit(c, r)
      PROVE  InFlight'
  <2>1. r \notin asked_burns /\ UNCHANGED <<db, locks, burns>>
    BY <1>7 DEF BurnDebit, MayBegin
  <2>2. call' = [call EXCEPT ![c] = [step |-> "burn", request |-> r]]
    BY <1>7 DEF BurnDebit
  <2>3. /\ \A d \in Caller : Burning(d) => call[d].request # r
        /\ r \notin DOMAIN burns
    BY <2>1 DEF BridgeInv, BurnInv, Burning
  <2> QED
    BY <1>1, <2>1, <2>2, <2>3 DEF InFlight, InLock, Burning
<1>8. ASSUME NEW c \in Caller, BurnPersist(c)
      PROVE  InFlight'
  <2>1. call[c] \in [step : {"burn", "burned"}, request : BurnId] /\ call[c].step = "burn"
    <3>1. call[c] \in CallType /\ call[c].step = "burn" /\ NoCall.step # "burn"
      BY <1>1, <1>2, <1>8 DEF BurnPersist
    <3> QED
      BY <3>1 DEF CallType
  <2>2. call' = [call EXCEPT ![c] = [@ EXCEPT !.step = "burned"]]
    BY <1>8, NoOutcome DEF BurnPersist, InFlight
  <2>3. \A d \in Caller : /\ InLock(d)' <=> InLock(d)
                          /\ Burning(d)' <=> Burning(d)
                          /\ InLock(d) \/ Burning(d) => call'[d].request = call[d].request
    BY <1>1, <2>1, <2>2 DEF InLock, Burning
  <2>4. UNCHANGED <<db, locks, burns>>
    BY <1>8 DEF BurnPersist, memory
  <2> QED
    BY <2>3, <2>4 DEF InFlight
<1>9. ASSUME NEW c \in Caller, BurnInsert(c)
      PROVE  InFlight'
  <2> DEFINE id == call[c].request
  <2>1. DOMAIN burns' = DOMAIN burns \cup {id} /\ UNCHANGED <<db, locks>> /\ Burning(c)
    BY <1>9 DEF BurnInsert, Put, Burning
  <2>2. call' = [call EXCEPT ![c] = NoCall]
    BY <1>9 DEF BurnInsert
  <2>3. \A d \in Caller : d # c /\ Burning(d) => call[d].request # id
    BY <2>1 DEF InFlight
  <2> HIDE DEF id
  <2> QED
    BY <1>1, <1>2, <2>1, <2>2, <2>3 DEF InFlight, InLock, Burning
<1>10. ASSUME NEW id \in BurnId, NEW s \in Signer, Unlock(id, s) \/ UnlockOverflow(id, s)
       PROVE  InFlight'
  <2>1. ASSUME Unlock(id, s)
        PROVE  DOMAIN burns' = DOMAIN burns
    <3>1. PICK event \in FoundBurn(id) : burns' = Put(burns, id, Unlocked(event))
      BY <2>1 DEF Unlock
    <3>2. id \in DOMAIN burns
      BY FoundInMemory DEF InFlight
    <3> QED
      BY <3>1, <3>2 DEF Put
  <2>2. DOMAIN burns' = DOMAIN burns
    BY <1>10, <2>1, OverflowInMemory
  <2>3. UNCHANGED <<db, locks, call>>
    BY <1>10 DEF Unlock, UnlockOverflow
  <2> QED
    BY <2>2, <2>3 DEF InFlight, InLock, Burning
<1>11. CASE Restart
  <2>1. ~db' /\ DOMAIN locks' = {} /\ DOMAIN burns' = {}
    BY <1>11 DEF Restart, NoEvents
  <2>2. \A c \in Caller : ~InLock(c)' /\ ~Burning(c)'
    BY <1>2, <1>11 DEF Restart, InLock, Burning
  <2> QED
    BY <2>1, <2>2 DEF InFlight
<1> QED
  BY <1>3, <1>4, <1>5, <1>6, <1>7, <1>8, <1>9, <1>10, <1>11 DEF BridgeNext

-----------------------------------------------------------------------------
(* Every step is an Open, a Pay or a stutter of each ledger.               *)

\* The insertion of lock() is an Open, a credit of mint() a Pay.
LEMMA LockStepRefines ==
  ASSUME MaxRestarts = 0, BridgeInv, InFlight, [BridgeNext]_bridgeVars
  PROVE  [LockLedger!Next]_<<LocksThatAre("Locked"), LocksThatAre("Minted")>>
<1> DEFINE Goal == [LockLedger!Next]_<<LocksThatAre("Locked"), LocksThatAre("Minted")>>
<1>1. CASE UNCHANGED locks
  BY <1>1 DEF LocksThatAre
<1>2. ASSUME NEW c \in Caller, LockInsert(c)
      PROVE  Goal
  <2> DEFINE id  == EventArgs(call[c].request)
             row == [recipient |-> call[c].request.recipient, status |-> "Locked"]
  <2>1. id \in LockId /\ id \notin DOMAIN locks
    BY <1>2 DEF LockInsert, BridgeInv, BridgeTypeOK, LockInv, InFlight, InLock
  <2>2. locks' = Put(locks, id, row) /\ row.status = "Locked"
    BY <1>2 DEF LockInsert
  <2> HIDE DEF id, row
  <2>3. /\ DOMAIN locks' = DOMAIN locks \cup {id}
        /\ locks'[id].status = "Locked"
        /\ \A e \in DOMAIN locks : locks'[e] = locks[e]
    BY <2>1, <2>2 DEF Put
  <2>4. LockLedger!Open(id)
    BY <2>1, <2>3 DEF LockLedger!Open, LocksThatAre
  <2> QED
    BY <2>1, <2>4 DEF LockLedger!Next
<1>3. ASSUME NEW id \in LockId, NEW s \in Signer, Mint(id, s)
      PROVE  Goal
  <2>1. PICK event \in FoundLock(id) :
          event.status = "Locked" /\ locks' = Put(locks, id, Minted(event))
    BY <1>3 DEF Mint
  <2>2. id \in DOMAIN locks /\ event = locks[id]
    BY FoundInMemory DEF InFlight
  <2>3. Minted(event).status = "Minted"
    BY <2>2 DEF Minted, BridgeInv, BridgeTypeOK, LockRow
  <2>4. /\ DOMAIN locks' = DOMAIN locks
        /\ locks'[id].status = "Minted"
        /\ \A e \in DOMAIN locks \ {id} : locks'[e] = locks[e]
    BY <2>1, <2>2, <2>3 DEF Put
  <2>5. LockLedger!Pay(id)
    BY <2>1, <2>2, <2>4 DEF LockLedger!Pay, LocksThatAre
  <2> QED
    BY <2>5 DEF LockLedger!Next
<1>4. ASSUME NEW id \in LockId, NEW s \in Signer, MintOverflow(id, s)
      PROVE  Goal
  <2>1. DOMAIN locks' = DOMAIN locks /\ \A e \in DOMAIN locks : locks'[e] = locks[e]
    BY <1>4, OverflowInMemory
  <2> QED
    BY <2>1 DEF LocksThatAre
<1>5. ~Restart
  BY NoRestart
<1> HIDE DEF Goal
<1>6. CASE BridgeNext
  BY <1>1, <1>2, <1>3, <1>4, <1>5, <1>6
  DEF BridgeNext, LockPersist, BurnDebit, BurnPersist, BurnInsert, Unlock,
      UnlockOverflow, memory, Goal
<1> QED
  BY <1>1, <1>6 DEF bridgeVars, memory, Goal

\* The insertion of burn() is an Open, a credit of unlock() a Pay.
LEMMA BurnStepRefines ==
  ASSUME MaxRestarts = 0, BridgeInv, InFlight, [BridgeNext]_bridgeVars
  PROVE  [BurnLedger!Next]_<<BurnsThatAre("Burned"), BurnsThatAre("Unlocked")>>
<1> DEFINE Goal == [BurnLedger!Next]_<<BurnsThatAre("Burned"), BurnsThatAre("Unlocked")>>
<1>1. CASE UNCHANGED burns
  BY <1>1 DEF BurnsThatAre
<1>2. ASSUME NEW c \in Caller, BurnInsert(c)
      PROVE  Goal
  <2> DEFINE id  == call[c].request
             row == [status |-> "Burned"]
  <2>1. id \in BurnId /\ id \notin DOMAIN burns
    BY <1>2 DEF BurnInsert, BridgeInv, BridgeTypeOK, BurnInv, InFlight, Burning
  <2>2. burns' = Put(burns, id, row) /\ row.status = "Burned"
    BY <1>2 DEF BurnInsert
  <2> HIDE DEF id, row
  <2>3. /\ DOMAIN burns' = DOMAIN burns \cup {id}
        /\ burns'[id].status = "Burned"
        /\ \A e \in DOMAIN burns : burns'[e] = burns[e]
    BY <2>1, <2>2 DEF Put
  <2>4. BurnLedger!Open(id)
    BY <2>1, <2>3 DEF BurnLedger!Open, BurnsThatAre
  <2> QED
    BY <2>1, <2>4 DEF BurnLedger!Next
<1>3. ASSUME NEW id \in BurnId, NEW s \in Signer, Unlock(id, s)
      PROVE  Goal
  <2>1. PICK event \in FoundBurn(id) :
          event.status = "Burned" /\ burns' = Put(burns, id, Unlocked(event))
    BY <1>3 DEF Unlock
  <2>2. id \in DOMAIN burns /\ event = burns[id]
    BY FoundInMemory DEF InFlight
  <2>3. Unlocked(event).status = "Unlocked"
    BY <2>2 DEF Unlocked, BridgeInv, BridgeTypeOK, BurnRow
  <2>4. /\ DOMAIN burns' = DOMAIN burns
        /\ burns'[id].status = "Unlocked"
        /\ \A e \in DOMAIN burns \ {id} : burns'[e] = burns[e]
    BY <2>1, <2>2, <2>3 DEF Put
  <2>5. BurnLedger!Pay(id)
    BY <2>1, <2>2, <2>4 DEF BurnLedger!Pay, BurnsThatAre
  <2> QED
    BY <2>5 DEF BurnLedger!Next
<1>4. ASSUME NEW id \in BurnId, NEW s \in Signer, UnlockOverflow(id, s)
      PROVE  Goal
  <2>1. DOMAIN burns' = DOMAIN burns /\ \A e \in DOMAIN burns : burns'[e] = burns[e]
    BY <1>4, OverflowInMemory
  <2> QED
    BY <2>1 DEF BurnsThatAre
<1>5. ~Restart
  BY NoRestart
<1> HIDE DEF Goal
<1>6. CASE BridgeNext
  BY <1>1, <1>2, <1>3, <1>4, <1>5, <1>6
  DEF BridgeNext, LockPersist, LockInsert, Mint, MintOverflow, BurnDebit,
      BurnPersist, memory, Goal
<1> QED
  BY <1>1, <1>6 DEF bridgeVars, memory, Goal

-----------------------------------------------------------------------------

\* The refinement's invariant holds in every state.
LEMMA InFlightInvariant ==
  ASSUME ~Database, ~Resubmission
  PROVE  BridgeSpec => [](BridgeInv /\ InFlight)
<1>1. BridgeInit => InFlight
  <2> SUFFICES ASSUME BridgeInit
               PROVE  InFlight
    OBVIOUS
  <2>1. ~db
    BY DEF BridgeInit
  <2>2. \A c \in Caller : ~InLock(c) /\ ~Burning(c)
    BY DEF BridgeInit, NoCall, InLock, Burning
  <2> QED
    BY <2>1, <2>2 DEF InFlight
<1>2. BridgeInv /\ InFlight /\ [BridgeNext]_bridgeVars => InFlight'
  BY StepInFlight
<1> QED
  BY <1>1, <1>2, BridgeInvariant, PTL DEF BridgeSpec

\* lock() and mint() open every lock once and pay it once, as long as the
\* process lives.
THEOREM LocksPaidOnceInMemory ==
  ASSUME ~Database, ~Resubmission, MaxRestarts = 0
  PROVE  BridgeSpec => LocksPaidOnce
<1>1. BridgeInit => LockLedger!Init
  BY DEF BridgeInit, LockLedger!Init, LocksThatAre, NoEvents
<1>2. BridgeInv /\ InFlight /\ [BridgeNext]_bridgeVars
        => [LockLedger!Next]_<<LocksThatAre("Locked"), LocksThatAre("Minted")>>
  BY LockStepRefines
<1> QED
  BY <1>1, <1>2, InFlightInvariant, PTL DEF BridgeSpec, LocksPaidOnce, LockLedger!Spec

\* burn() and unlock() open every burn once and pay it once.
THEOREM BurnsPaidOnceInMemory ==
  ASSUME ~Database, ~Resubmission, MaxRestarts = 0
  PROVE  BridgeSpec => BurnsPaidOnce
<1>1. BridgeInit => BurnLedger!Init
  BY DEF BridgeInit, BurnLedger!Init, BurnsThatAre, NoEvents
<1>2. BridgeInv /\ InFlight /\ [BridgeNext]_bridgeVars
        => [BurnLedger!Next]_<<BurnsThatAre("Burned"), BurnsThatAre("Unlocked")>>
  BY BurnStepRefines
<1> QED
  BY <1>1, <1>2, InFlightInvariant, PTL DEF BridgeSpec, BurnsPaidOnce, BurnLedger!Spec

-----------------------------------------------------------------------------
(* Conservation.  Each step moves an amount from one of the four sums of   *)
(* TokensAreConserved to another, or adds it on both sides.                *)

Waiting == AmountsOf(BurnsThatAre("Burned"))
Credited == AmountsOf(LocksThatAre("Minted"))

\* What is in memory was put there one event at a time.
FiniteMemory == IsFiniteSet(DOMAIN locks) /\ IsFiniteSet(DOMAIN burns)

\* The four sums range over finite sets and add natural numbers.
SumsTypeOK ==
  /\ Held \in [Balances -> Int] /\ SumFunction(Held) \in Int
  /\ IsFiniteSet(InBurn) /\ Debited \in [InBurn -> Int]
  /\ SumFunction(Debited) \in Int
  /\ IsFiniteSet(BurnsThatAre("Burned"))
  /\ Waiting \in [BurnsThatAre("Burned") -> Int] /\ SumFunction(Waiting) \in Int
  /\ IsFiniteSet(LocksThatAre("Minted"))
  /\ Credited \in [LocksThatAre("Minted") -> Int] /\ SumFunction(Credited) \in Int

\* They do when the balances, the callers and the maps are finite.
LEMMA SumsTyped ==
  ASSUME IsFiniteSet(Balances), IsFiniteSet(Caller), BridgeTypeOK, FiniteMemory
  PROVE  SumsTypeOK
<1>1. Held \in [Balances -> Int]
  BY BridgeAssumption DEF BridgeTypeOK, Held
<1>2. IsFiniteSet(InBurn) /\ Debited \in [InBurn -> Int]
  <2>1. IsFiniteSet(InBurn)
    BY FS_Subset DEF InBurn
  <2>2. \A c \in InBurn : call[c].request \in BurnId
    BY BurnCallType DEF InBurn
  <2> QED
    BY <2>1, <2>2, BurnIdType DEF Debited
<1>3. IsFiniteSet(BurnsThatAre("Burned")) /\ Waiting \in [BurnsThatAre("Burned") -> Int]
  <2>1. BurnsThatAre("Burned") \subseteq DOMAIN burns
    BY DEF BurnsThatAre
  <2>2. IsFiniteSet(BurnsThatAre("Burned"))
    BY <2>1, FS_Subset DEF FiniteMemory
  <2>3. BurnsThatAre("Burned") \subseteq BurnId
    BY <2>1 DEF BridgeTypeOK
  <2> QED
    BY <2>2, <2>3, BurnIdType DEF Waiting, AmountsOf
<1>4. IsFiniteSet(LocksThatAre("Minted")) /\ Credited \in [LocksThatAre("Minted") -> Int]
  <2>1. LocksThatAre("Minted") \subseteq DOMAIN locks
    BY DEF LocksThatAre
  <2>2. IsFiniteSet(LocksThatAre("Minted"))
    BY <2>1, FS_Subset DEF FiniteMemory
  <2>3. LocksThatAre("Minted") \subseteq LockId
    BY <2>1 DEF BridgeTypeOK
  <2> QED
    BY <2>2, <2>3, LockIdType DEF Credited, AmountsOf
<1> QED
  BY <1>1, <1>2, <1>3, <1>4, SumInt DEF SumsTypeOK

\* The same after a step.
LEMMA SumsTypedNext ==
  ASSUME IsFiniteSet(Balances), IsFiniteSet(Caller)
  PROVE  BridgeTypeOK' /\ FiniteMemory' => SumsTypeOK'
<1>1. BridgeTypeOK /\ FiniteMemory => SumsTypeOK
  BY SumsTyped
<1> QED
  BY <1>1, PTL

\* What does not touch balances, burns under way or the status of events
\* leaves the sums alone.
LEMMA SumsFrame ==
  /\ UNCHANGED <<wrapped, unlocked>> => Held' = Held
  /\ UNCHANGED call => Debited' = Debited
  /\ DOMAIN locks' = DOMAIN locks /\ (\A id \in DOMAIN locks : locks'[id] = locks[id])
       => Credited' = Credited
  /\ DOMAIN burns' = DOMAIN burns /\ (\A id \in DOMAIN burns : burns'[id] = burns[id])
       => Waiting' = Waiting
<1>1. UNCHANGED <<wrapped, unlocked>> => Held' = Held
  BY DEF Held
<1>2. UNCHANGED call => Debited' = Debited
  BY DEF Debited, InBurn
<1>3. ASSUME DOMAIN locks' = DOMAIN locks, \A id \in DOMAIN locks : locks'[id] = locks[id]
      PROVE  Credited' = Credited
  <2>1. LocksThatAre("Minted")' = LocksThatAre("Minted")
    BY <1>3 DEF LocksThatAre
  <2> QED
    BY <2>1 DEF Credited, AmountsOf
<1>4. ASSUME DOMAIN burns' = DOMAIN burns, \A id \in DOMAIN burns : burns'[id] = burns[id]
      PROVE  Waiting' = Waiting
  <2>1. BurnsThatAre("Burned")' = BurnsThatAre("Burned")
    BY <1>4 DEF BurnsThatAre
  <2> QED
    BY <2>1 DEF Waiting, AmountsOf
<1> QED
  BY <1>1, <1>2, <1>3, <1>4

\* A credit adds its amount to one balance.
LEMMA HeldChanges ==
  ASSUME IsFiniteSet(Balances), Held \in [Balances -> Int], Held' \in [Balances -> Int],
         NEW key \in Balances, NEW amount \in Int, Held'[key] = Held[key] + amount,
         \A k \in Balances \ {key} : Held'[k] = Held[k]
  PROVE  SumFunction(Held)' = SumFunction(Held) + amount
<1>1. SumFunction(Held') = SumFunction(Held) - Held[key] + Held'[key]
  BY SumChanged
<1>2. Held[key] \in Int /\ SumFunction(Held) \in Int
  BY SumInt
<1> QED
  BY <1>1, <1>2

\* lock() writes an event that is new to memory, as Locked.
LEMMA LockInsertConserves ==
  ASSUME BridgeTypeOK, InFlight, TokensAreConserved, NEW c \in Caller, LockInsert(c)
  PROVE  TokensAreConserved'
<1> DEFINE id  == EventArgs(call[c].request)
           row == [recipient |-> call[c].request.recipient, status |-> "Locked"]
<1>1. /\ id \notin DOMAIN locks /\ locks' = Put(locks, id, row)
      /\ call' = [call EXCEPT ![c] = NoCall] /\ call[c].step = "lock"
      /\ UNCHANGED <<wrapped, unlocked, burns>>
  BY DEF LockInsert, InFlight, InLock
<1>2. row.status = "Locked"
  OBVIOUS
<1> HIDE DEF id, row
<1>3. LocksThatAre("Minted")' = LocksThatAre("Minted")
  BY <1>1, <1>2 DEF LocksThatAre, Put
<1>4. Credited' = Credited
  BY <1>3 DEF Credited, AmountsOf
<1>5. Debited' = Debited
  BY <1>1 DEF BridgeTypeOK, Debited, InBurn, NoCall
<1>6. Held' = Held /\ Waiting' = Waiting
  BY <1>1, SumsFrame
<1> QED
  BY <1>4, <1>5, <1>6 DEF TokensAreConserved, Waiting, Credited

\* mint() credits the amount of an event that becomes Minted.
LEMMA MintConserves ==
  ASSUME IsFiniteSet(Balances), BridgeTypeOK, SumsTypeOK, SumsTypeOK', InFlight,
         TokensAreConserved,
         NEW id \in LockId, NEW s \in Signer, Mint(id, s)
  PROVE  TokensAreConserved'
<1>1. PICK event \in FoundLock(id) :
        /\ event.status = "Locked"
        /\ wrapped' = [wrapped EXCEPT ![<<id.target, event.recipient>>] = @ + id.amount]
        /\ locks' = Put(locks, id, Minted(event))
  BY DEF Mint
<1>2. id \in DOMAIN locks /\ event = locks[id] /\ locks[id] \in LockRow
  BY FoundInMemory DEF InFlight, BridgeTypeOK
<1>3. Minted(event).status = "Minted"
  BY <1>2 DEF Minted, LockRow
<1>4. <<id.target, event.recipient>> \in Balances /\ id.amount \in Nat
  BY <1>2, LockIdType DEF LockRow, Balances
<1>5. UNCHANGED <<unlocked, burns, call>>
  BY DEF Mint
<1>6. SumFunction(Held)' = SumFunction(Held) + id.amount
  <2>1. Held \in [Balances -> Int] /\ Held' \in [Balances -> Int]
    BY DEF SumsTypeOK
  <2>2. wrapped \in [Balances -> Int] /\ unlocked \in [Balances -> Int]
    BY BridgeAssumption DEF BridgeTypeOK
  <2> DEFINE key == <<id.target, event.recipient>>
  <2>3. wrapped' = [wrapped EXCEPT ![key] = wrapped[key] + id.amount] /\ key \in Balances
    BY <1>1, <1>4
  <2> HIDE DEF key
  <2>4. /\ Held'[key] = Held[key] + id.amount
        /\ \A k \in Balances \ {key} : Held'[k] = Held[k]
    BY <1>4, <1>5, <2>2, <2>3 DEF Held
  <2> QED
    BY <1>4, <2>1, <2>3, <2>4, HeldChanges
<1>7. SumFunction(Credited)' = SumFunction(Credited) + id.amount
  <2>1. /\ LocksThatAre("Minted")' = LocksThatAre("Minted") \cup {id}
        /\ id \notin LocksThatAre("Minted")
    BY <1>1, <1>2, <1>3 DEF LocksThatAre, Put
  <2>2. /\ Credited \in [LocksThatAre("Minted") -> Int]
        /\ Credited' \in [LocksThatAre("Minted") \cup {id} -> Int]
        /\ IsFiniteSet(LocksThatAre("Minted"))
    BY <2>1 DEF SumsTypeOK
  <2>3. /\ Credited'[id] = id.amount
        /\ \A e \in LocksThatAre("Minted") : Credited'[e] = Credited[e]
    BY <2>1 DEF Credited, AmountsOf
  <2>4. SumFunction(Credited') = SumFunction(Credited) + Credited'[id]
    BY <2>1, <2>2, <2>3, SumAdded
  <2> QED
    BY <2>3, <2>4
<1>8. Debited' = Debited /\ Waiting' = Waiting
  BY <1>5, SumsFrame
<1> QED
  BY <1>4, <1>6, <1>7, <1>8 DEF SumsTypeOK, TokensAreConserved, Waiting, Credited

\* burn() takes from a balance what it has under way.
LEMMA BurnDebitConserves ==
  ASSUME IsFiniteSet(Balances), BridgeTypeOK, SumsTypeOK, SumsTypeOK', TokensAreConserved,
         NEW c \in Caller, NEW r \in BurnRequest, BurnDebit(c, r)
  PROVE  TokensAreConserved'
<1> DEFINE key == <<r.target, r.user>>
<1>1. /\ call[c] = NoCall /\ call' = [call EXCEPT ![c] = [step |-> "burn", request |-> r]]
      /\ wrapped' = [wrapped EXCEPT ![key] = wrapped[key] - r.amount]
      /\ UNCHANGED <<locks, burns, unlocked>>
  BY DEF BurnDebit, MayBegin
<1>2. key \in Balances /\ r.amount \in Nat
  <2>1. r \in BurnId
    BY DEF BurnDebit, BurnId
  <2> QED
    BY <2>1, BurnIdType DEF Balances
<1> HIDE DEF key
<1>3. SumFunction(Held)' = SumFunction(Held) + (0 - r.amount)
  <2>1. wrapped \in [Balances -> Int] /\ unlocked \in [Balances -> Int]
    BY BridgeAssumption DEF BridgeTypeOK
  <2>2. Held'[key] = Held[key] + (0 - r.amount)
    BY <1>1, <1>2, <2>1 DEF Held
  <2>3. \A k \in Balances \ {key} : Held'[k] = Held[k]
    BY <1>1, <1>2, <2>1 DEF Held
  <2>4. 0 - r.amount \in Int /\ Held \in [Balances -> Int] /\ Held' \in [Balances -> Int]
    BY <1>2 DEF SumsTypeOK
  <2> QED
    BY <1>2, <2>2, <2>3, <2>4, HeldChanges
<1>4. SumFunction(Debited)' = SumFunction(Debited) + r.amount
  <2>1. InBurn' = InBurn \cup {c} /\ c \notin InBurn
    BY <1>1 DEF InBurn, NoCall, BridgeTypeOK
  <2>2. Debited'[c] = r.amount
    BY <1>1, <2>1 DEF Debited, BridgeTypeOK
  <2>3. \A d \in InBurn : Debited'[d] = Debited[d]
    BY <1>1, <2>1 DEF Debited, BridgeTypeOK
  <2>4. /\ IsFiniteSet(InBurn) /\ Debited \in [InBurn -> Int]
        /\ Debited' \in [InBurn \cup {c} -> Int]
    BY <2>1 DEF SumsTypeOK
  <2>5. SumFunction(Debited') = SumFunction(Debited) + Debited'[c]
    BY <2>1, <2>3, <2>4, SumAdded
  <2> QED
    BY <2>2, <2>5
<1>5. Credited' = Credited /\ Waiting' = Waiting
  BY <1>1, SumsFrame
<1> QED
  BY <1>2, <1>3, <1>4, <1>5 DEF SumsTypeOK, TokensAreConserved, Waiting, Credited

\* The database call of burn() moves nothing.
LEMMA BurnPersistConserves ==
  ASSUME BridgeTypeOK, InFlight, TokensAreConserved, NEW c \in Caller, BurnPersist(c)
  PROVE  TokensAreConserved'
<1>1. call[c] \in [step : {"burn", "burned"}, request : BurnId] /\ call[c].step = "burn"
  <2>1. call[c] \in CallType /\ call[c].step = "burn" /\ NoCall.step # "burn"
    BY DEF BurnPersist, BridgeTypeOK, NoCall
  <2> QED
    BY <2>1 DEF CallType
<1>2. call' = [call EXCEPT ![c] = [@ EXCEPT !.step = "burned"]]
  BY NoOutcome DEF BurnPersist, InFlight
<1>3. UNCHANGED <<locks, burns, wrapped, unlocked>>
  BY DEF BurnPersist, memory
<1>4. InBurn' = InBurn
  BY <1>1, <1>2 DEF InBurn, BridgeTypeOK
<1>5. \A d \in InBurn : call'[d].request = call[d].request
  BY <1>1, <1>2 DEF InBurn, BridgeTypeOK
<1>6. Debited' = Debited
  BY <1>4, <1>5 DEF Debited
<1> QED
  BY <1>3, <1>6, SumsFrame DEF TokensAreConserved, Waiting, Credited

\* What burn() has under way becomes an event that waits for unlock().
LEMMA BurnInsertConserves ==
  ASSUME BridgeTypeOK, SumsTypeOK, SumsTypeOK', InFlight, TokensAreConserved,
         NEW c \in Caller, BurnInsert(c)
  PROVE  TokensAreConserved'
<1> DEFINE id  == call[c].request
           row == [status |-> "Burned"]
<1>1. /\ id \notin DOMAIN burns /\ burns' = Put(burns, id, row) /\ c \in InBurn
      /\ call' = [call EXCEPT ![c] = NoCall]
      /\ UNCHANGED <<wrapped, unlocked, locks>>
  BY DEF BurnInsert, InFlight, Burning, InBurn
<1>2. row.status = "Burned"
  OBVIOUS
<1>3. id.amount \in Nat
  BY <1>1, BurnCallType, BurnIdType DEF InBurn
<1>4. Debited[c] = id.amount
  BY <1>1 DEF Debited
<1> HIDE DEF id, row
<1>5. SumFunction(Debited) = SumFunction(Debited)' + id.amount
  <2>1. InBurn = InBurn' \cup {c} /\ c \notin InBurn'
    BY <1>1 DEF InBurn, NoCall, BridgeTypeOK
  <2>2. \A d \in InBurn' : Debited[d] = Debited'[d]
    BY <1>1, <2>1 DEF Debited, BridgeTypeOK
  <2>3. /\ IsFiniteSet(InBurn') /\ Debited' \in [InBurn' -> Int]
        /\ Debited \in [InBurn' \cup {c} -> Int]
    BY <2>1 DEF SumsTypeOK
  <2>4. SumFunction(Debited) = SumFunction(Debited') + Debited[c]
    BY <2>1, <2>2, <2>3, SumAdded
  <2> QED
    BY <1>4, <2>4
<1>6. SumFunction(Waiting)' = SumFunction(Waiting) + id.amount
  <2>1. /\ BurnsThatAre("Burned")' = BurnsThatAre("Burned") \cup {id}
        /\ id \notin BurnsThatAre("Burned")
    BY <1>1, <1>2 DEF BurnsThatAre, Put
  <2>2. /\ Waiting \in [BurnsThatAre("Burned") -> Int]
        /\ Waiting' \in [BurnsThatAre("Burned") \cup {id} -> Int]
        /\ IsFiniteSet(BurnsThatAre("Burned"))
    BY <2>1 DEF SumsTypeOK
  <2>3. /\ Waiting'[id] = id.amount
        /\ \A e \in BurnsThatAre("Burned") : Waiting'[e] = Waiting[e]
    BY <2>1 DEF Waiting, AmountsOf
  <2>4. SumFunction(Waiting') = SumFunction(Waiting) + Waiting'[id]
    BY <2>1, <2>2, <2>3, SumAdded
  <2> QED
    BY <2>3, <2>4
<1>7. Held' = Held /\ Credited' = Credited
  BY <1>1, SumsFrame
<1> QED
  BY <1>3, <1>5, <1>6, <1>7 DEF SumsTypeOK, TokensAreConserved, Waiting, Credited

\* unlock() credits the amount of an event that waits no more.
LEMMA UnlockConserves ==
  ASSUME IsFiniteSet(Balances), BridgeTypeOK, SumsTypeOK, SumsTypeOK', InFlight,
         TokensAreConserved,
         NEW id \in BurnId, NEW s \in Signer, Unlock(id, s)
  PROVE  TokensAreConserved'
<1> DEFINE key == <<id.source, id.user>>
<1>1. PICK event \in FoundBurn(id) :
        /\ event.status = "Burned"
        /\ unlocked' = [unlocked EXCEPT ![key] = unlocked[key] + id.amount]
        /\ burns' = Put(burns, id, Unlocked(event))
  BY DEF Unlock
<1>2. id \in DOMAIN burns /\ event = burns[id] /\ burns[id] \in BurnRow
  BY FoundInMemory DEF InFlight, BridgeTypeOK
<1>3. Unlocked(event).status = "Unlocked"
  BY <1>2 DEF Unlocked, BurnRow
<1>4. key \in Balances /\ id.amount \in Nat
  BY BurnIdType DEF Balances
<1>5. UNCHANGED <<wrapped, locks, call>>
  BY DEF Unlock
<1> HIDE DEF key
<1>6. SumFunction(Held)' = SumFunction(Held) + id.amount
  <2>1. Held \in [Balances -> Int] /\ Held' \in [Balances -> Int]
    BY DEF SumsTypeOK
  <2>2. wrapped \in [Balances -> Int] /\ unlocked \in [Balances -> Int]
    BY BridgeAssumption DEF BridgeTypeOK
  <2>3. /\ Held'[key] = Held[key] + id.amount
        /\ \A k \in Balances \ {key} : Held'[k] = Held[k]
    BY <1>1, <1>4, <1>5, <2>2 DEF Held
  <2> QED
    BY <1>4, <2>1, <2>3, HeldChanges
<1>7. SumFunction(Waiting) = SumFunction(Waiting)' + id.amount
  <2>1. /\ BurnsThatAre("Burned") = BurnsThatAre("Burned")' \cup {id}
        /\ id \notin BurnsThatAre("Burned")'
    BY <1>1, <1>2, <1>3 DEF BurnsThatAre, Put
  <2>2. /\ Waiting' \in [BurnsThatAre("Burned")' -> Int]
        /\ Waiting \in [BurnsThatAre("Burned")' \cup {id} -> Int]
        /\ IsFiniteSet(BurnsThatAre("Burned")')
    BY <2>1 DEF SumsTypeOK
  <2>3. /\ Waiting[id] = id.amount
        /\ \A e \in BurnsThatAre("Burned")' : Waiting[e] = Waiting'[e]
    BY <2>1 DEF Waiting, AmountsOf
  <2>4. SumFunction(Waiting) = SumFunction(Waiting') + Waiting[id]
    BY <2>1, <2>2, <2>3, SumAdded
  <2> QED
    BY <2>3, <2>4
<1>8. Debited' = Debited /\ Credited' = Credited
  BY <1>5, SumsFrame
<1> QED
  BY <1>4, <1>6, <1>7, <1>8 DEF SumsTypeOK, TokensAreConserved, Waiting, Credited

\* With nothing in memory and nobody inside a call, all sums are zero.
LEMMA NothingIsConserved ==
  ASSUME IsFiniteSet(Balances), wrapped = Empty, unlocked = Empty,
         call = [c \in Caller |-> NoCall], locks = NoEvents, burns = NoEvents
  PROVE  TokensAreConserved /\ FiniteMemory
<1>1. IsFiniteSet({})
  BY FS_EmptySet
<1>2. DOMAIN locks = {} /\ DOMAIN burns = {} /\ InBurn = {}
  BY DEF NoEvents, InBurn, NoCall
<1>3. BurnsThatAre("Burned") = {} /\ LocksThatAre("Minted") = {}
  BY <1>2 DEF BurnsThatAre, LocksThatAre
<1>4. Held \in [Balances -> {0}]
  BY DEF Held, Empty
<1>5. Debited \in [{} -> {0}] /\ Waiting \in [{} -> {0}] /\ Credited \in [{} -> {0}]
  BY <1>2, <1>3 DEF Debited, Waiting, Credited, AmountsOf
<1>6. /\ SumFunction(Held) = 0 /\ SumFunction(Debited) = 0
      /\ SumFunction(Waiting) = 0 /\ SumFunction(Credited) = 0
  BY <1>1, <1>4, <1>5, SumZero
<1> QED
  BY <1>1, <1>2, <1>6 DEF TokensAreConserved, Waiting, Credited, FiniteMemory

\* The same after a restart.
LEMMA RestartConserves ==
  ASSUME IsFiniteSet(Balances)
  PROVE  Restart => TokensAreConserved' /\ FiniteMemory'
<1>1. (/\ wrapped = Empty /\ unlocked = Empty /\ call = [c \in Caller |-> NoCall]
       /\ locks = NoEvents /\ burns = NoEvents)
        => TokensAreConserved /\ FiniteMemory
  BY NothingIsConserved
<1>2. (/\ wrapped = Empty /\ unlocked = Empty /\ call = [c \in Caller |-> NoCall]
       /\ locks = NoEvents /\ burns = NoEvents)'
        => TokensAreConserved' /\ FiniteMemory'
  BY <1>1, PTL
<1> QED
  BY <1>2 DEF Restart

\* Every step adds one event to a map at most, or empties the maps.
LEMMA StepKeepsFinite ==
  ASSUME FiniteMemory, [BridgeNext]_bridgeVars
  PROVE  FiniteMemory'
<1>1. \A S, x : IsFiniteSet(S) => IsFiniteSet(S \cup {x})
  BY FS_AddElement
<1>2. CASE UNCHANGED <<locks, burns>>
  BY <1>2 DEF FiniteMemory
<1>3. ASSUME \E x, v : locks' = Put(locks, x, v), UNCHANGED burns
      PROVE  FiniteMemory'
  <2>1. \E x : DOMAIN locks' = DOMAIN locks \cup {x}
    BY <1>3 DEF Put
  <2> QED
    BY <1>1, <1>3, <2>1 DEF FiniteMemory
<1>4. ASSUME \E x, v : burns' = Put(burns, x, v), UNCHANGED locks
      PROVE  FiniteMemory'
  <2>1. \E x : DOMAIN burns' = DOMAIN burns \cup {x}
    BY <1>4 DEF Put
  <2> QED
    BY <1>1, <1>4, <2>1 DEF FiniteMemory
<1>5. CASE \E c \in Caller, r \in LockRequest : LockPersist(c, r)
  BY <1>2, <1>5 DEF LockPersist, memory
<1>6. CASE \E c \in Caller : LockInsert(c)
  BY <1>3, <1>6 DEF LockInsert
<1>7. CASE \E id \in LockId, s \in Signer : Mint(id, s)
  BY <1>3, <1>7 DEF Mint
<1>8. CASE \E id \in LockId, s \in Signer : MintOverflow(id, s)
  BY <1>3, <1>8 DEF MintOverflow
<1>9. CASE \E c \in Caller, r \in BurnRequest : BurnDebit(c, r)
  BY <1>2, <1>9 DEF BurnDebit
<1>10. CASE \E c \in Caller : BurnPersist(c)
  BY <1>2, <1>10 DEF BurnPersist, memory
<1>11. CASE \E c \in Caller : BurnInsert(c)
  BY <1>4, <1>11 DEF BurnInsert
<1>12. CASE \E id \in BurnId, s \in Signer : Unlock(id, s)
  BY <1>4, <1>12 DEF Unlock
<1>13. CASE \E id \in BurnId, s \in Signer : UnlockOverflow(id, s)
  BY <1>4, <1>13 DEF UnlockOverflow
<1>14. CASE Restart
  <2>1. DOMAIN locks' = {} /\ DOMAIN burns' = {}
    BY <1>14 DEF Restart, NoEvents
  <2> QED
    BY <2>1, FS_EmptySet DEF FiniteMemory
<1>15. CASE UNCHANGED bridgeVars
  BY <1>2, <1>15 DEF bridgeVars, memory
<1> QED
  BY <1>5, <1>6, <1>7, <1>8, <1>9, <1>10, <1>11, <1>12, <1>13, <1>14, <1>15 DEF BridgeNext

\* Every step conserves the tokens.
LEMMA StepConserves ==
  ASSUME IsFiniteSet(Balances), BridgeTypeOK, InFlight, SumsTypeOK, SumsTypeOK',
         BridgeTypeOK', TokensAreConserved, [BridgeNext]_bridgeVars
  PROVE  TokensAreConserved'
<1>1. ASSUME Held' = Held, Debited' = Debited, Waiting' = Waiting, Credited' = Credited
      PROVE  TokensAreConserved'
  BY <1>1 DEF TokensAreConserved, Waiting, Credited
<1>2. ASSUME NEW c \in Caller, NEW r \in LockRequest, LockPersist(c, r)
      PROVE  TokensAreConserved'
  <2>1. UNCHANGED <<locks, burns, wrapped, unlocked>> /\ call[c] = NoCall
    BY <1>2 DEF LockPersist, memory, MayBegin
  <2>2. call' = [call EXCEPT ![c] = [step |-> "lock", request |-> r]]
    BY <1>2, NoOutcome DEF LockPersist, InFlight
  <2>3. InBurn' = InBurn /\ \A d \in InBurn : call'[d] = call[d]
    BY <2>1, <2>2 DEF InBurn, NoCall, BridgeTypeOK
  <2>4. Debited' = Debited
    BY <2>3 DEF Debited
  <2> QED
    BY <1>1, <2>1, <2>4, SumsFrame
<1>3. ASSUME NEW id \in LockId, NEW s \in Signer, MintOverflow(id, s)
      PROVE  TokensAreConserved'
  <2>1. UNCHANGED <<burns, wrapped, unlocked, call>>
    BY <1>3 DEF MintOverflow
  <2>2. DOMAIN locks' = DOMAIN locks /\ \A e \in DOMAIN locks : locks'[e] = locks[e]
    BY <1>3, OverflowInMemory
  <2> QED
    BY <1>1, <2>1, <2>2, SumsFrame
<1>4. ASSUME NEW id \in BurnId, NEW s \in Signer, UnlockOverflow(id, s)
      PROVE  TokensAreConserved'
  <2>1. UNCHANGED <<locks, wrapped, unlocked, call>>
    BY <1>4 DEF UnlockOverflow
  <2>2. DOMAIN burns' = DOMAIN burns /\ \A e \in DOMAIN burns : burns'[e] = burns[e]
    BY <1>4, OverflowInMemory
  <2> QED
    BY <1>1, <2>1, <2>2, SumsFrame
<1>5. CASE UNCHANGED bridgeVars
  BY <1>1, <1>5, SumsFrame DEF bridgeVars, memory
<1>6. CASE Restart
  BY <1>6, RestartConserves
<1> QED
  BY <1>2, <1>3, <1>4, <1>5, <1>6, LockInsertConserves, MintConserves, BurnDebitConserves,
     BurnPersistConserves, BurnInsertConserves, UnlockConserves DEF BridgeNext

\* Through every interleaving, overflow and restart, the tokens minted are
\* those in balances, under way or waiting to be unlocked.  The accounts and
\* the calls at work are finitely many, as they are in any process.
THEOREM TokensAlwaysConserved ==
  ASSUME ~Database, ~Resubmission,
         IsFiniteSet(Chain), IsFiniteSet(Account), IsFiniteSet(Caller)
  PROVE  BridgeSpec => []TokensAreConserved
<1> DEFINE Inv == FiniteMemory /\ TokensAreConserved
<1>1. IsFiniteSet(Balances)
  BY FS_Product DEF Balances
<1>2. BridgeInit => Inv
  BY <1>1, NothingIsConserved DEF BridgeInit
<1>3. ASSUME BridgeInv, BridgeInv', InFlight, Inv, [BridgeNext]_bridgeVars
      PROVE  Inv'
  <2>1. BridgeTypeOK /\ BridgeTypeOK'
    BY <1>3 DEF BridgeInv
  <2>2. FiniteMemory'
    BY <1>3, StepKeepsFinite
  <2>3. SumsTypeOK /\ SumsTypeOK'
    BY <1>3, <1>1, <2>1, <2>2, SumsTyped, SumsTypedNext
  <2> QED
    BY <1>3, <1>1, <2>1, <2>2, <2>3, StepConserves
<1> QED
  BY <1>2, <1>3, InFlightInvariant, PTL DEF BridgeSpec

-----------------------------------------------------------------------------
(* What holds with a database, faults, retries and restarts too: a balance *)
(* has nothing in it that was not credited by a mint() or unlock().        *)

\* What the credits of all the events asked for come to.
MintedAmounts == [id \in asked_locks |-> mints[id] * id.amount]
UnlockedAmounts == [id \in asked_burns |-> unlocks[id] * id.amount]

\* The supply of wrapped tokens is at most what mint() credited, and what is
\* unlocked at most what unlock() credited.  With MintsAreBounded this
\* bounds the supply by the locks, their writes and the starts.
SupplyIsBacked ==
  /\ SumFunction(wrapped) <= SumFunction(MintedAmounts)
  /\ SumFunction(unlocked) <= SumFunction(UnlockedAmounts)

\* Events are asked for one at a time, and no sum of credits is negative.
SupplyInv ==
  /\ IsFiniteSet(asked_locks) /\ IsFiniteSet(asked_burns)
  /\ 0 <= SumFunction(MintedAmounts) /\ 0 <= SumFunction(UnlockedAmounts)
  /\ SupplyIsBacked

\* The amounts of the balances and credits are integers.
LEMMA AmountsTyped ==
  ASSUME BridgeTypeOK
  PROVE  /\ wrapped \in [Balances -> Int] /\ unlocked \in [Balances -> Int]
         /\ MintedAmounts \in [asked_locks -> Int]
         /\ UnlockedAmounts \in [asked_burns -> Int]
<1>1. wrapped \in [Balances -> Int] /\ unlocked \in [Balances -> Int]
  BY BridgeAssumption DEF BridgeTypeOK
<1>2. \A m, a \in Nat : m * a \in Int
  OBVIOUS
<1>3. \A id \in asked_locks : mints[id] \in Nat /\ id.amount \in Nat
  BY LockIdType DEF BridgeTypeOK
<1>4. \A id \in asked_burns : unlocks[id] \in Nat /\ id.amount \in Nat
  BY BurnIdType DEF BridgeTypeOK
<1> QED
  BY <1>1, <1>2, <1>3, <1>4 DEF MintedAmounts, UnlockedAmounts

\* The same after a step.
LEMMA AmountsTypedNext ==
  BridgeTypeOK' => (/\ wrapped \in [Balances -> Int] /\ unlocked \in [Balances -> Int]
                    /\ MintedAmounts \in [asked_locks -> Int]
                    /\ UnlockedAmounts \in [asked_burns -> Int])'
<1>1. BridgeTypeOK => /\ wrapped \in [Balances -> Int] /\ unlocked \in [Balances -> Int]
                      /\ MintedAmounts \in [asked_locks -> Int]
                      /\ UnlockedAmounts \in [asked_burns -> Int]
  BY AmountsTyped
<1> QED
  BY <1>1, PTL

\* An element that adds nothing leaves a sum as it is.
LEMMA NothingAdded ==
  ASSUME NEW S, IsFiniteSet(S), NEW x, NEW f \in [S -> Int], NEW h \in [S \cup {x} -> Int],
         \A y \in S : h[y] = f[y], x \notin S => h[x] = 0
  PROVE  SumFunction(h) = SumFunction(f)
<1>1. CASE x \in S
  <2>1. S \cup {x} = S
    BY <1>1
  <2>2. h = f
    BY <2>1
  <2> QED
    BY <2>2
<1>2. CASE x \notin S
  <2>1. SumFunction(h) = SumFunction(f) + h[x]
    BY <1>2, SumAdded
  <2>2. SumFunction(f) \in Int
    BY SumInt
  <2> QED
    BY <1>2, <2>1, <2>2
<1> QED
  BY <1>1, <1>2

\* One more credit of an event adds its amount once.
LEMMA CreditAdded ==
  ASSUME NEW S, IsFiniteSet(S), NEW x \in S, NEW f \in [S -> Int], NEW h \in [S -> Int],
         NEW n \in Nat, NEW amount \in Nat, f[x] = n * amount, h[x] = (n + 1) * amount,
         \A y \in S \ {x} : h[y] = f[y]
  PROVE  SumFunction(h) = SumFunction(f) + amount
<1>1. SumFunction(h) = SumFunction(f) - f[x] + h[x]
  BY SumChanged
<1>2. h[x] = f[x] + amount
  OBVIOUS
<1>3. SumFunction(f) \in Int /\ f[x] \in Int
  BY SumInt
<1> QED
  BY <1>1, <1>2, <1>3

\* An amount that comes to or leaves a balance changes the sum by as much.
LEMMA BalanceChanges ==
  ASSUME NEW S, IsFiniteSet(S), NEW key \in S, NEW f \in [S -> Int], NEW amount \in Int,
         NEW h \in [S -> Int], h[key] = f[key] + amount, \A y \in S \ {key} : h[y] = f[y]
  PROVE  SumFunction(h) = SumFunction(f) + amount
<1>1. SumFunction(h) = SumFunction(f) - f[key] + h[key]
  BY SumChanged
<1>2. SumFunction(f) \in Int /\ f[key] \in Int
  BY SumInt
<1> QED
  BY <1>1, <1>2

\* lock() is asked for before anything is credited.
LEMMA LockPersistKeepsSupply ==
  ASSUME BridgeInv, BridgeInv', SupplyInv,
         NEW c \in Caller, NEW r \in LockRequest, LockPersist(c, r)
  PROVE  SupplyInv'
<1> DEFINE id == EventArgs(r)
<1>1. /\ asked_locks' = asked_locks \cup {id} /\ id \in LockId
      /\ UNCHANGED <<asked_burns, mints, unlocks, wrapped, unlocked>>
  BY DEF LockPersist, memory, LockId
<1> HIDE DEF id
<1>2. id \notin asked_locks => mints[id] = 0
  BY <1>1 DEF BridgeInv, LockInv, BridgeTypeOK
<1>3. SumFunction(MintedAmounts') = SumFunction(MintedAmounts)
  <2>1. /\ MintedAmounts \in [asked_locks -> Int]
        /\ MintedAmounts' \in [asked_locks \cup {id} -> Int]
    BY <1>1, AmountsTyped, AmountsTypedNext DEF BridgeInv
  <2>2. \A y \in asked_locks : MintedAmounts'[y] = MintedAmounts[y]
    BY <1>1 DEF MintedAmounts
  <2>3. id \notin asked_locks => MintedAmounts'[id] = 0
    BY <1>1, <1>2, LockIdType DEF MintedAmounts
  <2> QED
    BY <2>1, <2>2, <2>3, NothingAdded DEF SupplyInv
<1>4. UnlockedAmounts' = UnlockedAmounts
  BY <1>1 DEF UnlockedAmounts
<1>5. IsFiniteSet(asked_locks')
  BY <1>1, FS_AddElement DEF SupplyInv
<1> QED
  BY <1>1, <1>3, <1>4, <1>5 DEF SupplyInv, SupplyIsBacked

\* burn() takes from a balance, and is asked for before anything is unlocked.
LEMMA BurnDebitKeepsSupply ==
  ASSUME IsFiniteSet(Balances), BridgeInv, BridgeInv', SupplyInv,
         NEW c \in Caller, NEW r \in BurnRequest, BurnDebit(c, r)
  PROVE  SupplyInv'
<1> DEFINE key == <<r.target, r.user>>
<1>1. /\ asked_burns' = asked_burns \cup {r} /\ r \in BurnId
      /\ wrapped' = [wrapped EXCEPT ![key] = wrapped[key] - r.amount]
      /\ UNCHANGED <<asked_locks, mints, unlocks, unlocked>>
  BY DEF BurnDebit, BurnId
<1>2. key \in Balances /\ r.amount \in Nat
  BY <1>1, BurnIdType DEF Balances
<1> HIDE DEF key
<1>3. r \notin asked_burns => unlocks[r] = 0
  BY <1>1 DEF BridgeInv, BurnInv, BridgeTypeOK
<1>4. SumFunction(UnlockedAmounts') = SumFunction(UnlockedAmounts)
  <2>1. /\ UnlockedAmounts \in [asked_burns -> Int]
        /\ UnlockedAmounts' \in [asked_burns \cup {r} -> Int]
    BY <1>1, AmountsTyped, AmountsTypedNext DEF BridgeInv
  <2>2. \A y \in asked_burns : UnlockedAmounts'[y] = UnlockedAmounts[y]
    BY <1>1 DEF UnlockedAmounts
  <2>3. r \notin asked_burns => UnlockedAmounts'[r] = 0
    BY <1>1, <1>2, <1>3 DEF UnlockedAmounts
  <2> QED
    BY <2>1, <2>2, <2>3, NothingAdded DEF SupplyInv
<1>5. MintedAmounts' = MintedAmounts
  BY <1>1 DEF MintedAmounts
<1>6. SumFunction(wrapped') <= SumFunction(wrapped)
  <2>1. wrapped \in [Balances -> Int]
    BY AmountsTyped DEF BridgeInv
  <2>2. /\ wrapped'[key] = wrapped[key] + (0 - r.amount)
        /\ \A k \in Balances \ {key} : wrapped'[k] = wrapped[k]
    BY <1>1, <1>2, <2>1
  <2>3. SumFunction(wrapped') = SumFunction(wrapped) + (0 - r.amount)
    <3>1. 0 - r.amount \in Int /\ wrapped' \in [Balances -> Int]
      BY <1>2, AmountsTypedNext DEF BridgeInv
    <3> QED
      BY <1>2, <2>1, <2>2, <3>1, BalanceChanges
  <2>4. SumFunction(wrapped) \in Int
    BY <2>1, SumInt
  <2> QED
    BY <1>2, <2>3, <2>4
<1>7. /\ SumFunction(wrapped) \in Int /\ SumFunction(wrapped') \in Int
      /\ SumFunction(MintedAmounts) \in Int
  BY AmountsTyped, AmountsTypedNext, SumInt DEF BridgeInv, SupplyInv
<1>8. IsFiniteSet(asked_burns')
  BY <1>1, FS_AddElement DEF SupplyInv
<1> QED
  BY <1>1, <1>4, <1>5, <1>6, <1>7, <1>8 DEF SupplyInv, SupplyIsBacked

\* mint() adds the same amount to a balance and to the credits.
LEMMA MintKeepsSupply ==
  ASSUME IsFiniteSet(Balances), BridgeInv, BridgeInv', SupplyInv,
         NEW id \in LockId, NEW s \in Signer, Mint(id, s)
  PROVE  SupplyInv'
<1>1. PICK event \in FoundLock(id) :
        wrapped' = [wrapped EXCEPT ![<<id.target, event.recipient>>] =
                      wrapped[<<id.target, event.recipient>>] + id.amount]
  BY DEF Mint
<1>2. /\ mints' = [mints EXCEPT ![id] = @ + 1]
      /\ UNCHANGED <<asked_locks, asked_burns, unlocks, unlocked>>
  BY DEF Mint
<1>3. id.amount \in Nat /\ <<id.target, event.recipient>> \in Balances
  BY LockIdType, FoundLockType DEF BridgeInv, LockRow, Balances
<1>4. mints \in [LockId -> Nat] /\ id \in asked_locks
  <2>1. mints \in [LockId -> Nat] /\ mints'[id] > 0
    BY <1>2 DEF BridgeInv, BridgeTypeOK
  <2>2. id \in asked_locks'
    BY <2>1 DEF BridgeInv, LockInv
  <2> QED
    BY <1>2, <2>1, <2>2
<1>5. SumFunction(wrapped') = SumFunction(wrapped) + id.amount
  <2>1. wrapped \in [Balances -> Int] /\ wrapped' \in [Balances -> Int] /\ id.amount \in Int
    BY <1>3, AmountsTyped, AmountsTypedNext DEF BridgeInv
  <2> DEFINE key == <<id.target, event.recipient>>
  <2>2. key \in Balances
    BY <1>3
  <2>3. wrapped' = [wrapped EXCEPT ![key] = wrapped[key] + id.amount]
    BY <1>1
  <2> HIDE DEF key
  <2>4. /\ wrapped'[key] = wrapped[key] + id.amount
        /\ \A k \in Balances \ {key} : wrapped'[k] = wrapped[k]
    BY <2>1, <2>2, <2>3
  <2> QED
    BY <2>1, <2>2, <2>4, BalanceChanges
<1>6. SumFunction(MintedAmounts') = SumFunction(MintedAmounts) + id.amount
  <2>1. /\ MintedAmounts \in [asked_locks -> Int]
        /\ MintedAmounts' \in [asked_locks -> Int]
    BY <1>2, AmountsTyped, AmountsTypedNext DEF BridgeInv
  <2>2. /\ MintedAmounts[id] = mints[id] * id.amount
        /\ MintedAmounts'[id] = (mints[id] + 1) * id.amount
    BY <1>2, <1>4 DEF MintedAmounts
  <2>3. \A y \in asked_locks \ {id} : MintedAmounts'[y] = MintedAmounts[y]
    BY <1>2, <1>4 DEF MintedAmounts, BridgeInv, BridgeTypeOK
  <2> QED
    BY <1>3, <1>4, <2>1, <2>2, <2>3, CreditAdded DEF SupplyInv
<1>7. UnlockedAmounts' = UnlockedAmounts
  BY <1>2 DEF UnlockedAmounts
<1>8. SumFunction(wrapped) \in Int /\ SumFunction(MintedAmounts) \in Int
  BY AmountsTyped, SumInt DEF BridgeInv, SupplyInv
<1> QED
  BY <1>2, <1>3, <1>5, <1>6, <1>7, <1>8 DEF SupplyInv, SupplyIsBacked

\* unlock() likewise.
LEMMA UnlockKeepsSupply ==
  ASSUME IsFiniteSet(Balances), BridgeInv, BridgeInv', SupplyInv,
         NEW id \in BurnId, NEW s \in Signer, Unlock(id, s)
  PROVE  SupplyInv'
<1>1. /\ unlocked' = [unlocked EXCEPT ![<<id.source, id.user>>] =
                         unlocked[<<id.source, id.user>>] + id.amount]
      /\ unlocks' = [unlocks EXCEPT ![id] = @ + 1]
      /\ UNCHANGED <<asked_locks, asked_burns, mints, wrapped>>
  BY DEF Unlock
<1>2. id.amount \in Nat /\ <<id.source, id.user>> \in Balances
  BY BurnIdType DEF Balances
<1>3. unlocks \in [BurnId -> Nat] /\ id \in asked_burns
  <2>1. unlocks \in [BurnId -> Nat] /\ unlocks'[id] > 0
    BY <1>1 DEF BridgeInv, BridgeTypeOK
  <2>2. id \in asked_burns'
    BY <2>1 DEF BridgeInv, BurnInv
  <2> QED
    BY <1>1, <2>1, <2>2
<1>4. SumFunction(unlocked') = SumFunction(unlocked) + id.amount
  <2>1. unlocked \in [Balances -> Int] /\ unlocked' \in [Balances -> Int] /\ id.amount \in Int
    BY <1>2, AmountsTyped, AmountsTypedNext DEF BridgeInv
  <2> DEFINE key == <<id.source, id.user>>
  <2>2. key \in Balances
    BY <1>2
  <2>3. unlocked' = [unlocked EXCEPT ![key] = unlocked[key] + id.amount]
    BY <1>1
  <2> HIDE DEF key
  <2>4. /\ unlocked'[key] = unlocked[key] + id.amount
        /\ \A k \in Balances \ {key} : unlocked'[k] = unlocked[k]
    BY <2>1, <2>2, <2>3
  <2> QED
    BY <2>1, <2>2, <2>4, BalanceChanges
<1>5. SumFunction(UnlockedAmounts') = SumFunction(UnlockedAmounts) + id.amount
  <2>1. /\ UnlockedAmounts \in [asked_burns -> Int]
        /\ UnlockedAmounts' \in [asked_burns -> Int]
    BY <1>1, AmountsTyped, AmountsTypedNext DEF BridgeInv
  <2>2. /\ UnlockedAmounts[id] = unlocks[id] * id.amount
        /\ UnlockedAmounts'[id] = (unlocks[id] + 1) * id.amount
    BY <1>1, <1>3 DEF UnlockedAmounts
  <2>3. \A y \in asked_burns \ {id} : UnlockedAmounts'[y] = UnlockedAmounts[y]
    BY <1>1, <1>3 DEF UnlockedAmounts, BridgeInv, BridgeTypeOK
  <2> QED
    BY <1>2, <1>3, <2>1, <2>2, <2>3, CreditAdded DEF SupplyInv
<1>6. MintedAmounts' = MintedAmounts
  BY <1>1 DEF MintedAmounts
<1>7. SumFunction(unlocked) \in Int /\ SumFunction(UnlockedAmounts) \in Int
  BY AmountsTyped, SumInt DEF BridgeInv, SupplyInv
<1> QED
  BY <1>1, <1>2, <1>4, <1>5, <1>6, <1>7 DEF SupplyInv, SupplyIsBacked

\* The other steps credit and take nothing, or empty the balances.
LEMMA StepKeepsSupply ==
  ASSUME IsFiniteSet(Balances), BridgeInv, BridgeInv', SupplyInv, [BridgeNext]_bridgeVars
  PROVE  SupplyInv'
<1>1. ASSUME UNCHANGED <<asked_locks, asked_burns, mints, unlocks>>
      PROVE  MintedAmounts' = MintedAmounts /\ UnlockedAmounts' = UnlockedAmounts
  BY <1>1 DEF MintedAmounts, UnlockedAmounts
<1>2. ASSUME UNCHANGED <<asked_locks, asked_burns, mints, unlocks, wrapped, unlocked>>
      PROVE  SupplyInv'
  BY <1>1, <1>2 DEF SupplyInv, SupplyIsBacked
<1>3. ASSUME NEW c \in Caller, LockInsert(c) \/ BurnPersist(c) \/ BurnInsert(c)
      PROVE  SupplyInv'
  BY <1>2, <1>3 DEF LockInsert, BurnPersist, BurnInsert, memory, history
<1>4. CASE \/ \E id \in LockId, s \in Signer : MintOverflow(id, s)
           \/ \E id \in BurnId, s \in Signer : UnlockOverflow(id, s)
  BY <1>2, <1>4 DEF MintOverflow, UnlockOverflow, history
<1>5. CASE Restart
  <2>1. wrapped' = Empty /\ unlocked' = Empty
    BY <1>5 DEF Restart
  <2>2. UNCHANGED <<asked_locks, asked_burns, mints, unlocks>>
    BY <1>5 DEF Restart, history
  <2>3. Empty \in [Balances -> {0}]
    BY DEF Empty
  <2>4. SumFunction(wrapped') = 0 /\ SumFunction(unlocked') = 0
    BY <2>1, <2>3, SumZero
  <2> QED
    BY <1>1, <2>2, <2>4 DEF SupplyInv, SupplyIsBacked
<1>6. CASE UNCHANGED bridgeVars
  BY <1>2, <1>6 DEF bridgeVars, memory, history
<1> QED
  BY <1>3, <1>4, <1>5, <1>6, LockPersistKeepsSupply, BurnDebitKeepsSupply, MintKeepsSupply,
     UnlockKeepsSupply DEF BridgeNext

\* Whatever fails, repeats or restarts, no wrapped or unlocked token exists
\* that a mint() or unlock() of an event asked for did not credit.
THEOREM SupplyAlwaysBacked ==
  ASSUME IsFiniteSet(Chain), IsFiniteSet(Account)
  PROVE  BridgeSpec => []SupplyIsBacked
<1>1. IsFiniteSet(Balances)
  BY FS_Product DEF Balances
<1>2. BridgeInit => SupplyInv
  <2> SUFFICES ASSUME BridgeInit PROVE SupplyInv
    OBVIOUS
  <2>1. asked_locks = {} /\ asked_burns = {} /\ wrapped = Empty /\ unlocked = Empty
    BY DEF BridgeInit
  <2>2. /\ MintedAmounts \in [{} -> {0}] /\ UnlockedAmounts \in [{} -> {0}]
        /\ Empty \in [Balances -> {0}]
    BY <2>1 DEF MintedAmounts, UnlockedAmounts, Empty
  <2>3. IsFiniteSet({})
    BY FS_EmptySet
  <2>4. /\ SumFunction(MintedAmounts) = 0 /\ SumFunction(UnlockedAmounts) = 0
        /\ SumFunction(wrapped) = 0 /\ SumFunction(unlocked) = 0
    BY <1>1, <2>1, <2>2, <2>3, SumZero
  <2> QED
    BY <2>1, <2>3, <2>4 DEF SupplyInv, SupplyIsBacked
<1>3. BridgeInv /\ BridgeInv' /\ SupplyInv /\ [BridgeNext]_bridgeVars => SupplyInv'
  BY <1>1, StepKeepsSupply
<1>4. SupplyInv => SupplyIsBacked
  BY DEF SupplyInv
<1> QED
  BY <1>2, <1>3, <1>4, BridgeInvariant, PTL DEF BridgeSpec
=============================================================================
