----------------------------- MODULE BridgeEngine ----------------------------
(***************************************************************************)
(* The lock-mint and burn-unlock flows of bridge-engine/src/engine.rs.     *)
(*                                                                         *)
(* lock() records that tokens are escrowed on the source chain; mint(),    *)
(* called by a relayer, credits wrapped tokens on the target chain.        *)
(* burn() debits wrapped tokens; unlock(), called by a relayer, credits    *)
(* the originals on the source chain.  The engine keeps events and         *)
(* balances in maps behind RwLocks and the events in PostgreSQL as well,   *)
(* when a database is configured and was reachable at start-up.            *)
(*                                                                         *)
(* lock() and burn() hold no lock while they await the database: the       *)
(* insertion in the map comes later and other calls run in between.        *)
(* mint() and unlock() hold the event map and the balances until they      *)
(* return, so each is one action, with the outcome of its database update. *)
(* Everything but the two tables is lost when the process restarts.        *)
(*                                                                         *)
(* One token is modelled; balances of different tokens never mix.          *)
(*                                                                         *)
(* AlwaysFits, LockOrNewLock, StillLocked, BurnOrNewBurn and StillBurned   *)
(* are plausible wrong versions of the operator that follows each of them; *)
(* nothing else refers to them.                                            *)
(***************************************************************************)
EXTENDS Integers, FiniteSets, Functions

CONSTANTS
  ChainName,       \* the values of the enum Chain
  Chain,           \* the configured ones: supported_chains()
  Account,         \* users and recipients
  LockRequest,     \* arguments of lock(): [source, target, user, amount, tx,
                   \*   recipient]; an absent recipient is the user
  BurnRequest,     \* arguments of burn(): [source, target, user, amount, tx]
  NoTx,            \* a blank transaction hash
  Signer,          \* holders of Ed25519 keys
  Relayer,         \* config.relayers_pubkeys
  U128Max,         \* the largest balance
  Database,        \* whether database_url is configured
  DatabaseFaults,  \* whether a database call may fail
  Resubmission,    \* whether a client repeats a lock() or burn() call
  Caller,          \* bound: concurrent calls of lock() and burn()
  MaxCalls,        \* bound: calls of lock() and burn()
  MaxRestarts      \* bound: restarts of the process

\* The checks at the head of lock() and burn().
Accepts(r) ==
  /\ r.source \in Chain
  /\ r.target \in Chain
  /\ r.source # r.target
  /\ r.amount # 0
  /\ r.tx # NoTx

\* The id of an event: the hash of every argument but the recipient.
EventArgs(r) ==
  [source |-> r.source, target |-> r.target, user |-> r.user,
   amount |-> r.amount, tx |-> r.tx]

\* The ids the engine can come to know; mint() and unlock() find nothing
\* under any other.
LockId == {EventArgs(r) : r \in {q \in LockRequest : Accepts(q)}}
BurnId == {r \in BurnRequest : Accepts(r)}

ASSUME BridgeAssumption ==
  /\ Chain \subseteq ChainName
  /\ LockRequest \subseteq
       [source : ChainName, target : ChainName, user : Account, amount : Nat,
        tx : STRING, recipient : Account]
  /\ BurnRequest \subseteq
       [source : ChainName, target : ChainName, user : Account, amount : Nat,
        tx : STRING]
  /\ Relayer \subseteq Signer
  /\ U128Max \in Nat
  /\ {Database, DatabaseFaults, Resubmission} \subseteq BOOLEAN
  /\ MaxCalls \in Nat
  /\ MaxRestarts \in Nat

VARIABLES
  db,          \* BridgeEngine::db is Some: the pool was connected
  locks,       \* BridgeEngine::locks, id -> [recipient, status]
  burns,       \* BridgeEngine::burns, id -> [status]
  wrapped,     \* wrapped_balances, <<target chain, recipient>> -> amount
  unlocked,    \* unlocked_balances, <<source chain, user>> -> amount
  db_locks,    \* table bridge_locks, id -> [recipient, status]
  db_burns,    \* table bridge_burns, id -> [status]
  call,        \* per caller: the lock() or burn() call under way
  calls,       \* the calls of lock() and burn() so far
  restarts,    \* the restarts so far
  asked_locks, \* history: the ids of the lock() calls that passed the checks
  asked_burns, \* history: the ids of the burn() calls that debited
  lock_writes, \* history: per id, the insertions of lock() into `locks'
  burn_writes, \* history: per id, the insertions of burn() into `burns'
  mints,       \* history: per id, the credits of mint()
  unlocks      \* history: per id, the credits of unlock()

tables == <<db_locks, db_burns>>
memory == <<db, locks, burns, wrapped, unlocked>>
history == <<asked_locks, asked_burns, lock_writes, burn_writes, mints, unlocks>>
bridgeVars == <<memory, tables, call, calls, restarts, history>>

NoCall == [step |-> "idle"]
NoEvents == [id \in {} |-> 0]
Balances == Chain \X Account
Empty == [k \in Balances |-> 0]

Put(f, x, v) == [y \in DOMAIN f \cup {x} |-> IF y = x THEN v ELSE f[y]]

\* INSERT ... ON CONFLICT (id) DO NOTHING, and UPDATE ... WHERE id.
InsertNew(table, id, row) == IF id \in DOMAIN table THEN table ELSE Put(table, id, row)
UpdateStatus(table, id, status) ==
  IF id \in DOMAIN table THEN [table EXCEPT ![id].status = status] ELSE table

BridgeInit ==
  /\ db \in (IF Database THEN BOOLEAN ELSE {FALSE})
  /\ locks = NoEvents
  /\ burns = NoEvents
  /\ wrapped = Empty
  /\ unlocked = Empty
  /\ db_locks = NoEvents
  /\ db_burns = NoEvents
  /\ call = [c \in Caller |-> NoCall]
  /\ calls = 0
  /\ restarts = 0
  /\ asked_locks = {}
  /\ asked_burns = {}
  /\ lock_writes = [id \in LockId |-> 0]
  /\ burn_writes = [id \in BurnId |-> 0]
  /\ mints = [id \in LockId |-> 0]
  /\ unlocks = [id \in BurnId |-> 0]

-----------------------------------------------------------------------------
(* What the operations share.                                              *)

\* A database write does what it says, fails without effect, or takes effect
\* although the caller is told it failed; without a pool it is skipped.
Outcome ==
  IF db /\ DatabaseFaults
  THEN {[ok |-> TRUE, applied |-> TRUE], [ok |-> FALSE, applied |-> FALSE],
        [ok |-> FALSE, applied |-> TRUE]}
  ELSE {[ok |-> TRUE, applied |-> db]}

MayBegin(c, isNew) ==
  /\ call[c] = NoCall
  /\ calls < MaxCalls
  /\ Resubmission \/ isNew

AlwaysFits(balance, amount) == TRUE

\* checked_add.
Fits(balance, amount) == balance + amount <= U128Max

-----------------------------------------------------------------------------
(* lock().                                                                 *)

\* The checks and the database insertion; an error of the latter is returned.
LockPersist(c, r) ==
  /\ Accepts(r)
  /\ MayBegin(c, EventArgs(r) \notin asked_locks)
  /\ calls' = calls + 1
  /\ asked_locks' = asked_locks \cup {EventArgs(r)}
  /\ \E outcome \in Outcome :
       /\ db_locks' = IF outcome.applied
                      THEN InsertNew(db_locks, EventArgs(r),
                             [recipient |-> r.recipient, status |-> "Locked"])
                      ELSE db_locks
       /\ call' = [call EXCEPT ![c] =
                    IF outcome.ok THEN [step |-> "lock", request |-> r] ELSE NoCall]
  /\ UNCHANGED <<memory, db_burns, restarts, asked_burns, lock_writes,
                 burn_writes, mints, unlocks>>

\* The insertion in the map replaces an event that is already there.
LockInsert(c) ==
  /\ call[c].step = "lock"
  /\ LET r == call[c].request  id == EventArgs(r) IN
       /\ locks' = Put(locks, id, [recipient |-> r.recipient, status |-> "Locked"])
       /\ lock_writes' = [lock_writes EXCEPT ![id] = @ + 1]
  /\ call' = [call EXCEPT ![c] = NoCall]
  /\ UNCHANGED <<db, burns, wrapped, unlocked, tables, calls, restarts, asked_locks,
                 asked_burns,
                 burn_writes, mints, unlocks>>

-----------------------------------------------------------------------------
(* mint().                                                                 *)

\* The event mint() works on: the one in memory or, if there is none, a row
\* of the table, whose status is not read and always taken to be Locked.
LockOrNewLock(id) ==
  IF id \in DOMAIN locks THEN {locks[id]}
  ELSE {[recipient |-> id.user, status |-> "Locked"]}

FoundLock(id) ==
  IF id \in DOMAIN locks THEN {locks[id]}
  ELSE IF db /\ id \in DOMAIN db_locks
  THEN {[recipient |-> db_locks[id].recipient, status |-> "Locked"]}
  ELSE {}

\* The status after a credit.
StillLocked(event) == event

Minted(event) == [event EXCEPT !.status = "Minted"]

\* A Minted event changes nothing; a database error is returned after the
\* balance and the status in memory have changed.
Mint(id, signer) ==
  /\ signer \in Relayer
  /\ \E event \in FoundLock(id) :
       LET key == <<id.target, event.recipient>> IN
       /\ event.status = "Locked"
       /\ Fits(wrapped[key], id.amount)
       /\ wrapped' = [wrapped EXCEPT ![key] = @ + id.amount]
       /\ locks' = Put(locks, id, Minted(event))
  /\ mints' = [mints EXCEPT ![id] = @ + 1]
  /\ \E outcome \in Outcome :
       db_locks' = IF outcome.applied
                   THEN UpdateStatus(db_locks, id, "Minted") ELSE db_locks
  /\ UNCHANGED <<db, burns, unlocked, db_burns, call, calls, restarts, asked_locks,
                 asked_burns,
                 lock_writes, burn_writes, unlocks>>

\* An overflow is an error, but an event read from the table stays in memory.
MintOverflow(id, signer) ==
  /\ signer \in Relayer
  /\ \E event \in FoundLock(id) :
       /\ event.status = "Locked"
       /\ ~Fits(wrapped[<<id.target, event.recipient>>], id.amount)
       /\ locks' = Put(locks, id, event)
  /\ UNCHANGED <<db, burns, wrapped, unlocked, tables, call, calls, restarts,
                 history>>

-----------------------------------------------------------------------------
(* burn().                                                                 *)

\* The checks, and the debit under the balances' lock alone.
BurnDebit(c, r) ==
  /\ Accepts(r)
  /\ MayBegin(c, r \notin asked_burns)
  /\ LET key == <<r.target, r.user>> IN
       /\ wrapped[key] >= r.amount
       /\ wrapped' = [wrapped EXCEPT ![key] = @ - r.amount]
  /\ calls' = calls + 1
  /\ asked_burns' = asked_burns \cup {r}
  /\ call' = [call EXCEPT ![c] = [step |-> "burn", request |-> r]]
  /\ UNCHANGED <<db, locks, burns, unlocked, tables, restarts, asked_locks,
                 lock_writes, burn_writes, mints, unlocks>>

\* The database insertion; its error is returned and the debit stays.
BurnPersist(c) ==
  /\ call[c].step = "burn"
  /\ \E outcome \in Outcome :
       /\ db_burns' = IF outcome.applied
                      THEN InsertNew(db_burns, call[c].request, [status |-> "Burned"])
                      ELSE db_burns
       /\ call' = [call EXCEPT ![c] =
                    IF outcome.ok THEN [@ EXCEPT !.step = "burned"] ELSE NoCall]
  /\ UNCHANGED <<memory, db_locks, calls, restarts, history>>

BurnInsert(c) ==
  /\ call[c].step = "burned"
  /\ burns' = Put(burns, call[c].request, [status |-> "Burned"])
  /\ burn_writes' = [burn_writes EXCEPT ![call[c].request] = @ + 1]
  /\ call' = [call EXCEPT ![c] = NoCall]
  /\ UNCHANGED <<db, locks, wrapped, unlocked, tables, calls, restarts, asked_locks,
                 asked_burns,
                 lock_writes, mints, unlocks>>

-----------------------------------------------------------------------------
(* unlock(), the mirror image of mint().                                   *)

BurnOrNewBurn(id) ==
  IF id \in DOMAIN burns THEN {burns[id]} ELSE {[status |-> "Burned"]}

FoundBurn(id) ==
  IF id \in DOMAIN burns THEN {burns[id]}
  ELSE IF db /\ id \in DOMAIN db_burns THEN {[status |-> "Burned"]}
  ELSE {}

StillBurned(event) == event

Unlocked(event) == [event EXCEPT !.status = "Unlocked"]

Unlock(id, signer) ==
  /\ signer \in Relayer
  /\ \E event \in FoundBurn(id) :
       LET key == <<id.source, id.user>> IN
       /\ event.status = "Burned"
       /\ Fits(unlocked[key], id.amount)
       /\ unlocked' = [unlocked EXCEPT ![key] = @ + id.amount]
       /\ burns' = Put(burns, id, Unlocked(event))
  /\ unlocks' = [unlocks EXCEPT ![id] = @ + 1]
  /\ \E outcome \in Outcome :
       db_burns' = IF outcome.applied
                   THEN UpdateStatus(db_burns, id, "Unlocked") ELSE db_burns
  /\ UNCHANGED <<db, locks, wrapped, db_locks, call, calls, restarts, asked_locks,
                 asked_burns,
                 lock_writes, burn_writes, mints>>

UnlockOverflow(id, signer) ==
  /\ signer \in Relayer
  /\ \E event \in FoundBurn(id) :
       /\ event.status = "Burned"
       /\ ~Fits(unlocked[<<id.source, id.user>>], id.amount)
       /\ burns' = Put(burns, id, event)
  /\ UNCHANGED <<db, locks, wrapped, unlocked, tables, call, calls, restarts,
                 history>>

-----------------------------------------------------------------------------
(* The process ends, with the calls under way, and a new one starts.  A    *)
(* failed connection at start-up is not fatal: the engine runs without.    *)

Restart ==
  /\ restarts < MaxRestarts
  /\ restarts' = restarts + 1
  /\ db' \in (IF Database THEN BOOLEAN ELSE {FALSE})
  /\ locks' = NoEvents
  /\ burns' = NoEvents
  /\ wrapped' = Empty
  /\ unlocked' = Empty
  /\ call' = [c \in Caller |-> NoCall]
  /\ UNCHANGED <<tables, calls, history>>

BridgeNext ==
  \/ \E c \in Caller, r \in LockRequest : LockPersist(c, r)
  \/ \E c \in Caller : LockInsert(c)
  \/ \E id \in LockId, s \in Signer : Mint(id, s) \/ MintOverflow(id, s)
  \/ \E c \in Caller, r \in BurnRequest : BurnDebit(c, r)
  \/ \E c \in Caller : BurnPersist(c) \/ BurnInsert(c)
  \/ \E id \in BurnId, s \in Signer : Unlock(id, s) \/ UnlockOverflow(id, s)
  \/ Restart

BridgeSpec == BridgeInit /\ [][BridgeNext]_bridgeVars

-----------------------------------------------------------------------------
(* Properties.                                                             *)

LocksThatAre(status) == {id \in DOMAIN locks : locks[id].status = status}
BurnsThatAre(status) == {id \in DOMAIN burns : burns[id].status = status}

LockRow == [recipient : Account, status : {"Locked", "Minted"}]
BurnRow == [status : {"Burned", "Unlocked"}]
CallType ==
  {NoCall}
    \cup [step : {"lock"}, request : {r \in LockRequest : Accepts(r)}]
    \cup [step : {"burn", "burned"}, request : BurnId]

\* Every variable keeps the type of the field, table or local it models.
BridgeTypeOK ==
  /\ db \in BOOLEAN
  /\ DOMAIN locks \subseteq LockId
  /\ locks \in [DOMAIN locks -> LockRow]
  /\ DOMAIN burns \subseteq BurnId
  /\ burns \in [DOMAIN burns -> BurnRow]
  /\ wrapped \in [Balances -> 0..U128Max]
  /\ unlocked \in [Balances -> 0..U128Max]
  /\ DOMAIN db_locks \subseteq LockId
  /\ db_locks \in [DOMAIN db_locks -> LockRow]
  /\ DOMAIN db_burns \subseteq BurnId
  /\ db_burns \in [DOMAIN db_burns -> BurnRow]
  /\ call \in [Caller -> CallType]
  /\ calls \in Nat
  /\ restarts \in Nat
  /\ asked_locks \subseteq LockId
  /\ asked_burns \subseteq BurnId
  /\ lock_writes \in [LockId -> Nat]
  /\ burn_writes \in [BurnId -> Nat]
  /\ mints \in [LockId -> Nat]
  /\ unlocks \in [BurnId -> Nat]

\* What the database, retries and restarts can cost: a lock is credited at
\* most once for each time lock() wrote it to memory, plus once for each time
\* the process started, when mint() may take it from the table; and never
\* if nobody locked.
MintsAreBounded ==
  \A id \in LockId :
    /\ mints[id] <= lock_writes[id] + restarts + 1
    /\ mints[id] > 0 => id \in asked_locks

\* The same of unlock(), and no unlock without a burn that was debited.  Like
\* MintsAreBounded it is what is left of the documented promise: it allows the
\* second unlock of one burn that violates UnlockIsIdempotent below.
UnlocksAreBounded ==
  \A id \in BurnId :
    /\ unlocks[id] <= burn_writes[id] + restarts + 1
    /\ unlocks[id] > 0 => id \in asked_burns

\* Where tokens are: in balances, on their way through burn(), and in events.
Held == [k \in Balances |-> wrapped[k] + unlocked[k]]
InBurn == {c \in Caller : call[c].step \in {"burn", "burned"}}
Debited == [c \in InBurn |-> call[c].request.amount]
AmountsOf(ids) == [id \in ids |-> id.amount]

\* No tokens appear or vanish: what was minted is in wrapped balances, on its
\* way through burn(), in a burn that waits for its unlock, or unlocked.  It
\* takes every step of the four operations, in any interleaving, to keep
\* this; it holds for an engine without a database.
TokensAreConserved ==
  SumFunction(Held) + SumFunction(Debited) + SumFunction(AmountsOf(BurnsThatAre("Burned")))
    = SumFunction(AmountsOf(LocksThatAre("Minted")))

\* Both relayer flows pay each event once, as module PayOnce promises.
LockLedger == INSTANCE PayOnce WITH
  Event <- LockId, open <- LocksThatAre("Locked"), paid <- LocksThatAre("Minted")

BurnLedger == INSTANCE PayOnce WITH
  Event <- BurnId, open <- BurnsThatAre("Burned"), paid <- BurnsThatAre("Unlocked")

LocksPaidOnce == LockLedger!Spec
BurnsPaidOnce == BurnLedger!Spec

-----------------------------------------------------------------------------
(* What the documentation of the operations says; refuted by a run.        *)

\* `Idempotent: re-submitting an already-minted lock returns the current
\* wrapped balance without re-minting' (mint()).
MintIsIdempotent == \A id \in LockId : mints[id] <= 1

\* `Idempotent: re-submitting an already-unlocked burn returns the current
\* unlocked balance without re-unlocking' (unlock()).
UnlockIsIdempotent == \A id \in BurnId : unlocks[id] <= 1

\* Both are promised.  An execution keeps neither: it pays one lock twice and
\* one burn twice, without a fault, a retry or a restart.
MintOrUnlockIsIdempotent == MintIsIdempotent \/ UnlockIsIdempotent
=============================================================================
