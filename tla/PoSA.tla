-------------------------------- MODULE PoSA --------------------------------
(***************************************************************************)
(* The Proof-of-Staked-Authority engine of consensus/src/posa.rs: a        *)
(* registry of validators, the committee elected from it once per epoch,   *)
(* the proposer of each block and the rewards waiting for distribution.    *)
(*                                                                         *)
(* The engine is a plain struct that its callers keep behind one mutex, so *)
(* every method is one action.  Addresses are numbers: their order is the  *)
(* order of the strings the code compares to break ties.  The fields       *)
(* `delegated' (always 0) and `commission' (always 10) of a validator are  *)
(* never written after registration and are left out.                      *)
(*                                                                         *)
(* FlaggedStale, WithoutNothing, ProposerFromOne, WrappingSub, EpochIsSame *)
(* and EpochIsSeen are plausible wrong versions of the operator that       *)
(* follows each of them; nothing else refers to them.                      *)
(***************************************************************************)
EXTENDS Integers, Sequences, FiniteSets

CONSTANTS
  Address,        \* validator addresses
  EpochLength,    \* PoSA::epoch_length, positive (Config is validated)
  MinStake,       \* MIN_STAKE
  MaxActive,      \* the 21 of take(21)
  U64Max,         \* the largest value of a reward counter
  StakeInputs,    \* stakes offered to register_validator
  PenaltyInputs,  \* penalties passed to slash_validator
  TotalInputs,    \* total stakes passed to SlashingManager::slash
  RewardInputs,   \* rewards passed to record_block_reward
  BlockInputs     \* block numbers passed to update_epoch

ASSUME PoSAAssumption ==
  /\ Address \subseteq Nat
  /\ EpochLength \in Nat \ {0}
  /\ MinStake \in Nat \ {0}
  /\ MaxActive \in Nat \ {0}
  /\ U64Max \in Nat
  /\ StakeInputs \subseteq Nat
  /\ PenaltyInputs \subseteq Nat
  /\ TotalInputs \subseteq Nat
  /\ RewardInputs \subseteq 0..U64Max
  /\ BlockInputs \subseteq Nat

VARIABLES
  validators,         \* the committee, in the order of its election
  validator_registry, \* address -> [stake, active], for registered addresses
  last_epoch,         \* the epoch of the last election
  pending_rewards     \* address -> reward recorded since the last election

posaVars == <<validators, validator_registry, last_epoch, pending_rewards>>

NoEntries == [a \in {} |-> 0]

Registered == DOMAIN validator_registry
Committee == {validators[i] : i \in DOMAIN validators}

PoSAInit ==
  /\ validators = <<>>
  /\ validator_registry = NoEntries
  /\ last_epoch = 0
  /\ pending_rewards = NoEntries

-----------------------------------------------------------------------------
(* Operators the methods are built from.                                   *)

Epoch(n) == n \div EpochLength

\* f with the entry of a replaced or added: HashMap::insert.
Put(f, a, v) == [x \in DOMAIN f \cup {a} |-> IF x = a THEN v ELSE f[x]]

\* The candidates of an election, and the order they are sorted in.
Candidates == {a \in Registered : validator_registry[a].stake >= MinStake}

Outranks(a, b) ==
  \/ validator_registry[a].stake > validator_registry[b].stake
  \/ validator_registry[a].stake = validator_registry[b].stake /\ a < b

\* s is what sorting the candidates and taking the first MaxActive returns.
IsElected(s) ==
  LET members == {s[i] : i \in DOMAIN s} IN
  /\ members \subseteq Candidates
  /\ Len(s) = MaxActive \/ members = Candidates
  /\ \A i, j \in DOMAIN s : i < j => Outranks(s[i], s[j])
  /\ \A c \in Candidates \ members, m \in members : Outranks(m, c)

Committees == UNION {[1..n -> Address] : n \in 0..MaxActive}

\* The registry after the election of s: the flag of every entry is rewritten.
FlaggedStale(s) ==
  [a \in Registered |->
    IF \E i \in DOMAIN s : s[i] = a
    THEN [validator_registry[a] EXCEPT !.active = TRUE]
    ELSE validator_registry[a]]

Flagged(s) ==
  [a \in Registered |->
    [validator_registry[a] EXCEPT !.active = \E i \in DOMAIN s : s[i] = a]]

\* s without its entry a, which occurs once: Vec::retain.
WithoutNothing(s, a) == s

Without(s, a) ==
  LET at == CHOOSE i \in DOMAIN s : s[i] = a IN
  [i \in 1..(Len(s) - 1) |-> IF i < at THEN s[i] ELSE s[i + 1]]

\* The committee member whose turn block n is; only for a committee that is
\* not empty (get_proposer answers None otherwise).
ProposerFromOne(s, n) == s[IF n % Len(s) = 0 THEN 1 ELSE n % Len(s)]

Proposer(s, n) == s[(n % Len(s)) + 1]

WrappingSub(x, y) == x - y

SaturatingSub(x, y) == IF x > y THEN x - y ELSE 0

\* SlashingManager::calculate_penalty: a tenth, a hundredth or a fifth.
SlashingReason == {"DoubleSigning", "Downtime", "MaliciousBehavior"}

CalculatePenalty(reason, total) ==
  total \div [DoubleSigning |-> 10, Downtime |-> 100, MaliciousBehavior |-> 5][reason]

-----------------------------------------------------------------------------
(* The methods.                                                            *)

\* A registration replaces whatever entry the address had, and leaves the
\* committee alone.
RegisterValidator(a, stake) ==
  /\ stake >= MinStake
  /\ validator_registry' =
       Put(validator_registry, a, [stake |-> stake, active |-> FALSE])
  /\ UNCHANGED <<validators, last_epoch, pending_rewards>>

\* update_epoch returns early inside an epoch it has already seen, unless
\* the committee is empty.
EpochIsSame(n) == Epoch(n) = last_epoch /\ validators # <<>>

EpochIsSeen(n) == Epoch(n) <= last_epoch

EpochIsCurrent(n) == Epoch(n) <= last_epoch /\ validators # <<>>

Elect(n) ==
  /\ ~EpochIsCurrent(n)
  /\ \E s \in Committees :
       /\ IsElected(s)
       /\ validators' = s
       /\ validator_registry' = Flagged(s)
  /\ last_epoch' = Epoch(n)
  /\ pending_rewards' = NoEntries

UpdateEpoch(n) ==
  \/ EpochIsCurrent(n) /\ UNCHANGED posaVars
  \/ Elect(n)

\* Saturating subtraction; a validator that falls below MinStake leaves the
\* committee at once.
SlashValidator(a, penalty) ==
  /\ a \in Registered
  /\ LET old  == validator_registry[a]
         left == SaturatingSub(old.stake, penalty)
     IN IF left < MinStake
        THEN /\ validator_registry' =
                  Put(validator_registry, a, [stake |-> left, active |-> FALSE])
             /\ validators' =
                  IF a \in Committee THEN Without(validators, a) ELSE validators
        ELSE /\ validator_registry' =
                  Put(validator_registry, a, [old EXCEPT !.stake = left])
             /\ UNCHANGED validators
  /\ UNCHANGED <<last_epoch, pending_rewards>>

\* Unchecked u64 addition; the release build wraps.
RecordBlockReward(a, reward) ==
  LET old == IF a \in DOMAIN pending_rewards THEN pending_rewards[a] ELSE 0 IN
  /\ pending_rewards' = Put(pending_rewards, a, (old + reward) % (U64Max + 1))
  /\ UNCHANGED <<validators, validator_registry, last_epoch>>

\* SlashingManager::slash.
Slash(a, reason, total) == SlashValidator(a, CalculatePenalty(reason, total))

PoSANext ==
  \/ \E a \in Address, s \in StakeInputs : RegisterValidator(a, s)
  \/ \E n \in BlockInputs : UpdateEpoch(n)
  \/ \E a \in Address, p \in PenaltyInputs : SlashValidator(a, p)
  \/ \E a \in Address, reason \in SlashingReason, total \in TotalInputs :
       Slash(a, reason, total)
  \/ \E a \in Address, r \in RewardInputs : RecordBlockReward(a, r)

PoSASpec == PoSAInit /\ [][PoSANext]_posaVars

-----------------------------------------------------------------------------
(* Properties.                                                             *)

\* Every variable keeps the type of the field it models.
PoSATypeOK ==
  /\ validators \in Seq(Address)
  /\ Len(validators) <= MaxActive
  /\ Registered \subseteq Address
  /\ validator_registry \in [Registered -> [stake : Nat, active : BOOLEAN]]
  /\ last_epoch \in Nat
  /\ DOMAIN pending_rewards \subseteq Address
  /\ pending_rewards \in [DOMAIN pending_rewards -> 0..U64Max]

\* Whoever sits on the committee is registered with at least the minimum
\* stake at every moment, not only at the election: slashing a member below
\* it expels the member in the same call, and registering again cannot leave
\* a member with less.
CommitteeIsStaked ==
  \A a \in Committee : a \in Registered /\ validator_registry[a].stake >= MinStake

\* An `active' flag is never left set on a validator that is off the
\* committee.  (The converse fails: registering a sitting member again
\* clears its flag until the next election.)
ActiveFlagIsSound ==
  \A a \in Registered : validator_registry[a].active => a \in Committee

\* The proposer rotation is fair: in every window of as many blocks as there
\* are members, each member is the proposer exactly once.
RotationIsFair ==
  \A n \in BlockInputs, a \in Committee :
    Cardinality({k \in 0..(Len(validators) - 1) : Proposer(validators, n + k) = a}) = 1

\* No validator is on the committee twice.
NoDuplicates ==
  \A i, j \in DOMAIN validators : validators[i] = validators[j] => i = j

\* While there is a committee, the epoch never goes back, whatever older block
\* update_epoch is called for, and inside an epoch the committee can only lose
\* members: nobody joins and no two remaining members change places.  (Once
\* slashing has emptied it, the next update elects again, in whatever epoch.)
CommitteeOnlyShrinksInEpoch ==
  [][ validators # <<>> =>
        /\ last_epoch' >= last_epoch
        /\ last_epoch' = last_epoch /\ validators' # validators =>
             /\ Len(validators') < Len(validators)
             /\ \A i, j \in DOMAIN validators' : i < j =>
                  \E k, l \in DOMAIN validators :
                    k < l /\ validators[k] = validators'[i]
                          /\ validators[l] = validators'[j] ]_posaVars
=============================================================================
