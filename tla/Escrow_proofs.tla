---------------------------- MODULE Escrow_proofs ----------------------------
(***************************************************************************)
(* Proof that a pool with two mints that is neither compounded nor stopped *)
(* implements the escrow of StakingEscrow: every step of the pool is a     *)
(* step of the escrow or changes nothing a staker can see.                 *)
(***************************************************************************)
EXTENDS Accrual_proofs

TwoMints == stake_mint # reward_mint /\ creator \notin Users /\ HasPrecision

(* What the invariants say of a state.                                     *)
Sound == TypeOK /\ Schedule /\ DebtCovered

-----------------------------------------------------------------------------
(* The accounts of the escrow.                                             *)

LEMMA DistinctAccounts ==
    ASSUME TwoMints
    PROVE  /\ pool_stake_token_vault # pool_reward_token_vault
           /\ {pool_stake_token_vault, pool_reward_token_vault} \subseteq TokenAccount
           /\ \A w \in Users \union {creator} :
                /\ {StakeAccount(w), RewardAccount(w)} \subseteq TokenAccount
                /\ {StakeAccount(w), RewardAccount(w)}
                        \intersect {pool_stake_token_vault, pool_reward_token_vault} = {}
           /\ \A v, w \in Users \union {creator} : StakeAccount(v) # RewardAccount(w)
           /\ \A v, w \in Users \union {creator} : v # w =>
                StakeAccount(v) # StakeAccount(w) /\ RewardAccount(v) # RewardAccount(w)
  BY VaultAssumption, AccountTypes DEF TwoMints, StakeAccount, RewardAccount, Wallet

(* What a handler called by u moves: paid from the reward vault to u, out  *)
(* from the wallet of u, and kept into the stake vault.                    *)
Moves(u, paid, out, kept) ==
    /\ tokens'[pool_reward_token_vault] = tokens[pool_reward_token_vault] - paid
    /\ tokens'[pool_stake_token_vault] = tokens[pool_stake_token_vault] + kept
    /\ tokens'[StakeAccount(u)] = tokens[StakeAccount(u)] - out
    /\ tokens'[RewardAccount(u)] = tokens[RewardAccount(u)] + paid
    /\ \A v \in Users \ {u} :
            /\ tokens'[StakeAccount(v)] = tokens[StakeAccount(v)]
            /\ tokens'[RewardAccount(v)] = tokens[RewardAccount(v)]

LEMMA BalanceTypes ==
    ASSUME TypeOK
    PROVE  /\ tokens[pool_stake_token_vault] \in Nat /\ tokens[pool_reward_token_vault] \in Nat
           /\ \A u \in Users : tokens[StakeAccount(u)] \in Nat /\ tokens[RewardAccount(u)] \in Nat
  BY AccountTypes DEF TypeOK

(* Settling pays out of the reward vault, and touches no other account.    *)
LEMMA SettledBalances ==
    ASSUME TwoMints, TypeOK, NEW u \in Users, CanUpdate, CanSettle(u)
    PROVE  /\ Owed(u) \in Nat
           /\ Owed(u) <= tokens[pool_reward_token_vault]
           /\ PaidOut(tokens, u, Owed(u)) \in [TokenAccount -> Nat]
           /\ PaidOut(tokens, u, Owed(u))[pool_reward_token_vault]
                    = tokens[pool_reward_token_vault] - Owed(u)
           /\ PaidOut(tokens, u, Owed(u))[RewardAccount(u)]
                    = tokens[RewardAccount(u)] + Owed(u)
           /\ \A a \in TokenAccount \ {pool_reward_token_vault, RewardAccount(u)} :
                    PaidOut(tokens, u, Owed(u))[a] = tokens[a]
<1>1. Owed(u) \in Nat /\ PaidOut(tokens, u, Owed(u)) \in [TokenAccount -> Nat]
      /\ Owed(u) <= tokens[pool_reward_token_vault]
  BY SettleType DEF Holds
<1>2. /\ tokens \in [TokenAccount -> Nat]
      /\ pool_reward_token_vault \in TokenAccount /\ RewardAccount(u) \in TokenAccount
      /\ pool_reward_token_vault # RewardAccount(u)
  BY DistinctAccounts DEF TypeOK
<1> QED
  BY <1>1, <1>2, TransferBalances DEF PaidOut

LEMMA StakeMovesTokens ==
    ASSUME TwoMints, TypeOK, NEW u \in Users, NEW amount \in StakeAmounts, Stake(u, amount)
    PROVE  LET fee == Percent(amount, pool_config.stake_fee)
           IN  /\ amount <= tokens[StakeAccount(u)]
               /\ Moves(u, Owed(u), amount, amount - fee)
<1> DEFINE fee == Percent(amount, pool_config.stake_fee)
           settled == PaidOut(tokens, u, Owed(u))
           received == Transfer(settled, StakeAccount(u), pool_stake_token_vault, amount)
<1>1. /\ CanUpdate /\ CanSettle(u) /\ Holds(settled, StakeAccount(u), amount)
      /\ tokens' = Transfer(received, pool_stake_token_vault, StakeAccount(creator), fee)
  BY DEF Stake
<1>2. amount \in Nat /\ fee \in Nat
  BY ArgumentAssumption, UtilsAssumption, PercentBound DEF U64, TypeOK, PoolConfig
<1> HIDE DEF fee
<1>3. /\ settled \in [TokenAccount -> Nat]
      /\ settled[pool_reward_token_vault] = tokens[pool_reward_token_vault] - Owed(u)
      /\ settled[RewardAccount(u)] = tokens[RewardAccount(u)] + Owed(u)
      /\ \A a \in TokenAccount \ {pool_reward_token_vault, RewardAccount(u)} :
            settled[a] = tokens[a]
  BY <1>1, SettledBalances
<1> HIDE DEF settled
<1>4. /\ StakeAccount(u) \in TokenAccount /\ StakeAccount(creator) \in TokenAccount
      /\ pool_stake_token_vault \in TokenAccount
      /\ StakeAccount(u) # pool_stake_token_vault
      /\ StakeAccount(creator) # pool_stake_token_vault
  BY DistinctAccounts
<1>5. /\ received \in [TokenAccount -> Nat]
      /\ received[StakeAccount(u)] = settled[StakeAccount(u)] - amount
      /\ received[pool_stake_token_vault] = settled[pool_stake_token_vault] + amount
      /\ \A a \in TokenAccount \ {StakeAccount(u), pool_stake_token_vault} :
            received[a] = settled[a]
  BY <1>1, <1>2, <1>3, <1>4, TransferType, TransferBalances
<1> HIDE DEF received
<1>6. /\ tokens'[pool_stake_token_vault] = received[pool_stake_token_vault] - fee
      /\ \A a \in TokenAccount \ {StakeAccount(creator), pool_stake_token_vault} :
            tokens'[a] = received[a]
  BY <1>1, <1>2, <1>4, <1>5, TransferBalances
<1>7. settled[StakeAccount(u)] = tokens[StakeAccount(u)]
      /\ settled[pool_stake_token_vault] = tokens[pool_stake_token_vault]
  BY <1>3, <1>4, DistinctAccounts
<1>8. amount <= tokens[StakeAccount(u)]
  BY <1>1, <1>7 DEF Holds
<1>9. tokens'[pool_stake_token_vault] = tokens[pool_stake_token_vault] + (amount - fee)
  BY <1>2, <1>5, <1>6, <1>7, BalanceTypes
<1>10. creator # u /\ creator \notin Users
  BY DEF TwoMints
<1>11. /\ tokens'[StakeAccount(u)] = tokens[StakeAccount(u)] - amount
       /\ tokens'[RewardAccount(u)] = tokens[RewardAccount(u)] + Owed(u)
       /\ tokens'[pool_reward_token_vault] = tokens[pool_reward_token_vault] - Owed(u)
  BY <1>3, <1>5, <1>6, <1>7, <1>10, DistinctAccounts
<1>12. ASSUME NEW v \in Users \ {u}
       PROVE  /\ tokens'[StakeAccount(v)] = tokens[StakeAccount(v)]
              /\ tokens'[RewardAccount(v)] = tokens[RewardAccount(v)]
  <2> DEFINE free == TokenAccount \ {pool_stake_token_vault, pool_reward_token_vault,
                                     StakeAccount(u), RewardAccount(u), StakeAccount(creator)}
  <2>1. StakeAccount(v) \in free
    BY <1>10, DistinctAccounts
  <2>2. RewardAccount(v) \in free
    BY <1>10, DistinctAccounts
  <2>3. \A a \in free : tokens'[a] = tokens[a]
    BY <1>3, <1>5, <1>6
  <2> QED
    BY <2>1, <2>2, <2>3
<1> QED
  BY <1>8, <1>9, <1>11, <1>12 DEF Moves, fee

LEMMA UnstakeMovesTokens ==
    ASSUME TwoMints, TypeOK, NEW u \in Users, NEW amount \in UnstakeAmounts,
           Unstake(u, amount)
    PROVE  LET fee == Percent(amount, pool_config.unstake_fee)
           IN  /\ amount <= tokens[pool_stake_token_vault]
               /\ Moves(u, Owed(u), fee - amount, 0 - amount)
<1> DEFINE fee == Percent(amount, pool_config.unstake_fee)
           settled == PaidOut(tokens, u, Owed(u))
           charged == Transfer(settled, pool_stake_token_vault, StakeAccount(creator), fee)
<1>1. /\ CanUpdate /\ CanSettle(u) /\ Holds(settled, pool_stake_token_vault, amount)
      /\ tokens' = Transfer(charged, pool_stake_token_vault, StakeAccount(u), amount - fee)
  BY DEF Unstake
<1>2. amount \in Nat /\ fee \in Nat /\ fee <= amount
  BY ArgumentAssumption, UtilsAssumption, PercentBound DEF U64, TypeOK, PoolConfig
<1> HIDE DEF fee
<1>3. /\ settled \in [TokenAccount -> Nat]
      /\ settled[pool_reward_token_vault] = tokens[pool_reward_token_vault] - Owed(u)
      /\ settled[RewardAccount(u)] = tokens[RewardAccount(u)] + Owed(u)
      /\ \A a \in TokenAccount \ {pool_reward_token_vault, RewardAccount(u)} :
            settled[a] = tokens[a]
  BY <1>1, SettledBalances
<1> HIDE DEF settled
<1>4. /\ StakeAccount(u) \in TokenAccount /\ StakeAccount(creator) \in TokenAccount
      /\ pool_stake_token_vault \in TokenAccount
      /\ StakeAccount(u) # pool_stake_token_vault
      /\ StakeAccount(creator) # pool_stake_token_vault
  BY DistinctAccounts
<1>5. Holds(settled, pool_stake_token_vault, fee)
  BY <1>1, <1>2, <1>3, <1>4 DEF Holds
<1>6. /\ charged \in [TokenAccount -> Nat]
      /\ charged[pool_stake_token_vault] = settled[pool_stake_token_vault] - fee
      /\ \A a \in TokenAccount \ {StakeAccount(creator), pool_stake_token_vault} :
            charged[a] = settled[a]
  BY <1>2, <1>3, <1>4, <1>5, TransferType, TransferBalances
<1> HIDE DEF charged
<1>7. amount - fee \in Nat
  BY <1>2
<1>8. /\ tokens'[pool_stake_token_vault] = charged[pool_stake_token_vault] - (amount - fee)
      /\ tokens'[StakeAccount(u)] = charged[StakeAccount(u)] + (amount - fee)
      /\ \A a \in TokenAccount \ {StakeAccount(u), pool_stake_token_vault} :
            tokens'[a] = charged[a]
  BY <1>1, <1>4, <1>6, <1>7, TransferBalances
<1>9. creator # u /\ creator \notin Users
  BY DEF TwoMints
<1>10. /\ settled[StakeAccount(u)] = tokens[StakeAccount(u)]
       /\ settled[pool_stake_token_vault] = tokens[pool_stake_token_vault]
       /\ charged[StakeAccount(u)] = settled[StakeAccount(u)]
  BY <1>3, <1>4, <1>6, <1>9, DistinctAccounts
<1>11. amount <= tokens[pool_stake_token_vault]
  BY <1>1, <1>10 DEF Holds
<1>12. /\ tokens'[pool_stake_token_vault]
            = (tokens[pool_stake_token_vault] - fee) - (amount - fee)
       /\ tokens'[StakeAccount(u)] = tokens[StakeAccount(u)] + (amount - fee)
  BY <1>6, <1>8, <1>10
<1>13. /\ tokens'[pool_stake_token_vault] = tokens[pool_stake_token_vault] + (0 - amount)
       /\ tokens'[StakeAccount(u)] = tokens[StakeAccount(u)] - (fee - amount)
  <2>1. /\ tokens[pool_stake_token_vault] \in Int /\ tokens[StakeAccount(u)] \in Int
        /\ amount \in Int /\ fee \in Int
    BY <1>2, BalanceTypes
  <2>2. \A held \in Int, a \in Int, f \in Int :
            (held - f) - (a - f) = held + (0 - a) /\ held + (a - f) = held - (f - a)
    OBVIOUS
  <2> QED
    BY <1>12, <2>1, <2>2
<1>14. /\ tokens'[RewardAccount(u)] = tokens[RewardAccount(u)] + Owed(u)
       /\ tokens'[pool_reward_token_vault] = tokens[pool_reward_token_vault] - Owed(u)
  BY <1>3, <1>6, <1>8, <1>9, DistinctAccounts
<1>15. ASSUME NEW v \in Users \ {u}
       PROVE  /\ tokens'[StakeAccount(v)] = tokens[StakeAccount(v)]
              /\ tokens'[RewardAccount(v)] = tokens[RewardAccount(v)]
  <2> DEFINE free == TokenAccount \ {pool_stake_token_vault, pool_reward_token_vault,
                                     StakeAccount(u), RewardAccount(u), StakeAccount(creator)}
  <2>1. StakeAccount(v) \in free
    BY <1>9, DistinctAccounts
  <2>2. RewardAccount(v) \in free
    BY <1>9, DistinctAccounts
  <2>3. \A a \in free : tokens'[a] = tokens[a]
    BY <1>3, <1>6, <1>8
  <2> QED
    BY <2>1, <2>2, <2>3
<1> QED
  BY <1>11, <1>13, <1>14, <1>15 DEF Moves, fee

LEMMA ClaimMovesTokens ==
    ASSUME TwoMints, TypeOK, NEW u \in Users, ClaimStaked(u)
    PROVE  Moves(u, Owed(u), 0, 0)
<1>1. CanUpdate /\ CanSettle(u) /\ tokens' = PaidOut(tokens, u, Owed(u))
  BY DEF ClaimStaked
<1>2. /\ tokens'[pool_reward_token_vault] = tokens[pool_reward_token_vault] - Owed(u)
      /\ tokens'[RewardAccount(u)] = tokens[RewardAccount(u)] + Owed(u)
      /\ \A a \in TokenAccount \ {pool_reward_token_vault, RewardAccount(u)} :
            tokens'[a] = tokens[a]
  BY <1>1, SettledBalances
<1>3. /\ tokens'[StakeAccount(u)] = tokens[StakeAccount(u)]
      /\ tokens'[pool_stake_token_vault] = tokens[pool_stake_token_vault]
  BY <1>2, DistinctAccounts
<1>4. /\ tokens'[StakeAccount(u)] = tokens[StakeAccount(u)] - 0
      /\ tokens'[pool_stake_token_vault] = tokens[pool_stake_token_vault] + 0
  BY <1>3, BalanceTypes
<1>5. ASSUME NEW v \in Users \ {u}
      PROVE  /\ tokens'[StakeAccount(v)] = tokens[StakeAccount(v)]
             /\ tokens'[RewardAccount(v)] = tokens[RewardAccount(v)]
  BY <1>2, DistinctAccounts
<1> QED
  BY <1>2, <1>4, <1>5 DEF Moves

-----------------------------------------------------------------------------
(* What a staker has earned.                                               *)

LEMMA EarnedType ==
    ASSUME Sound, HasPrecision, NEW u \in Users
    PROVE  /\ PendingReward(u) \in Nat
           /\ user_info[u].staked_amount = 0 => PendingReward(u) = 0
           /\ Owed(u) = PendingReward(u)
<1> DEFINE m == pool_state.acc_token_per_share
           n == Updated.acc_token_per_share
           staked == user_info[u].staked_amount
           debt == user_info[u].reward_debt
<1>1. m \in Nat /\ n \in Nat /\ m <= n
  BY ScheduleTypes, TimeAccrues DEF Sound, TypeOK, Updated
<1>2. staked \in Nat /\ debt \in Nat
  BY UtilsAssumption DEF Sound, TypeOK, UserInfo, U64
<1>3. PendingReward(u) = (staked * n) \div PrecisionFactor - debt
  BY ViewIsPending DEF Sound, Pending, Accrued
<1>4. debt <= (staked * m) \div PrecisionFactor
  BY DEF Sound, DebtCovered, Accrued
<1>5. Owed(u) = IF staked > 0 THEN PendingReward(u) ELSE 0
  BY ViewIsPending DEF Sound, Owed
<1> HIDE DEF m, n, staked, debt
<1>6. /\ (staked * m) \div PrecisionFactor - debt \in Int
      /\ (staked * n) \div PrecisionFactor - debt \in Int
      /\ (staked * m) \div PrecisionFactor - debt
                <= (staked * n) \div PrecisionFactor - debt
  BY <1>1, <1>2, PendingGrows
<1>7. (staked * m) \div PrecisionFactor \in Nat
  BY <1>1, <1>2, PrecisionFactorType, TimesMonotonic, DivType
<1>8. PendingReward(u) \in Nat
  BY <1>2, <1>3, <1>4, <1>6, <1>7
<1>9. staked = 0 => PendingReward(u) = 0
  <2>1. PrecisionFactor \in Nat \ {0}
    BY PrecisionFactorType
  <2>2. 0 * n = 0 /\ 0 * m = 0 /\ 0 \div PrecisionFactor = 0
    BY <1>1, <2>1
  <2> QED
    BY <1>2, <1>3, <1>4, <2>2
<1> QED
  BY <1>2, <1>5, <1>8, <1>9 DEF staked

LEMMA EarnedLater ==
    Sound' /\ HasPrecision' => \A u \in Users :
        /\ PendingReward(u)' \in Nat
        /\ user_info'[u].staked_amount = 0 => PendingReward(u)' = 0
<1>1. Sound /\ HasPrecision => \A u \in Users :
            /\ PendingReward(u) \in Nat
            /\ user_info[u].staked_amount = 0 => PendingReward(u) = 0
  BY EarnedType
<1>2. Sound' /\ HasPrecision' => (\A u \in Users :
            /\ PendingReward(u) \in Nat
            /\ user_info[u].staked_amount = 0 => PendingReward(u) = 0)'
  BY <1>1, PTL
<1> QED
  BY <1>2

(* A call leaves what the others have earned, and resets what the caller   *)
(* has.                                                                    *)
LEMMA EarnedKept ==
    ASSUME TypeOK, TypeOK', Schedule, Kinds, HasPrecision, slot' = slot,
           NEW u \in Users, user_info'[u] = user_info[u]
    PROVE  PendingReward(u)' = PendingReward(u)
<1>1. Updated'.acc_token_per_share = Updated.acc_token_per_share
  BY UpdatedGrows
<1>2. PendingReward(u)' = Pending(Updated, user_info[u])'
  BY ViewLater
<1> QED
  BY <1>1, <1>2, ViewIsPending DEF Pending, Accrued

LEMMA EarnedReset ==
    ASSUME TypeOK, TypeOK', Schedule, Kinds, HasPrecision, slot' = slot,
           NEW u \in Users, NEW staked,
           user_info' = [user_info EXCEPT ![u] = Restaked(Updated, @, staked)]
    PROVE  PendingReward(u)' = 0
<1> DEFINE n == Updated.acc_token_per_share
<1>1. Updated'.acc_token_per_share = n /\ n \in Nat
  BY UpdatedGrows
<1>2. PendingReward(u)' = Pending(Updated, user_info[u])'
  BY ViewLater
<1>3. /\ user_info'[u].staked_amount = staked
      /\ user_info'[u].reward_debt = (staked * n) \div PrecisionFactor
  BY DEF TypeOK, Restaked, Accrued
<1>4. user_info'[u].staked_amount \in Nat
  BY UtilsAssumption DEF TypeOK, UserInfo, U64
<1>5. PendingReward(u)' = (staked * n) \div PrecisionFactor
                            - (staked * n) \div PrecisionFactor
  BY <1>1, <1>2, <1>3 DEF Pending, Accrued
<1> HIDE DEF n
<1>6. (staked * n) \div PrecisionFactor \in Nat
  BY <1>1, <1>3, <1>4, PrecisionFactorType, TimesMonotonic, DivType
<1> QED
  BY <1>5, <1>6

-----------------------------------------------------------------------------
(* The steps of the escrow.                                                *)

(* A handler called by u that pays what u had earned, moves the stake of u *)
(* and resets what u has earned.                                           *)
Handles(u, out, kept, added) ==
    /\ Moves(u, PendingReward(u), out, kept)
    /\ PendingReward(u) <= tokens[pool_reward_token_vault]
    /\ PendingReward(u)' = 0
    /\ user_info'[u].staked_amount = user_info[u].staked_amount + added
    /\ \A v \in Users \ {u} :
            /\ user_info'[v].staked_amount = user_info[v].staked_amount
            /\ PendingReward(v)' = PendingReward(v)

LEMMA HandlesPays ==
    ASSUME NEW u \in Users, NEW out, NEW kept, NEW added, Handles(u, out, kept, added)
    PROVE  Escrow!PayEarned(u)
  BY DEF Handles, Moves, Escrow!PayEarned

LEMMA HandlesDeposit ==
    ASSUME TypeOK, NEW u \in Users, NEW amount \in Nat, NEW fee \in Nat,
           amount <= tokens[StakeAccount(u)],
           Handles(u, amount, amount - fee, amount - fee)
    PROVE  Escrow!Deposit(u, amount, fee)
<1>1. Escrow!PayEarned(u)
  BY HandlesPays
<1>2. /\ tokens[pool_stake_token_vault] \in Nat /\ user_info[u].staked_amount \in Nat
  BY BalanceTypes, UtilsAssumption DEF TypeOK, UserInfo, U64
<1>3. /\ user_info'[u].staked_amount = user_info[u].staked_amount + amount - fee
      /\ tokens'[pool_stake_token_vault] = tokens[pool_stake_token_vault] + amount - fee
  BY <1>2 DEF Handles, Moves
<1> QED
  BY <1>1, <1>3 DEF Handles, Moves, Escrow!Deposit

LEMMA HandlesWithdraw ==
    ASSUME TypeOK, NEW u \in Users, NEW amount \in Nat, NEW fee \in Nat,
           0 < amount, amount < user_info[u].staked_amount,
           amount <= tokens[pool_stake_token_vault],
           Handles(u, fee - amount, 0 - amount, 0 - amount)
    PROVE  Escrow!Withdraw(u, amount, fee)
<1>1. Escrow!PayEarned(u)
  BY HandlesPays
<1>2. /\ tokens[pool_stake_token_vault] \in Nat /\ user_info[u].staked_amount \in Nat
      /\ tokens[StakeAccount(u)] \in Nat
  BY BalanceTypes, UtilsAssumption DEF TypeOK, UserInfo, U64
<1>3. /\ user_info'[u].staked_amount = user_info[u].staked_amount - amount
      /\ tokens'[pool_stake_token_vault] = tokens[pool_stake_token_vault] - amount
      /\ tokens'[StakeAccount(u)] = tokens[StakeAccount(u)] + amount - fee
  BY <1>2 DEF Handles, Moves
<1> QED
  BY <1>1, <1>3 DEF Handles, Moves, Escrow!Withdraw

LEMMA HandlesClaim ==
    ASSUME TypeOK, NEW u \in Users, Handles(u, 0, 0, 0)
    PROVE  Escrow!Claim(u)
<1>1. Escrow!PayEarned(u)
  BY HandlesPays
<1>2. /\ tokens[pool_stake_token_vault] \in Nat /\ user_info[u].staked_amount \in Nat
      /\ tokens[StakeAccount(u)] \in Nat
  BY BalanceTypes, UtilsAssumption DEF TypeOK, UserInfo, U64
<1>3. /\ user_info'[u].staked_amount = user_info[u].staked_amount
      /\ tokens'[pool_stake_token_vault] = tokens[pool_stake_token_vault]
      /\ tokens'[StakeAccount(u)] = tokens[StakeAccount(u)]
  BY <1>2 DEF Handles, Moves
<1> QED
  BY <1>1, <1>3 DEF Handles, Moves, Escrow!Claim

(* A fee is within the fees of the escrow.                                 *)
LEMMA FeeInRange ==
    ASSUME NEW amount \in Nat, NEW fee \in FeeRange
    PROVE  Percent(amount, fee) \in Escrow!Fees(amount)
<1>1. amount * fee <= amount * MAX_FEE /\ amount * fee \in Nat /\ amount * MAX_FEE \in Nat
  BY TimesMonotonic DEF FeeRange, MAX_FEE
<1> DEFINE x == amount * fee
           y == amount * MAX_FEE
<1> HIDE DEF x, y
<1>2. x \div PERCENT_PRECISION <= y \div PERCENT_PRECISION
      /\ x \div PERCENT_PRECISION \in Nat /\ y \div PERCENT_PRECISION \in Nat
  BY <1>1, DivMonotonic, DivType DEF x, y, PERCENT_PRECISION
<1> QED
  BY <1>2 DEF Percent, Escrow!Fees, x, y

-----------------------------------------------------------------------------
(* The calls of the pool.                                                  *)

EscrowStep == Escrow!Next \/ UNCHANGED Escrow!escrowVars

(* What every case below assumes of the step.                              *)
Stepping == TwoMints /\ Sound /\ TypeOK' /\ Kinds

(* Settling resets the caller and leaves the others.                       *)
LEMMA RestakeHandles ==
    ASSUME Stepping, slot' = slot, NEW u \in Users, CanUpdate, CanSettle(u),
           NEW out, NEW kept, NEW added, Moves(u, Owed(u), out, kept), NEW staked,
           user_info' = [user_info EXCEPT ![u] = Restaked(Updated, @, staked)],
           staked = user_info[u].staked_amount + added
    PROVE  Handles(u, out, kept, added)
<1>1. TypeOK /\ TypeOK' /\ Schedule /\ Kinds /\ HasPrecision /\ Sound /\ TwoMints
  BY DEF Stepping, Sound, TwoMints
<1>2. Owed(u) = PendingReward(u)
  BY <1>1, EarnedType
<1>3. PendingReward(u) <= tokens[pool_reward_token_vault]
  BY <1>1, <1>2, SettledBalances
<1>4. PendingReward(u)' = 0
  BY <1>1, EarnedReset
<1>5. user_info'[u].staked_amount = staked
  BY <1>1 DEF TypeOK, Restaked
<1>6. ASSUME NEW v \in Users \ {u}
      PROVE  user_info'[v] = user_info[v] /\ PendingReward(v)' = PendingReward(v)
  <2>1. user_info'[v] = user_info[v]
    BY <1>1 DEF TypeOK
  <2> QED
    BY <1>1, <2>1, EarnedKept
<1> QED
  BY <1>2, <1>3, <1>4, <1>5, <1>6 DEF Handles

LEMMA StakeDeposits ==
    ASSUME Stepping, NEW u \in Users, NEW amount \in StakeAmounts, Stake(u, amount)
    PROVE  EscrowStep
<1>1. TwoMints /\ TypeOK
  BY DEF Stepping, Sound
<1>2. /\ amount \in Nat
      /\ Percent(amount, pool_config.stake_fee) \in Nat
      /\ Percent(amount, pool_config.stake_fee) \in Escrow!Fees(amount)
  BY <1>1, ArgumentAssumption, UtilsAssumption, PercentBound, FeeInRange
     DEF U64, TypeOK, PoolConfig
<1>3. PICK fee \in Nat : fee = Percent(amount, pool_config.stake_fee)
  BY <1>2
<1>4. PICK staked : staked = user_info[u].staked_amount + (amount - fee)
  OBVIOUS
<1>5. /\ CanUpdate /\ CanSettle(u) /\ slot' = slot
      /\ user_info' = [user_info EXCEPT ![u] = Restaked(Updated, @, staked)]
  BY <1>3, <1>4 DEF Stake
<1>6. amount <= tokens[StakeAccount(u)] /\ Moves(u, Owed(u), amount, amount - fee)
  BY <1>1, <1>3, StakeMovesTokens
<1>7. Handles(u, amount, amount - fee, amount - fee)
  BY <1>4, <1>5, <1>6, RestakeHandles
<1>8. Escrow!Deposit(u, amount, fee)
  BY <1>1, <1>2, <1>6, <1>7, HandlesDeposit
<1>9. amount \in 0..[w \in Users |-> tokens[StakeAccount(w)]][u] /\ fee \in Escrow!Fees(amount)
  BY <1>1, <1>2, <1>3, <1>6, BalanceTypes
<1> QED
  BY <1>8, <1>9 DEF EscrowStep, Escrow!Next

LEMMA UnstakeWithdraws ==
    ASSUME Stepping, NEW u \in Users, NEW amount \in UnstakeAmounts, Unstake(u, amount)
    PROVE  EscrowStep
<1>1. TwoMints /\ TypeOK
  BY DEF Stepping, Sound
<1>2. /\ amount \in Nat
      /\ Percent(amount, pool_config.unstake_fee) \in Nat
      /\ Percent(amount, pool_config.unstake_fee) \in Escrow!Fees(amount)
  BY <1>1, ArgumentAssumption, UtilsAssumption, PercentBound, FeeInRange
     DEF U64, TypeOK, PoolConfig
<1>3. user_info[u].staked_amount \in Nat
  BY <1>1, UtilsAssumption DEF TypeOK, UserInfo, U64
<1>4. PICK fee \in Nat : fee = Percent(amount, pool_config.unstake_fee)
  BY <1>2
<1>5. PICK staked : staked = user_info[u].staked_amount - amount
  OBVIOUS
<1>6. /\ CanUpdate /\ CanSettle(u) /\ slot' = slot
      /\ user_info' = [user_info EXCEPT ![u] = Restaked(Updated, @, staked)]
      /\ 0 < amount /\ amount < user_info[u].staked_amount
  BY <1>2, <1>3, <1>5 DEF Unstake, UnstakeAmountOK
<1>7. /\ amount <= tokens[pool_stake_token_vault]
      /\ Moves(u, Owed(u), fee - amount, 0 - amount)
  BY <1>1, <1>4, UnstakeMovesTokens
<1>8. staked = user_info[u].staked_amount + (0 - amount)
  BY <1>2, <1>3, <1>5
<1>9. Handles(u, fee - amount, 0 - amount, 0 - amount)
  BY <1>6, <1>7, <1>8, RestakeHandles
<1>10. Escrow!Withdraw(u, amount, fee)
  BY <1>1, <1>2, <1>6, <1>7, <1>9, HandlesWithdraw
<1>11. amount \in 1..[w \in Users |-> user_info[w].staked_amount][u]
       /\ fee \in Escrow!Fees(amount)
  BY <1>2, <1>3, <1>4, <1>6
<1> QED
  BY <1>10, <1>11 DEF EscrowStep, Escrow!Next

LEMMA ClaimStakedClaims ==
    ASSUME Stepping, NEW u \in Users, ClaimStaked(u)
    PROVE  EscrowStep
<1> DEFINE staked == user_info[u].staked_amount
<1>1. TwoMints /\ TypeOK
  BY DEF Stepping, Sound
<1>2. /\ CanUpdate /\ CanSettle(u) /\ slot' = slot
      /\ user_info' = [user_info EXCEPT ![u] = Restaked(Updated, @, staked)]
  BY <1>1 DEF ClaimStaked, TypeOK
<1>3. Moves(u, Owed(u), 0, 0)
  BY <1>1, ClaimMovesTokens
<1>4. staked = user_info[u].staked_amount + 0
  BY <1>1, UtilsAssumption DEF TypeOK, UserInfo, U64
<1> HIDE DEF staked
<1>5. Handles(u, 0, 0, 0)
  BY <1>2, <1>3, <1>4, RestakeHandles
<1>6. Escrow!Claim(u)
  BY <1>1, <1>5, HandlesClaim
<1> QED
  BY <1>6 DEF EscrowStep, Escrow!Next

(* A call that moves no token of the escrow and changes no record.         *)
LEMMA QuietStutters ==
    ASSUME Stepping, slot' = slot, UNCHANGED << user_info, tokens >>
    PROVE  EscrowStep
<1>1. \A u \in Users : PendingReward(u)' = PendingReward(u)
  BY EarnedKept DEF Stepping, Sound, TwoMints
<1> QED
  BY <1>1 DEF EscrowStep, Escrow!escrowVars

LEMMA CreatePoolEndows ==
    ASSUME Stepping, NEW a, NEW b, NEW funding \in Fundings, NEW rate, NEW duration,
           CreatePool(a, b, funding, rate, duration)
    PROVE  EscrowStep
<1>1. TwoMints /\ TypeOK /\ funding \in Nat
  BY ArgumentAssumption, UtilsAssumption DEF U64, Stepping, Sound
<1>2. /\ UNCHANGED << user_info, slot >>
      /\ tokens' = Transfer(tokens, RewardAccount(creator), pool_reward_token_vault, funding)
  BY DEF CreatePool
<1>3. /\ RewardAccount(creator) \in TokenAccount /\ pool_reward_token_vault \in TokenAccount
      /\ RewardAccount(creator) # pool_reward_token_vault
  BY <1>1, DistinctAccounts
<1>4. /\ tokens'[pool_reward_token_vault] = tokens[pool_reward_token_vault] + funding
      /\ \A a_ \in TokenAccount \ {RewardAccount(creator), pool_reward_token_vault} :
            tokens'[a_] = tokens[a_]
  BY <1>1, <1>2, <1>3, TransferBalances DEF TypeOK
<1>5. /\ tokens'[pool_stake_token_vault] = tokens[pool_stake_token_vault]
      /\ \A u \in Users : /\ tokens'[StakeAccount(u)] = tokens[StakeAccount(u)]
                          /\ tokens'[RewardAccount(u)] = tokens[RewardAccount(u)]
  BY <1>1, <1>4, DistinctAccounts DEF TwoMints
<1>6. tokens'[pool_reward_token_vault] >= tokens[pool_reward_token_vault]
  BY <1>1, <1>4, BalanceTypes
<1>7. \A u \in Users : PendingReward(u)' = PendingReward(u)
  BY <1>2, EarnedKept DEF Stepping, Sound, TwoMints
<1>8. Escrow!Endow
  BY <1>2, <1>5, <1>6, <1>7 DEF Escrow!Endow
<1> QED
  BY <1>8 DEF EscrowStep, Escrow!Next

(* Time.  Every stake earns by the same accumulator.                       *)
LEMMA TickEarns ==
    ASSUME Stepping, DebtCovered', Schedule', Tick
    PROVE  EscrowStep
<1>1. Sound /\ Sound' /\ HasPrecision /\ HasPrecision'
  BY DEF Stepping, Sound, TwoMints, HasPrecision
<1>2. UNCHANGED << user_info, tokens >>
  BY DEF Tick
<1>3. \A u \in Users : PendingReward(u) \in Nat
                     /\ (user_info[u].staked_amount = 0 => PendingReward(u) = 0)
  BY <1>1, EarnedType
<1>4. \A u \in Users : PendingReward(u)' \in Nat
                     /\ (user_info[u].staked_amount = 0 => PendingReward(u)' = 0)
  BY <1>1, <1>2, EarnedLater
<1>5. \A u \in Users : PendingReward(u)' >= PendingReward(u)
  BY <1>2, NobodyDiluted DEF Stepping, Sound, TwoMints
<1>6. ASSUME NEW u \in Users, NEW v \in Users,
             user_info[u].staked_amount = user_info[v].staked_amount
      PROVE  PendingReward(u)' - PendingReward(u) = PendingReward(v)' - PendingReward(v)
  <2> DEFINE m == Updated.acc_token_per_share
             n == Updated'.acc_token_per_share
             staked == user_info[u].staked_amount
             x == (staked * m) \div PrecisionFactor
             y == (staked * n) \div PrecisionFactor
  <2>1. m \in Nat /\ n \in Nat
    BY UpdatedGrows DEF Stepping, Sound, TwoMints
  <2>2. /\ staked \in Nat /\ user_info[u].reward_debt \in Nat
        /\ user_info[v].reward_debt \in Nat
    BY <1>1, UtilsAssumption DEF Sound, TypeOK, UserInfo, U64
  <2>3. /\ PendingReward(u) = x - user_info[u].reward_debt
        /\ PendingReward(v) = x - user_info[v].reward_debt
    BY <1>1, <1>6, ViewIsPending DEF Sound, Pending, Accrued
  <2>4. /\ PendingReward(u)' = Pending(Updated, user_info[u])'
        /\ PendingReward(v)' = Pending(Updated, user_info[v])'
    BY <1>1, ViewLater DEF Sound
  <2>5. /\ PendingReward(u)' = y - user_info[u].reward_debt
        /\ PendingReward(v)' = y - user_info[v].reward_debt
    BY <1>2, <1>6, <2>4 DEF Pending, Accrued
  <2> HIDE DEF m, n, staked
  <2>6. x \in Nat /\ y \in Nat
    BY <1>1, <2>1, <2>2, PrecisionFactorType, TimesMonotonic, DivType
  <2> HIDE DEF x, y
  <2> QED
    BY <2>2, <2>3, <2>5, <2>6
<1>7. Escrow!Earn
  BY <1>2, <1>3, <1>4, <1>5, <1>6 DEF Escrow!Earn
<1> QED
  BY <1>7 DEF EscrowStep, Escrow!Next

LEMMA StepEscrow ==
    ASSUME Stepping, DebtCovered', Schedule', [CoreNext]_vars
    PROVE  EscrowStep
<1>1. UNCHANGED vars => EscrowStep
  BY QuietStutters DEF vars
<1>2. \A a \in DeployFees, b \in PerformanceFees : Initialize(a, b) => EscrowStep
  BY QuietStutters DEF Initialize
<1>3. \A a \in StakeFees, b \in UnstakeFees, funding \in Fundings,
         rate \in Rates, duration \in Durations :
            CreatePool(a, b, funding, rate, duration) => EscrowStep
  BY CreatePoolEndows
<1>4. StartReward => EscrowStep
  BY QuietStutters DEF StartReward
<1>5. \A u \in Users : CallWithoutStake(u) => EscrowStep
  BY QuietStutters DEF CallWithoutStake
<1> QED
  BY <1>1, <1>2, <1>3, <1>4, <1>5, StakeDeposits, UnstakeWithdraws, ClaimStakedClaims,
     TickEarns DEF CoreNext, Setup, ClaimReward

LEMMA InitEscrow == TwoMints /\ Init => Escrow!Init
<1> SUFFICES ASSUME TwoMints, Init PROVE Escrow!Init
  OBVIOUS
<1>1. TypeOK /\ Schedule /\ DebtCovered
  BY InitType, InitSchedule, InitCovered
<1>2. \A u \in Users : user_info[u].staked_amount = 0
  BY DEF Init, PoolInit
<1>3. \A u \in Users : PendingReward(u) = 0
  BY <1>1, <1>2, EarnedType DEF Sound, TwoMints
<1>4. tokens[pool_stake_token_vault] = 0 /\ tokens[pool_reward_token_vault] = 0
  BY EmptyVaultAssumption DEF Init, LedgerInit
<1> QED
  BY <1>1, <1>2, <1>3, <1>4, BalanceTypes DEF Escrow!Init

(* The pool implements the escrow.                                         *)
THEOREM PoolImplementsEscrow == TwoMints => (CoreSpec => PoolIsEscrow)
<1>1. [CoreNext]_vars => [Next]_vars
  BY DEF Next, CompoundNext
<1>2. TwoMints /\ Sound /\ Sound' /\ [CoreNext]_vars => [Escrow!Next]_(Escrow!escrowVars)
  <2>1. TwoMints /\ Sound /\ Sound' /\ [CoreNext]_vars => EscrowStep
    BY <1>1, StepKinds, StepEscrow DEF Stepping, Sound
  <2> QED
    BY <2>1 DEF EscrowStep
<1>3. CoreSpec => [](TypeOK /\ Schedule /\ DebtCovered)
  BY <1>1, ScheduleCorrect, DebtsCovered, PTL DEF CoreSpec, Spec
<1>4. Sound <=> TypeOK /\ Schedule /\ DebtCovered
  BY DEF Sound
<1>5. TwoMints => TwoMints'
  BY DEF TwoMints, HasPrecision
<1> QED
  BY <1>2, <1>3, <1>4, <1>5, InitEscrow, PTL DEF CoreSpec, PoolIsEscrow, Escrow!Spec
=============================================================================
