------------------------- MODULE StakingPool_proofs -------------------------
(***************************************************************************)
(* Proofs about StakingPool for every set of users, every width of the     *)
(* integers, every day length and every set of arguments.                  *)
(***************************************************************************)
EXTENDS StakingPoolProperties, TLAPS

-----------------------------------------------------------------------------
(* Arithmetic.                                                             *)

(* A quotient of naturals is a natural.                                    *)
LEMMA DivType ==
    ASSUME NEW a \in Nat, NEW d \in Nat \ {0}
    PROVE  a \div d \in Nat
  OBVIOUS

(* Division is monotonic in the dividend.                                  *)
LEMMA DivMonotonic ==
    ASSUME NEW a \in Nat, NEW b \in Nat, a <= b, NEW d \in Nat \ {0}
    PROVE  a \div d <= b \div d
  OBVIOUS

(* A product of naturals is a natural, and monotonic in each factor.       *)
LEMMA TimesMonotonic ==
    ASSUME NEW a \in Nat, NEW b \in Nat, NEW c \in Nat, a <= b
    PROVE  a * c <= b * c /\ c * a <= c * b /\ a * c \in Nat
  OBVIOUS

(* A fee is part of the amount it is taken from.                           *)
LEMMA PercentBound ==
    ASSUME NEW amount \in Nat, NEW fee \in FeeRange
    PROVE  Percent(amount, fee) \in Nat /\ Percent(amount, fee) <= amount
<1>1. amount * fee <= amount * PERCENT_PRECISION
  BY TimesMonotonic DEF FeeRange, MAX_FEE, PERCENT_PRECISION
<1>2. (amount * fee) \div PERCENT_PRECISION <= (amount * PERCENT_PRECISION) \div PERCENT_PRECISION
  BY <1>1, DivMonotonic DEF FeeRange, MAX_FEE, PERCENT_PRECISION
<1> QED
  BY <1>2 DEF Percent, FeeRange, MAX_FEE, PERCENT_PRECISION

(* A mint with at most nine decimals has a positive precision factor.      *)
LEMMA PrecisionFactorType ==
    ASSUME HasPrecision
    PROVE  PrecisionFactor \in Nat \ {0}
<1>1. 10 - reward_mint_decimals \in 1..10
  BY UtilsAssumption DEF HasPrecision
<1>2. \A i \in 1..10 : PowersOfTen[i] \in Nat \ {0}
  BY DEF PowersOfTen
<1> QED
  BY <1>1, <1>2 DEF PrecisionFactor

-----------------------------------------------------------------------------
(* The helpers of the handlers.                                            *)

(* A transfer that the source can pay keeps the balances natural numbers.  *)
LEMMA TransferType ==
    ASSUME NEW S, NEW balances \in [S -> Nat], NEW from \in S, NEW to \in S,
           NEW amount \in Nat, Holds(balances, from, amount)
    PROVE  Transfer(balances, from, to, amount) \in [S -> Nat]
  BY DEF Transfer, Holds

(* A transfer between two accounts: what it does to each account.          *)
LEMMA TransferBalances ==
    ASSUME NEW S, NEW balances \in [S -> Nat], NEW from \in S, NEW to \in S,
           NEW amount \in Nat, from # to
    PROVE  /\ Transfer(balances, from, to, amount)[from] = balances[from] - amount
           /\ Transfer(balances, from, to, amount)[to] = balances[to] + amount
           /\ \A a \in S \ {from, to} :
                Transfer(balances, from, to, amount)[a] = balances[a]
  BY DEF Transfer

(* update_pool changes the accumulator, the last slot and the accrued      *)
(* total only, and the first and the last never decrease.                  *)
LEMMA UpdatePoolType ==
    ASSUME NEW pc \in PoolConfig, NEW ps \in PoolState, NEW now \in Nat,
           UpdatePoolFits(pc, ps, now)
    PROVE  /\ UpdatePool(pc, ps, now) \in PoolState
           /\ UpdatePool(pc, ps, now).total_staked = ps.total_staked
           /\ UpdatePool(pc, ps, now).reward_amount = ps.reward_amount
           /\ UpdatePool(pc, ps, now).paid_rewards = ps.paid_rewards
           /\ UpdatePool(pc, ps, now).total_earned = ps.total_earned
           /\ UpdatePool(pc, ps, now).acc_token_per_share >= ps.acc_token_per_share
           /\ UpdatePool(pc, ps, now).last_reward_slot >= ps.last_reward_slot
<1>1. CASE ~IsStale(ps, now)
  BY <1>1 DEF UpdatePool, PoolState, U64
<1>2. CASE IsStale(ps, now) /\ ps.total_staked = 0
  BY <1>2, UtilsAssumption DEF UpdatePool, PoolState, U64, IsStale
<1>3. CASE IsStale(ps, now) /\ ps.total_staked # 0
  <2> DEFINE reward == Emitted(pc, ps, now)
             gain == (reward * PrecisionFactor) \div ps.total_staked
  <2>1. /\ HasPrecision /\ Fits(reward) /\ Fits(reward * PrecisionFactor)
        /\ Fits(AccPerShare(ps, reward)) /\ Fits(ps.should_total_paid + reward)
    BY <1>3 DEF UpdatePoolFits
  <2>2. ps.total_staked \in Nat \ {0} /\ ps.acc_token_per_share \in Nat
    BY <1>3, UtilsAssumption DEF PoolState, U64
  <2>3. reward * PrecisionFactor \in Nat
    BY <2>1, UtilsAssumption DEF Fits, U64
  <2> HIDE DEF reward
  <2>4. gain \in Nat
    BY <2>2, <2>3, DivType
  <2>5. AccPerShare(ps, reward) >= ps.acc_token_per_share
    BY <2>2, <2>4 DEF AccPerShare
  <2>6. UpdatePool(pc, ps, now)
          = [ps EXCEPT !.acc_token_per_share = AccPerShare(ps, reward),
                       !.last_reward_slot = now,
                       !.should_total_paid = @ + reward]
    BY <1>3 DEF UpdatePool, reward
  <2>7. now >= ps.last_reward_slot
    BY <1>3 DEF IsStale, PoolState
  <2> QED
    BY <2>1, <2>5, <2>6, <2>7 DEF PoolState, Fits
<1> QED
  BY <1>1, <1>2, <1>3

(* A stake within u64 has accrued a natural number of reward tokens.       *)
LEMMA AccruedType ==
    ASSUME NEW ps \in PoolState, NEW staked \in U64, AccruedFits(ps, staked)
    PROVE  Accrued(ps, staked) \in U64
<1>1. /\ HasPrecision /\ PrecisionFactor \in Nat \ {0}
      /\ staked * ps.acc_token_per_share \in 0..MaxU64
  BY PrecisionFactorType DEF AccruedFits, Fits, U64
<1> DEFINE n == staked * ps.acc_token_per_share
<1>2. n \div PrecisionFactor \in Nat /\ n \div PrecisionFactor <= n
  <2> HIDE DEF n
  <2>1. n \in Nat /\ PrecisionFactor \in Nat \ {0}
    BY <1>1, UtilsAssumption DEF n
  <2> QED BY <2>1
<1> QED
  BY <1>1, <1>2, UtilsAssumption DEF Accrued, U64

(* Resetting the reward_debt of a stake leaves a valid user record.        *)
LEMMA RestakedType ==
    ASSUME NEW ps \in PoolState, NEW ui, NEW staked \in U64, AccruedFits(ps, staked)
    PROVE  /\ Restaked(ps, ui, staked) \in UserInfo
           /\ Restaked(ps, ui, staked).staked_amount = staked
           /\ Restaked(ps, ui, staked).reward_debt = Accrued(ps, staked)
  BY AccruedType DEF Restaked, UserInfo

(* Paying a pending reward that CanPay admits leaves a valid pool state.   *)
LEMMA PaidType ==
    ASSUME NEW ps \in PoolState, NEW balances, NEW pending \in Nat,
           CanPay(ps, balances, pending)
    PROVE  /\ Paid(ps, pending) \in PoolState
           /\ Paid(ps, pending) = [ps EXCEPT
                !.reward_amount = ps.reward_amount - pending,
                !.total_earned = SaturatingSub(ps.total_earned, pending),
                !.paid_rewards = ps.paid_rewards + pending]
           /\ pending <= ps.reward_amount
<1>1. \/ pending <= AvailableRewardTokens(ps) /\ AvailableRewardTokens(ps) <= ps.reward_amount
      \/ pending = 0
  BY UtilsAssumption DEF CanPay, AvailableRewardTokens, PoolState, U64
<1>2. ps.reward_amount \in U64 /\ ps.total_earned \in U64 /\ ps.paid_rewards \in U64
  BY DEF PoolState
<1>3. ps.reward_amount - pending \in U64
  BY <1>1, <1>2, UtilsAssumption DEF U64, AvailableRewardTokens, PoolState
<1>4. SaturatingSub(ps.total_earned, pending) \in U64
  BY <1>2, UtilsAssumption DEF U64, SaturatingSub
<1>5. ps.paid_rewards + pending \in U64
  BY <1>2, UtilsAssumption DEF CanPay, Fits, U64
<1>6. Paid(ps, pending) \in PoolState
  BY <1>3, <1>4, <1>5 DEF Paid, PoolState
<1>7. pending <= ps.reward_amount
  BY <1>2, <1>3, UtilsAssumption DEF U64
<1> QED
  BY <1>6, <1>7 DEF Paid, PoolState

(* Every account a handler names is an account of the ledger.              *)
LEMMA AccountTypes ==
    /\ pool_stake_token_vault \in TokenAccount /\ pool_reward_token_vault \in TokenAccount
    /\ \A w \in Wallet : StakeAccount(w) \in TokenAccount /\ RewardAccount(w) \in TokenAccount
    /\ creator \in Wallet /\ amm \in Wallet /\ Users \subseteq Wallet
    /\ creator \in SolAccount /\ treasury \in SolAccount /\ Users \subseteq SolAccount
  BY InitialAssumption DEF PoolTokenAccount, Wallet, PoolSolAccount, StakeAccount, RewardAccount

(* The pool state that a handler computes with, after update_pool.         *)
LEMMA UpdatedType ==
    ASSUME TypeOK, CanUpdate
    PROVE  /\ Updated \in PoolState
           /\ Updated.total_staked = pool_state.total_staked
           /\ Updated.reward_amount = pool_state.reward_amount
           /\ Updated.paid_rewards = pool_state.paid_rewards
           /\ Updated.total_earned = pool_state.total_earned
           /\ Updated.acc_token_per_share >= pool_state.acc_token_per_share
           /\ Updated.last_reward_slot >= pool_state.last_reward_slot
  BY UpdatePoolType DEF TypeOK, CanUpdate, Updated

(* Settling the reward of a user before the stake changes.                 *)
LEMMA SettleType ==
    ASSUME TypeOK, CanUpdate, NEW u \in Users, CanSettle(u)
    PROVE  /\ Owed(u) \in Nat
           /\ CanPay(Updated, tokens, Owed(u))
           /\ Holds(tokens, pool_reward_token_vault, Owed(u))
           /\ PaidOut(tokens, u, Owed(u)) \in [TokenAccount -> Nat]
           /\ Paid(Updated, Owed(u)) \in PoolState
           /\ Paid(Updated, Owed(u)) = [Updated EXCEPT
                !.reward_amount = Updated.reward_amount - Owed(u),
                !.total_earned = SaturatingSub(Updated.total_earned, Owed(u)),
                !.paid_rewards = Updated.paid_rewards + Owed(u)]
<1>1. Owed(u) \in Nat /\ CanPay(Updated, tokens, Owed(u))
  <2>1. CASE user_info[u].staked_amount > 0
    BY <2>1 DEF Owed, CanSettle, PendingFits, Fits, U64
  <2>2. CASE ~(user_info[u].staked_amount > 0)
    BY <2>2 DEF Owed, CanPay
  <2> QED
    BY <2>1, <2>2
<1>2. Holds(tokens, pool_reward_token_vault, Owed(u))
  <2>1. CASE Owed(u) > 0
    BY <1>1, <2>1 DEF CanPay
  <2>2. CASE Owed(u) = 0
    BY <2>2, AccountTypes DEF Holds, TypeOK
  <2> QED
    BY <1>1, <2>1, <2>2
<1>3. PaidOut(tokens, u, Owed(u)) \in [TokenAccount -> Nat]
  BY <1>1, <1>2, AccountTypes, TransferType DEF PaidOut, TypeOK
<1> QED
  BY <1>1, <1>2, <1>3, UpdatedType, PaidType

(* The performance fee leaves natural balances.                            *)
LEMMA FeePaidType ==
    ASSUME NEW balances \in [SolAccount -> Nat], platform \in PlatformInfo,
           NEW u \in Users, CanPayFee(balances, u)
    PROVE  FeePaid(balances, u) \in [SolAccount -> Nat]
<1>1. u \in SolAccount /\ treasury \in SolAccount
  BY AccountTypes
<1>2. platform.performance_fee \in Nat /\ Holds(balances, u, platform.performance_fee)
  BY <1>1 DEF CanPayFee, Holds, PlatformInfo
<1> QED
  BY <1>1, <1>2, TransferType DEF FeePaid

-----------------------------------------------------------------------------
(* Type correctness, one lemma per instruction.                            *)

LEMMA InitType == Init => TypeOK
<1> SUFFICES ASSUME Init PROVE TypeOK
  OBVIOUS
<1>1. opened \subseteq Accounts /\ platform \in PlatformInfo /\ slot \in Nat
  BY DEF Init, PoolInit, LedgerInit, PlatformInfo
<1>2. pool_config \in PoolConfig /\ pool_state \in PoolState
  BY UtilsAssumption DEF Init, PoolInit, LedgerInit, PoolConfig, PoolState, U64, FeeRange, MAX_FEE
<1>3. user_info \in [Users -> UserInfo]
  BY UtilsAssumption DEF Init, PoolInit, LedgerInit, UserInfo, U64
<1>4. tokens \in [TokenAccount -> Nat] /\ lamports \in [SolAccount -> Nat]
  BY InitialAssumption DEF Init, PoolInit, LedgerInit
<1>5. hist \in HistType
  BY DEF Init, PoolInit, LedgerInit, HistType
<1> QED
  BY <1>1, <1>2, <1>3, <1>4, <1>5 DEF TypeOK

LEMMA InitializeType ==
    ASSUME TypeOK, NEW deploy_fee \in DeployFees, NEW performance_fee \in PerformanceFees,
           Initialize(deploy_fee, performance_fee)
    PROVE  TypeOK'
<1>1. opened' \subseteq Accounts
  BY DEF TypeOK, Initialize, Accounts
<1>2. platform' \in PlatformInfo
  BY FeeAssumption DEF Initialize, PlatformInfo
<1> QED
  BY <1>1, <1>2 DEF TypeOK, Initialize

LEMMA CreatePoolType ==
    ASSUME TypeOK,
           NEW stake_fee \in StakeFees, NEW unstake_fee \in UnstakeFees,
           NEW funding \in Fundings, NEW rate \in Rates, NEW duration \in Durations,
           CreatePool(stake_fee, unstake_fee, funding, rate, duration)
    PROVE  TypeOK'
<1>1. opened' \subseteq Accounts
  BY DEF TypeOK, CreatePool, Accounts
<1>2. pool_config' \in PoolConfig
  <2>1. stake_fee \in FeeRange /\ unstake_fee \in FeeRange
    <3>1. stake_fee <= MAX_FEE /\ unstake_fee <= MAX_FEE
      BY DEF CreatePool
    <3>2. stake_fee \in Nat /\ unstake_fee \in Nat
      BY FeeAssumption
    <3> QED
      BY <3>1, <3>2 DEF FeeRange, MAX_FEE
  <2>2. rate \in U64 /\ duration \in Nat
    BY ArgumentAssumption
  <2>3. pool_config \in PoolConfig
    BY DEF TypeOK
  <2>4. pool_config' = [pool_config EXCEPT !.stake_fee = stake_fee,
                            !.unstake_fee = unstake_fee, !.duration = duration,
                            !.reward_per_slot = rate]
    BY DEF CreatePool
  <2> QED
    BY <2>1, <2>2, <2>3, <2>4 DEF PoolConfig
<1>3. pool_state' \in PoolState
  <2>1. pool_state \in PoolState /\ funding \in U64 /\ 0 \in U64
    BY ArgumentAssumption, UtilsAssumption DEF U64, TypeOK
  <2>2. pool_state' = [pool_state EXCEPT !.reward_amount = funding, !.total_staked = 0]
    BY DEF CreatePool
  <2> QED
    BY <2>1, <2>2 DEF PoolState
<1>4. tokens' \in [TokenAccount -> Nat]
  <2>1. funding \in Nat /\ tokens \in [TokenAccount -> Nat]
    BY ArgumentAssumption, UtilsAssumption DEF U64, TypeOK
  <2>2. /\ Holds(tokens, RewardAccount(creator), funding)
        /\ tokens' = Transfer(tokens, RewardAccount(creator), pool_reward_token_vault, funding)
    BY DEF CreatePool
  <2> QED
    BY <2>1, <2>2, AccountTypes, TransferType
<1>5. lamports' \in [SolAccount -> Nat]
  <2> DEFINE paid == [lamports EXCEPT ![creator] = @ - pool_rent]
  <2>1. /\ platform.deploy_fee \in Nat /\ pool_rent \in Nat /\ creator \in SolAccount
        /\ lamports \in [SolAccount -> Nat]
        /\ lamports[creator] > pool_rent + platform.deploy_fee
        /\ lamports' = Transfer(paid, creator, treasury, platform.deploy_fee)
    BY CostAssumption, AccountTypes DEF PlatformInfo, TypeOK, CreatePool
  <2>2. paid \in [SolAccount -> Nat] /\ Holds(paid, creator, platform.deploy_fee)
    BY <2>1 DEF Holds
  <2> HIDE DEF paid
  <2> QED
    BY <2>1, <2>2, AccountTypes, TransferType
<1>6. hist' \in HistType
  <2>1. hist \in HistType /\ funding \in Nat /\ hist' = [hist EXCEPT !.funding = funding]
    BY ArgumentAssumption, UtilsAssumption DEF U64, TypeOK, CreatePool
  <2> QED
    BY <2>1 DEF HistType
<1>7. platform' = platform /\ user_info' = user_info /\ slot' = slot
  BY DEF CreatePool
<1> QED
  BY <1>1, <1>2, <1>3, <1>4, <1>5, <1>6, <1>7 DEF TypeOK

(* What the funding lacks is a natural number.                             *)
LEMMA InsufficientRewardsType ==
    ASSUME NEW pc \in PoolConfig, NEW ps \in PoolState
    PROVE  InsufficientRewards(pc, ps) \in Nat
<1>1. AvailableRewardTokens(ps) \in Nat
  BY UtilsAssumption DEF AvailableRewardTokens, PoolState, U64
<1>2. pc.reward_per_slot * pc.duration * SLOTS_PER_DAY \in Int
  BY UtilsAssumption DEF PoolConfig, U64
<1>3. GetMultiplier(ps.last_reward_slot, pc.end_slot, pc.end_slot) \in Int
  BY DEF GetMultiplier, PoolConfig, PoolState
<1>4. pc.reward_per_slot * GetMultiplier(ps.last_reward_slot, pc.end_slot, pc.end_slot) \in Int
  BY <1>3, UtilsAssumption DEF PoolConfig, U64
<1>5. ps.should_total_paid \in Int /\ ps.paid_rewards \in Int
  BY UtilsAssumption DEF PoolState, U64
<1> QED
  BY <1>1, <1>2, <1>4, <1>5 DEF InsufficientRewards

LEMMA StartRewardType ==
    ASSUME TypeOK, StartReward
    PROVE  TypeOK'
<1> DEFINE start == slot + START_DELAY
           end == start + pool_config.duration * SLOTS_PER_DAY
<1>1. /\ start \in Nat /\ end \in Nat
      /\ pool_config \in PoolConfig /\ pool_state \in PoolState /\ hist \in HistType
  BY CostAssumption, UtilsAssumption DEF TypeOK, PoolConfig
<1>2. /\ pool_config' = [pool_config EXCEPT !.start_slot = start, !.end_slot = end]
      /\ pool_state' = [pool_state EXCEPT !.last_reward_slot = start]
      /\ hist' = [hist EXCEPT !.shortfall = InsufficientRewards(pool_config, pool_state)]
  BY DEF StartReward
<1> HIDE DEF start, end
<1>3. pool_config' \in PoolConfig /\ pool_state' \in PoolState
  BY <1>1, <1>2 DEF PoolConfig, PoolState
<1>4. hist' \in HistType
  BY <1>1, <1>2, InsufficientRewardsType DEF HistType
<1>5. UNCHANGED << opened, platform, user_info, tokens, lamports, slot >>
  BY DEF StartReward
<1> QED
  BY <1>3, <1>4, <1>5 DEF TypeOK

LEMMA StakeType ==
    ASSUME TypeOK, NEW u \in Users, NEW amount \in StakeAmounts, Stake(u, amount)
    PROVE  TypeOK'
<1> DEFINE fee == Percent(amount, pool_config.stake_fee)
           real == amount - fee
           staked == user_info[u].staked_amount + real
           settled == PaidOut(tokens, u, Owed(u))
           received == Transfer(settled, StakeAccount(u), pool_stake_token_vault, amount)
<1>1. /\ CanUpdate /\ CanSettle(u) /\ CanPayFee(RentPaid(u), u)
      /\ Holds(settled, StakeAccount(u), amount)
      /\ staked \in U64 /\ AccruedFits(Updated, staked)
      /\ pool_state.total_staked + real \in U64
      /\ u \notin opened => lamports[u] >= user_info_rent
  BY DEF Stake, Fits
<1>2. /\ opened' = opened \union {u}
      /\ lamports' = FeePaid(RentPaid(u), u)
      /\ tokens' = Transfer(received, pool_stake_token_vault, StakeAccount(creator), fee)
      /\ pool_state' = [Paid(Updated, Owed(u)) EXCEPT !.total_staked = @ + real]
      /\ user_info' = [user_info EXCEPT ![u] = Restaked(Updated, @, staked)]
      /\ hist' = [hist EXCEPT !.restakes = @ + 1]
      /\ UNCHANGED << platform, pool_config, slot >>
  BY DEF Stake
<1>3. amount \in Nat /\ fee \in Nat /\ fee <= amount
  <2>1. amount \in Nat
    BY ArgumentAssumption, UtilsAssumption DEF U64
  <2>2. pool_config.stake_fee \in FeeRange
    BY DEF TypeOK, PoolConfig
  <2> QED
    BY <2>1, <2>2, PercentBound
<1> HIDE DEF fee, real, staked, settled, received
<1>4. tokens' \in [TokenAccount -> Nat]
  <2>1. settled \in [TokenAccount -> Nat]
    BY <1>1, SettleType DEF settled
  <2>2. /\ StakeAccount(u) \in TokenAccount /\ StakeAccount(creator) \in TokenAccount
        /\ pool_stake_token_vault \in TokenAccount
    BY AccountTypes
  <2>3. received \in [TokenAccount -> Nat]
    BY <1>1, <1>3, <2>1, <2>2, TransferType DEF received
  <2>4. received[pool_stake_token_vault] >= amount
    BY <1>1, <1>3, <2>1, <2>2 DEF received, Transfer, Holds
  <2>5. Holds(received, pool_stake_token_vault, fee)
    BY <1>3, <2>2, <2>3, <2>4 DEF Holds
  <2> QED
    BY <1>2, <1>3, <2>2, <2>3, <2>5, TransferType
<1>5. lamports' \in [SolAccount -> Nat]
  <2>1. /\ lamports \in [SolAccount -> Nat] /\ u \in SolAccount
        /\ user_info_rent \in Nat /\ platform \in PlatformInfo
    BY AccountTypes, CostAssumption DEF TypeOK
  <2>2. RentPaid(u) \in [SolAccount -> Nat]
    BY <1>1, <2>1 DEF RentPaid
  <2> QED
    BY <1>1, <1>2, <2>1, <2>2, FeePaidType
<1>6. pool_state' \in PoolState
  <2>1. Paid(Updated, Owed(u)) \in PoolState
    BY <1>1, SettleType
  <2>2. Paid(Updated, Owed(u)).total_staked = pool_state.total_staked
    BY <1>1, SettleType, UpdatedType DEF PoolState
  <2> QED
    BY <1>1, <1>2, <2>1, <2>2 DEF PoolState
<1>7. user_info' \in [Users -> UserInfo]
  <2>1. user_info \in [Users -> UserInfo] /\ Updated \in PoolState
    BY <1>1, UpdatedType DEF TypeOK
  <2>2. Restaked(Updated, user_info[u], staked) \in UserInfo
    BY <1>1, <2>1, RestakedType
  <2> QED
    BY <1>2, <2>1, <2>2
<1>8. hist' \in HistType
  BY <1>2 DEF TypeOK, HistType
<1>9. opened' \subseteq Accounts
  BY <1>2 DEF TypeOK, Accounts
<1> QED
  BY <1>2, <1>4, <1>5, <1>6, <1>7, <1>8, <1>9 DEF TypeOK

LEMMA UnstakeType ==
    ASSUME TypeOK, NEW u \in Users, NEW amount \in UnstakeAmounts, Unstake(u, amount)
    PROVE  TypeOK'
<1> DEFINE fee == Percent(amount, pool_config.unstake_fee)
           staked == user_info[u].staked_amount - amount
           settled == PaidOut(tokens, u, Owed(u))
           charged == Transfer(settled, pool_stake_token_vault, StakeAccount(creator), fee)
<1>1. /\ CanUpdate /\ CanSettle(u) /\ CanPayFee(lamports, u)
      /\ Holds(settled, pool_stake_token_vault, amount)
      /\ staked \in U64 /\ AccruedFits(Updated, staked)
      /\ pool_state.total_staked - amount \in U64
  BY DEF Unstake, Fits
<1>2. /\ lamports' = FeePaid(lamports, u)
      /\ tokens' = Transfer(charged, pool_stake_token_vault, StakeAccount(u), amount - fee)
      /\ pool_state' = Left(Paid(Updated, Owed(u)), amount)
      /\ user_info' = [user_info EXCEPT ![u] = Restaked(Updated, @, staked)]
      /\ hist' = [hist EXCEPT !.restakes = @ + 1]
      /\ UNCHANGED << opened, platform, pool_config, slot >>
  BY DEF Unstake
<1>3. amount \in Nat /\ fee \in Nat /\ fee <= amount
  <2>1. amount \in Nat
    BY ArgumentAssumption, UtilsAssumption DEF U64
  <2>2. pool_config.unstake_fee \in FeeRange
    BY DEF TypeOK, PoolConfig
  <2> QED
    BY <2>1, <2>2, PercentBound
<1> HIDE DEF fee, staked, settled, charged
<1>4. tokens' \in [TokenAccount -> Nat]
  <2>1. settled \in [TokenAccount -> Nat]
    BY <1>1, SettleType DEF settled
  <2>2. /\ StakeAccount(u) \in TokenAccount /\ StakeAccount(creator) \in TokenAccount
        /\ pool_stake_token_vault \in TokenAccount
    BY AccountTypes
  <2>3. Holds(settled, pool_stake_token_vault, fee)
    BY <1>1, <1>3, <2>1, <2>2 DEF Holds
  <2>4. charged \in [TokenAccount -> Nat]
    BY <1>3, <2>1, <2>2, <2>3, TransferType DEF charged
  <2>5. charged[pool_stake_token_vault] >= settled[pool_stake_token_vault] - fee
    BY <1>3, <2>1, <2>2 DEF charged, Transfer
  <2>6. amount - fee \in Nat /\ Holds(charged, pool_stake_token_vault, amount - fee)
    BY <1>1, <1>3, <2>1, <2>2, <2>4, <2>5 DEF Holds
  <2> QED
    BY <1>2, <2>2, <2>4, <2>6, TransferType
<1>5. lamports' \in [SolAccount -> Nat]
  BY <1>1, <1>2, FeePaidType DEF TypeOK
<1>6. pool_state' \in PoolState
  <2>1. Paid(Updated, Owed(u)) \in PoolState
    BY <1>1, SettleType
  <2>2. Paid(Updated, Owed(u)).total_staked = pool_state.total_staked
    BY <1>1, SettleType, UpdatedType DEF PoolState
  <2> QED
    BY <1>1, <1>2, <2>1, <2>2 DEF PoolState, Left
<1>7. user_info' \in [Users -> UserInfo]
  <2>1. user_info \in [Users -> UserInfo] /\ Updated \in PoolState
    BY <1>1, UpdatedType DEF TypeOK
  <2>2. Restaked(Updated, user_info[u], staked) \in UserInfo
    BY <1>1, <2>1, RestakedType
  <2> QED
    BY <1>2, <2>1, <2>2
<1>8. hist' \in HistType
  BY <1>2 DEF TypeOK, HistType
<1> QED
  BY <1>2, <1>4, <1>5, <1>6, <1>7, <1>8 DEF TypeOK

LEMMA CallWithoutStakeType ==
    ASSUME TypeOK, NEW u \in Users, CallWithoutStake(u)
    PROVE  TypeOK'
<1>1. CanPayFee(lamports, u) /\ CanUpdate
  BY DEF CallWithoutStake
<1>2. /\ lamports' = FeePaid(lamports, u)
      /\ pool_state' = Updated
      /\ UNCHANGED << opened, platform, pool_config, user_info, tokens, slot, hist >>
  BY DEF CallWithoutStake
<1>3. lamports' \in [SolAccount -> Nat]
  BY <1>1, <1>2, FeePaidType DEF TypeOK
<1>4. pool_state' \in PoolState
  BY <1>1, <1>2, UpdatedType
<1> QED
  BY <1>2, <1>3, <1>4 DEF TypeOK

LEMMA ClaimStakedType ==
    ASSUME TypeOK, NEW u \in Users, ClaimStaked(u)
    PROVE  TypeOK'
<1> DEFINE staked == user_info[u].staked_amount
<1>1. CanPayFee(lamports, u) /\ CanUpdate /\ CanSettle(u) /\ AccruedFits(Updated, staked)
  BY DEF ClaimStaked, CanSettle, PendingFits
<1>2. /\ lamports' = FeePaid(lamports, u)
      /\ tokens' = PaidOut(tokens, u, Owed(u))
      /\ pool_state' = Paid(Updated, Owed(u))
      /\ user_info' = [user_info EXCEPT ![u] = Restaked(Updated, @, @.staked_amount)]
      /\ UNCHANGED << opened, platform, pool_config, slot, hist >>
  BY DEF ClaimStaked
<1>3. lamports' \in [SolAccount -> Nat]
  BY <1>1, <1>2, FeePaidType DEF TypeOK
<1>4. tokens' \in [TokenAccount -> Nat] /\ pool_state' \in PoolState
  BY <1>1, <1>2, SettleType
<1>5. user_info' \in [Users -> UserInfo]
  <2>1. user_info \in [Users -> UserInfo] /\ Updated \in PoolState
    BY <1>1, UpdatedType DEF TypeOK
  <2>2. staked \in U64
    BY <2>1 DEF UserInfo
  <2>3. Restaked(Updated, user_info[u], staked) \in UserInfo
    BY <1>1, <2>1, <2>2, RestakedType
  <2> QED
    BY <1>2, <2>1, <2>3
<1> QED
  BY <1>2, <1>3, <1>4, <1>5 DEF TypeOK

(* What both branches of compound_reward do to the program's accounts.     *)
LEMMA CompoundStateType ==
    ASSUME TypeOK, NEW u \in Users, NEW added \in Nat,
           CanCompound(u, added), CompoundState(u, added)
    PROVE  /\ opened' \subseteq Accounts
           /\ platform' \in PlatformInfo
           /\ pool_config' \in PoolConfig
           /\ pool_state' \in PoolState
           /\ user_info' \in [Users -> UserInfo]
           /\ lamports' \in [SolAccount -> Nat]
           /\ slot' \in Nat
           /\ Owed(u) \in Nat
<1> DEFINE staked == user_info[u].staked_amount + added
<1>1. /\ CanPayFee(lamports, u) /\ CanUpdate
      /\ user_info[u].staked_amount > 0
      /\ PendingFits(Updated, user_info[u])
      /\ Owed(u) > 0 => Updated.paid_rewards + Owed(u) \in U64
      /\ pool_state.total_staked + added \in U64
      /\ staked \in U64 /\ AccruedFits(Updated, staked)
  BY DEF CanCompound, Fits
<1>2. /\ lamports' = FeePaid(lamports, u)
      /\ pool_state' = Compounded(Updated, Owed(u), added)
      /\ user_info' = [user_info EXCEPT
                          ![u] = Restaked(Updated, @, @.staked_amount + added)]
      /\ UNCHANGED << opened, platform, pool_config, slot >>
  BY DEF CompoundState
<1>3. Owed(u) \in Nat
  BY <1>1 DEF Owed, PendingFits, Fits, U64
<1>4. lamports' \in [SolAccount -> Nat]
  BY <1>1, <1>2, FeePaidType DEF TypeOK
<1>5. pool_state' \in PoolState
  <2>1. Updated \in PoolState /\ Updated.total_staked = pool_state.total_staked
    BY <1>1, UpdatedType
  <2>2. Updated.paid_rewards + Owed(u) \in U64
    BY <1>1, <1>3, <2>1, UtilsAssumption DEF PoolState, U64
  <2>3. SaturatingSub(Updated.total_earned, Owed(u)) \in U64
    BY <1>3, <2>1, UtilsAssumption DEF PoolState, U64, SaturatingSub
  <2> QED
    BY <1>1, <1>2, <2>1, <2>2, <2>3 DEF Compounded, PoolState
<1>6. user_info' \in [Users -> UserInfo]
  <2>1. user_info \in [Users -> UserInfo] /\ Updated \in PoolState
    BY <1>1, UpdatedType DEF TypeOK
  <2>2. Restaked(Updated, user_info[u], staked) \in UserInfo
    BY <1>1, <2>1, RestakedType
  <2> QED
    BY <1>2, <2>1, <2>2
<1> QED
  BY <1>2, <1>3, <1>4, <1>5, <1>6 DEF TypeOK

LEMMA CompoundDirectType ==
    ASSUME TypeOK, NEW u \in Users, CompoundDirect(u)
    PROVE  TypeOK'
<1>1. CanCompound(u, Owed(u)) /\ CompoundState(u, Owed(u)) /\ UNCHANGED tokens
  BY DEF CompoundDirect
<1>2. Owed(u) \in Nat
  BY <1>1 DEF CanCompound, Owed, PendingFits, Fits, U64
<1>3. hist' \in HistType
  <2> DEFINE compounded == hist.compounded + Owed(u)
             restaked == hist.restaked + Owed(u)
             restakes == hist.restakes + (IF Owed(u) > 0 THEN 1 ELSE 0)
  <2>1. hist \in HistType
    BY DEF TypeOK
  <2>2. compounded \in Nat /\ restaked \in Nat /\ restakes \in Nat
    BY <1>2, <2>1 DEF HistType
  <2>3. hist' = [hist EXCEPT !.compounded = compounded, !.restaked = restaked,
                             !.restakes = restakes]
    BY DEF CompoundDirect
  <2> HIDE DEF compounded, restaked, restakes
  <2> QED
    BY <2>1, <2>2, <2>3 DEF HistType
<1>4. tokens' \in [TokenAccount -> Nat]
  BY <1>1 DEF TypeOK
<1> QED
  BY <1>1, <1>2, <1>3, <1>4, CompoundStateType DEF TypeOK

LEMMA CompoundSwapType ==
    ASSUME TypeOK, NEW u \in Users, NEW out \in SwapOutputs, CompoundSwap(u, out)
    PROVE  TypeOK'
<1> DEFINE sent == Transfer(tokens, pool_reward_token_vault, RewardAccount(amm), Owed(u))
<1>1. /\ CanCompound(u, 0) /\ CompoundState(u, 0)
      /\ Holds(tokens, pool_reward_token_vault, Owed(u))
      /\ Holds(sent, StakeAccount(amm), out)
      /\ tokens' = Transfer(sent, StakeAccount(amm), pool_stake_token_vault, out)
      /\ hist' = [hist EXCEPT !.compounded = @ + Owed(u),
                              !.swapped_in = @ + Owed(u),
                              !.swapped_out = @ + out]
  BY DEF CompoundSwap
<1>2. Owed(u) \in Nat /\ out \in Nat
  BY <1>1, ArgumentAssumption, CompoundStateType
<1> HIDE DEF sent
<1>3. tokens' \in [TokenAccount -> Nat]
  <2>1. sent \in [TokenAccount -> Nat]
    BY <1>1, <1>2, AccountTypes, TransferType DEF sent, TypeOK
  <2> QED
    BY <1>1, <1>2, <2>1, AccountTypes, TransferType
<1>4. hist' \in HistType
  <2> DEFINE compounded == hist.compounded + Owed(u)
             swapped_in == hist.swapped_in + Owed(u)
             swapped_out == hist.swapped_out + out
  <2>1. hist \in HistType
    BY DEF TypeOK
  <2>2. compounded \in Nat /\ swapped_in \in Nat /\ swapped_out \in Nat
    BY <1>2, <2>1 DEF HistType
  <2>3. hist' = [hist EXCEPT !.compounded = compounded, !.swapped_in = swapped_in,
                             !.swapped_out = swapped_out]
    BY <1>1
  <2> HIDE DEF compounded, swapped_in, swapped_out
  <2> QED
    BY <2>1, <2>2, <2>3 DEF HistType
<1> QED
  BY <1>1, <1>3, <1>4, CompoundStateType DEF TypeOK

LEMMA StopRewardType ==
    ASSUME TypeOK, StopReward
    PROVE  TypeOK'
<1>1. /\ CanUpdate
      /\ Holds(tokens, pool_reward_token_vault, Surplus(Updated))
      /\ tokens' = Transfer(tokens, pool_reward_token_vault,
                            RewardAccount(creator), Surplus(Updated))
      /\ pool_state' = [Updated EXCEPT !.total_earned = SaturatingSub(@, Surplus(Updated))]
      /\ hist' = [hist EXCEPT !.swept = @ + Surplus(Updated), !.announced_end = slot]
      /\ UNCHANGED << opened, platform, pool_config, user_info, lamports, slot >>
  BY DEF StopReward
<1>2. Updated \in PoolState
  BY <1>1, UpdatedType
<1>3. Surplus(Updated) \in Nat
  BY <1>2, UtilsAssumption DEF Surplus, SaturatingSub, AvailableRewardTokens, PoolState, U64
<1>4. tokens' \in [TokenAccount -> Nat]
  BY <1>1, <1>3, AccountTypes, TransferType DEF TypeOK
<1>5. pool_state' \in PoolState
  <2>1. SaturatingSub(Updated.total_earned, Surplus(Updated)) \in U64
    BY <1>2, <1>3, UtilsAssumption DEF SaturatingSub, PoolState, U64
  <2> QED
    BY <1>1, <1>2, <2>1 DEF PoolState
<1>6. hist' \in HistType
  <2> DEFINE swept == hist.swept + Surplus(Updated)
  <2>1. hist \in HistType /\ slot \in Nat
    BY DEF TypeOK
  <2>2. swept \in Nat
    BY <1>3, <2>1 DEF HistType
  <2>3. hist' = [hist EXCEPT !.swept = swept, !.announced_end = slot]
    BY <1>1
  <2> HIDE DEF swept
  <2> QED
    BY <2>1, <2>2, <2>3 DEF HistType
<1> QED
  BY <1>1, <1>4, <1>5, <1>6 DEF TypeOK

LEMMA TickType ==
    ASSUME TypeOK, Tick
    PROVE  TypeOK'
  BY DEF TypeOK, Tick

(* Every step of the system is a call of one instruction, the clock, or    *)
(* stuttering.                                                             *)
LEMMA StepCases ==
    ASSUME NEW P, [Next]_vars,
           \A deploy_fee \in DeployFees, performance_fee \in PerformanceFees :
                Initialize(deploy_fee, performance_fee) => P,
           \A stake_fee \in StakeFees, unstake_fee \in UnstakeFees, funding \in Fundings,
              rate \in Rates, duration \in Durations :
                CreatePool(stake_fee, unstake_fee, funding, rate, duration) => P,
           StartReward => P,
           \A u \in Users : \A amount \in StakeAmounts : Stake(u, amount) => P,
           \A u \in Users : \A amount \in UnstakeAmounts : Unstake(u, amount) => P,
           \A u \in Users : CallWithoutStake(u) => P,
           \A u \in Users : ClaimStaked(u) => P,
           \A u \in Users : CompoundDirect(u) => P,
           \A u \in Users : \A out \in SwapOutputs : CompoundSwap(u, out) => P,
           StopReward => P, Tick => P, UNCHANGED vars => P
    PROVE  P
  BY DEF Next, CompoundNext, CoreNext, Setup, ClaimReward, CompoundReward

LEMMA TypeStep == TypeOK /\ [Next]_vars => TypeOK'
<1> SUFFICES ASSUME TypeOK, [Next]_vars PROVE TypeOK'
  OBVIOUS
<1>1. UNCHANGED vars => TypeOK'
  BY DEF TypeOK, vars
<1> QED
  BY <1>1, StepCases, InitializeType, CreatePoolType, StartRewardType, StakeType,
     UnstakeType, CallWithoutStakeType, ClaimStakedType, CompoundDirectType,
     CompoundSwapType, StopRewardType, TickType

(* Every field keeps its width: no history of calls writes a value that is *)
(* not a u64, and no balance becomes negative.                             *)
THEOREM TypeCorrect == Spec => []TypeOK
<1> QED
  BY InitType, TypeStep, PTL DEF Spec
=============================================================================
