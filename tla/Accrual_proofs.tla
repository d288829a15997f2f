---------------------------- MODULE Accrual_proofs ----------------------------
(***************************************************************************)
(* Proofs about the accumulator of StakingPool: it never decreases; the    *)
(* debt of a user never exceeds what the stake of the user has accrued, so *)
(* that the checked subtraction of every handler that computes a pending   *)
(* reward is safe; and no more is accrued than the schedule emits.  The    *)
(* last follows from what the calls share: each brings the pool up to date *)
(* first, or leaves the schedule alone.                                    *)
(*                                                                         *)
(* The rest is what a staker sees of it: the view shows what a claim pays, *)
(* waiting dilutes nothing, and what overflows stays frozen.               *)
(***************************************************************************)
EXTENDS StakingPool_proofs

(* What every call does to the accumulator and to the users' debts: the    *)
(* first does not decrease, and a debt that changes is set to what the     *)
(* stake has accrued by the new accumulator.                               *)
Accrues ==
    /\ pool_state'.acc_token_per_share >= pool_state.acc_token_per_share
    /\ \A u \in Users :
            \/ user_info'[u] = user_info[u]
            \/ user_info'[u].reward_debt = Accrued(pool_state', user_info'[u].staked_amount)

(* A larger accumulator accrues no less for the same stake.                *)
LEMMA AccruedMonotonic ==
    ASSUME NEW ps \in PoolState, NEW qs \in PoolState, HasPrecision,
           ps.acc_token_per_share <= qs.acc_token_per_share, NEW staked \in U64
    PROVE  Accrued(ps, staked) <= Accrued(qs, staked)
<1> DEFINE m == ps.acc_token_per_share
           n == qs.acc_token_per_share
<1>1. m \in Nat /\ n \in Nat /\ staked \in Nat /\ m <= n
  BY UtilsAssumption DEF PoolState, U64
<1>2. PrecisionFactor \in Nat \ {0}
  BY PrecisionFactorType
<1> HIDE DEF m, n
<1>3. staked * m <= staked * n /\ staked * m \in Nat /\ staked * n \in Nat
  BY <1>1, TimesMonotonic
<1>4. (staked * m) \div PrecisionFactor <= (staked * n) \div PrecisionFactor
  BY <1>2, <1>3, DivMonotonic
<1> QED
  BY <1>4 DEF Accrued, m, n

(* A step that accrues keeps every debt covered.                           *)
LEMMA AccruesCovered ==
    ASSUME TypeOK, TypeOK', DebtCovered, Accrues
    PROVE  DebtCovered'
<1> SUFFICES ASSUME HasPrecision, NEW u \in Users
             PROVE  user_info'[u].reward_debt
                        <= Accrued(pool_state', user_info'[u].staked_amount)
  BY DEF DebtCovered, HasPrecision, Accrued
<1> DEFINE ui == user_info[u]
           uj == user_info'[u]
<1>1. /\ pool_state \in PoolState /\ pool_state' \in PoolState
      /\ ui \in UserInfo /\ uj \in UserInfo
      /\ pool_state.acc_token_per_share <= pool_state'.acc_token_per_share
  BY UtilsAssumption DEF TypeOK, Accrues, PoolState, U64
<1>2. /\ ui.staked_amount \in U64 /\ ui.reward_debt \in Nat /\ uj.reward_debt \in Nat
  BY <1>1, UtilsAssumption DEF UserInfo, U64
<1>3. PrecisionFactor \in Nat \ {0}
  BY PrecisionFactorType
<1>4. /\ pool_state.acc_token_per_share \in Nat
      /\ pool_state'.acc_token_per_share \in Nat /\ ui.staked_amount \in Nat
  BY <1>1, <1>2, UtilsAssumption DEF PoolState, U64
<1>5. CASE uj = ui
  <2>1. ui.reward_debt <= Accrued(pool_state, ui.staked_amount)
    BY DEF DebtCovered
  <2>2. Accrued(pool_state, ui.staked_amount) <= Accrued(pool_state', ui.staked_amount)
    BY <1>1, <1>2, AccruedMonotonic
  <2>3. /\ Accrued(pool_state, ui.staked_amount) \in Nat
        /\ Accrued(pool_state', ui.staked_amount) \in Nat
    BY <1>3, <1>4, TimesMonotonic, DivType DEF Accrued
  <2> QED
    BY <1>2, <1>5, <2>1, <2>2, <2>3
<1>6. CASE uj.reward_debt = Accrued(pool_state', uj.staked_amount)
  BY <1>2, <1>6
<1> QED
  BY <1>5, <1>6 DEF Accrues

-----------------------------------------------------------------------------
(* A call that leaves the accumulator and the users alone.                 *)
LEMMA QuietAccrues ==
    ASSUME TypeOK, UNCHANGED user_info,
           pool_state'.acc_token_per_share = pool_state.acc_token_per_share
    PROVE  Accrues
<1>1. pool_state.acc_token_per_share \in Int
  BY UtilsAssumption DEF TypeOK, PoolState, U64
<1> QED
  BY <1>1 DEF Accrues

(* A call that brings the pool up to date and then resets the debt of one  *)
(* user, for the same stake or for another one.                            *)
LEMMA RestakeAccrues ==
    ASSUME TypeOK, CanUpdate, NEW u \in Users, NEW staked,
           pool_state'.acc_token_per_share = Updated.acc_token_per_share,
           user_info' = [user_info EXCEPT ![u] = Restaked(Updated, @, staked)]
    PROVE  Accrues
<1>1. pool_state'.acc_token_per_share >= pool_state.acc_token_per_share
  BY UpdatedType
<1>2. ASSUME NEW v \in Users, v # u PROVE user_info'[v] = user_info[v]
  BY <1>2 DEF TypeOK
<1>3. user_info'[u] = Restaked(Updated, user_info[u], staked)
  BY DEF TypeOK
<1>4. user_info'[u].reward_debt = Accrued(pool_state', user_info'[u].staked_amount)
  BY <1>3 DEF Restaked, Accrued
<1> QED
  BY <1>1, <1>2, <1>4 DEF Accrues

(* Paying a reward does not touch the accumulator.                         *)
LEMMA PaidAccumulator ==
    ASSUME NEW ps \in PoolState, NEW pending
    PROVE  Paid(ps, pending).acc_token_per_share = ps.acc_token_per_share
  BY DEF Paid, PoolState

LEMMA CreatePoolAccrues ==
    ASSUME TypeOK, NEW a, NEW b, NEW c, NEW d, NEW e, CreatePool(a, b, c, d, e)
    PROVE  Accrues
<1>1. /\ pool_state' = [pool_state EXCEPT !.reward_amount = c, !.total_staked = 0]
      /\ UNCHANGED user_info
  BY DEF CreatePool
<1>2. pool_state'.acc_token_per_share = pool_state.acc_token_per_share
  BY <1>1 DEF TypeOK, PoolState
<1> QED
  BY <1>1, <1>2, QuietAccrues

LEMMA StartRewardAccrues ==
    ASSUME TypeOK, StartReward PROVE Accrues
<1>1. UNCHANGED user_info
  BY DEF StartReward
<1>2. pool_state'.acc_token_per_share = pool_state.acc_token_per_share
  BY DEF StartReward, TypeOK, PoolState
<1> QED
  BY <1>1, <1>2, QuietAccrues

LEMMA StakeAccrues ==
    ASSUME TypeOK, NEW u \in Users, NEW amount, Stake(u, amount) PROVE Accrues
<1> DEFINE real == amount - Percent(amount, pool_config.stake_fee)
           staked == user_info[u].staked_amount + real
<1>1. /\ CanUpdate /\ CanSettle(u)
      /\ pool_state' = [Paid(Updated, Owed(u)) EXCEPT !.total_staked = @ + real]
      /\ user_info' = [user_info EXCEPT ![u] = Restaked(Updated, @, staked)]
  BY DEF Stake
<1> HIDE DEF real, staked
<1>2. Updated \in PoolState /\ Paid(Updated, Owed(u)) \in PoolState
  BY <1>1, UpdatedType, SettleType
<1>3. pool_state'.acc_token_per_share = Updated.acc_token_per_share
  BY <1>1, <1>2, PaidAccumulator DEF PoolState
<1> QED
  BY <1>1, <1>3, RestakeAccrues

LEMMA UnstakeAccrues ==
    ASSUME TypeOK, NEW u \in Users, NEW amount, Unstake(u, amount) PROVE Accrues
<1> DEFINE staked == user_info[u].staked_amount - amount
<1>1. /\ CanUpdate /\ CanSettle(u)
      /\ pool_state' = Left(Paid(Updated, Owed(u)), amount)
      /\ user_info' = [user_info EXCEPT ![u] = Restaked(Updated, @, staked)]
  BY DEF Unstake
<1> HIDE DEF staked
<1>2. Updated \in PoolState /\ Paid(Updated, Owed(u)) \in PoolState
  BY <1>1, UpdatedType, SettleType
<1>3. pool_state'.acc_token_per_share = Updated.acc_token_per_share
  BY <1>1, <1>2, PaidAccumulator DEF PoolState, Left
<1> QED
  BY <1>1, <1>3, RestakeAccrues

LEMMA CallWithoutStakeAccrues ==
    ASSUME TypeOK, NEW u \in Users, CallWithoutStake(u) PROVE Accrues
<1>1. CanUpdate /\ pool_state' = Updated /\ UNCHANGED user_info
  BY DEF CallWithoutStake
<1> QED
  BY <1>1, UpdatedType DEF Accrues

LEMMA ClaimStakedAccrues ==
    ASSUME TypeOK, NEW u \in Users, ClaimStaked(u) PROVE Accrues
<1> DEFINE staked == user_info[u].staked_amount
<1>1. /\ CanUpdate /\ CanSettle(u)
      /\ pool_state' = Paid(Updated, Owed(u))
      /\ user_info' = [user_info EXCEPT ![u] = Restaked(Updated, @, staked)]
  BY DEF ClaimStaked, TypeOK
<1>2. pool_state'.acc_token_per_share = Updated.acc_token_per_share
  BY <1>1, UpdatedType, PaidAccumulator
<1> QED
  BY <1>1, <1>2, RestakeAccrues

LEMMA CompoundAccrues ==
    ASSUME TypeOK, NEW u \in Users, NEW added, CanCompound(u, added), CompoundState(u, added)
    PROVE  Accrues
<1> DEFINE staked == user_info[u].staked_amount + added
<1>1. /\ CanUpdate
      /\ pool_state' = Compounded(Updated, Owed(u), added)
      /\ user_info' = [user_info EXCEPT ![u] = Restaked(Updated, @, staked)]
  BY DEF CanCompound, CompoundState, TypeOK
<1>2. pool_state'.acc_token_per_share = Updated.acc_token_per_share
  BY <1>1, UpdatedType DEF Compounded, PoolState
<1> QED
  BY <1>1, <1>2, RestakeAccrues

LEMMA StopRewardAccrues ==
    ASSUME TypeOK, StopReward PROVE Accrues
<1>1. /\ CanUpdate /\ UNCHANGED user_info
      /\ pool_state' = [Updated EXCEPT !.total_earned = SaturatingSub(@, Surplus(Updated))]
  BY DEF StopReward
<1>2. pool_state'.acc_token_per_share = Updated.acc_token_per_share
  BY <1>1, UpdatedType DEF PoolState
<1> QED
  BY <1>1, <1>2, UpdatedType DEF Accrues

LEMMA AccruesStep == TypeOK /\ [Next]_vars => Accrues
<1> SUFFICES ASSUME TypeOK, [Next]_vars PROVE Accrues
  OBVIOUS
<1>1. ASSUME UNCHANGED << pool_state, user_info >> PROVE Accrues
  BY <1>1, QuietAccrues
<1>2. UNCHANGED vars => Accrues
  BY <1>1 DEF vars
<1>3. Tick => Accrues
  BY <1>1 DEF Tick
<1>4. \A a \in DeployFees, b \in PerformanceFees : Initialize(a, b) => Accrues
  BY <1>1 DEF Initialize
<1>5. \A u \in Users : CompoundDirect(u) => Accrues
  BY CompoundAccrues DEF CompoundDirect
<1>6. \A u \in Users : \A out \in SwapOutputs : CompoundSwap(u, out) => Accrues
  BY CompoundAccrues DEF CompoundSwap
<1> QED
  BY <1>2, <1>3, <1>4, <1>5, <1>6, StepCases, CreatePoolAccrues, StartRewardAccrues,
     StakeAccrues, UnstakeAccrues, CallWithoutStakeAccrues, ClaimStakedAccrues,
     StopRewardAccrues

-----------------------------------------------------------------------------
(* The accumulator only grows: no call takes back what was accrued.        *)
THEOREM AccumulatorGrows ==
    Spec => [][pool_state'.acc_token_per_share >= pool_state.acc_token_per_share]_vars
<1>1. TypeOK /\ [Next]_vars
        => [pool_state'.acc_token_per_share >= pool_state.acc_token_per_share]_vars
  BY AccruesStep DEF Accrues
<1> QED
  BY <1>1, TypeCorrect, PTL DEF Spec

LEMMA InitCovered == Init => DebtCovered
<1> SUFFICES ASSUME Init, HasPrecision, NEW u \in Users
             PROVE  user_info[u].reward_debt <= Accrued(pool_state, user_info[u].staked_amount)
  BY DEF DebtCovered
<1>1. user_info[u].reward_debt = 0 /\ user_info[u].staked_amount = 0
      /\ pool_state.acc_token_per_share = 0
  BY DEF Init, PoolInit, LedgerInit
<1>2. PrecisionFactor \in Nat \ {0}
  BY PrecisionFactorType
<1>3. Accrued(pool_state, 0) \in Nat
  BY <1>1, <1>2, DivType DEF Accrued
<1> QED
  BY <1>1, <1>3

(* No history of calls leaves a debt above what the stake has accrued:     *)
(* DebtCovered is inductive together with the types.                       *)
THEOREM DebtsCovered == Spec => []DebtCovered
<1>1. TypeOK /\ DebtCovered /\ [Next]_vars => DebtCovered'
  BY TypeStep, AccruesStep, AccruesCovered
<1> QED
  BY <1>1, InitCovered, TypeCorrect, PTL DEF Spec

-----------------------------------------------------------------------------
(* The kinds of steps.                                                     *)

(* The record of u is rewritten for the pool that is up to date.           *)
Resets(u) ==
    /\ HasPrecision
    /\ user_info[u].staked_amount > 0 => AccruedFits(Updated, user_info[u].staked_amount)
    /\ \E staked : user_info' = [user_info EXCEPT ![u] = Restaked(Updated, @, staked)]

(* A call that has run update_pool.                                        *)
Settles ==
    /\ CanUpdate /\ "pool" \in opened /\ "pool" \in opened'
    /\ UNCHANGED << pool_config, slot >>
    /\ pool_state'.acc_token_per_share = Updated.acc_token_per_share
    /\ pool_state'.last_reward_slot = Updated.last_reward_slot
    /\ pool_state'.should_total_paid = Updated.should_total_paid
    /\ UNCHANGED user_info \/ \E u \in Users : Resets(u)

(* Time passes, or initialize sets fees.                                   *)
Waits ==
    /\ UNCHANGED << pool_config, pool_state, user_info >>
    /\ slot' = slot \/ slot' = slot + 1
    /\ "pool" \in opened <=> "pool" \in opened'

Creates ==
    /\ "pool" \notin opened /\ "pool" \in opened'
    /\ UNCHANGED << user_info, slot >>
    /\ pool_config'.start_slot = pool_config.start_slot
    /\ pool_state'.acc_token_per_share = pool_state.acc_token_per_share
    /\ pool_state'.last_reward_slot = pool_state.last_reward_slot
    /\ pool_state'.should_total_paid = pool_state.should_total_paid

LEMMA CreatePoolCreates ==
    ASSUME TypeOK, NEW a, NEW b, NEW c, NEW d, NEW e, CreatePool(a, b, c, d, e)
    PROVE  Creates
<1>1. /\ "pool" \notin opened /\ opened' = opened \union {"pool"}
      /\ pool_config' = [pool_config EXCEPT !.stake_fee = a, !.unstake_fee = b,
                                            !.duration = e, !.reward_per_slot = d]
      /\ pool_state' = [pool_state EXCEPT !.reward_amount = c, !.total_staked = 0]
      /\ UNCHANGED << user_info, slot >>
  BY DEF CreatePool
<1>2. pool_config \in PoolConfig /\ pool_state \in PoolState
  BY DEF TypeOK
<1> QED
  BY <1>1, <1>2 DEF Creates, PoolConfig, PoolState

(* Paying a reward leaves the schedule alone.                              *)
LEMMA PaidSchedule ==
    ASSUME NEW ps \in PoolState, NEW pending
    PROVE  /\ Paid(ps, pending).acc_token_per_share = ps.acc_token_per_share
           /\ Paid(ps, pending).last_reward_slot = ps.last_reward_slot
           /\ Paid(ps, pending).should_total_paid = ps.should_total_paid
  BY DEF Paid, PoolState

LEMMA CanSettleFits ==
    ASSUME NEW u \in Users, CanSettle(u), user_info[u].staked_amount > 0
    PROVE  AccruedFits(Updated, user_info[u].staked_amount)
  BY DEF CanSettle, PendingFits

LEMMA StakeSettles ==
    ASSUME TypeOK, NEW u \in Users, NEW amount, Stake(u, amount) PROVE Settles
<1> DEFINE real == amount - Percent(amount, pool_config.stake_fee)
           staked == user_info[u].staked_amount + real
<1>1. /\ CanUpdate /\ CanSettle(u) /\ HasPrecision
      /\ {"platform", "pool"} \subseteq opened /\ opened' = opened \union {u}
      /\ pool_state' = [Paid(Updated, Owed(u)) EXCEPT !.total_staked = @ + real]
      /\ user_info' = [user_info EXCEPT ![u] = Restaked(Updated, @, staked)]
      /\ UNCHANGED << pool_config, slot >>
  BY DEF Stake
<1> HIDE DEF real, staked
<1>2. Updated \in PoolState /\ Paid(Updated, Owed(u)) \in PoolState
  BY <1>1, UpdatedType, SettleType
<1>3. /\ pool_state'.acc_token_per_share = Updated.acc_token_per_share
      /\ pool_state'.last_reward_slot = Updated.last_reward_slot
      /\ pool_state'.should_total_paid = Updated.should_total_paid
  BY <1>1, <1>2, PaidSchedule DEF PoolState
<1>4. Resets(u)
  BY <1>1, CanSettleFits DEF Resets
<1> QED
  BY <1>1, <1>3, <1>4 DEF Settles

LEMMA UnstakeSettles ==
    ASSUME TypeOK, NEW u \in Users, NEW amount, Unstake(u, amount) PROVE Settles
<1> DEFINE staked == user_info[u].staked_amount - amount
<1>1. /\ CanUpdate /\ CanSettle(u) /\ HasPrecision
      /\ "pool" \in opened /\ opened' = opened
      /\ pool_state' = Left(Paid(Updated, Owed(u)), amount)
      /\ user_info' = [user_info EXCEPT ![u] = Restaked(Updated, @, staked)]
      /\ UNCHANGED << pool_config, slot >>
  BY DEF Unstake
<1> HIDE DEF staked
<1>2. Updated \in PoolState /\ Paid(Updated, Owed(u)) \in PoolState
  BY <1>1, UpdatedType, SettleType
<1>3. /\ pool_state'.acc_token_per_share = Updated.acc_token_per_share
      /\ pool_state'.last_reward_slot = Updated.last_reward_slot
      /\ pool_state'.should_total_paid = Updated.should_total_paid
  BY <1>1, <1>2, PaidSchedule DEF PoolState, Left
<1>4. Resets(u)
  BY <1>1, CanSettleFits DEF Resets
<1> QED
  BY <1>1, <1>3, <1>4 DEF Settles

LEMMA CallWithoutStakeSettles ==
    ASSUME TypeOK, NEW u \in Users, CallWithoutStake(u) PROVE Settles
  BY DEF CallWithoutStake, Settles

LEMMA ClaimStakedSettles ==
    ASSUME TypeOK, NEW u \in Users, ClaimStaked(u) PROVE Settles
<1> DEFINE staked == user_info[u].staked_amount
<1>1. /\ CanUpdate /\ CanSettle(u) /\ user_info[u].staked_amount > 0
      /\ "pool" \in opened /\ opened' = opened
      /\ pool_state' = Paid(Updated, Owed(u))
      /\ user_info' = [user_info EXCEPT ![u] = Restaked(Updated, @, staked)]
      /\ UNCHANGED << pool_config, slot >>
  BY DEF ClaimStaked, TypeOK
<1>2. /\ pool_state'.acc_token_per_share = Updated.acc_token_per_share
      /\ pool_state'.last_reward_slot = Updated.last_reward_slot
      /\ pool_state'.should_total_paid = Updated.should_total_paid
  BY <1>1, UpdatedType, PaidSchedule
<1>3. Resets(u)
  BY <1>1, CanSettleFits DEF Resets, AccruedFits
<1> QED
  BY <1>1, <1>2, <1>3 DEF Settles

LEMMA CompoundSettles ==
    ASSUME TypeOK, NEW u \in Users, NEW added, CanCompound(u, added), CompoundState(u, added)
    PROVE  Settles
<1> DEFINE staked == user_info[u].staked_amount + added
<1>1. /\ CanUpdate /\ PendingFits(Updated, user_info[u])
      /\ "pool" \in opened /\ opened' = opened
      /\ pool_state' = Compounded(Updated, Owed(u), added)
      /\ user_info' = [user_info EXCEPT ![u] = Restaked(Updated, @, staked)]
      /\ UNCHANGED << pool_config, slot >>
  BY DEF CanCompound, CompoundState, TypeOK
<1>2. /\ pool_state'.acc_token_per_share = Updated.acc_token_per_share
      /\ pool_state'.last_reward_slot = Updated.last_reward_slot
      /\ pool_state'.should_total_paid = Updated.should_total_paid
  BY <1>1, UpdatedType DEF Compounded, PoolState
<1>3. Resets(u)
  BY <1>1 DEF Resets, PendingFits, AccruedFits
<1> QED
  BY <1>1, <1>2, <1>3 DEF Settles

LEMMA StopRewardSettles ==
    ASSUME TypeOK, StopReward PROVE Settles
<1>1. /\ CanUpdate /\ "pool" \in opened
      /\ UNCHANGED << opened, pool_config, user_info, slot >>
      /\ pool_state' = [Updated EXCEPT !.total_earned = SaturatingSub(@, Surplus(Updated))]
  BY DEF StopReward
<1>2. /\ pool_state'.acc_token_per_share = Updated.acc_token_per_share
      /\ pool_state'.last_reward_slot = Updated.last_reward_slot
      /\ pool_state'.should_total_paid = Updated.should_total_paid
  BY <1>1, UpdatedType DEF PoolState
<1> QED
  BY <1>1, <1>2 DEF Settles

(* Every step is one of four kinds.                                        *)
Kinds == Settles \/ Waits \/ Creates \/ StartReward

LEMMA StepKinds == TypeOK /\ [Next]_vars => Kinds
<1> SUFFICES ASSUME TypeOK, [Next]_vars PROVE Kinds
  OBVIOUS
<1>1. UNCHANGED vars => Kinds
  BY DEF vars, Kinds, Waits
<1>2. Tick => Kinds
  BY DEF Tick, Kinds, Waits
<1>3. \A a \in DeployFees, b \in PerformanceFees : Initialize(a, b) => Kinds
  BY DEF Initialize, Kinds, Waits
<1>4. \A a \in StakeFees, b \in UnstakeFees, c \in Fundings, d \in Rates, e \in Durations :
            CreatePool(a, b, c, d, e) => Kinds
  BY CreatePoolCreates DEF Kinds
<1>5. StartReward => Kinds
  BY DEF Kinds
<1>6. \A u \in Users : \A amount \in StakeAmounts : Stake(u, amount) => Kinds
  BY StakeSettles DEF Kinds
<1>7. \A u \in Users : \A amount \in UnstakeAmounts : Unstake(u, amount) => Kinds
  BY UnstakeSettles DEF Kinds
<1>8. \A u \in Users : CallWithoutStake(u) => Kinds
  BY CallWithoutStakeSettles DEF Kinds
<1>9. \A u \in Users : ClaimStaked(u) => Kinds
  BY ClaimStakedSettles DEF Kinds
<1>10. \A u \in Users : CompoundDirect(u) => Kinds
  BY CompoundSettles DEF CompoundDirect, Kinds
<1>11. \A u \in Users : \A out \in SwapOutputs : CompoundSwap(u, out) => Kinds
  BY CompoundSettles DEF CompoundSwap, Kinds
<1>12. StopReward => Kinds
  BY StopRewardSettles DEF Kinds
<1> QED
  BY <1>1, <1>2, <1>3, <1>4, <1>5, <1>6, <1>7, <1>8, <1>9, <1>10, <1>11, <1>12, StepCases
-----------------------------------------------------------------------------
(* The schedule.                                                           *)

(* Nothing accrues before the rewards are started, and from then on the    *)
(* last reward slot is not before the first slot of the schedule.          *)
Schedule ==
    /\ pool_config.start_slot = 0 =>
            pool_state.last_reward_slot = 0 /\ pool_state.should_total_paid = 0
    /\ pool_config.start_slot # 0 =>
            /\ "pool" \in opened
            /\ pool_config.start_slot <= pool_state.last_reward_slot
            /\ pool_config.start_slot <= pool_config.end_slot

(* A span of slots from start splits at the last reward slot into what     *)
(* has been counted and what the multiplier counts next.                   *)
LEMMA MultiplierSplit ==
    ASSUME NEW last \in Nat, NEW now \in Nat, NEW end \in Nat, NEW start \in Nat,
           last < now, start <= last, start <= end
    PROVE  /\ GetMultiplier(last, now, end) \in Nat
           /\ SmallerOf(last, end) - start \in Nat
           /\ SmallerOf(now, end) - start
                = (SmallerOf(last, end) - start) + GetMultiplier(last, now, end)
  BY DEF GetMultiplier, SmallerOf

LEMMA Distributes ==
    ASSUME NEW a \in Nat, NEW m \in Nat, NEW n \in Nat
    PROVE  /\ a * (m + n) = a * m + n * a
           /\ a * m \in Nat /\ n * a \in Nat
  OBVIOUS

LEMMA ScheduleTypes ==
    ASSUME TypeOK
    PROVE  /\ pool_state.last_reward_slot \in Nat /\ pool_state.should_total_paid \in Nat
           /\ pool_config.start_slot \in Nat /\ pool_config.end_slot \in Nat
           /\ pool_config.reward_per_slot \in Nat /\ slot \in Nat
           /\ pool_state.acc_token_per_share \in Nat /\ pool_state.total_staked \in Nat
  BY UtilsAssumption DEF TypeOK, PoolState, PoolConfig, U64

(* update_pool, field by field.                                            *)
LEMMA UpdatedFields ==
    ASSUME TypeOK
    PROVE  /\ ~IsStale(pool_state, slot) => Updated = pool_state
           /\ IsStale(pool_state, slot) => Updated.last_reward_slot = slot
           /\ ~IsStale(pool_state, slot) \/ pool_state.total_staked = 0 =>
                /\ Updated.should_total_paid = pool_state.should_total_paid
                /\ Updated.acc_token_per_share = pool_state.acc_token_per_share
           /\ IsStale(pool_state, slot) /\ pool_state.total_staked # 0 =>
                /\ Updated.should_total_paid = pool_state.should_total_paid
                        + Emitted(pool_config, pool_state, slot)
                /\ Updated.acc_token_per_share
                        = AccPerShare(pool_state, Emitted(pool_config, pool_state, slot))
<1>1. pool_state \in PoolState
  BY DEF TypeOK
<1>2. CASE ~IsStale(pool_state, slot)
  BY <1>2 DEF Updated, UpdatePool
<1>3. CASE IsStale(pool_state, slot) /\ pool_state.total_staked = 0
  BY <1>1, <1>3 DEF Updated, UpdatePool, PoolState
<1>4. CASE IsStale(pool_state, slot) /\ pool_state.total_staked # 0
  <2> DEFINE reward == Emitted(pool_config, pool_state, slot)
             acc == AccPerShare(pool_state, reward)
  <2>1. Updated = [pool_state EXCEPT !.acc_token_per_share = acc,
                                     !.last_reward_slot = slot,
                                     !.should_total_paid = @ + reward]
    BY <1>4 DEF Updated, UpdatePool
  <2> HIDE DEF reward, acc
  <2>2. /\ Updated.last_reward_slot = slot /\ Updated.acc_token_per_share = acc
        /\ Updated.should_total_paid = pool_state.should_total_paid + reward
    BY <1>1, <2>1 DEF PoolState
  <2> QED
    BY <1>4, <2>2 DEF reward, acc
<1> QED
  BY <1>2, <1>3, <1>4

(* The cap, for any last slot and accrued total of the pool.               *)
Cap(last) == pool_config.reward_per_slot
                * (SmallerOf(last, pool_config.end_slot) - pool_config.start_slot)

LEMMA UpdateKeepsCap ==
    ASSUME TypeOK, Schedule, EmissionCap, pool_config.start_slot # 0
    PROVE  /\ Updated.should_total_paid <= Cap(Updated.last_reward_slot)
           /\ pool_config.start_slot <= Updated.last_reward_slot
<1> DEFINE last == pool_state.last_reward_slot
           end == pool_config.end_slot
           start == pool_config.start_slot
           rate == pool_config.reward_per_slot
           n == SmallerOf(last, end) - start
           m == GetMultiplier(last, slot, end)
<1>1. /\ last \in Nat /\ end \in Nat /\ start \in Nat /\ rate \in Nat /\ slot \in Nat
      /\ start <= last /\ start <= end /\ pool_state.should_total_paid \in Nat
      /\ pool_state.should_total_paid <= rate * n
  BY ScheduleTypes DEF Schedule, EmissionCap
<1>2. CASE ~IsStale(pool_state, slot)
  BY <1>1, <1>2, UpdatedFields DEF Cap
<1>3. CASE IsStale(pool_state, slot)
  <2>1. last < slot /\ Updated.last_reward_slot = slot
    BY <1>1, <1>3, UpdatedFields DEF IsStale
  <2>2. /\ m \in Nat /\ n \in Nat
        /\ SmallerOf(slot, end) - start = n + m
    <3> HIDE DEF last, end, start
    <3> QED
      BY <1>1, <2>1, MultiplierSplit
  <2>3. Cap(slot) = rate * (n + m)
    BY <2>2 DEF Cap
  <2>4. Emitted(pool_config, pool_state, slot) = m * rate
    BY DEF Emitted
  <2>5. \/ Updated.should_total_paid = pool_state.should_total_paid
        \/ Updated.should_total_paid = pool_state.should_total_paid + m * rate
    BY <2>4, UpdatedFields
  <2> HIDE DEF last, end, start, rate, n, m
  <2>6. rate * (n + m) = rate * n + m * rate /\ rate * n \in Nat /\ m * rate \in Nat
    BY <1>1, <2>2, Distributes
  <2>7. Updated.should_total_paid <= Cap(slot)
    BY <1>1, <2>3, <2>5, <2>6
  <2>8. start <= slot
    BY <1>1, <2>1
  <2> QED
    BY <2>1, <2>7, <2>8 DEF start
<1> QED
  BY <1>2, <1>3

(* A pool whose rewards have not started is always up to date.             *)
LEMMA IdleUpToDate ==
    ASSUME TypeOK, Schedule, pool_config.start_slot = 0
    PROVE  ~IsStale(pool_state, slot) /\ Updated = pool_state /\ CanUpdate
<1>1. ~IsStale(pool_state, slot)
  BY DEF Schedule, IsStale
<1> QED
  BY <1>1, UpdatedFields DEF CanUpdate, UpdatePoolFits

LEMMA StartRewardFields ==
    ASSUME TypeOK, StartReward
    PROVE  /\ "pool" \in opened /\ opened' = opened /\ UNCHANGED << user_info, slot >>
           /\ pool_config.start_slot = 0
           /\ pool_config'.start_slot \in Nat /\ pool_config'.start_slot > slot
           /\ pool_config'.end_slot \in Nat
           /\ pool_config'.start_slot <= pool_config'.end_slot
           /\ pool_config'.reward_per_slot = pool_config.reward_per_slot
           /\ pool_state'.last_reward_slot = pool_config'.start_slot
           /\ pool_state'.should_total_paid = pool_state.should_total_paid
           /\ pool_state'.acc_token_per_share = pool_state.acc_token_per_share
           /\ pool_state'.total_staked = pool_state.total_staked
<1> DEFINE start == slot + START_DELAY
           days == pool_config.duration * SLOTS_PER_DAY
<1>1. /\ "pool" \in opened /\ opened' = opened /\ UNCHANGED << user_info, slot >>
      /\ pool_config.start_slot = 0
      /\ pool_config' = [pool_config EXCEPT !.start_slot = start, !.end_slot = start + days]
      /\ pool_state' = [pool_state EXCEPT !.last_reward_slot = start]
  BY DEF StartReward
<1>2. start \in Nat /\ start > slot /\ days \in Nat
  BY CostAssumption, UtilsAssumption DEF TypeOK, PoolConfig
<1> HIDE DEF start, days
<1>3. start + days \in Nat /\ start <= start + days
  BY <1>2
<1> QED
  BY <1>1, <1>2, <1>3 DEF TypeOK, PoolConfig, PoolState

LEMMA ScheduleStep ==
    ASSUME TypeOK, TypeOK', Schedule, EmissionCap, Kinds
    PROVE  Schedule' /\ EmissionCap'
<1>1. CASE Settles
  <2>1. /\ UNCHANGED pool_config /\ "pool" \in opened'
        /\ pool_state'.last_reward_slot = Updated.last_reward_slot
        /\ pool_state'.should_total_paid = Updated.should_total_paid
    BY <1>1 DEF Settles
  <2>2. CASE pool_config.start_slot = 0
    BY <2>1, <2>2, IdleUpToDate DEF Schedule, EmissionCap
  <2>3. CASE pool_config.start_slot # 0
    BY <2>1, <2>3, UpdateKeepsCap DEF Schedule, EmissionCap, Cap
  <2> QED
    BY <2>2, <2>3
<1>2. CASE Waits
  BY <1>2 DEF Waits, Schedule, EmissionCap
<1>3. CASE Creates
  <2>1. pool_config.start_slot = 0
    BY <1>3 DEF Creates, Schedule
  <2> QED
    BY <1>3, <2>1 DEF Creates, Schedule, EmissionCap
<1>4. CASE StartReward
  <2>1. pool_state'.should_total_paid = 0
    BY <1>4, StartRewardFields DEF Schedule
  <2>2. pool_config'.start_slot # 0
    BY <1>4, StartRewardFields, ScheduleTypes
  <2>3. Schedule'
    BY <1>4, <2>2, StartRewardFields DEF Schedule
  <2>4. SmallerOf(pool_state'.last_reward_slot, pool_config'.end_slot)
            - pool_config'.start_slot = 0
    BY <1>4, StartRewardFields DEF SmallerOf
  <2>5. pool_config'.reward_per_slot * 0 = 0
    BY <1>4, StartRewardFields, ScheduleTypes
  <2>6. EmissionCap'
    BY <2>1, <2>2, <2>4, <2>5 DEF EmissionCap
  <2> QED
    BY <2>3, <2>6
<1> QED
  BY <1>1, <1>2, <1>3, <1>4 DEF Kinds

LEMMA InitSchedule == Init => Schedule /\ EmissionCap
  BY DEF Init, PoolInit, LedgerInit, Schedule, EmissionCap

LEMMA ScheduleCorrect == Spec => [](TypeOK /\ Schedule /\ EmissionCap)
<1>1. TypeOK /\ Schedule /\ EmissionCap /\ [Next]_vars => Schedule' /\ EmissionCap'
  BY TypeStep, StepKinds, ScheduleStep
<1> QED
  BY <1>1, InitSchedule, TypeCorrect, PTL DEF Spec

(* update_pool counts every slot of the schedule at most once, whoever     *)
(* calls it and when: EmissionCap holds together with Schedule.            *)
THEOREM EmissionCapped == Spec => []EmissionCap
  BY ScheduleCorrect, PTL
-----------------------------------------------------------------------------
(* What time does to the accumulator.                                      *)

LEMMA UpToDate ==
    ASSUME NEW pc, NEW ps, NEW now, ~IsStale(ps, now)
    PROVE  UpdatePool(pc, ps, now) = ps
  BY DEF UpdatePool

(* The emission due, and the accumulator with it, grow with the clock.     *)
LEMMA EmittedMonotonic ==
    ASSUME NEW pc \in PoolConfig, NEW ps \in PoolState, NEW now \in Nat, IsStale(ps, now)
    PROVE  /\ Emitted(pc, ps, now) \in Nat /\ Emitted(pc, ps, now + 1) \in Nat
           /\ Emitted(pc, ps, now) <= Emitted(pc, ps, now + 1)
<1> DEFINE last == ps.last_reward_slot
           end == pc.end_slot
           m == GetMultiplier(last, now, end)
           n == GetMultiplier(last, now + 1, end)
<1>1. /\ last \in Nat /\ end \in Nat /\ pc.reward_per_slot \in Nat /\ last < now
  BY UtilsAssumption DEF PoolConfig, PoolState, U64, IsStale
<1>2. m \in Nat /\ n \in Nat /\ m <= n
  <2> HIDE DEF last, end
  <2> QED
    BY <1>1 DEF GetMultiplier
<1> HIDE DEF m, n
<1>3. m * pc.reward_per_slot \in Nat /\ n * pc.reward_per_slot \in Nat
      /\ m * pc.reward_per_slot <= n * pc.reward_per_slot
  BY <1>1, <1>2, TimesMonotonic
<1> QED
  BY <1>3 DEF Emitted, m, n

LEMMA EmittedNat ==
    ASSUME NEW pc \in PoolConfig, NEW ps \in PoolState, NEW now \in Nat, IsStale(ps, now)
    PROVE  Emitted(pc, ps, now) \in Nat
  BY EmittedMonotonic

LEMMA AccPerShareMonotonic ==
    ASSUME NEW ps \in PoolState, ps.total_staked # 0, HasPrecision,
           NEW m \in Nat, NEW n \in Nat, m <= n
    PROVE  /\ AccPerShare(ps, m) \in Nat /\ AccPerShare(ps, n) \in Nat
           /\ ps.acc_token_per_share <= AccPerShare(ps, m)
           /\ AccPerShare(ps, m) <= AccPerShare(ps, n)
<1>1. /\ ps.total_staked \in Nat \ {0} /\ ps.acc_token_per_share \in Nat
      /\ PrecisionFactor \in Nat \ {0}
  BY UtilsAssumption, PrecisionFactorType DEF PoolState, U64
<1> DEFINE x == m * PrecisionFactor
           y == n * PrecisionFactor
<1>2. x \in Nat /\ y \in Nat /\ x <= y
  BY <1>1, TimesMonotonic
<1> HIDE DEF x, y
<1>3. x \div ps.total_staked \in Nat /\ y \div ps.total_staked \in Nat
      /\ x \div ps.total_staked <= y \div ps.total_staked
  BY <1>1, <1>2, DivType, DivMonotonic
<1> QED
  BY <1>1, <1>3 DEF AccPerShare, x, y

LEMMA UpdatedAcc ==
    ASSUME NEW pc, NEW ps \in PoolState, NEW now
    PROVE  UpdatePool(pc, ps, now).acc_token_per_share =
                IF IsStale(ps, now) /\ ps.total_staked # 0
                THEN AccPerShare(ps, Emitted(pc, ps, now))
                ELSE ps.acc_token_per_share
<1>1. CASE ~IsStale(ps, now)
  BY <1>1, UpToDate
<1>2. CASE IsStale(ps, now) /\ ps.total_staked = 0
  BY <1>2 DEF UpdatePool, PoolState
<1>3. CASE IsStale(ps, now) /\ ps.total_staked # 0
  <2> DEFINE reward == Emitted(pc, ps, now)
             acc == AccPerShare(ps, reward)
  <2>1. UpdatePool(pc, ps, now) = [ps EXCEPT !.acc_token_per_share = acc,
                !.last_reward_slot = now, !.should_total_paid = @ + reward]
    BY <1>3 DEF UpdatePool
  <2> HIDE DEF reward, acc
  <2>2. UpdatePool(pc, ps, now).acc_token_per_share = acc
    BY <2>1 DEF PoolState
  <2> QED
    BY <1>3, <2>2 DEF reward, acc
<1> QED
  BY <1>1, <1>2, <1>3

LEMMA TimeAccrues ==
    ASSUME NEW pc \in PoolConfig, NEW ps \in PoolState, HasPrecision, NEW now \in Nat
    PROVE  /\ UpdatePool(pc, ps, now).acc_token_per_share \in Nat
           /\ UpdatePool(pc, ps, now + 1).acc_token_per_share \in Nat
           /\ ps.acc_token_per_share <= UpdatePool(pc, ps, now).acc_token_per_share
           /\ UpdatePool(pc, ps, now).acc_token_per_share
                <= UpdatePool(pc, ps, now + 1).acc_token_per_share
<1>1. /\ ps.acc_token_per_share \in Nat /\ ps.last_reward_slot \in Nat
  BY UtilsAssumption DEF PoolState, U64
<1>2. IsStale(ps, now) => IsStale(ps, now + 1)
  BY <1>1 DEF IsStale
<1>3. CASE IsStale(ps, now) /\ ps.total_staked # 0
  <2>1. /\ Emitted(pc, ps, now) \in Nat /\ Emitted(pc, ps, now + 1) \in Nat
        /\ Emitted(pc, ps, now) <= Emitted(pc, ps, now + 1)
    BY <1>3, EmittedMonotonic
  <2> QED
    BY <1>2, <1>3, <2>1, AccPerShareMonotonic, UpdatedAcc
<1>4. CASE ~IsStale(ps, now) /\ IsStale(ps, now + 1) /\ ps.total_staked # 0
  <2>1. Emitted(pc, ps, now + 1) \in Nat
    BY <1>4, EmittedNat
  <2>2. /\ AccPerShare(ps, Emitted(pc, ps, now + 1)) \in Nat
        /\ ps.acc_token_per_share <= AccPerShare(ps, Emitted(pc, ps, now + 1))
    BY <1>4, <2>1, AccPerShareMonotonic
  <2>3. /\ UpdatePool(pc, ps, now).acc_token_per_share = ps.acc_token_per_share
        /\ UpdatePool(pc, ps, now + 1).acc_token_per_share
                = AccPerShare(ps, Emitted(pc, ps, now + 1))
    BY <1>4, UpdatedAcc
  <2> QED
    BY <1>1, <2>2, <2>3
<1>5. CASE ps.total_staked = 0 \/ ~IsStale(ps, now + 1)
  BY <1>1, <1>2, <1>5, UpdatedAcc
<1> QED
  BY <1>3, <1>4, <1>5

(* After a call that has run update_pool the pool is up to date.           *)
LEMMA SettledUpToDate ==
    ASSUME TypeOK, TypeOK', Settles
    PROVE  /\ ~IsStale(pool_state', slot')
           /\ Updated'.acc_token_per_share = Updated.acc_token_per_share
<1>1. /\ slot' = slot /\ slot \in Nat
      /\ pool_state'.last_reward_slot = Updated.last_reward_slot
      /\ pool_state'.acc_token_per_share = Updated.acc_token_per_share
  BY ScheduleTypes DEF Settles
<1>2. ~IsStale(pool_state', slot')
  BY <1>1, UpdatedFields DEF IsStale
<1>3. Updated' = pool_state'
  BY <1>2, UpToDate DEF Updated
<1> QED
  BY <1>1, <1>2, <1>3

(* What a step does to the accumulator of the pool brought up to date: a   *)
(* call leaves it where it is, and the clock moves it up.                  *)
LEMMA UpdatedGrows ==
    ASSUME TypeOK, TypeOK', Schedule, Kinds, HasPrecision
    PROVE  /\ Updated.acc_token_per_share \in Nat
           /\ Updated'.acc_token_per_share \in Nat
           /\ Updated'.acc_token_per_share >= Updated.acc_token_per_share
           /\ slot' = slot => Updated'.acc_token_per_share = Updated.acc_token_per_share
<1>1. /\ pool_state \in PoolState /\ pool_config \in PoolConfig /\ slot \in Nat
      /\ pool_state' \in PoolState /\ pool_config' \in PoolConfig /\ slot' \in Nat
  BY DEF TypeOK
<1>2. Updated.acc_token_per_share \in Nat
  BY <1>1, TimeAccrues DEF Updated
<1>3. CASE Settles
  BY <1>2, <1>3, SettledUpToDate
<1>4. CASE Waits
  <2>1. UNCHANGED << pool_config, pool_state >> /\ (slot' = slot \/ slot' = slot + 1)
    BY <1>4 DEF Waits
  <2>2. CASE slot' = slot
    BY <1>2, <2>1, <2>2 DEF Updated
  <2>3. CASE slot' = slot + 1
    <3>1. Updated' = UpdatePool(pool_config, pool_state, slot + 1)
      BY <2>1, <2>3 DEF Updated
    <3>2. slot' # slot
      BY <1>1, <2>3
    <3> QED
      BY <1>1, <1>2, <3>1, <3>2, TimeAccrues DEF Updated
  <2> QED
    BY <2>1, <2>2, <2>3
<1>5. CASE Creates
  <2>1. /\ pool_config.start_slot = 0 /\ pool_state'.last_reward_slot = 0
        /\ pool_state'.acc_token_per_share = pool_state.acc_token_per_share
    BY <1>5 DEF Creates, Schedule
  <2>2. ~IsStale(pool_state', slot') /\ ~IsStale(pool_state, slot)
    BY <2>1, IdleUpToDate DEF IsStale
  <2>3. Updated' = pool_state' /\ Updated = pool_state
    BY <2>2, UpToDate DEF Updated
  <2> QED
    BY <1>2, <2>1, <2>3
<1>6. CASE StartReward
  <2>1. /\ pool_config.start_slot = 0
        /\ pool_state'.last_reward_slot \in Nat /\ pool_state'.last_reward_slot > slot'
        /\ pool_state'.acc_token_per_share = pool_state.acc_token_per_share
    BY <1>6, StartRewardFields
  <2>2. ~IsStale(pool_state', slot') /\ ~IsStale(pool_state, slot)
    BY <1>1, <2>1, IdleUpToDate DEF IsStale
  <2>3. Updated' = pool_state' /\ Updated = pool_state
    BY <2>2, UpToDate DEF Updated
  <2> QED
    BY <1>2, <2>1, <2>3
<1> QED
  BY <1>3, <1>4, <1>5, <1>6 DEF Kinds
-----------------------------------------------------------------------------
(* What a staker sees and can do: the pending reward that the view shows   *)
(* is the one a claim pays and is never diluted, and a pool or a stake     *)
(* whose arithmetic overflows stays as it is for ever.                     *)

(* The view's accumulator is the one that update_pool leaves.              *)
LEMMA ViewAccIsUpdated ==
    ASSUME TypeOK
    PROVE  /\ ViewAcc = Updated.acc_token_per_share
           /\ ViewAccrues <=> IsStale(pool_state, slot) /\ pool_state.total_staked # 0
<1>1. /\ pool_state \in PoolState /\ pool_state.last_reward_slot \in Nat
  BY ScheduleTypes DEF TypeOK
<1>2. IsStale(pool_state, slot)
        <=> slot > pool_state.last_reward_slot /\ pool_state.last_reward_slot > 0
  BY <1>1 DEF IsStale
<1> QED
  BY <1>1, <1>2, UpdatedAcc DEF ViewAcc, ViewAccrues, Updated

(* pending_reward computes what the handlers compute after update_pool.    *)
LEMMA ViewIsPending ==
    ASSUME TypeOK, NEW u \in Users
    PROVE  PendingReward(u) = Pending(Updated, user_info[u])
BY ViewAccIsUpdated DEF PendingReward, Pending, Accrued

LEMMA ViewLater ==
    TypeOK' => \A u \in Users : PendingReward(u)' = Pending(Updated, user_info[u])'
<1>1. TypeOK => \A u \in Users : PendingReward(u) = Pending(Updated, user_info[u])
  BY ViewIsPending
<1>2. TypeOK' => (\A u \in Users : PendingReward(u) = Pending(Updated, user_info[u]))'
  BY <1>1, PTL
<1> QED
  BY <1>2

(* A stake accrues no less by a larger accumulator.                        *)
LEMMA PendingGrows ==
    ASSUME HasPrecision, NEW m \in Nat, NEW n \in Nat, m <= n, NEW staked \in Nat,
           NEW debt \in Nat
    PROVE  /\ (staked * m) \div PrecisionFactor - debt \in Int
           /\ (staked * n) \div PrecisionFactor - debt \in Int
           /\ (staked * m) \div PrecisionFactor - debt
                <= (staked * n) \div PrecisionFactor - debt
<1>1. PrecisionFactor \in Nat \ {0}
  BY PrecisionFactorType
<1> DEFINE x == staked * m
           y == staked * n
<1>2. x \in Nat /\ y \in Nat /\ x <= y
  BY TimesMonotonic
<1> HIDE DEF x, y
<1>3. x \div PrecisionFactor \in Nat /\ y \div PrecisionFactor \in Nat
      /\ x \div PrecisionFactor <= y \div PrecisionFactor
  BY <1>1, <1>2, DivType, DivMonotonic
<1> QED
  BY <1>3 DEF x, y

LEMMA NobodyDiluted ==
    ASSUME TypeOK, TypeOK', Schedule, Kinds, HasPrecision, NEW u \in Users,
           user_info'[u] = user_info[u]
    PROVE  PendingReward(u)' >= PendingReward(u)
<1> DEFINE m == Updated.acc_token_per_share
           n == Updated'.acc_token_per_share
           ui == user_info[u]
<1>1. m \in Nat /\ n \in Nat /\ m <= n
  BY UpdatedGrows
<1>2. ui.staked_amount \in Nat /\ ui.reward_debt \in Nat
  BY UtilsAssumption DEF TypeOK, UserInfo, U64
<1>3. PendingReward(u) = (ui.staked_amount * m) \div PrecisionFactor - ui.reward_debt
  BY ViewIsPending DEF Pending, Accrued
<1>4. PendingReward(u)' = Pending(Updated, user_info[u])'
  BY ViewLater
<1>5. PendingReward(u)' = (ui.staked_amount * n) \div PrecisionFactor - ui.reward_debt
  BY <1>4 DEF Pending, Accrued
<1> HIDE DEF m, n, ui
<1> QED
  BY <1>1, <1>2, <1>3, <1>5, PendingGrows

(* No call of anyone else, and no passing of time, takes away from the     *)
(* reward a user is shown, for every mint that the program can serve.      *)
THEOREM RewardsNeverDiluted == HasPrecision => (Spec => NoDilution)
<1>1. HasPrecision /\ TypeOK /\ TypeOK' /\ Schedule /\ [Next]_vars
        => [\A u \in Users : user_info'[u] = user_info[u] =>
                PendingReward(u)' >= PendingReward(u)]_vars
  BY StepKinds, NobodyDiluted
<1>2. HasPrecision => HasPrecision'
  BY DEF HasPrecision
<1> QED
  BY <1>1, <1>2, ScheduleCorrect, PTL DEF Spec, NoDilution

-----------------------------------------------------------------------------
(* A claim.                                                                *)

LEMMA ClaimPays ==
    ASSUME TypeOK, NEW u \in Users, ClaimStaked(u)
    PROVE  /\ PendingRewardFits(u)
           /\ tokens'[RewardAccount(u)] - tokens[RewardAccount(u)] = PendingReward(u)
<1>1. /\ CanUpdate /\ CanSettle(u) /\ user_info[u].staked_amount > 0
      /\ tokens' = PaidOut(tokens, u, Owed(u))
  BY DEF ClaimStaked
<1>2. Owed(u) \in Nat
  BY <1>1, SettleType
<1>3. Owed(u) = PendingReward(u)
  BY <1>1, ViewIsPending DEF Owed
<1>4. /\ tokens \in [TokenAccount -> Nat]
      /\ pool_reward_token_vault \in TokenAccount /\ RewardAccount(u) \in TokenAccount
      /\ pool_reward_token_vault # RewardAccount(u)
  BY AccountTypes, VaultAssumption DEF TypeOK, Wallet, RewardAccount
<1>5. /\ tokens'[RewardAccount(u)] = tokens[RewardAccount(u)] + Owed(u)
      /\ tokens[RewardAccount(u)] \in Nat
  BY <1>1, <1>2, <1>4, TransferBalances DEF PaidOut
<1>6. /\ HasPrecision
      /\ Fits(user_info[u].staked_amount * ViewAcc)
      /\ Fits(PendingReward(u))
  BY <1>1, ViewAccIsUpdated, ViewIsPending DEF CanSettle, PendingFits, AccruedFits
<1>7. ViewAccrues =>
        /\ Fits(Emitted(pool_config, pool_state, slot))
        /\ Fits(Emitted(pool_config, pool_state, slot) * PrecisionFactor)
        /\ Fits(ViewAcc)
  BY <1>1, ViewAccIsUpdated DEF CanUpdate, UpdatePoolFits, ViewAcc
<1> QED
  BY <1>2, <1>3, <1>5, <1>6, <1>7 DEF PendingRewardFits

(* A claim transfers what the view showed in the state before it, and the  *)
(* view did not panic there.                                               *)
THEOREM ClaimsPayTheView == Spec => ClaimPaysView
<1>1. TypeOK /\ [Next]_vars
        => [\A u \in Users : ClaimStaked(u) =>
                /\ PendingRewardFits(u)
                /\ tokens'[RewardAccount(u)] - tokens[RewardAccount(u)]
                        = PendingReward(u)]_vars
  BY ClaimPays
<1> QED
  BY <1>1, TypeCorrect, PTL DEF Spec, ClaimPaysView

-----------------------------------------------------------------------------
(* Overflow.                                                               *)

(* An update that fits in a slot would have fitted in every slot before.   *)
LEMMA FitsEarlier ==
    ASSUME NEW pc \in PoolConfig, NEW ps \in PoolState, NEW now \in Nat,
           UpdatePoolFits(pc, ps, now + 1)
    PROVE  UpdatePoolFits(pc, ps, now)
<1> SUFFICES ASSUME IsStale(ps, now), ps.total_staked # 0
             PROVE  /\ HasPrecision
                    /\ Fits(Emitted(pc, ps, now))
                    /\ Fits(Emitted(pc, ps, now) * PrecisionFactor)
                    /\ Fits(AccPerShare(ps, Emitted(pc, ps, now)))
                    /\ Fits(ps.should_total_paid + Emitted(pc, ps, now))
  BY DEF UpdatePoolFits
<1> DEFINE m == Emitted(pc, ps, now)
           n == Emitted(pc, ps, now + 1)
<1>1. IsStale(ps, now + 1)
  BY UtilsAssumption DEF IsStale, PoolState
<1>2. /\ HasPrecision /\ Fits(n) /\ Fits(n * PrecisionFactor)
      /\ Fits(AccPerShare(ps, n)) /\ Fits(ps.should_total_paid + n)
  BY <1>1 DEF UpdatePoolFits
<1>3. m \in Nat /\ n \in Nat /\ m <= n
  BY EmittedMonotonic
<1> HIDE DEF m, n
<1>4. ps.should_total_paid \in Nat /\ PrecisionFactor \in Nat /\ MaxU64 \in Nat
  BY <1>2, PrecisionFactorType, UtilsAssumption DEF PoolState, U64
<1>5. m * PrecisionFactor <= n * PrecisionFactor /\ m * PrecisionFactor \in Nat
      /\ n * PrecisionFactor \in Nat
  BY <1>3, <1>4, TimesMonotonic
<1>6. /\ AccPerShare(ps, m) \in Nat /\ AccPerShare(ps, n) \in Nat
      /\ AccPerShare(ps, m) <= AccPerShare(ps, n)
  BY <1>2, <1>3, AccPerShareMonotonic
<1>7. Fits(m) /\ Fits(ps.should_total_paid + m)
  BY <1>2, <1>3, <1>4 DEF Fits, U64
<1>8. Fits(m * PrecisionFactor)
  BY <1>2, <1>4, <1>5 DEF Fits, U64
<1>9. Fits(AccPerShare(ps, m))
  BY <1>2, <1>4, <1>6 DEF Fits, U64
<1> QED
  BY <1>2, <1>7, <1>8, <1>9 DEF m

LEMMA PoolFreezes ==
    ASSUME TypeOK, Schedule, Kinds, "pool" \in opened, ~CanUpdate
    PROVE  ~CanUpdate' /\ pool_state' = pool_state
<1>1. pool_config.start_slot # 0
  BY IdleUpToDate
<1>2. Waits
  BY <1>1, StartRewardFields DEF Kinds, Settles, Creates
<1>3. UNCHANGED << pool_config, pool_state >> /\ (slot' = slot \/ slot' = slot + 1)
  BY <1>2 DEF Waits
<1>4. pool_config \in PoolConfig /\ pool_state \in PoolState /\ slot \in Nat
  BY DEF TypeOK
<1>5. CASE slot' = slot
  BY <1>3, <1>5 DEF CanUpdate
<1>6. CASE slot' = slot + 1
  <2>1. CanUpdate' => UpdatePoolFits(pool_config, pool_state, slot + 1)
    BY <1>3, <1>6 DEF CanUpdate
  <2>2. UpdatePoolFits(pool_config, pool_state, slot + 1) => CanUpdate
    BY <1>4, FitsEarlier DEF CanUpdate
  <2> QED
    BY <1>3, <2>1, <2>2
<1> QED
  BY <1>3, <1>5, <1>6

(* A pool whose update_pool overflows once never changes again.            *)
THEOREM OverflowFreezesPool == Spec => FrozenPool
<1>1. TypeOK /\ Schedule /\ [Next]_vars
        => ["pool" \in opened /\ ~CanUpdate
                => ~CanUpdate' /\ pool_state' = pool_state]_vars
  BY StepKinds, PoolFreezes
<1> QED
  BY <1>1, ScheduleCorrect, PTL DEF Spec, FrozenPool

(* Nobody stakes in a pool whose precision factor cannot be computed.      *)
Stakeless == ~HasPrecision => \A u \in Users : user_info[u].staked_amount = 0

LEMMA StakelessCorrect == Spec => []Stakeless
<1>1. Init => Stakeless
  BY DEF Init, PoolInit, Stakeless
<1>2. Stakeless /\ Kinds => Stakeless'
  <2>1. Kinds => UNCHANGED user_info \/ HasPrecision
    BY DEF Kinds, Settles, Resets, Waits, Creates, StartReward
  <2> QED
    BY <2>1 DEF Stakeless, HasPrecision
<1> QED
  BY <1>1, <1>2, StepKinds, TypeCorrect, PTL DEF Spec

LEMMA StakeFreezes ==
    ASSUME TypeOK, TypeOK', Schedule, Stakeless, Kinds, NEW u \in Users,
           CanUpdate, Overflows(u)
    PROVE  user_info'[u] = user_info[u] /\ Overflows(u)'
<1> DEFINE m == Updated.acc_token_per_share
           n == Updated'.acc_token_per_share
           staked == user_info[u].staked_amount
<1>1. m \in Nat /\ staked \in Nat /\ MaxU64 \in Nat /\ m * staked > MaxU64
  BY UpdatedType, UtilsAssumption DEF TypeOK, UserInfo, PoolState, U64, Overflows
<1>2. staked > 0 /\ HasPrecision
  <2>1. m * 0 = 0
    BY <1>1
  <2> HIDE DEF m
  <2> QED
    BY <1>1, <2>1 DEF Stakeless
<1>3. ~AccruedFits(Updated, staked)
  <2>1. staked * m = m * staked
    BY <1>1
  <2>2. ~Fits(staked * m)
    BY <1>1, <2>1 DEF Fits, U64
  <2> QED
    BY <2>2 DEF AccruedFits
<1>4. user_info'[u] = user_info[u]
  <2>1. CASE Settles
    <3>1. ASSUME NEW v \in Users, Resets(v) PROVE v # u /\ user_info'[u] = user_info[u]
      BY <1>2, <1>3, <3>1 DEF Resets, TypeOK
    <3> QED
      BY <2>1, <3>1 DEF Settles
  <2> QED
    BY <2>1 DEF Kinds, Waits, Creates, StartReward
<1>5. n \in Nat /\ m <= n
  BY <1>2, UpdatedGrows
<1>6. Overflows(u)' <=> n * staked > MaxU64
  BY <1>4 DEF Overflows
<1> HIDE DEF m, n, staked
<1>7. m * staked <= n * staked /\ m * staked \in Nat /\ n * staked \in Nat
  BY <1>1, <1>5, TimesMonotonic
<1> QED
  BY <1>1, <1>4, <1>6, <1>7

(* A stake whose accrued product overflows once is never changed again.    *)
THEOREM OverflowFreezesStake == Spec => FrozenStake
<1>1. TypeOK /\ TypeOK' /\ Schedule /\ Stakeless /\ [Next]_vars
        => [\A u \in Users : CanUpdate /\ Overflows(u) =>
                user_info'[u] = user_info[u] /\ Overflows(u)']_vars
  BY StepKinds, StakeFreezes
<1> QED
  BY <1>1, StakelessCorrect, ScheduleCorrect, PTL DEF Spec, FrozenStake
=============================================================================
