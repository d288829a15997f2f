----------------------------- MODULE StakingPool -----------------------------
(***************************************************************************)
(* One staking pool of the staking-on-solana program, with the platform    *)
(* account it charges fees for, its stakers, and the token and lamport     *)
(* balances it moves.  Every instruction of lib.rs is one action: the      *)
(* runtime executes a transaction atomically and rolls it back when a      *)
(* require! fails, arithmetic panics or a CPI fails, so all the conditions *)
(* under which a handler returns Ok are conjuncts of its action and a      *)
(* failing call is a stuttering step.  Between two transactions the clock  *)
(* may advance, and any staker may be next.                                *)
(***************************************************************************)
EXTENDS StakingUtils, TokenLedger, FiniteSets

CONSTANTS
    Users,                      \* wallets that may stake
    creator, amm, treasury,     \* the pool owner, the swap pool, the fee wallet
    pool_stake_token_vault,     \* PoolConfig.pool_stake_token_vault
    pool_reward_token_vault,    \* PoolConfig.pool_reward_token_vault
    START_DELAY,                \* 10 slots in start_reward.rs
    user_info_rent, pool_rent,  \* lamports that opening an account costs
    \* The arguments clients pass: bounds of the model.
    DeployFees, PerformanceFees, StakeFees, UnstakeFees, Fundings,
    Rates, Durations, StakeAmounts, UnstakeAmounts, SwapOutputs,
    InitialTokens, InitialLamports, MaxSlot

Wallet == Users \union {creator, amm}
PoolTokenAccount ==
    (Wallet \X {stake_mint, reward_mint})
        \union {pool_stake_token_vault, pool_reward_token_vault}
PoolSolAccount == Users \union {creator, treasury}

(* The ledgers have the accounts of the pool and may have others.          *)
TokenAccount == DOMAIN InitialTokens
SolAccount == DOMAIN InitialLamports

(* A user is an account that somebody has opened or will open.             *)
ASSUME UsersAssumption == IsFiniteSet(Users)

ASSUME CostAssumption ==
    START_DELAY \in Nat \ {0} /\ user_info_rent \in Nat /\ pool_rent \in Nat

ASSUME FeeAssumption ==
    /\ DeployFees \subseteq Nat /\ PerformanceFees \subseteq Nat
    /\ StakeFees \subseteq Nat /\ UnstakeFees \subseteq Nat

ASSUME ArgumentAssumption ==
    /\ Durations \subseteq Nat /\ SwapOutputs \subseteq Nat \ {0}
    /\ Fundings \subseteq U64 /\ Rates \subseteq U64
    /\ StakeAmounts \subseteq U64 /\ UnstakeAmounts \subseteq U64

ASSUME InitialAssumption ==
    /\ PoolTokenAccount \subseteq TokenAccount /\ InitialTokens \in [TokenAccount -> Nat]
    /\ PoolSolAccount \subseteq SolAccount /\ InitialLamports \in [SolAccount -> Nat]

ASSUME EmptyVaultAssumption ==
    /\ InitialTokens[pool_stake_token_vault] = 0
    /\ InitialTokens[pool_reward_token_vault] = 0

(* The vaults belong to the pool, and one vault cannot hold two mints.     *)
ASSUME VaultAssumption ==
    /\ {pool_stake_token_vault, pool_reward_token_vault}
           \intersect (Wallet \X {stake_mint, reward_mint}) = {}
    /\ pool_stake_token_vault = pool_reward_token_vault => stake_mint = reward_mint

StakeAccount(w) == <<w, stake_mint>>
RewardAccount(w) == <<w, reward_mint>>

VARIABLES
    opened,         \* the program accounts that have been created
    platform,       \* PlatformInfo
    pool_config,    \* PoolConfig, the fields the program writes
    pool_state,     \* PoolState
    user_info,      \* UserInfo of every user
    tokens,         \* SPL token balances
    lamports,       \* native balances
    slot,           \* Clock::slot
    hist            \* history, read by no action (see HistType)

vars == << opened, platform, pool_config, pool_state, user_info,
           tokens, lamports, slot, hist >>

(* A user stands for the UserInfo account of that user.                    *)
Accounts == {"platform", "pool"} \union Users
PlatformInfo == [deploy_fee : Nat, performance_fee : Nat]
PoolConfig == [duration : Nat, start_slot : Nat, end_slot : Nat,
               reward_per_slot : U64, stake_fee : FeeRange, unstake_fee : FeeRange]
PoolState == [total_staked : U64, last_reward_slot : Nat,
              acc_token_per_share : U64, reward_amount : U64,
              should_total_paid : U64, paid_rewards : U64, total_earned : U64]
UserInfo == [staked_amount : U64, reward_debt : U64]

(* funding        what create_pool moved into the reward vault             *)
(* swept          what stop_reward moved out of it                         *)
(* compounded     pendings that compound_reward booked as paid             *)
(* restaked       of those, what it added to stakes                        *)
(* swapped_in     reward tokens it sent to the swap pool                   *)
(* swapped_out    stake tokens the swap pool sent back                     *)
(* restakes       how often reward_debt was reset for a changed stake      *)
(* shortfall      InsufficientRewards when the rewards were started        *)
(* announced_end  the end slot of the last RewardsStop event, 0 for none   *)
HistType == [funding : Nat, swept : Nat, compounded : Nat, restaked : Nat,
             swapped_in : Nat, swapped_out : Nat, restakes : Nat,
             shortfall : Nat, announced_end : Nat]

TypeOK ==
    /\ opened \subseteq Accounts
    /\ platform \in PlatformInfo
    /\ pool_config \in PoolConfig
    /\ pool_state \in PoolState
    /\ user_info \in [Users -> UserInfo]
    /\ tokens \in [TokenAccount -> Nat]
    /\ lamports \in [SolAccount -> Nat]
    /\ slot \in Nat
    /\ hist \in HistType

PoolInit ==
    /\ opened = {}
    /\ platform = [deploy_fee |-> 0, performance_fee |-> 0]
    /\ pool_config = [duration |-> 0, start_slot |-> 0, end_slot |-> 0,
                      reward_per_slot |-> 0, stake_fee |-> 0, unstake_fee |-> 0]
    /\ pool_state = [total_staked |-> 0, last_reward_slot |-> 0,
                     acc_token_per_share |-> 0, reward_amount |-> 0,
                     should_total_paid |-> 0, paid_rewards |-> 0, total_earned |-> 0]
    /\ user_info = [u \in Users |-> [staked_amount |-> 0, reward_debt |-> 0]]
    /\ hist = [funding |-> 0, swept |-> 0, compounded |-> 0, restaked |-> 0,
               swapped_in |-> 0, swapped_out |-> 0, restakes |-> 0,
               shortfall |-> 0, announced_end |-> 0]

LedgerInit == tokens = InitialTokens /\ lamports = InitialLamports /\ slot = 1

Init == PoolInit /\ LedgerInit

-----------------------------------------------------------------------------
(* What the handlers share.                                                *)

(* update_pool, which every staking instruction calls before it reads the  *)
(* pool state.                                                             *)
Updated == UpdatePool(pool_config, pool_state, slot)
CanUpdate == UpdatePoolFits(pool_config, pool_state, slot)

(* What a stake has accrued since acc_token_per_share was 0.               *)
Accrued(ps, staked_amount) ==
    (staked_amount * ps.acc_token_per_share) \div PrecisionFactor

MutAccruedFitsWide(ps, staked_amount) ==
    HasPrecision /\ Fits(Accrued(ps, staked_amount))

AccruedFits(ps, staked_amount) ==
    HasPrecision /\ Fits(staked_amount * ps.acc_token_per_share)

(* The pending reward of a user; the subtraction panics below zero.        *)
Pending(ps, ui) == Accrued(ps, ui.staked_amount) - ui.reward_debt
PendingFits(ps, ui) == AccruedFits(ps, ui.staked_amount) /\ Fits(Pending(ps, ui))

SaturatingSub(n, d) == IF n > d THEN n - d ELSE 0

MutCanPayUnchecked(ps, balances, pending) == TRUE

MutCanPayFromVault(ps, balances, pending) ==
    pending > 0 => /\ Holds(balances, pool_reward_token_vault, pending)
                   /\ Fits(ps.paid_rewards + pending)

(* Paying a pending reward out of the pool.                                *)
CanPay(ps, balances, pending) ==
    pending > 0 =>
        /\ AvailableRewardTokens(ps) >= pending
        /\ Holds(balances, pool_reward_token_vault, pending)
        /\ Fits(ps.paid_rewards + pending)

MutPaidKeepsAmount(ps, pending) ==
    [ps EXCEPT !.total_earned = SaturatingSub(@, pending),
               !.paid_rewards = @ + pending]

Paid(ps, pending) ==
    [ps EXCEPT !.reward_amount = @ - pending,
               !.total_earned = SaturatingSub(@, pending),
               !.paid_rewards = @ + pending]

MutPaidOutOfStakes(balances, u, pending) ==
    Transfer(balances, pool_stake_token_vault, RewardAccount(u), pending)

PaidOut(balances, u, pending) ==
    Transfer(balances, pool_reward_token_vault, RewardAccount(u), pending)

MutRestakedKeepsDebt(ps, ui, staked_amount) ==
    [ui EXCEPT !.staked_amount = staked_amount]

MutRestakedOldStake(ps, ui, staked_amount) ==
    [staked_amount |-> staked_amount, reward_debt |-> Accrued(ps, ui.staked_amount)]

(* The user record after its stake is set and its reward_debt is reset.    *)
Restaked(ps, ui, staked_amount) ==
    [staked_amount |-> staked_amount, reward_debt |-> Accrued(ps, staked_amount)]

(* The performance fee, checked against the balance and then transferred.  *)
CanPayFee(balances, u) == balances[u] > platform.performance_fee
FeePaid(balances, u) == Transfer(balances, u, treasury, platform.performance_fee)

Percent(amount, fee) == (amount * fee) \div PERCENT_PRECISION
PercentFits(amount, fee) == Fits(amount * fee)

-----------------------------------------------------------------------------
(* initialize: init_if_needed, so it may run again and change the fees.    *)
Initialize(deploy_fee, performance_fee) ==
    /\ opened' = opened \union {"platform"}
    /\ platform' = [deploy_fee |-> deploy_fee, performance_fee |-> performance_fee]
    /\ UNCHANGED << pool_config, pool_state, user_info, tokens, lamports, slot, hist >>

CreatePool(stake_fee, unstake_fee, initial_funding, reward_per_slot, duration) ==
    /\ "platform" \in opened /\ "pool" \notin opened
    /\ stake_fee <= MAX_FEE /\ unstake_fee <= MAX_FEE
    /\ Holds(tokens, RewardAccount(creator), initial_funding)
    /\ lamports[creator] > pool_rent + platform.deploy_fee
    /\ opened' = opened \union {"pool"}
    /\ pool_config' = [pool_config EXCEPT !.stake_fee = stake_fee,
                                          !.unstake_fee = unstake_fee,
                                          !.duration = duration,
                                          !.reward_per_slot = reward_per_slot]
    /\ pool_state' = [pool_state EXCEPT !.reward_amount = initial_funding,
                                        !.total_staked = 0]
    /\ tokens' = Transfer(tokens, RewardAccount(creator),
                          pool_reward_token_vault, initial_funding)
    /\ lamports' = Transfer([lamports EXCEPT ![creator] = @ - pool_rent],
                            creator, treasury, platform.deploy_fee)
    /\ hist' = [hist EXCEPT !.funding = initial_funding]
    /\ UNCHANGED << platform, user_info, slot >>

StartReward ==
    /\ "pool" \in opened
    /\ pool_config.start_slot = 0
    /\ LET start == slot + START_DELAY
           end == start + pool_config.duration * SLOTS_PER_DAY
       IN  /\ Fits(end)
           /\ pool_config' = [pool_config EXCEPT !.start_slot = start, !.end_slot = end]
           /\ pool_state' = [pool_state EXCEPT !.last_reward_slot = start]
    /\ hist' = [hist EXCEPT
                    !.shortfall = InsufficientRewards(pool_config, pool_state)]
    /\ UNCHANGED << opened, platform, user_info, tokens, lamports, slot >>

(* The lamports once init_if_needed has opened the staker's UserInfo.      *)
RentPaid(u) ==
    IF u \in opened THEN lamports
    ELSE [lamports EXCEPT ![u] = @ - user_info_rent]

(* The reward that stake and unstake settle before they change the stake.  *)
Owed(u) ==
    IF user_info[u].staked_amount > 0 THEN Pending(Updated, user_info[u]) ELSE 0

CanSettle(u) ==
    user_info[u].staked_amount > 0 =>
        /\ PendingFits(Updated, user_info[u])
        /\ CanPay(Updated, tokens, Owed(u))

Stake(u, stake_amount) ==
    LET stake_fee == Percent(stake_amount, pool_config.stake_fee)
        real_amount == stake_amount - stake_fee
        staked == user_info[u].staked_amount + real_amount
        settled == PaidOut(tokens, u, Owed(u))
        received == Transfer(settled, StakeAccount(u), pool_stake_token_vault, stake_amount)
    IN  /\ {"platform", "pool"} \subseteq opened
        /\ pool_config.start_slot > 0 /\ pool_config.start_slot < slot
        /\ u \notin opened => lamports[u] >= user_info_rent
        /\ CanPayFee(RentPaid(u), u)
        /\ CanUpdate /\ HasPrecision
        /\ CanSettle(u)
        /\ Holds(settled, StakeAccount(u), stake_amount)
        /\ PercentFits(stake_amount, pool_config.stake_fee)
        /\ Fits(staked) /\ AccruedFits(Updated, staked)
        /\ Fits(pool_state.total_staked + real_amount)
        /\ opened' = opened \union {u}
        /\ lamports' = FeePaid(RentPaid(u), u)
        /\ tokens' = Transfer(received, pool_stake_token_vault,
                              StakeAccount(creator), stake_fee)
        /\ pool_state' = [Paid(Updated, Owed(u)) EXCEPT !.total_staked = @ + real_amount]
        /\ user_info' = [user_info EXCEPT ![u] = Restaked(Updated, @, staked)]
        /\ hist' = [hist EXCEPT !.restakes = @ + 1]
        /\ UNCHANGED << platform, pool_config, slot >>

MutUnstakeKeepsTwo(u, unstake_amount) ==
    unstake_amount > 0 /\ user_info[u].staked_amount > unstake_amount + 1

UnstakeAmountOK(u, unstake_amount) ==
    unstake_amount > 0 /\ user_info[u].staked_amount > unstake_amount

MutLeftUnchanged(ps, real_amount) == ps

(* total_staked after a withdrawal.                                        *)
Left(ps, real_amount) == [ps EXCEPT !.total_staked = @ - real_amount]

(* The clamp of lines 73-76 cannot apply once UnstakeAmountOK holds, so    *)
(* the whole unstake_amount is withdrawn.                                  *)
Unstake(u, unstake_amount) ==
    LET unstake_fee == Percent(unstake_amount, pool_config.unstake_fee)
        staked == user_info[u].staked_amount - unstake_amount
        settled == PaidOut(tokens, u, Owed(u))
        charged == Transfer(settled, pool_stake_token_vault,
                            StakeAccount(creator), unstake_fee)
    IN  /\ {"pool", u} \subseteq opened
        /\ UnstakeAmountOK(u, unstake_amount)
        /\ CanPayFee(lamports, u)
        /\ CanUpdate /\ HasPrecision
        /\ CanSettle(u)
        /\ PercentFits(unstake_amount, pool_config.unstake_fee)
        /\ Holds(settled, pool_stake_token_vault, unstake_amount)
        /\ AccruedFits(Updated, staked)
        /\ Fits(staked) /\ Fits(pool_state.total_staked - unstake_amount)
        /\ lamports' = FeePaid(lamports, u)
        /\ tokens' = Transfer(charged, pool_stake_token_vault, StakeAccount(u),
                              unstake_amount - unstake_fee)
        /\ pool_state' = Left(Paid(Updated, Owed(u)), unstake_amount)
        /\ user_info' = [user_info EXCEPT ![u] = Restaked(Updated, @, staked)]
        /\ hist' = [hist EXCEPT !.restakes = @ + 1]
        /\ UNCHANGED << opened, platform, pool_config, slot >>

(* claim_reward and compound_reward of a user without a stake: the fee is  *)
(* taken and the pool updated, nothing else.                               *)
CallWithoutStake(u) ==
    /\ {"pool", u} \subseteq opened
    /\ user_info[u].staked_amount = 0
    /\ CanPayFee(lamports, u)
    /\ CanUpdate
    /\ lamports' = FeePaid(lamports, u)
    /\ pool_state' = Updated
    /\ UNCHANGED << opened, platform, pool_config, user_info, tokens, slot, hist >>

ClaimStaked(u) ==
    /\ {"pool", u} \subseteq opened
    /\ user_info[u].staked_amount > 0
    /\ CanPayFee(lamports, u)
    /\ CanUpdate
    /\ CanSettle(u)
    /\ lamports' = FeePaid(lamports, u)
    /\ tokens' = PaidOut(tokens, u, Owed(u))
    /\ pool_state' = Paid(Updated, Owed(u))
    /\ user_info' = [user_info EXCEPT ![u] = Restaked(Updated, @, @.staked_amount)]
    /\ UNCHANGED << opened, platform, pool_config, slot, hist >>

ClaimReward(u) == CallWithoutStake(u) \/ ClaimStaked(u)

MutViewPastEnd(u) ==
    LET ps == pool_state
        acc == IF slot > ps.last_reward_slot /\ ps.total_staked # 0
               THEN AccPerShare(ps, (slot - ps.last_reward_slot) * pool_config.reward_per_slot)
               ELSE ps.acc_token_per_share
    IN  (user_info[u].staked_amount * acc) \div PrecisionFactor - user_info[u].reward_debt

(* Whether the view adds what was emitted since the last update, and the   *)
(* accumulator it computes with.                                           *)
ViewAccrues ==
    /\ slot > pool_state.last_reward_slot /\ pool_state.total_staked # 0
    /\ pool_state.last_reward_slot > 0

ViewAcc ==
    IF ViewAccrues THEN AccPerShare(pool_state, Emitted(pool_config, pool_state, slot))
    ELSE pool_state.acc_token_per_share

(* pending_reward: the read-only instruction front ends show the user.     *)
PendingReward(u) ==
    (user_info[u].staked_amount * ViewAcc) \div PrecisionFactor - user_info[u].reward_debt

(* The view returns: no step of its own checked arithmetic panics.         *)
PendingRewardFits(u) ==
    LET reward == Emitted(pool_config, pool_state, slot)
    IN  /\ HasPrecision
        /\ ViewAccrues => Fits(reward) /\ Fits(reward * PrecisionFactor) /\ Fits(ViewAcc)
        /\ Fits(user_info[u].staked_amount * ViewAcc) /\ Fits(PendingReward(u))

-----------------------------------------------------------------------------
MutCompoundedNotStaked(ps, pending, added) ==
    [ps EXCEPT !.total_earned = SaturatingSub(@, pending),
               !.paid_rewards = @ + pending]

(* compound_reward books the pending reward as paid and adds it to the     *)
(* stake; reward_amount it leaves alone.                                   *)
Compounded(ps, pending, added) ==
    [ps EXCEPT !.total_earned = SaturatingSub(@, pending),
               !.paid_rewards = @ + pending,
               !.total_staked = @ + added]

CanCompound(u, added) ==
    /\ {"pool", u} \subseteq opened
    /\ user_info[u].staked_amount > 0
    /\ CanPayFee(lamports, u)
    /\ CanUpdate
    /\ PendingFits(Updated, user_info[u])
    /\ Owed(u) > 0 => /\ AvailableRewardTokens(Updated) >= Owed(u)
                      /\ Fits(Updated.paid_rewards + Owed(u))
    /\ Fits(pool_state.total_staked + added)
    /\ Fits(user_info[u].staked_amount + added)
    /\ AccruedFits(Updated, user_info[u].staked_amount + added)

CompoundState(u, added) ==
    /\ lamports' = FeePaid(lamports, u)
    /\ pool_state' = Compounded(Updated, Owed(u), added)
    /\ user_info' = [user_info EXCEPT
                        ![u] = Restaked(Updated, @, @.staked_amount + added)]
    /\ UNCHANGED << opened, platform, pool_config, slot >>

(* One mint: the pending reward becomes stake, and no token moves.         *)
CompoundDirect(u) ==
    /\ stake_mint = reward_mint \/ Owed(u) = 0
    /\ CanCompound(u, Owed(u))
    /\ CompoundState(u, Owed(u))
    /\ hist' = [hist EXCEPT !.compounded = @ + Owed(u),
                            !.restaked = @ + Owed(u),
                            !.restakes = @ + (IF Owed(u) > 0 THEN 1 ELSE 0)]
    /\ UNCHANGED tokens

(* Two mints: the pending reward is swapped for stake tokens, at least one *)
(* of them.  The handler then computes what it received from the balance   *)
(* of the reward vault (lines 64, 154, 157), which it read once, when the  *)
(* accounts were deserialized: before and after are the same number and 0  *)
(* is added to the stake.  A failing swap aborts the transaction.          *)
CompoundSwap(u, amount_out) ==
    LET sent == Transfer(tokens, pool_reward_token_vault, RewardAccount(amm), Owed(u))
        added == 0
    IN  /\ stake_mint # reward_mint
        /\ CanCompound(u, added)
        /\ Owed(u) > 0
        /\ Holds(tokens, pool_reward_token_vault, Owed(u))
        /\ Holds(sent, StakeAccount(amm), amount_out)
        /\ tokens' = Transfer(sent, StakeAccount(amm), pool_stake_token_vault, amount_out)
        /\ CompoundState(u, added)
        /\ hist' = [hist EXCEPT !.compounded = @ + Owed(u),
                                !.swapped_in = @ + Owed(u),
                                !.swapped_out = @ + amount_out]

CompoundReward(u) ==
    \/ CallWithoutStake(u)
    \/ CompoundDirect(u)
    \/ \E amount_out \in SwapOutputs : CompoundSwap(u, amount_out)

(* What stop_reward finds above the rewards accrued so far.                *)
Surplus(ps) ==
    SaturatingSub(AvailableRewardTokens(ps) + ps.paid_rewards, ps.should_total_paid)

(* stop_reward: the deployer it is called by is the authority of the       *)
(* vault, which is the one caller whose transfer succeeds.  reward_amount  *)
(* keeps the surplus that leaves the vault.  pool_config_account is not    *)
(* declared mut, so the new end_slot is announced in the event and not     *)
(* stored.                                                                 *)
StopReward ==
    /\ "pool" \in opened
    /\ CanUpdate
    /\ Fits(AvailableRewardTokens(Updated) + Updated.paid_rewards)
    /\ Holds(tokens, pool_reward_token_vault, Surplus(Updated))
    /\ tokens' = Transfer(tokens, pool_reward_token_vault,
                          RewardAccount(creator), Surplus(Updated))
    /\ pool_state' = [Updated EXCEPT
                        !.total_earned = SaturatingSub(@, Surplus(Updated))]
    /\ hist' = [hist EXCEPT !.swept = @ + Surplus(Updated), !.announced_end = slot]
    /\ UNCHANGED << opened, platform, pool_config, user_info, lamports, slot >>

(* The clock of the chain, up to the bound MaxSlot.                        *)
Tick ==
    /\ slot < MaxSlot
    /\ slot' = slot + 1
    /\ UNCHANGED << opened, platform, pool_config, pool_state, user_info,
                    tokens, lamports, hist >>

-----------------------------------------------------------------------------
Setup ==
    \/ \E deploy_fee \in DeployFees, performance_fee \in PerformanceFees :
            Initialize(deploy_fee, performance_fee)
    \/ \E stake_fee \in StakeFees, unstake_fee \in UnstakeFees, funding \in Fundings,
          rate \in Rates, duration \in Durations :
            CreatePool(stake_fee, unstake_fee, funding, rate, duration)
    \/ StartReward

(* The pool as stakers use it while it is neither compounded nor stopped.  *)
CoreNext ==
    \/ Setup
    \/ \E u \in Users, amount \in StakeAmounts : Stake(u, amount)
    \/ \E u \in Users, amount \in UnstakeAmounts : Unstake(u, amount)
    \/ \E u \in Users : ClaimReward(u)
    \/ Tick

CompoundNext == CoreNext \/ \E u \in Users : CompoundReward(u)
StopNext == CoreNext \/ StopReward
Next == CompoundNext \/ StopReward

CoreSpec == Init /\ [][CoreNext]_vars
CompoundSpec == Init /\ [][CompoundNext]_vars
StopSpec == Init /\ [][StopNext]_vars
Spec == Init /\ [][Next]_vars

(* Stakers who keep calling: one who claims whenever a claim would go      *)
(* through, and withdraws some amount whenever a withdrawal would.         *)
Withdraw(u) == \E amount \in UnstakeAmounts : Unstake(u, amount)

Fairness == \A u \in Users : WF_vars(ClaimStaked(u)) /\ WF_vars(Withdraw(u))

FairCoreSpec == CoreSpec /\ Fairness
=============================================================================
