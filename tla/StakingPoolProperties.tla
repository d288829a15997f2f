------------------------ MODULE StakingPoolProperties ------------------------
(***************************************************************************)
(* What the staking pool should guarantee to its stakers and to its        *)
(* creator, stated over the state of StakingPool.                          *)
(***************************************************************************)
EXTENDS StakingPool, FiniteSetsExt

Stakes == [u \in Users |-> user_info[u].staked_amount]

(* update_pool divides the rewards of a slot by total_staked, which the    *)
(* handlers of stake, unstake and compound_reward adjust on their own: it  *)
(* is always the sum of the stakes in the UserInfo accounts, so no share   *)
(* of the rewards is handed out twice and none is lost, and the checked    *)
(* subtraction in unstake never panics.                                    *)
TotalStakedIsSum == pool_state.total_staked = SumFunction(Stakes)

(* Every handler computes pending as accrued minus reward_debt in checked  *)
(* u64 arithmetic: no history of calls leaves a debt above what the stake  *)
(* has accrued, which would make each later call of that user panic.       *)
DebtCovered ==
    HasPrecision => \A u \in Users :
        user_info[u].reward_debt <= Accrued(pool_state, user_info[u].staked_amount)

SmallerOf(m, n) == IF m <= n THEN m ELSE n

(* update_pool accrues each slot of the schedule at most once and nothing  *)
(* before start_slot or after end_slot, however its calls are spread.      *)
EmissionCap ==
    pool_state.should_total_paid <=
        IF pool_config.start_slot = 0 THEN 0
        ELSE pool_config.reward_per_slot *
                (SmallerOf(pool_state.last_reward_slot, pool_config.end_slot)
                    - pool_config.start_slot)

(* The books of the rewards: what is left plus what is booked as paid is   *)
(* the funding, except that a compounded reward is booked as paid and      *)
(* stays in reward_amount.                                                 *)
RewardBooks ==
    pool_state.reward_amount + pool_state.paid_rewards = hist.funding + hist.compounded

(* reward_amount against the tokens in the reward vault.  The two agree    *)
(* until stop_reward sweeps a surplus or compound_reward swaps a reward:   *)
(* both move tokens and leave reward_amount alone.                         *)
RewardVaultDrift ==
    pool_stake_token_vault # pool_reward_token_vault =>
        tokens[pool_reward_token_vault] + hist.swept + hist.swapped_in
            = pool_state.reward_amount

(* total_staked against the tokens in the stake vault.  The two agree      *)
(* until compound_reward credits a stake without moving tokens (one mint), *)
(* or receives swapped tokens without crediting them (two mints).          *)
StakeVaultDrift ==
    pool_stake_token_vault # pool_reward_token_vault =>
        tokens[pool_stake_token_vault] + hist.restaked
            = pool_state.total_staked + hist.swapped_out

(* A pool with one mint and one vault: the tokens in it are the unpaid     *)
(* rewards and the stakes together, less what was swept and less the       *)
(* rewards that count twice, as reward_amount and as stake.                *)
SharedVaultDrift ==
    pool_stake_token_vault = pool_reward_token_vault =>
        tokens[pool_reward_token_vault] + hist.swept + hist.restaked
            = pool_state.reward_amount + pool_state.total_staked

(* What an account holds for the pool according to its books: the rewards  *)
(* that are left, less those swept or swapped, if it is the reward vault,  *)
(* and the stakes, less those only moved over from the rewards, if it is   *)
(* the stake vault.                                                        *)
HeldRewards == pool_state.reward_amount - hist.swept - hist.swapped_in
HeldStakes == pool_state.total_staked + hist.swapped_out - hist.restaked
Held(account) == (IF account = pool_reward_token_vault THEN HeldRewards ELSE 0)
                   + (IF account = pool_stake_token_vault THEN HeldStakes ELSE 0)

(* Nothing was swept by stop_reward nor compounded: after either the pool  *)
(* still counts, among the rewards that are left, tokens that have left    *)
(* its vault or have become stakes.                                        *)
BooksBacked == hist.swept = 0 /\ hist.restaked = 0 /\ hist.swapped_in = 0

(* The reward of the user can be settled, and the whole stake is there.    *)
CanLeave(u) ==
    /\ CanSettle(u)
    /\ Holds(PaidOut(tokens, u, Owed(u)), pool_stake_token_vault,
             user_info[u].staked_amount)

(* What the stakes have accrued and not been paid, before the division by  *)
(* the precision factor.                                                   *)
Unpaid(ps) ==
    [u \in Users |-> user_info[u].staked_amount * ps.acc_token_per_share
                        - PrecisionFactor * user_info[u].reward_debt]

(* Rewards paid and rewards still pending never exceed the rewards emitted *)
(* by more than rounding: each restake rounds one reward_debt down, and so *)
(* gives away less than one unit.  Scaled by the precision factor.         *)
PaidWithinEmission ==
    HasPrecision =>
        PrecisionFactor * pool_state.paid_rewards + SumFunction(Unpaid(pool_state))
            <= PrecisionFactor * pool_state.should_total_paid
                + (PrecisionFactor - 1) * hist.restakes

(* A pool that had its whole schedule funded when its rewards started.     *)
FundedPool == pool_config.start_slot # 0 /\ hist.shortfall = 0

(* What all the stakers could claim together.                              *)
Owing == SumFunction([u \in Users |-> Pending(Updated, user_info[u])])

(* A pool with two mints that was fully funded when its rewards started    *)
(* (the require! that start_reward has commented out) and that stop_reward *)
(* has not swept can pay every staker at any time, in any order: the sum   *)
(* of all pendings is in the books and in the vault, up to the rounding of *)
(* the restakes.  Rewards swapped for stake tokens leave as much in the    *)
(* vault as if they had been claimed.  With a precision factor of 1        *)
(* nothing is rounded, and neither a claim nor the withdrawal of a stake   *)
(* is ever refused for lack of rewards.                                    *)
FundedPoolPaysAll ==
    FundedPool /\ hist.swept = 0 /\ HasPrecision /\ stake_mint # reward_mint =>
        LET rounding == (PrecisionFactor - 1) * hist.restakes
        IN  /\ PrecisionFactor * Owing
                    <= PrecisionFactor * AvailableRewardTokens(Updated) + rounding
            /\ PrecisionFactor * Owing
                    <= PrecisionFactor * tokens[pool_reward_token_vault] + rounding

-----------------------------------------------------------------------------
(* A claim moves to the user exactly what pending_reward showed in the     *)
(* state before it, although the two compute it separately; and whenever a *)
(* claim goes through, the view did not panic.                             *)
ClaimPaysView ==
    [][\A u \in Users : ClaimStaked(u) =>
            /\ PendingRewardFits(u)
            /\ tokens'[RewardAccount(u)] - tokens[RewardAccount(u)] = PendingReward(u)]_vars

(* No call of anyone else, and no passing of time, takes away from the     *)
(* reward a user has pending: a stake that comes later shares in the slots *)
(* after it only.  The value is what the view computes, in the integers:   *)
(* where the view panics it has not become less either.                    *)
NoDilution ==
    [][\A u \in Users : user_info'[u] = user_info[u] =>
            PendingReward(u)' >= PendingReward(u)]_vars

Overflows(u) ==
    Updated.acc_token_per_share * user_info[u].staked_amount > MaxU64

(* staked_amount * acc_token_per_share is a checked u64 product and the    *)
(* accumulator only grows: once it overflows for a staker, no sequence of  *)
(* calls changes that staker's record again, so the stake cannot be        *)
(* withdrawn either.                                                       *)
FrozenStake ==
    [][\A u \in Users : CanUpdate /\ Overflows(u) =>
            user_info'[u] = user_info[u] /\ Overflows(u)']_vars

(* The same for the pool: once update_pool overflows, every later call     *)
(* overflows too and the pool never changes again.                         *)
FrozenPool == []["pool" \in opened /\ ~CanUpdate => ~CanUpdate' /\ pool_state' = pool_state]_vars

(* The accounts of the program, as an escrow: the stakes, what the view    *)
(* shows as pending, and the balances of the token program.                *)
Escrow == INSTANCE StakingEscrow WITH
    Stakers <- Users,
    MaxFee <- MAX_FEE,
    FeeUnit <- PERCENT_PRECISION,
    wallet <- [u \in Users |-> tokens[StakeAccount(u)]],
    stake <- [u \in Users |-> user_info[u].staked_amount],
    earned <- [u \in Users |-> PendingReward(u)],
    received <- [u \in Users |-> tokens[RewardAccount(u)]],
    escrow <- tokens[pool_stake_token_vault],
    fund <- tokens[pool_reward_token_vault]

(* A pool with two mints that is neither compounded nor stopped implements *)
(* the escrow: accumulator, debts, lazy updates and the six handlers that  *)
(* keep them together amount to deposits, withdrawals and claims that pay  *)
(* the caller what was earned and leave everybody else's money alone.      *)
PoolIsEscrow == Escrow!Spec

-----------------------------------------------------------------------------
(* What create_pool transferred beyond the rewards of the whole schedule.  *)
Spare ==
    hist.funding - pool_config.reward_per_slot * pool_config.duration * SLOTS_PER_DAY

(* A started pool whose funding covers the schedule and what is lost on    *)
(* the way: less than one unit for every change of a stake, and, with one  *)
(* mint, as much as is staked, because available_reward_tokens subtracts   *)
(* the stakes from an amount that they are no part of.                     *)
FundingCovers ==
    /\ pool_config.start_slot # 0 /\ HasPrecision
    /\ PrecisionFactor * Spare >=
            (PrecisionFactor - 1) * hist.restakes
              + PrecisionFactor *
                  (IF stake_mint = reward_mint THEN pool_state.total_staked ELSE 0)

(* Nothing but the handler's conditions on the rewards is in the way of a  *)
(* call: the wallet can pay the fee and no product overflows.              *)
Unhindered(u) ==
    /\ CanPayFee(lamports, u)
    /\ CanUpdate /\ PendingFits(Updated, user_info[u])

(* A pool whose funding covers keeps no staker waiting: one who claims     *)
(* whenever that is possible is paid all that is pending, whatever the     *)
(* other stakers and the clock do.  The ways out are those that the code   *)
(* has: initialize raises the performance fee above what the wallet holds, *)
(* a product overflows, or later stakes use up what was funded beyond the  *)
(* schedule.  With two mints and a precision factor of 1 the last cannot   *)
(* happen, and every pool funded for its schedule is covered.              *)
ClaimsArePaid ==
    \A u \in Users :
        FundingCovers /\ PendingReward(u) > 0
            ~> PendingReward(u) = 0 \/ ~Unhindered(u) \/ ~FundingCovers

(* A withdrawal that the stake is large enough for.                        *)
Withdrawable(u) == \E amount \in UnstakeAmounts : amount < user_info[u].staked_amount

(* And no stake is locked in, under the same conditions: one who keeps     *)
(* withdrawing has it back, down to what the amounts leave (the last token *)
(* if they include 1), because no withdrawal is refused for the reward it  *)
(* settles first.                                                          *)
StakesCanLeave ==
    \A u \in Users :
        FundingCovers /\ Withdrawable(u)
            ~> ~Withdrawable(u) \/ ~Unhindered(u) \/ ~FundingCovers

-----------------------------------------------------------------------------
(* What the tests, the messages and the events of the program say.         *)

(* tests/staking-on-solana.ts:455-463: the reward vault holds the          *)
(* reward_amount of the pool state.                                        *)
PoolRewardAccountCorrect ==
    stake_mint # reward_mint =>
        tokens[pool_reward_token_vault] = pool_state.reward_amount

(* tests/staking-on-solana.ts:226-232: the stake vault holds the staked    *)
(* amount.                                                                 *)
StakeAccountMatchesStaked ==
    pool_stake_token_vault # pool_reward_token_vault =>
        tokens[pool_stake_token_vault] = pool_state.total_staked

(* instructions/stop_reward.rs:40-42: the RewardsStop event announces the  *)
(* slot at which the rewards of a started pool end; none is accrued for a  *)
(* later slot.                                                             *)
RewardsStopped ==
    0 < pool_config.start_slot /\ pool_config.start_slot <= hist.announced_end =>
        pool_state.should_total_paid <=
            pool_config.reward_per_slot * (hist.announced_end - pool_config.start_slot)

(* error/mod.rs:28 "Amount to withdraw too high": unstake refuses an       *)
(* amount only when the user has not staked that much.                     *)
RefusedAmountIsTooHigh ==
    \A u \in Users, amount \in UnstakeAmounts :
        amount > 0 /\ ~UnstakeAmountOK(u, amount) =>
            amount > user_info[u].staked_amount
=============================================================================
