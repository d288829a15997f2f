---------------------------- MODULE RewardShares ----------------------------
(***************************************************************************)
(* The promise of the pool to each single staker: every slot of the        *)
(* schedule pays reward_per_slot, divided in proportion to the stakes      *)
(* held during that slot.  The program computes this lazily, with one      *)
(* accumulator for all stakers that is brought up to date only when        *)
(* somebody calls.  This module adds the eager computation as history, one *)
(* division per user and slot, and compares the two.                       *)
(*                                                                         *)
(* Shares are scaled by ShareScale and rounded down once a slot; where the *)
(* totals that occur divide the scale they are exact.                      *)
(***************************************************************************)
EXTENDS StakingPoolProperties

CONSTANT ShareScale

ASSUME ScaleAssumption == ShareScale \in Nat \ {0}

VARIABLES
    share,      \* what each user's stake has earned, times ShareScale
    rounded,    \* how often the user's reward_debt was rounded for a new stake
    dust        \* the user's stake, summed over the updates of the accumulator

shareVars == << share, rounded, dust >>

SharesInit ==
    /\ share = [u \in Users |-> 0]
    /\ rounded = [u \in Users |-> 0]
    /\ dust = [u \in Users |-> 0]

(* The slot that ends with this step pays, if it is on the schedule and    *)
(* somebody is staked in the pool.                                         *)
SlotPays ==
    /\ slot' > slot
    /\ pool_config.start_slot # 0
    /\ pool_config.start_slot <= slot /\ slot < pool_config.end_slot
    /\ pool_state.total_staked > 0

EarnedInSlot(u) ==
    (pool_config.reward_per_slot * ShareScale * user_info[u].staked_amount)
        \div pool_state.total_staked

SharesStep ==
    /\ share' = IF SlotPays THEN [u \in Users |-> share[u] + EarnedInSlot(u)] ELSE share
    /\ rounded' = [u \in Users |->
            IF user_info'[u].staked_amount # user_info[u].staked_amount
            THEN rounded[u] + 1 ELSE rounded[u]]
    /\ dust' = IF pool_state'.should_total_paid # pool_state.should_total_paid
               THEN [u \in Users |-> dust[u] + user_info[u].staked_amount] ELSE dust

SharesSpec == /\ Init /\ SharesInit
              /\ [][StopNext /\ SharesStep]_<< vars, shareVars >>

(* What the user has been paid and would be paid by a claim now.           *)
Credited(u) ==
    tokens[RewardAccount(u)] - InitialTokens[RewardAccount(u)] + PendingReward(u)

(* No staker is credited more than the stake earned, however the calls of  *)
(* the stakers interleave, beyond the rounding of reward_debt at each      *)
(* change of the stake (claim_reward.rs:71, stake.rs:117, unstake.rs:101). *)
(* A share has been rounded down in no more slots than have passed.        *)
NobodyOverpaid ==
    \A u \in Users :
        ShareScale * PrecisionFactor * Credited(u)
            <= PrecisionFactor * (share[u] + slot)
                + ShareScale * (PrecisionFactor - 1) * rounded[u]

(* And no less, beyond the rounding of the accumulator at each update,     *)
(* which costs less than one unit per staked token, and of the reward at   *)
(* each change of the stake: one call before and one after a slot never    *)
(* skip it.                                                                *)
NobodyUnderpaid ==
    \A u \in Users :
        ShareScale * (PrecisionFactor * Credited(u) + dust[u] + user_info[u].staked_amount
                        + (PrecisionFactor - 1) * (rounded[u] + 1))
            >= PrecisionFactor * share[u]
=============================================================================
