---------------------------- MODULE StakingUtils ----------------------------
(***************************************************************************)
(* The pure part of the staking program: the constants of                  *)
(* state/constants.rs and the helpers of utils/mod.rs that every           *)
(* instruction calls.  A pool configuration pc and a pool state ps are     *)
(* records with the field names of PoolConfig and PoolState.               *)
(*                                                                         *)
(* The release profile sets overflow-checks = true, so an arithmetic step  *)
(* that leaves u64 panics and the transaction is rolled back.  An operator *)
(* computes in the integers; the predicate whose name ends in Fits says    *)
(* that no step of that computation panics.                                *)
(***************************************************************************)
EXTENDS Integers

CONSTANTS
    MaxU64,                 \* u64::MAX; the runs use a smaller width
    SLOTS_PER_DAY,          \* 216000 in the code; the runs use a short day
    reward_mint_decimals,   \* PoolConfig.reward_mint_decimals, a u8
    stake_mint,             \* PoolConfig.stake_mint
    reward_mint             \* PoolConfig.reward_mint

ASSUME UtilsAssumption ==
    /\ MaxU64 \in Nat
    /\ SLOTS_PER_DAY \in Nat
    /\ reward_mint_decimals \in 0..255

PERCENT_PRECISION == 10000
MAX_FEE == 2000
FeeRange == 0..MAX_FEE

U64 == 0..MaxU64
Fits(n) == n \in U64

(* 9 - reward_mint_decimals is a u8 subtraction: it panics above nine. *)
HasPrecision == reward_mint_decimals <= 9

PowersOfTen == << 1, 10, 100, 1000, 10000, 100000, 1000000,
                  10000000, 100000000, 1000000000 >>

PrecisionFactor == PowersOfTen[10 - reward_mint_decimals]

MutMultiplierPastEnd(from_slot, to_slot, pool_end_slot) ==
    to_slot - from_slot

MutMultiplierNonePastEnd(from_slot, to_slot, pool_end_slot) ==
    IF to_slot <= pool_end_slot THEN to_slot - from_slot ELSE 0

GetMultiplier(from_slot, to_slot, pool_end_slot) ==
    IF to_slot <= pool_end_slot THEN to_slot - from_slot
    ELSE IF from_slot >= pool_end_slot THEN 0
    ELSE pool_end_slot - from_slot

(* Rewards emitted since the last update, and whether update_pool credits  *)
(* them: only after the first slot of the pool, and only to a pool that    *)
(* somebody has staked in.                                                 *)
Emitted(pc, ps, slot) ==
    GetMultiplier(ps.last_reward_slot, slot, pc.end_slot) * pc.reward_per_slot

IsStale(ps, slot) == slot > ps.last_reward_slot /\ ps.last_reward_slot # 0

AccPerShare(ps, reward) ==
    ps.acc_token_per_share + (reward * PrecisionFactor) \div ps.total_staked

MutUpdateKeepsSlot(pc, ps, slot) ==
    IF ~IsStale(ps, slot) THEN ps
    ELSE IF ps.total_staked = 0 THEN [ps EXCEPT !.last_reward_slot = slot]
    ELSE [ps EXCEPT
            !.acc_token_per_share = AccPerShare(ps, Emitted(pc, ps, slot)),
            !.should_total_paid = @ + Emitted(pc, ps, slot)]

MutUpdateSlotFirst(pc, ps, slot) ==
    IF ~IsStale(ps, slot) THEN ps ELSE [ps EXCEPT !.last_reward_slot = slot]

UpdatePool(pc, ps, slot) ==
    IF ~IsStale(ps, slot) THEN ps
    ELSE IF ps.total_staked = 0 THEN [ps EXCEPT !.last_reward_slot = slot]
    ELSE LET reward == Emitted(pc, ps, slot)
         IN  [ps EXCEPT
                !.acc_token_per_share = AccPerShare(ps, reward),
                !.last_reward_slot = slot,
                !.should_total_paid = @ + reward]

UpdatePoolFits(pc, ps, slot) ==
    IsStale(ps, slot) /\ ps.total_staked # 0 =>
        LET reward == Emitted(pc, ps, slot)
        IN  /\ HasPrecision
            /\ Fits(reward)
            /\ Fits(reward * PrecisionFactor)
            /\ Fits(AccPerShare(ps, reward))
            /\ Fits(ps.should_total_paid + reward)

MutAvailableIgnoresMints(ps) ==
    IF ps.reward_amount < ps.total_staked THEN 0
    ELSE ps.reward_amount - ps.total_staked

AvailableRewardTokens(ps) ==
    IF reward_mint = stake_mint
    THEN IF ps.reward_amount < ps.total_staked THEN 0
         ELSE ps.reward_amount - ps.total_staked
    ELSE ps.reward_amount

(* insufficient_rewards: what the funding lacks of the accrued rewards and *)
(* of those the rest of the schedule will emit.  start_reward.rs has the   *)
(* only call, and it is commented out (lines 15-18).                       *)
InsufficientRewards(pc, ps) ==
    LET remain_rewards == AvailableRewardTokens(ps) + ps.paid_rewards
        scheduled == IF pc.start_slot = 0
                     THEN pc.reward_per_slot * pc.duration * SLOTS_PER_DAY
                     ELSE pc.reward_per_slot *
                            GetMultiplier(ps.last_reward_slot, pc.end_slot, pc.end_slot)
        adjusted == ps.should_total_paid + scheduled
    IN  IF remain_rewards >= adjusted THEN 0 ELSE adjusted - remain_rewards
=============================================================================
