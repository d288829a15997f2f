---------------------------- MODULE MCStakingPool ----------------------------
(* Small instances of StakingPool for TLC. *)
EXTENDS StakingPoolProperties, TLC

CONSTANTS StakerTokens, CreatorTokens, SwapReserve, StakerLamports

MCInitialTokens ==
    [a \in PoolTokenAccount |->
        IF a \in {pool_stake_token_vault, pool_reward_token_vault} THEN 0
        ELSE IF a[1] \in Users /\ a[2] = stake_mint THEN StakerTokens
        ELSE IF a = RewardAccount(creator) THEN CreatorTokens
        ELSE IF a = StakeAccount(amm) THEN SwapReserve
        ELSE 0]

MCInitialLamports ==
    [a \in PoolSolAccount |-> IF a \in Users THEN StakerLamports ELSE 4]

Symmetry == Permutations(Users)
=============================================================================
