---------------------------- MODULE MCRewardShares ---------------------------
(* Small instances of RewardShares for TLC, with the constants of          *)
(* MCStakingPool.                                                          *)
EXTENDS RewardShares, MCStakingPool
=============================================================================
