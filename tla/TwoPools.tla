------------------------------ MODULE TwoPools ------------------------------
(***************************************************************************)
(* A platform with two pools.  Everything an instruction is given belongs  *)
(* to one pool, except the PlatformInfo account, the wallets and, because  *)
(* clients take the associated token account of the platform's admin for   *)
(* every mint as the vault (tests/staking-on-solana.ts:582-595), the       *)
(* vaults of the mints that both pools use: the token account that holds   *)
(* the stakes of the one pool may be the one that pays the rewards of the  *)
(* other.                                                                  *)
(***************************************************************************)
EXTENDS Integers, FiniteSets

CONSTANTS
    MaxU64, SLOTS_PER_DAY, START_DELAY, user_info_rent, pool_rent,
    admin, amm, treasury,
    Users1, creator1, stake_mint1, reward_mint1, reward_mint_decimals1,
    Users2, creator2, stake_mint2, reward_mint2, reward_mint_decimals2,
    \* The arguments clients pass: bounds of the model.
    DeployFees, PerformanceFees, StakeFees, UnstakeFees, Fundings1, Fundings2,
    Rates, Durations, StakeAmounts, UnstakeAmounts, SwapOutputs, MaxSlot,
    \* What the accounts hold in the beginning.
    StakerTokens, CreatorTokens, SwapReserve, StakerLamports, CreatorLamports

ASSUME NumbersAssumption ==
    /\ MaxU64 \in Nat /\ SLOTS_PER_DAY \in Nat /\ START_DELAY \in Nat \ {0}
    /\ user_info_rent \in Nat /\ pool_rent \in Nat
    /\ reward_mint_decimals1 \in 0..255 /\ reward_mint_decimals2 \in 0..255
    /\ StakerTokens \in Nat /\ CreatorTokens \in Nat /\ SwapReserve \in Nat
    /\ StakerLamports \in Nat /\ CreatorLamports \in Nat

ASSUME TwoUsersAssumption == IsFiniteSet(Users1) /\ IsFiniteSet(Users2)

ASSUME TwoPoolArgumentAssumption ==
    /\ DeployFees \subseteq Nat /\ PerformanceFees \subseteq Nat
    /\ StakeFees \subseteq Nat /\ UnstakeFees \subseteq Nat
    /\ Durations \subseteq Nat /\ SwapOutputs \subseteq Nat \ {0}
    /\ Fundings1 \union Fundings2 \union Rates \subseteq 0..MaxU64
    /\ StakeAmounts \union UnstakeAmounts \subseteq 0..MaxU64

(* The admin, whose token accounts are the vaults, uses no pool himself.   *)
ASSUME AdminAssumption ==
    admin \notin Users1 \union Users2 \union {creator1, creator2, amm}

VARIABLES
    opened1, pool_config1, pool_state1, user_info1, hist1,  \* the first pool
    opened2, pool_config2, pool_state2, user_info2, hist2,  \* the second
    platform, tokens, lamports, slot                        \* what they share

pool1 == << opened1, pool_config1, pool_state1, user_info1, hist1 >>
pool2 == << opened2, pool_config2, pool_state2, user_info2, hist2 >>
vars == << pool1, pool2, platform, tokens, lamports, slot >>

(* The associated token account of the admin for a mint.                   *)
Vault(mint) == << admin, mint >>
Vaults == {Vault(mint) : mint \in {stake_mint1, reward_mint1, stake_mint2, reward_mint2}}

WalletAccounts(users, creator, mints) == (users \union {creator, amm}) \X mints
TokenAccounts1 ==
    WalletAccounts(Users1, creator1, {stake_mint1, reward_mint1})
        \union {Vault(stake_mint1), Vault(reward_mint1)}
TokenAccounts2 ==
    WalletAccounts(Users2, creator2, {stake_mint2, reward_mint2})
        \union {Vault(stake_mint2), Vault(reward_mint2)}

InitialBalance(account) ==
    CASE account[1] \in Users1 \union Users2 -> StakerTokens
      [] account[1] \in {creator1, creator2} -> CreatorTokens
      [] account[1] = amm -> SwapReserve
      [] OTHER -> 0

(* Both pools run on the same two ledgers.                                 *)
InitialTokens == [a \in TokenAccounts1 \union TokenAccounts2 |-> InitialBalance(a)]
InitialLamports ==
    [a \in Users1 \union Users2 \union {creator1, creator2, treasury} |->
        IF a \in Users1 \union Users2 THEN StakerLamports ELSE CreatorLamports]

(* With the lemmas about one pool, which TwoPools_proofs puts together.    *)
P1 == INSTANCE Stakes_proofs WITH
    Users <- Users1, creator <- creator1,
    stake_mint <- stake_mint1, reward_mint <- reward_mint1, Fundings <- Fundings1,
    reward_mint_decimals <- reward_mint_decimals1,
    pool_stake_token_vault <- Vault(stake_mint1),
    pool_reward_token_vault <- Vault(reward_mint1),
    InitialTokens <- InitialTokens, InitialLamports <- InitialLamports,
    opened <- opened1, pool_config <- pool_config1, pool_state <- pool_state1,
    user_info <- user_info1, hist <- hist1

P2 == INSTANCE Stakes_proofs WITH
    Users <- Users2, creator <- creator2,
    stake_mint <- stake_mint2, reward_mint <- reward_mint2, Fundings <- Fundings2,
    reward_mint_decimals <- reward_mint_decimals2,
    pool_stake_token_vault <- Vault(stake_mint2),
    pool_reward_token_vault <- Vault(reward_mint2),
    InitialTokens <- InitialTokens, InitialLamports <- InitialLamports,
    opened <- opened2, pool_config <- pool_config2, pool_state <- pool_state2,
    user_info <- user_info2, hist <- hist2

Init ==
    /\ P1!PoolInit /\ P2!PoolInit
    /\ tokens = InitialTokens /\ lamports = InitialLamports /\ slot = 1

(* initialize writes the one PlatformInfo account that both pools read.    *)
Initialize(deploy_fee, performance_fee) ==
    /\ P1!Initialize(deploy_fee, performance_fee)
    /\ P2!Initialize(deploy_fee, performance_fee)

Tick == P1!Tick /\ P2!Tick

Instruction1 ==
    /\ \/ \E stake_fee \in StakeFees, unstake_fee \in UnstakeFees, funding \in Fundings1,
             rate \in Rates, duration \in Durations :
                P1!CreatePool(stake_fee, unstake_fee, funding, rate, duration)
       \/ P1!StartReward
       \/ \E u \in Users1 :
            \/ \E amount \in StakeAmounts : P1!Stake(u, amount)
            \/ \E amount \in UnstakeAmounts : P1!Unstake(u, amount)
            \/ P1!ClaimReward(u)
            \/ P1!CompoundReward(u)
       \/ P1!StopReward
    /\ UNCHANGED pool2

Instruction2 ==
    /\ \/ \E stake_fee \in StakeFees, unstake_fee \in UnstakeFees, funding \in Fundings2,
             rate \in Rates, duration \in Durations :
                P2!CreatePool(stake_fee, unstake_fee, funding, rate, duration)
       \/ P2!StartReward
       \/ \E u \in Users2 :
            \/ \E amount \in StakeAmounts : P2!Stake(u, amount)
            \/ \E amount \in UnstakeAmounts : P2!Unstake(u, amount)
            \/ P2!ClaimReward(u)
            \/ P2!CompoundReward(u)
       \/ P2!StopReward
    /\ UNCHANGED pool1

Next ==
    \/ \E deploy_fee \in DeployFees, performance_fee \in PerformanceFees :
            Initialize(deploy_fee, performance_fee)
    \/ Instruction1
    \/ Instruction2
    \/ Tick

Spec == Init /\ [][Next]_vars

-----------------------------------------------------------------------------
(* Pools that share vaults keep separate books, and no instruction of the  *)
(* one looks at the other's: whatever the interleaving, each vault holds   *)
(* the sum of what the books of both pools say that it holds for them.     *)
SharedVaultsAddUp ==
    \A vault \in Vaults : tokens[vault] = P1!Held(vault) + P2!Held(vault)

(* No instruction of one pool makes a staker of the other wait: who could  *)
(* settle the reward and withdraw the stake before it still can after it,  *)
(* although both draw on the same vaults.  With stop_reward or compounding *)
(* in either pool this does not hold: the rewards that the one pool still  *)
(* counts are then paid out of what the other pool put there.              *)
PoolsIsolated ==
    [][ P1!BooksBacked' /\ P2!BooksBacked' /\ slot' = slot =>
            /\ pool2' = pool2 => \A u \in Users2 : P2!CanLeave(u) => P2!CanLeave(u)'
            /\ pool1' = pool1 => \A u \in Users1 : P1!CanLeave(u) => P1!CanLeave(u)' ]_vars
=============================================================================
