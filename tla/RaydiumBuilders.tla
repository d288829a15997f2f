--------------------------- MODULE RaydiumBuilders ---------------------------
(***************************************************************************)
(* The account lists that the crate lib builds for the amm, stable, farm   *)
(* and staking programs, and for the one-step routes.  A list is given by  *)
(* its keys in order, those of them that are read-only, and the signers;   *)
(* programs and sysvars are read-only everywhere.                          *)
(***************************************************************************)
EXTENDS Integers, SequencesExt

R(key) == [key |-> key, writable |-> FALSE, signer |-> FALSE]
W(key) == [key |-> key, writable |-> TRUE, signer |-> FALSE]
S(key) == [key |-> key, writable |-> FALSE, signer |-> TRUE]

WellKnown == {"spl_token::id", "system_program", "rent", "clock", "associated_token",
              "token_program_id", "serum_program_id"}

Metas(keys, readonly, signers) ==
    [i \in DOMAIN keys |-> [key |-> keys[i],
                            writable |-> keys[i] \notin readonly \union WellKnown,
                            signer |-> keys[i] \in signers]]

-----------------------------------------------------------------------------
(* amm_instruction.rs                                                      *)
AmmPreInitializeMetas == Metas(
    << "spl_token::id", "system_program", "rent", "amm_target_orders",
       "pool_withdraw_queue", "amm_authority", "lp_mint_address", "coin_mint_address",
       "pc_mint_address", "pool_coin_token_account", "pool_pc_token_account",
       "pool_temp_lp_token_account", "serum_market", "user_wallet" >>,
    {"amm_authority", "coin_mint_address", "pc_mint_address", "serum_market"},
    {"user_wallet"})

AmmInitializeMetas == Metas(
    << "spl_token::id", "system_program", "rent", "amm_id", "amm_authority",
       "amm_open_orders", "lp_mint_address", "coin_mint_address", "pc_mint_address",
       "pool_coin_token_account", "pool_pc_token_account", "pool_withdraw_queue",
       "pool_target_orders_account", "pool_lp_token_account",
       "pool_temp_lp_token_account", "serum_program_id", "serum_market", "user_wallet" >>,
    {"amm_authority", "coin_mint_address", "pc_mint_address", "pool_coin_token_account",
     "pool_pc_token_account", "pool_temp_lp_token_account", "serum_market"},
    {"user_wallet"})

AmmInitialize2Metas == Metas(
    << "spl_token::id", "associated_token", "system_program", "rent", "amm_id",
       "amm_authority", "amm_open_orders", "lp_mint_key", "coin_mint_key", "pc_mint_key",
       "pool_coin_token_account", "pool_pc_token_account", "pool_withdraw_queue",
       "amm_target_orders", "pool_temp_lp_key", "serum_program_id", "serum_market",
       "user_wallet", "user_token_coin", "user_token_pc", "user_lp_token_account" >>,
    {"amm_authority", "coin_mint_key", "pc_mint_key", "serum_market"},
    {"user_wallet"})

MutDepositVaultsExchanged == Metas(
    << "spl_token::id", "amm_id", "amm_authority", "amm_open_orders",
       "amm_target_orders", "lp_mint_address", "pool_pc_token_account",
       "pool_coin_token_account", "serum_market", "user_coin_token_account",
       "user_pc_token_account", "user_lp_token_account", "user_owner",
       "serum_event_queue" >>,
    {"amm_authority", "amm_open_orders", "serum_market", "user_owner", "serum_event_queue"},
    {"user_owner"})

AmmDepositMetas == Metas(
    << "spl_token::id", "amm_id", "amm_authority", "amm_open_orders",
       "amm_target_orders", "lp_mint_address", "pool_coin_token_account",
       "pool_pc_token_account", "serum_market", "user_coin_token_account",
       "user_pc_token_account", "user_lp_token_account", "user_owner",
       "serum_event_queue" >>,
    {"amm_authority", "amm_open_orders", "serum_market", "user_owner", "serum_event_queue"},
    {"user_owner"})

AmmWithdrawMetas == Metas(
    << "spl_token::id", "amm_id", "amm_authority", "amm_open_orders",
       "amm_target_orders", "lp_mint_address", "pool_coin_token_account",
       "pool_pc_token_account", "pool_withdraw_queue", "pool_temp_lp_token_account",
       "serum_program_id", "serum_market", "serum_coin_vault_account",
       "serum_pc_vault_account", "serum_vault_signer", "user_lp_token_account",
       "uer_coin_token_account", "uer_pc_token_account", "user_owner", "serum_event_q",
       "serum_bids", "serum_asks" >>,
    {"amm_authority", "serum_vault_signer", "user_owner"}, {"user_owner"})

SwapBaseInMetas == Metas(
    << "spl_token::id", "amm_id", "amm_authority", "amm_open_orders",
       "amm_target_orders", "pool_coin_token_account", "pool_pc_token_account",
       "serum_program_id", "serum_market", "serum_bids", "serum_asks",
       "serum_event_queue", "serum_coin_vault_account", "serum_pc_vault_account",
       "serum_vault_signer", "uer_source_token_account", "uer_destination_token_account",
       "user_source_owner" >>,
    {"amm_authority", "serum_vault_signer", "user_source_owner"}, {"user_source_owner"})

SwapBaseOutMetas == SwapBaseInMetas

AmmMetas(variant) ==
    CASE variant = "PreInitialize" -> AmmPreInitializeMetas
      [] variant = "Initialize" -> AmmInitializeMetas
      [] variant = "Initialize2" -> AmmInitialize2Metas
      [] variant = "Deposit" -> AmmDepositMetas
      [] variant = "Withdraw" -> AmmWithdrawMetas
      [] variant = "SwapBaseIn" -> SwapBaseInMetas
      [] variant = "SwapBaseOut" -> SwapBaseOutMetas

-----------------------------------------------------------------------------
(* stable_instruction.rs: given are the optional accounts that the caller  *)
(* passes.                                                                 *)
StablePreInitializeMetas == Metas(
    << "spl_token::id", "system_program", "rent", "amm_target_orders", "amm_authority",
       "amm_lp_mint", "amm_coin_mint", "amm_pc_mint", "amm_coin_vault", "amm_pc_vault",
       "serum_market", "user_wallet" >>,
    {"amm_authority", "amm_coin_mint", "amm_pc_mint", "serum_market"}, {"user_wallet"})

StableInitializeMetas(given) == Metas(
    << "spl_token::id", "system_program", "rent", "amm_id", "amm_authority",
       "amm_open_orders", "amm_lp_mint", "amm_coin_mint", "amm_pc_mint",
       "amm_coin_vault", "amm_pc_vault", "amm_target_orders", "model_data_account",
       "serum_program_id", "serum_market", "user_dest_lp_token", "user_wallet" >>
        \o SetToSeq(given \intersect {"srm_token"}),
    {"amm_authority", "amm_coin_mint", "amm_pc_mint", "amm_coin_vault", "amm_pc_vault",
     "model_data_account", "serum_market"},
    {"user_wallet"})

StableDepositMetas == Metas(
    << "spl_token::id", "amm_id", "amm_authority", "amm_open_orders",
       "amm_target_orders", "amm_lp_mint", "amm_coin_vault", "amm_pc_vault",
       "model_data_account", "serum_market", "user_source_coin_token",
       "user_source_pc_token", "user_dest_lp_token", "user_owner" >>,
    {"amm_authority", "amm_open_orders", "model_data_account", "serum_market",
     "user_owner"},
    {"user_owner"})

SerumBook == << "serum_event_q", "serum_bids", "serum_asks" >>

MutSerumBookInParts(given) == SelectSeq(SerumBook, LAMBDA key : key \in given)

(* The three accounts of the order book are added together, or silently    *)
(* not at all.                                                             *)
SerumBookIfWhole(given) ==
    IF Range(SerumBook) \subseteq given THEN SerumBook ELSE << >>

StableWithdrawMetas(given) == Metas(
    << "spl_token::id", "amm_id", "amm_authority", "amm_open_orders",
       "amm_target_orders", "amm_lp_mint", "amm_coin_vault", "amm_pc_vault",
       "model_data_account", "serum_program_id", "serum_market", "serum_coin_vault",
       "serum_pc_vault", "serum_vault_signer", "user_source_lp_token",
       "user_dest_coin_token", "user_dest_pc_token", "user_owner" >>
        \o SetToSeq(given \intersect {"referrer_pc_account"}) \o SerumBookIfWhole(given),
    {"amm_authority", "model_data_account", "serum_vault_signer", "user_owner"},
    {"user_owner"})

StableSwapBaseInMetas == Metas(
    << "spl_token::id", "amm_id", "amm_authority", "amm_open_orders", "amm_coin_vault",
       "amm_pc_vault", "model_data_account", "serum_program_id", "serum_market",
       "serum_bids", "serum_asks", "serum_event_queue", "serum_coin_vault",
       "serum_pc_vault", "serum_vault_signer", "user_source_token",
       "user_destination_token", "user_source_owner" >>,
    {"amm_authority", "model_data_account", "serum_vault_signer", "user_source_owner"},
    {"user_source_owner"})

StableSwapBaseOutMetas == StableSwapBaseInMetas

StableMetas(variant, given) ==
    CASE variant = "PreInitialize" -> StablePreInitializeMetas
      [] variant = "Initialize" -> StableInitializeMetas(given)
      [] variant = "Deposit" -> StableDepositMetas
      [] variant = "Withdraw" -> StableWithdrawMetas(given)
      [] variant = "SwapBaseIn" -> StableSwapBaseInMetas
      [] variant = "SwapBaseOut" -> StableSwapBaseOutMetas

-----------------------------------------------------------------------------
(* farm_instruction.rs                                                     *)
FarmInitializeMetas(given) == Metas(
    << "owner", "stake_pool", "authority", "lp_vault", "reward_vault_a", "clock" >>
        \o SelectSeq(<< "reward_vault_b", "admin_authority" >>, LAMBDA key : key \in given),
    {"owner", "authority", "lp_vault", "reward_vault_a", "reward_vault_b",
     "admin_authority"},
    {"owner", "stake_pool"})

(* The accounts of the second reward follow when dest_reward_token_b is    *)
(* given; vault_reward_token_b alone is ignored.                           *)
RewardB(given) ==
    IF "dest_reward_token_b" \in given THEN << "dest_reward_token_b", "vault_reward_token_b" >>
    ELSE << >>

FarmDepositMetas(given) == Metas(
    << "stake_pool", "pool_authority", "staker_info", "staker_owner", "src_lp_token",
       "vault_lp_token", "dest_reward_token_a", "vault_reward_token_a", "clock",
       "token_program_id" >> \o RewardB(given),
    {"pool_authority", "staker_owner"}, {"staker_owner"})

FarmDepositV2Metas(given) == Metas(
    << "stake_pool", "pool_authority", "staker_info", "staker_owner", "src_lp_token",
       "vault_lp_token", "dest_reward_token_a", "vault_reward_token_a", "clock",
       "token_program_id", "dest_reward_token_b", "vault_reward_token_b" >>
        \o SetToSeq(given \intersect {"staker_info_v1"}),
    {"pool_authority", "staker_owner"}, {"staker_owner", "staker_info_v1"})

MutFarmWithdrawPaysVaultFirst(given) == Metas(
    << "stake_pool", "pool_authority", "staker_info", "staker_owner", "dest_lp_token",
       "vault_lp_token", "vault_reward_token_a", "dest_reward_token_a", "clock",
       "token_program_id" >> \o RewardB(given),
    {"pool_authority", "staker_owner"}, {"staker_owner"})

FarmWithdrawMetas(given) == Metas(
    << "stake_pool", "pool_authority", "staker_info", "staker_owner", "dest_lp_token",
       "vault_lp_token", "dest_reward_token_a", "vault_reward_token_a", "clock",
       "token_program_id" >> \o RewardB(given),
    {"pool_authority", "staker_owner"}, {"staker_owner"})

FarmWithdrawV2Metas(given) == FarmWithdrawMetas(given)

FarmEmergencyWithdrawMetas == Metas(
    << "stake_pool", "pool_authority", "staker_info", "staker_owner", "dest_lp_token",
       "vault_lp_token", "token_program_id" >>,
    {"pool_authority", "staker_owner"}, {"staker_owner"})

FarmUpdatePoolMetas == << W("stake_pool"), W("vault_lp_token"), R("clock") >>

FarmCreateAssociatedAccountMetas ==
    << W("stake_pool"), W("associated_user_stake_info"), S("owner"), R("system_program"),
       R("rent") >>

FarmMetas(variant, given) ==
    CASE variant = "Initialize" -> FarmInitializeMetas(given)
      [] variant = "Deposit" -> FarmDepositMetas(given)
      [] variant = "Withdraw" -> FarmWithdrawMetas(given)
      [] variant = "DepositV2" -> FarmDepositV2Metas(given)
      [] variant = "WithdrawV2" -> FarmWithdrawV2Metas(given)
      [] variant = "EmergencyWithdraw" -> FarmEmergencyWithdrawMetas
      [] variant = "UpdatePool" -> FarmUpdatePoolMetas
      [] variant = "CreateAssociatedAccount" -> FarmCreateAssociatedAccountMetas

(* unwrap on the vault that does not come with its destination.            *)
BuildPanics(program, variant, given) ==
    /\ program = "farm" /\ variant \in {"Deposit", "Withdraw", "WithdrawV2"}
    /\ "dest_reward_token_b" \in given /\ "vault_reward_token_b" \notin given

Options(program, variant) ==
    CASE program = "stable" /\ variant = "Initialize" -> {"srm_token"}
      [] program = "stable" /\ variant = "Withdraw" ->
            Range(SerumBook) \union {"referrer_pc_account"}
      [] program = "farm" /\ variant = "Initialize" -> {"reward_vault_b", "admin_authority"}
      [] program = "farm" /\ variant \in {"Deposit", "Withdraw", "WithdrawV2"} ->
            {"dest_reward_token_b", "vault_reward_token_b"}
      [] program = "farm" /\ variant = "DepositV2" -> {"staker_info_v1"}
      [] OTHER -> {}

(* The choices of optional accounts for which the builder returns.         *)
Given(program, variant) ==
    {given \in SUBSET Options(program, variant) : ~BuildPanics(program, variant, given)}

-----------------------------------------------------------------------------
(* staking_instruction.rs: no builders for the variants V2.                *)
StakeInitializeMetas == Metas(
    << "stake_pool", "authority", "lp_vault", "reward_vault", "clock" >>,
    {"authority", "lp_vault", "reward_vault"}, {"stake_pool"})

StakeDepositMetas == Metas(
    << "stake_pool", "pool_authority", "staker_info", "staker_owner", "src_lp_token",
       "vault_lp_token", "dest_reward_token", "vault_reward_token", "clock",
       "token_program_id" >>,
    {"pool_authority", "staker_owner"}, {"staker_owner"})

StakeWithdrawMetas == Metas(
    << "stake_pool", "pool_authority", "staker_info", "staker_owner", "dest_lp_token",
       "vault_lp_token", "dest_reward_token", "vault_reward_token", "clock",
       "token_program_id" >>,
    {"pool_authority", "staker_owner"}, {"staker_owner"})

StakeEmergencyWithdrawMetas == Metas(
    << "stake_pool", "pool_authority", "staker_info", "staker_owner", "dest_lp_token",
       "vault_lp_token", "token_program_id" >>,
    {"pool_authority", "staker_owner"}, {"staker_owner"})

StakeUpdatePoolMetas == << W("stake_pool"), W("vault_lp_token"), R("clock") >>

StakeCreateAssociatedAccountMetas ==
    << W("stake_pool"), W("associated_user_stake_info"), S("owner"), R("system_program"),
       R("rent") >>

StakeMetas(variant) ==
    CASE variant = "Initialize" -> StakeInitializeMetas
      [] variant = "Deposit" -> StakeDepositMetas
      [] variant = "Withdraw" -> StakeWithdrawMetas
      [] variant = "EmergencyWithdraw" -> StakeEmergencyWithdrawMetas
      [] variant = "UpdatePool" -> StakeUpdatePoolMetas
      [] variant = "CreateAssociatedAccount" -> StakeCreateAssociatedAccountMetas
      [] OTHER -> << >>
-----------------------------------------------------------------------------
(* route_instruction.rs, the one-step routes: the accounts of the pool and *)
(* its market, the same in all four but for the model data of a stable one.*)
RouteMarket(model_data) ==
    << "amm_authority", "amm_open_orders", "amm_coin_vault", "amm_pc_vault" >>
        \o model_data \o
    << "serum_program_id", "serum_market", "serum_bids", "serum_asks",
       "serum_event_queue", "serum_coin_vault_account", "serum_pc_vault_account",
       "serum_vault_signer" >>

MutMinOutWritesFromAmm(model_data) == Metas(
    << "spl_token::id", "route_to_amm_program_id", "route_from_amm_id",
       "route_to_amm_id" >> \o RouteMarket(model_data) \o
    << "uer_route_token_account", "uer_destination_token_account", "user_pda_account",
       "user_source_owner" >>,
    {"route_to_amm_program_id", "route_to_amm_id", "amm_authority", "model_data_account",
     "serum_vault_signer", "user_source_owner"},
    {"user_source_owner"})

RouteInMetas(model_data) == Metas(
    << "system_program", "spl_token::id", "route_from_amm_program_id",
       "route_from_amm_id", "route_to_amm_id" >> \o RouteMarket(model_data) \o
    << "uer_source_token_account", "uer_route_token_account", "user_pda_account",
       "user_source_owner" >>,
    {"route_from_amm_program_id", "route_to_amm_id", "amm_authority",
     "model_data_account", "serum_vault_signer", "user_source_owner"},
    {"user_source_owner"})

RouteOutMetas(model_data) == Metas(
    << "spl_token::id", "route_to_amm_program_id", "route_from_amm_id",
       "route_to_amm_id" >> \o RouteMarket(model_data) \o
    << "uer_route_token_account", "uer_destination_token_account", "user_pda_account",
       "user_source_owner" >>,
    {"route_to_amm_program_id", "route_from_amm_id", "amm_authority",
     "model_data_account", "serum_vault_signer", "user_source_owner"},
    {"user_source_owner"})

RouteSwapInOneStep == RouteInMetas(<< >>)
RouteSwapMinOutOneStep == RouteOutMetas(<< >>)
RouteStableSwapInOneStep == RouteInMetas(<< "model_data_account" >>)
RouteStableSwapMinOutOneStep == RouteOutMetas(<< "model_data_account" >>)

RouteMetas(variant) ==
    CASE variant = "RouteSwapIn" -> RouteSwapInOneStep
      [] variant = "RouteSwapMinOut" -> RouteSwapMinOutOneStep
      [] variant = "RouteStableSwapIn" -> RouteStableSwapInOneStep
      [] variant = "RouteStableSwapMinOut" -> RouteStableSwapMinOutOneStep
=============================================================================
