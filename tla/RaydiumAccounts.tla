--------------------------- MODULE RaydiumAccounts ---------------------------
(***************************************************************************)
(* The account lists of the instructions for the Raydium programs.  Every  *)
(* account is a Pubkey, so the compiler does not notice two that trade     *)
(* places, and the program called knows them by their position only.       *)
(*                                                                         *)
(* The swap of compound_reward passes three hands: the handler fills a     *)
(* SwapBaseIn, amm-anchor passes its fields as arguments, and the builder  *)
(* of lib puts its parameters in a list.                                   *)
(***************************************************************************)
EXTENDS RaydiumBuilders

(* amm_instruction.rs: the parameters of the builders, in order.           *)
PreInitializeParameters ==
    << "amm_target_orders", "pool_withdraw_queue", "amm_authority", "lp_mint_address",
       "coin_mint_address", "pc_mint_address", "pool_coin_token_account",
       "pool_pc_token_account", "pool_temp_lp_token_account", "serum_market",
       "user_wallet" >>

InitializeParameters ==
    << "amm_id", "amm_authority", "amm_open_orders", "lp_mint_address",
       "coin_mint_address", "pc_mint_address", "pool_coin_token_account",
       "pool_pc_token_account", "pool_withdraw_queue", "pool_target_orders_account",
       "pool_lp_token_account", "pool_temp_lp_token_account", "serum_program_id",
       "serum_market", "user_wallet" >>

DepositParameters ==
    << "amm_id", "amm_authority", "amm_open_orders", "amm_target_orders",
       "lp_mint_address", "pool_coin_token_account", "pool_pc_token_account",
       "serum_market", "serum_event_queue", "user_coin_token_account",
       "user_pc_token_account", "user_lp_token_account", "user_owner" >>

WithdrawParameters ==
    << "amm_id", "amm_authority", "amm_open_orders", "amm_target_orders",
       "lp_mint_address", "pool_coin_token_account", "pool_pc_token_account",
       "pool_withdraw_queue", "pool_temp_lp_token_account", "serum_program_id",
       "serum_market", "serum_coin_vault_account", "serum_pc_vault_account",
       "serum_vault_signer", "user_lp_token_account", "uer_coin_token_account",
       "uer_pc_token_account", "user_owner", "serum_event_q", "serum_bids",
       "serum_asks" >>

SwapBaseInParameters ==
    << "amm_id", "amm_authority", "amm_open_orders", "amm_target_orders",
       "pool_coin_token_account", "pool_pc_token_account",
       "serum_program_id", "serum_market", "serum_bids", "serum_asks",
       "serum_event_queue", "serum_coin_vault_account",
       "serum_pc_vault_account", "serum_vault_signer",
       "uer_source_token_account", "uer_destination_token_account",
       "user_source_owner" >>

SwapBaseOutParameters == SwapBaseInParameters

-----------------------------------------------------------------------------
(* amm_anchor: the fields that each wrapper passes, in argument order.     *)
AnchorPreInitialize ==
    << "amm_target_orders", "pool_withdraw_queue", "amm_authority", "lp_mint",
       "coin_mint", "pc_mint", "pool_coin_token_account", "pool_pc_token_account",
       "pool_temp_lp_token_account", "serum_market", "user_wallet" >>

AnchorInitialize ==
    << "amm", "amm_authority", "amm_open_orders", "lp_mint", "coin_mint", "pc_mint",
       "pool_coin_token_account", "pool_pc_token_account", "pool_withdraw_queue",
       "pool_target_orders_account", "pool_lp_token_account",
       "pool_temp_lp_token_account", "serum_program", "serum_market", "user_wallet" >>

AnchorDeposit ==
    << "amm", "amm_authority", "amm_open_orders", "amm_target_orders", "lp_mint",
       "pool_coin_token_account", "pool_pc_token_account", "serum_market",
       "serum_event_queue", "user_coin_token_account", "user_pc_token_account",
       "user_lp_token_account", "user_owner" >>

MutWithdrawTempLpFirst ==
    << "amm", "amm_authority", "amm_open_orders", "amm_target_orders", "lp_mint",
       "pool_coin_token_account", "pool_pc_token_account", "pool_temp_lp_token_account",
       "pool_withdraw_queue", "serum_program", "serum_market",
       "serum_coin_vault_account", "serum_pc_vault_account", "serum_vault_signer",
       "user_lp_token_account", "user_coin_token_account", "user_pc_token_account",
       "user_owner", "serum_event_q", "serum_bids", "serum_asks" >>

AnchorWithdraw ==
    << "amm", "amm_authority", "amm_open_orders", "amm_target_orders", "lp_mint",
       "pool_coin_token_account", "pool_pc_token_account", "pool_withdraw_queue",
       "pool_temp_lp_token_account", "serum_program", "serum_market",
       "serum_coin_vault_account", "serum_pc_vault_account", "serum_vault_signer",
       "user_lp_token_account", "user_coin_token_account", "user_pc_token_account",
       "user_owner", "serum_event_q", "serum_bids", "serum_asks" >>

MutAnchorArgumentsSwapped ==
    << "amm", "amm_authority", "amm_open_orders", "amm_target_orders",
       "pool_coin_token_account", "pool_pc_token_account",
       "serum_program", "serum_market", "serum_bids", "serum_asks",
       "serum_event_queue", "serum_coin_vault_account",
       "serum_pc_vault_account", "serum_vault_signer",
       "user_destination_token_account", "user_source_token_account",
       "user_source_owner" >>

AnchorSwapBaseIn ==
    << "amm", "amm_authority", "amm_open_orders", "amm_target_orders",
       "pool_coin_token_account", "pool_pc_token_account",
       "serum_program", "serum_market", "serum_bids", "serum_asks",
       "serum_event_queue", "serum_coin_vault_account",
       "serum_pc_vault_account", "serum_vault_signer",
       "user_source_token_account", "user_destination_token_account",
       "user_source_owner" >>

AnchorSwapBaseOut == AnchorSwapBaseIn

(* The variants that amm_anchor wraps: all but Initialize2.                *)
Wrappers ==
    [PreInitialize |-> AnchorPreInitialize, Initialize |-> AnchorInitialize,
     Deposit |-> AnchorDeposit, Withdraw |-> AnchorWithdraw,
     SwapBaseIn |-> AnchorSwapBaseIn, SwapBaseOut |-> AnchorSwapBaseOut]

Parameters ==
    [PreInitialize |-> PreInitializeParameters, Initialize |-> InitializeParameters,
     Deposit |-> DepositParameters, Withdraw |-> WithdrawParameters,
     SwapBaseIn |-> SwapBaseInParameters, SwapBaseOut |-> SwapBaseOutParameters]

(* The list that a wrapper invokes: each parameter of the builder stands   *)
(* for the field at its place among the arguments.                         *)
WrapperMetas(variant) ==
    LET fields == [p \in Range(Parameters[variant]) |->
                      Wrappers[variant][CHOOSE i \in DOMAIN Parameters[variant] :
                                            Parameters[variant][i] = p]]
        Field(key) == IF key \in DOMAIN fields THEN fields[key] ELSE key
    IN  [i \in DOMAIN AmmMetas(variant) |-> [AmmMetas(variant)[i] EXCEPT !.key = Field(@)]]

(* compound_reward: the account it gives to each field of SwapBaseIn that  *)
(* does not get the account of its own name.                               *)
CompoundAccount(field) ==
    CASE field = "user_source_token_account" -> "pool_reward_token_vault"
      [] field = "user_destination_token_account" -> "pool_stake_token_vault"
      [] field = "user_source_owner" -> "admin"
      [] OTHER -> field

(* The list of the swap that compound_reward invokes.                      *)
CompoundSwapMetas ==
    [i \in DOMAIN SwapBaseInMetas |->
        [WrapperMetas("SwapBaseIn")[i] EXCEPT !.key = CompoundAccount(@)]]

MutCompoundMutNoEventQueue ==
    {"user", "admin", "treasury", "pool_state_account", "user_info",
     "pool_stake_token_vault", "pool_reward_token_vault", "amm", "amm_open_orders",
     "amm_target_orders", "pool_coin_token_account", "pool_pc_token_account",
     "serum_market", "serum_bids", "serum_asks", "serum_coin_vault_account",
     "serum_pc_vault_account", "serum_vault_signer"}

(* The accounts that CompoundReward declares mut, and its signers.         *)
CompoundMut ==
    {"user", "admin", "treasury", "pool_state_account", "user_info",
     "pool_stake_token_vault", "pool_reward_token_vault", "amm", "amm_open_orders",
     "amm_target_orders", "pool_coin_token_account", "pool_pc_token_account",
     "serum_market", "serum_bids", "serum_asks", "serum_event_queue",
     "serum_coin_vault_account", "serum_pc_vault_account", "serum_vault_signer"}

CompoundSigners == {"user", "admin"}

-----------------------------------------------------------------------------
(* The accounts a client gives to route_swap_base_in_in and to             *)
(* route_swap_base_in_min_out for a pool of each program, in the order     *)
(* that the comments of the two functions list them.                       *)
Remaining(pool_program) ==
    CASE pool_program = "amm_program" ->
            << "amm_authority", "serum_program_id", "serum_vault_signer",
               "amm_open_orders", "amm_coin_vault", "amm_pc_vault", "serum_market",
               "serum_bids", "serum_asks", "serum_event_queue",
               "serum_coin_vault", "serum_pc_vault" >>
      [] pool_program = "stable_program" ->
            << "amm_authority", "serum_program_id", "serum_vault_signer",
               "model_data_account", "amm_open_orders", "amm_coin_vault",
               "amm_pc_vault", "serum_market", "serum_bids", "serum_asks",
               "serum_event_queue", "serum_coin_vault", "serum_pc_vault" >>
      [] pool_program = "amm_v3_program" ->
            << "amm_config", "pool_state", "input_vault", "output_vault",
               "observation_state", "cur_or_next_tick_array",
               "next_tick_array", "next_next_tick_array" >>

(* Where the two functions split the remaining accounts: by program_id,    *)
(* the program that the instruction is for.                                *)
SplitAt(program_id) ==
    CASE program_id = "amm_program" -> 3
      [] program_id = "stable_program" -> 4
      [] OTHER -> 1

RemainingMetas(program_id, remaining) ==
    [i \in DOMAIN remaining |->
        IF i <= SplitAt(program_id) THEN R(remaining[i]) ELSE W(remaining[i])]

RouteSwapInMetas(program_id, pool_program, remaining) ==
    << R("system_program"), R("spl_token::id"), R(pool_program), W("from_amm_id"),
       W("to_amm_id"), W("user_source_token"), W("user_route_token"),
       W("user_pda_account"), S("user_source_owner") >>
        \o RemainingMetas(program_id, remaining)

RouteMinOutMetas(program_id, pool_program, remaining) ==
    << R("system_program"), R("spl_token::id"), R(pool_program), W("to_amm_id"),
       W("from_amm_id"), W("user_route_token"), W("user_destination_token"),
       W("user_pda_account"), S("user_source_owner") >>
        \o RemainingMetas(program_id, remaining)
=============================================================================
