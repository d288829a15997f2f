---------------------------- MODULE RaydiumClient ----------------------------
(***************************************************************************)
(* An instruction for a Raydium program on its way: a client builds it     *)
(* with the functions of the crate lib, and a program unpacks whatever     *)
(* data arrives under its id.  The data may have lost its end, may be      *)
(* longer than what was packed, or may be sent to a sibling program: the   *)
(* checks in unpack are there for data that pack did not write for it.     *)
(***************************************************************************)
EXTENDS RaydiumInstructions, RaydiumAccounts

CONSTANTS
    Programs,       \* the instruction families: amm, stable, route, farm, staking
    Words, Bytes,   \* the u64 and u8 values that fields take: bounds
    MaxExtra        \* how many bytes may follow the packed ones: a bound

(* The families; u8 and u64, whatever the number of values of a byte.      *)
ASSUME ClientAssumption ==
    /\ Programs \subseteq {"amm", "stable", "route", "farm", "staking"}
    /\ Words \subseteq 0..Values(8) - 1
    /\ Bytes \subseteq 0..Values(1) - 1
    /\ MaxExtra \in Nat

PoolPrograms == {"amm_program", "stable_program", "amm_v3_program"}

VARIABLES
    program, message,   \* what the client meant
    accounts,           \* the account list of the instruction
    receiver, data      \* what arrives, and where

vars == << program, message, accounts, receiver, data >>

FieldValues(widths) ==
    {fields \in [1..Len(widths) -> Words \union Bytes] :
        \A i \in 1..Len(widths) : fields[i] \in (IF widths[i] = 1 THEN Bytes ELSE Words)}

Messages(p) ==
    {[variant |-> "Reserved", fields |-> << >>]} \union
    UNION {{[variant |-> v, fields |-> f] : f \in FieldValues(Packed(p)[v].widths)} :
                v \in DOMAIN Packed(p)}

(* A client of the amm goes through amm_anchor where it wraps the variant; *)
(* its SwapBaseIn is the one that compound_reward sends.                   *)
AmmAccounts(variant) ==
    CASE variant = "SwapBaseIn" -> CompoundSwapMetas
      [] variant = "Initialize2" -> AmmMetas(variant)
      [] OTHER -> WrapperMetas(variant)

RouteAccounts(variant, pool_program) ==
    CASE variant = "RouteSwapBaseInIn" ->
            RouteSwapInMetas("route_program", pool_program, Remaining(pool_program))
      [] variant = "RouteSwapBaseInMinOut" ->
            RouteMinOutMetas("route_program", pool_program, Remaining(pool_program))
      [] OTHER -> RouteMetas(variant)

BuiltAccounts(p, variant, given, pool_program) ==
    IF variant = "Reserved" THEN << >>
    ELSE CASE p = "amm" -> AmmAccounts(variant)
           [] p = "stable" -> StableMetas(variant, given)
           [] p = "route" -> RouteAccounts(variant, pool_program)
           [] p = "farm" -> FarmMetas(variant, given)
           [] p = "staking" -> StakeMetas(variant)

Init ==
    \E p \in Programs : \E m \in Messages(p), pool_program \in PoolPrograms :
        \E given \in Given(p, m.variant) :
            /\ CanPack(p, m)
            /\ program = p /\ receiver = p /\ message = m
            /\ accounts = BuiltAccounts(p, m.variant, given, pool_program)
            /\ data = Pack(p, m)

Packing == Pack(program, message)

Truncate ==
    /\ 0 < Len(data) /\ Len(data) <= Len(Packing)
    /\ data' = Front(data)
    /\ UNCHANGED << program, message, accounts, receiver >>

Extend(byte) ==
    /\ Len(Packing) <= Len(data) /\ Len(data) < Len(Packing) + MaxExtra
    /\ data' = Append(data, byte)
    /\ UNCHANGED << program, message, accounts, receiver >>

(* stable_instruction.rs was made from amm_instruction.rs, and             *)
(* farm_instruction.rs from staking_instruction.rs.                        *)
Siblings == {{"amm", "stable"}, {"farm", "staking"}}

SendToSibling(p) ==
    /\ receiver = program /\ {program, p} \in Siblings
    /\ receiver' = p
    /\ UNCHANGED << program, message, accounts, data >>

Next ==
    \/ Truncate
    \/ \E byte \in Bytes : Extend(byte)
    \/ \E p \in Programs : SendToSibling(p)

Spec == Init /\ [][Next]_vars

-----------------------------------------------------------------------------
(* A program reads the message that was packed for it exactly when all the *)
(* bytes of the fields have arrived, whatever follows them, and otherwise  *)
(* refuses the data: no truncation is read as another message, or as the   *)
(* same one with other amounts.  A reserved variant is never delivered:    *)
(* the amm packs it as an empty buffer.  (What follows an empty buffer is  *)
(* not this instruction with something behind it, and is left out.)        *)
IntactOrRefused ==
    receiver = program /\ (Packing = << >> => data = << >>) =>
        Unpack(receiver, data) =
            IF /\ message.variant \in DOMAIN Packed(program)
               /\ Len(data) > TotalWidth(Packed(program)[message.variant].widths)
            THEN message ELSE Refused

(* What a sibling program takes an instruction for, if it does not refuse  *)
(* it.  The tags that the farm gives to the associated account and to the  *)
(* V2 instructions are one higher than those of the staking program.       *)
SiblingReadsAs(p, variant) ==
    CASE p = "farm" /\ variant = "CreateAssociatedAccount" -> "DepositV2"
      [] p = "farm" /\ variant = "DepositV2" -> "WithdrawV2"
      [] p = "staking" /\ variant = "DepositV2" -> "CreateAssociatedAccount"
      [] p = "staking" /\ variant = "WithdrawV2" -> "DepositV2"
      [] OTHER -> variant

(* The tables of two sibling programs are kept by hand, and the checks of  *)
(* unpack cannot see for whom data was packed.  An instruction is refused  *)
(* by the sibling or read as the one of its own name, but for the four of  *)
(* SiblingReadsAs: with those a deposit becomes a withdrawal.  Whatever it *)
(* is read as, cut or with bytes behind it, the amounts are those that     *)
(* were packed, field by field, and one that carries no amount is read     *)
(* with the amount zero.                                                   *)
SiblingReadings ==
    receiver # program /\ (Packing = << >> => data = << >>) =>
        LET read == Unpack(receiver, data)
        IN  read # Refused =>
                /\ read.variant = SiblingReadsAs(program, message.variant)
                /\ \A i \in DOMAIN read.fields \intersect DOMAIN message.fields :
                        read.fields[i] = message.fields[i]
                /\ message.fields = << >> =>
                        \A i \in DOMAIN read.fields : read.fields[i] = 0

(* amm_instruction.rs:174-191: the accounts that the swap program expects, *)
(* by position.  The compounded rewards leave the reward vault of the pool *)
(* and arrive in its stake vault, by authority of the admin.               *)
ExpectedSwapAccounts ==
    << R("spl_token::id"), W("amm"), R("amm_authority"), W("amm_open_orders"),
       W("amm_target_orders"), W("pool_coin_token_account"),
       W("pool_pc_token_account"), R("serum_program"), W("serum_market"),
       W("serum_bids"), W("serum_asks"), W("serum_event_queue"),
       W("serum_coin_vault_account"), W("serum_pc_vault_account"),
       R("serum_vault_signer"), W("pool_reward_token_vault"),
       W("pool_stake_token_vault"), S("admin") >>

(* Seventeen keys of one type pass through a struct, an argument list and  *)
(* an account list: each ends at the position where the swap program looks *)
(* for it, with the rights it needs.                                       *)
SwapAccountsInPlace ==
    program = "amm" /\ message.variant = "SwapBaseIn" => accounts = ExpectedSwapAccounts

(* The renamings between the fields of amm_anchor and the parameters of    *)
(* the builders.                                                           *)
FieldOf(parameter) ==
    CASE parameter = "amm_id" -> "amm"
      [] parameter = "lp_mint_address" -> "lp_mint"
      [] parameter = "coin_mint_address" -> "coin_mint"
      [] parameter = "pc_mint_address" -> "pc_mint"
      [] parameter = "serum_program_id" -> "serum_program"
      [] parameter = "uer_coin_token_account" -> "user_coin_token_account"
      [] parameter = "uer_pc_token_account" -> "user_pc_token_account"
      [] parameter = "uer_source_token_account" -> "user_source_token_account"
      [] parameter = "uer_destination_token_account" -> "user_destination_token_account"
      [] OTHER -> parameter

(* The wrappers of amm_anchor pass up to twenty-one keys of one type by    *)
(* position: every field ends where the builder puts the account that the  *)
(* field is named for.  The swap of compound_reward has its own property.  *)
WrappersInPlace ==
    program = "amm" /\ message.variant \in DOMAIN Wrappers \ {"SwapBaseIn"} =>
        accounts = [i \in DOMAIN accounts |->
                        [AmmMetas(message.variant)[i] EXCEPT !.key = FieldOf(@)]]

(* A cross-program call may ask for no right that the caller does not      *)
(* have: what the list of the compound swap wants to write or to have      *)
(* signed, the accounts struct of compound_reward declares mut or Signer.  *)
SwapRightsDeclared ==
    program = "amm" /\ message.variant = "SwapBaseIn" =>
        \A i \in DOMAIN accounts :
            /\ accounts[i].writable => accounts[i].key \in CompoundMut
            /\ accounts[i].signer => accounts[i].key \in CompoundSigners

(* The accounts of a deposit, a withdrawal and a swap by the comments of   *)
(* AmmInstruction (amm_instruction.rs:124-216), by position.               *)
DocumentedDeposit ==
    << R("spl_token::id"), W("amm"), R("amm_authority"), R("amm_open_orders"),
       W("amm_target_orders"), W("lp_mint"), W("pool_coin_token_account"),
       W("pool_pc_token_account"), R("serum_market"), W("user_coin_token_account"),
       W("user_pc_token_account"), W("user_lp_token_account"), S("user_owner") >>

DocumentedWithdraw ==
    << R("spl_token::id"), W("amm"), R("amm_authority"), W("amm_open_orders"),
       W("amm_target_orders"), W("lp_mint"), W("pool_coin_token_account"),
       W("pool_pc_token_account"), W("pool_withdraw_queue"),
       W("pool_temp_lp_token_account"), R("serum_program"), W("serum_market"),
       W("serum_coin_vault_account"), W("serum_pc_vault_account"),
       R("serum_vault_signer"), W("user_lp_token_account"),
       W("user_coin_token_account"), W("user_pc_token_account"), S("user_owner") >>

DocumentedSwapBaseOut ==
    << R("spl_token::id"), W("amm"), R("amm_authority"), W("amm_open_orders"),
       W("amm_target_orders"), W("pool_coin_token_account"),
       W("pool_pc_token_account"), R("serum_program"), W("serum_market"),
       W("serum_bids"), W("serum_asks"), W("serum_event_queue"),
       W("serum_coin_vault_account"), W("serum_pc_vault_account"),
       R("serum_vault_signer"), W("user_source_token_account"),
       W("user_destination_token_account"), S("user_source_owner") >>

Documented == [Deposit |-> DocumentedDeposit, Withdraw |-> DocumentedWithdraw,
               SwapBaseOut |-> DocumentedSwapBaseOut]

(* The accounts that the wrappers send for a deposit, a withdrawal and a   *)
(* swap start with those that the comments list, each key at its place and *)
(* with the rights given there: the program finds the user's signature and *)
(* each of its vaults where it looks, whatever was added behind.  The      *)
(* comments of Initialize and Initialize2 (amm_instruction.rs:86-119) are  *)
(* left out: the builders disagree with them.  The comment of Initialize   *)
(* has the amm sign at the second place; the builder lists it fourth and   *)
(* unsigned, behind two accounts that the comment does not have.           *)
ListedAsDocumented ==
    program = "amm" /\ message.variant \in DOMAIN Documented =>
        LET documented == Documented[message.variant]
        IN  /\ Len(accounts) >= Len(documented)
            /\ \A i \in DOMAIN documented : accounts[i] = documented[i]

(* Optional accounts are appended without a marker, and the program called *)
(* can only count: two choices of them that give lists of one length give  *)
(* the same list.  The initialize of the farm does not keep this: only a   *)
(* second reward vault and only an admin authority both give seven.        *)
OptionsReadable ==
    program \in {"stable", "farm"} /\ ~(program = "farm" /\ message.variant = "Initialize") =>
        \A given \in Given(program, message.variant) :
            LET other == BuiltAccounts(program, message.variant, given, "amm_program")
            IN  Len(other) = Len(accounts) => other = accounts

(* The part that an account of the farm plays in the staking program.      *)
Role(meta) ==
    [meta EXCEPT !.key =
        CASE @ = "dest_reward_token_a" -> "dest_reward_token"
          [] @ = "vault_reward_token_a" -> "vault_reward_token"
          [] OTHER -> @]

(* The instructions of the farm and of the staking program that keep tag,  *)
(* name and fields in both tables.                                         *)
ReadAlike == {"Deposit", "Withdraw", "UpdatePool", "EmergencyWithdraw"}

(* The lists of the farm and of the staking program are kept by hand, like *)
(* their tables: an instruction that both read the same way has the same   *)
(* accounts at the same places in both, up to those of a second reward.    *)
SiblingAccountsAgree ==
    receiver # program /\ program \in {"farm", "staking"}
        /\ message.variant \in ReadAlike =>
            LET expected == BuiltAccounts(receiver, message.variant, {}, "amm_program")
                n == Len(expected)
            IN  /\ Len(accounts) >= n
                /\ \A i \in 1..n : Role(accounts[i]) = Role(expected[i])

OtherLeg == [RouteSwapIn |-> "RouteSwapMinOut", RouteStableSwapIn |-> "RouteStableSwapMinOut"]

(* The two legs of a one-step route go in one transaction.  Each writes    *)
(* the pool it trades in and not the other, and for every other account    *)
(* they share, the route token account above all, they ask the same.       *)
RouteLegsAgree ==
    message.variant \in DOMAIN OtherLeg =>
        LET second == RouteMetas(OtherLeg[message.variant])
        IN  \A i \in DOMAIN accounts, j \in DOMAIN second :
                accounts[i].key = second[j].key =>
                    IF accounts[i].key \in {"route_from_amm_id", "route_to_amm_id"}
                    THEN /\ accounts[i].writable <=> accounts[i].key = "route_from_amm_id"
                         /\ second[j].writable <=> accounts[i].key = "route_to_amm_id"
                    ELSE accounts[i] = second[j]

(* route_instruction.rs:425-460: of the remaining accounts, the first are  *)
(* read-only and the rest are writable: three of them for an amm pool,     *)
(* four for a stable pool, one for an amm_v3 pool.                         *)
ReadOnly(pool_program) ==
    CASE pool_program = "amm_program" ->
            {"amm_authority", "serum_program_id", "serum_vault_signer"}
      [] pool_program = "stable_program" ->
            {"amm_authority", "serum_program_id", "serum_vault_signer", "model_data_account"}
      [] pool_program = "amm_v3_program" -> {"amm_config"}

(* A route through a pool asks for write access to the accounts that the   *)
(* comments of the two functions mark [writable], and to no other.         *)
RouteFlagsAsDocumented ==
    message.variant \in {"RouteSwapBaseInIn", "RouteSwapBaseInMinOut"} =>
        \A i \in 10..Len(accounts) :
            accounts[i].writable <=> accounts[i].key \notin ReadOnly(accounts[3].key)
=============================================================================
