# A TLA+ verification of the staking pool deployer

The repository is an Anchor program for Solana, `staking-on-solana`, that
deploys staking pools: a creator funds a pool with reward tokens, stakers
deposit stake tokens, and the funding is paid out slot by slot in proportion to
the stakes. Beside it are two support crates: `lib`, which builds the
instructions of the Raydium programs, and `amm-anchor`, which wraps those of the
amm; `compound_reward` swaps through one of them.

This directory models these parts in TLA+, checks them with TLC and proves the
central invariants with TLAPS.

## The system

| component | source (`src/...`) | state | operations |
|---|---|---|---|
| platform | `instructions/initialize.rs`, `state/platform_info.rs` | `PlatformInfo`: two fees | `initialize`, again and again (`init_if_needed`) |
| pool lifecycle | `create_pool.rs`, `start_reward.rs`, `stop_reward.rs` | `PoolConfig` (schedule, rate, fees), `PoolState` (totals, accumulator) | `create_pool`, `start_reward`, `stop_reward` |
| staking | `stake.rs`, `unstake.rs`, `claim_reward.rs` | `UserInfo` (`staked_amount`, `reward_debt`), `PoolState`, the vaults | `stake`, `unstake`, `claim_reward` |
| compounding | `compound_reward.rs` | the same, and the reserve of the swap pool | `compound_reward` |
| pending view | `pending_reward.rs` | none | `pending_reward` |
| reward arithmetic | `utils/mod.rs` | none | `update_pool`, `get_multiplier`, `get_precision_factor`, `available_reward_tokens`, `insufficient_rewards` |
| instruction data | `lib/src/*_instruction.rs` | none | `pack`/`unpack`, `serialize`/`deserialize` of five families |
| account lists | `lib/src/*_instruction.rs`, `amm-anchor/src` | none | the 33 builders, six wrappers, the swap through three layers |
| external | SPL token, system program, Raydium AMM, Clock | balances, slot | CPI transfers, swap, time |

(`instructions/`, `state/` and `utils/` are under
`programs/staking-on-solana/src/`.)

How they interact: every instruction of the staking program is one transaction.
It charges a fee through the system program, brings the pool up to date with
`update_pool`, moves tokens through the token program (and, for compounding with
two mints, through the AMM), and writes the fields of its accounts. The runtime
executes transactions atomically and one after the other on the accounts they
share; a failing `require!`, a panic of the checked arithmetic (`overflow-checks
= true` in the release profile) or a failing CPI rolls everything back.

What is hard here is therefore not interleaving inside an instruction but the
order of instructions of different stakers over time, with arithmetic that
rounds at different places, and the agreement of numbers that the handlers keep
by hand:

- one accumulator serves all stakers; each call divides by the total of its
  moment and rounds; a debt is subtracted later in checked arithmetic;
- `total_staked`, `reward_amount` and `paid_rewards` mirror tokens in vaults
  that six handlers move, each with its own assignments;
- the schedule has boundaries (start, end, nobody staked, first update long
  after the end);
- products of u64 overflow before they are divided;
- one mint for stakes and rewards puts both in one vault, and two pools of one
  admin with a common mint share theirs;
- the accounts of an instruction for another program are a list without names:
  the program called knows each by its place.

`PROJECT.json` lists these hazards, each at its line with the properties that
would catch it.

## Modules

| module | what it models |
|---|---|
| `StakingUtils` | the arithmetic of `utils/mod.rs`; a predicate `...Fits` says that no step of a computation panics |
| `TokenLedger` | the transfers of the token and the system program (external) |
| `StakingPool` | the state machine: one action per instruction, and `Tick` for the clock |
| `StakingEscrow` | the abstract specification: an escrow that keeps stakes and a fund that pays what they earned |
| `StakingPoolProperties` | what the pool should guarantee, and the refinement mapping to `StakingEscrow` |
| `TwoPools` | two instances of `StakingPool` on one platform, one clock and one ledger of tokens and lamports |
| `RewardShares` | a reference: every slot's reward divided eagerly among the stakes of that slot, run beside `StakingPool` as history |
| `RaydiumInstructions` | the bytes of the five instruction families, written and read |
| `RaydiumBuilders` | the account lists of the builders of `lib`, with their optional accounts |
| `RaydiumAccounts` | the lists as the wrappers of `amm_anchor` and the swap of `compound_reward` ask for them, and those of the two-step routes |
| `RaydiumClient` | an instruction on its way: its accounts built, its data cut, extended, or sent to the sibling program |
| `MCStakingPool`, `MCRewardShares`, `MCRaydium` | instances for TLC |
| `StakingPool_proofs`, `Accrual_proofs`, `Escrow_proofs` | theorems: types; accumulator, debts, schedule, view and overflow; the refinement of the escrow. Each extends the one before |
| `Accounting_proofs` | theorems about the books and the vaults |
| `Stakes_proofs` | lemmas about finite sums; theorems about the sum of the stakes, of the rewards, and solvency |
| `RewardShares_proofs` | theorems: the lazy accumulator against the eager shares |
| `TwoPools_proofs` | theorems about two pools on one ledger |
| `RaydiumClient_proofs` | theorems: `Unpack` undoes `Pack`, the tables of sibling programs, and the properties of the account lists |

Definitions named `Mut...` are slips that the code could have had; no behaviour
uses them (see "Bounds").

### StakingPool and the code

Names are those of the source. `platform`, `pool_config`, `pool_state` and
`user_info` are the accounts with the fields the program writes; the mints and
the vaults, which never change, are constants; `opened` is the set of accounts
that exist; `tokens` and `lamports` are the two ledgers, which have the accounts
of the pool and may have others (`TokenAccount` and `SolAccount` are all of
them); `hist` is history that
no action reads, and its fields are explained in the module.

A handler is one action. All conditions under which it returns `Ok` are
conjuncts: its `require!`s, the absence of overflow in each step, and that each
transfer has its amount. Where the order of the steps matters it is kept: the
stake of a user whose reward is paid in the same mint can use that reward, the
fee is taken after the rent, `reward_debt` is computed with the new stake and
the updated accumulator. A call that fails is a stuttering step.

Two places need care.

- `compound_reward` with two mints (`CompoundSwap`) sends the pending reward
  through the AMM, then computes what it received as the difference of two reads
  of the *reward* vault's balance, from the account copy deserialized before the
  handler ran. The difference is 0, so `added == 0`.
- `stop_reward` assigns `pool_config.end_slot`, but the account is not `mut` in
  its accounts struct and is not written back: `StopReward` leaves `pool_config`
  unchanged and records the announced slot in `hist`.

The view `pending_reward` changes no state and is an operator, `PendingReward`,
with the value it computes. When its own checked arithmetic would panic is
`PendingRewardFits`; `ClaimPaysView` has it as a conclusion, and the other
properties that use the value (`NoDilution`, the mapping to the escrow) mean the
number, whether or not it fits.

Values: `MaxU64` is a constant, so that runs can be narrow and proofs general.
`total_earned` is kept although no handler ever makes it positive.
`InsufficientRewards` is called by no handler (its one call is commented out);
it gives the history `shortfall`, which says whether a pool was fully funded.

### The escrow

`StakingEscrow` says what a staker may rely on without accumulators, debts or
schedules: tokens in a wallet, a stake, what it has earned, what was received. A
deposit, a withdrawal or a claim first pays all that the caller has earned, then
moves the caller's stake by the amount less a fee within its limit, and changes
nothing of anybody else. Earning never decreases, gives nothing to who has no
stake, and gives equal stakes the same. The mapping (`Escrow` in
`StakingPoolProperties`) takes the stakes from the `UserInfo` accounts, `earned`
from the view `pending_reward`, and the rest from the token ledger.
`PoolIsEscrow` holds of a pool with two mints that is neither compounded nor
stopped (`CoreSpec`): compounding turns earnings into stake without paying them,
and `stop_reward` takes the fund away.

### Two pools

`TwoPools` instantiates `StakingPool` twice. What an instruction is given
belongs to one pool, except `PlatformInfo`, the wallets and the vaults: clients
take the associated token account of the admin for a mint as the vault
(`tests/staking-on-solana.ts:582-595`), so the pools share the vaults of the
mints they share. `SharedVaultsAddUp` says that each vault holds the sum of what
the books of both say. `PoolsIsolated` says that no call of one pool prevents a
staker of the other from settling and leaving; its hypothesis `BooksBacked`
(nothing swept and nothing compounded, in either pool) is needed: after
`stop_reward`, and after `compound_reward` with or without a swap,
`reward_amount` still counts tokens that have left the vault or have become
stakes, and TLC finds a history in which the pool pays them to its stakers out
of what the other put in the vault. That is the finding of `stop_sweep` as seen
from a second pool.

The instances are of `Stakes_proofs`, which extends `StakingPool`: an instance
brings the lemmas about one pool along, and `TwoPools_proofs` puts together what
they say of two.

### Instruction data

What is written and what is read follow two tables kept by hand for each
program, and nothing in the data says for which program it was packed.
`IntactOrRefused` is about the program an instruction was packed for,
`SiblingReadings` about its sibling (amm and stable, farm and staking): it says
which instruction the sibling takes it for. For most that is the one of the same
name. Four of the farm and the staking program become another one
(`SiblingReadsAs`), because the farm counts one tag more: the farm's `DepositV2`
is tag 11, which the staking program reads as `WithdrawV2`. Beyond these four no
instruction changes its meaning, and none its amounts.

### Account lists

A list is given by its keys in order, those that are read-only and those that
sign. `RaydiumBuilders` has the list of every builder; where a builder takes
`Option`s, the list depends on `given`, the set of optional accounts passed, and
the choices for which it panics (`BuildPanics`, the `unwrap` in the farm's
deposit and withdrawals) are left out. `WrapperMetas` composes a wrapper's
arguments with the builder's parameters by position, as a Rust call does, and
`CompoundSwapMetas` puts the accounts of `compound_reward` into the fields.

The properties relate lists that are written in different files: wrapper and
builder (`WrappersInPlace`), swap and accounts struct (`SwapRightsDeclared`,
`SwapAccountsInPlace`), builder and comment (`ListedAsDocumented`), farm and
staking program (`SiblingAccountsAgree`), the two legs of a route
(`RouteLegsAgree`), and two choices of options (`OptionsReadable`).

`ListedAsDocumented` is about the amm's deposit, withdrawal and swap: the list
starts with the accounts of the comment, the same key at each place and with the
rights given there. What the builder appends behind them is not compared. The
comments of the two initialize variants list other accounts than the builders
(see "What the violations show"), so they are no reference either. The comments in `stable_instruction.rs`
are a copy of the amm's and do not mention `model_data_account`, which every
list of the stable program has; they are not used as a reference. Of the farm,
`initialize` is left out of `OptionsReadable`: only a second reward vault and
only an admin authority give lists of one length
(`farm_instruction.rs:188-193`).

### Left out

- Who may call: signers, `has_one` and the owners of token accounts. The model
  has the calls in which the accounts belong together. (`stop_reward` transfers
  by authority of the deployer it is given, which the token program checks.)
- `PoolConfig.owner`, `state_addr`, decimals of the stake mint,
  `PlatformInfo.treasury`, `UserInfo.deposit_slot` (never written), the rent the
  admin pays in `initialize`, the rent-exempt minimum of wallets.
- More than two pools on a vault, and more than one platform: the account of a
  platform is derived from its treasury, and no instruction reads two.
- Events and messages, except `RewardsStop` and `UnstakeAmountTooHigh`, which
  properties read.
- The memory layouts of Raydium accounts in `lib/src/*_stats.rs`,
  `route_states.rs` and the errors of `route_error.rs`: structs and enums
  without operations.
- Most of `error/mod.rs`: of its messages the program uses a handful, the rest
  belong to another program.
- `serialize` writes through unaligned pointers; the model has what a release
  build does, a plain write. A u128 field is two u64 halves.

## What is checked

Seven runs pass, five show where the code does not do what a test, a message, an
event or a comment of the repository says.

| run | instance | what it shows |
|---|---|---|
| `core` | two mints, nine decimals, stake/unstake/claim, fair stakers, two fundings, two performance fees | no effect on others (`NoDilution`), the refinement `PoolIsEscrow`, and `ClaimsArePaid`, `StakesCanLeave`: a pool funded for its schedule keeps nobody waiting |
| `full` | two mints, all instructions, three fundings, two performance fees | `TypeOK`; totals (`TotalStakedIsSum`), the schedule (`EmissionCap`), the view (`ClaimPaysView`); `RewardBooks`, `RewardVaultDrift`, `StakeVaultDrift`: by how much recorded amounts and vaults differ; `FundedPoolPaysAll`: a funded pool is solvent, and compounding leaves it so |
| `one_vault` | one mint, one vault, all instructions, narrow integers | `SharedVaultDrift`; totals and pendings under compounding; `FrozenStake`, `FrozenPool`: what overflows stays frozen for good |
| `funded_one_mint` | one mint and vault, eight decimals, fair stakers, two fundings, two performance fees | `ClaimsArePaid`, `StakesCanLeave`: how much more than its schedule such a pool has to be funded with |
| `two_pools` | two pools, two mints, three vault roles on two vaults, all instructions | `SharedVaultsAddUp`, `PoolsIsolated` |
| `shares` | precision factor 10, with `stop_reward` | `DebtCovered`, `PaidWithinEmission`; lazy against eager: `NobodyOverpaid`, `NobodyUnderpaid` |
| `raydium` | every variant of every family, every choice of optional accounts | data: `IntactOrRefused`, `SiblingReadings`; account lists: `SwapAccountsInPlace`, `WrappersInPlace`, `SwapRightsDeclared`, `ListedAsDocumented`, `OptionsReadable`, `SiblingAccountsAgree`, `RouteLegsAgree` |
| `stop_sweep` | violation | `reward_amount` still counts what `stop_reward` swept |
| `stop_event` | violation | rewards accrue after the announced end |
| `compound_swap` | violation | swapped stake tokens belong to no stake |
| `full_exit` | violation | withdrawing exactly the stake is refused as too high |
| `route_flags` | violation | read-only accounts of a route are requested writable |

### Bounds, and why they are enough

Two users: every property about users relates one to the rest of the pool, and a
second one is the rest. Users are symmetric. A day has 3 slots, the pool lasts
one day, the start delay is 1 and `MaxSlot` is 7 (6 where fairness is
assumed): the start is at slot 2 at the earliest, the end at 5, and one or two
slots remain after the end, so that first updates before, at and after the end
happen, also when a pool starts later. Stakes of 5 with fees of 20% leave stakes
of 4 (and their sums and remainders after unstaking), so that the accumulator's
division is uneven; in `full` a stake of 0 opens an account without a stake, whose claims
and compoundings pay the fee only. A staker's lamports pay for the rent and a
few calls, which bounds the number of calls and exercises the refused fee. In
`full` the fundings 4, 9 and 20 are below, at and above what the schedule emits
(3 slots of 3). In `shares`, `ShareScale` is divisible by every total that
occurs, so the shares are exact; for other scales `NobodyOverpaid` allows for
one unit of rounding in each slot, which at a large scale is next to nothing.
In `one_vault` the reward mint has 6
decimals, so the precision factor is 1000, and with `MaxU64` 10000 the products
leave the width within the schedule, for single stakes and for the whole pool,
depending on when calls are made.

`core` has one funding that is exactly what the schedule emits and one that is a
unit short. `initialize` can raise the performance fee from 0 to 1 between any
two calls, so wallets do run out; at a fee of 0 nothing but the rewards can
refuse a call. Withdrawals are of 3 out of a stake of 4, and 7 tokens let a
staker withdraw and stake again. The graph with fairness is what bounds this
instance; fees on withdrawals, more tokens and shorter fundings are in `full`,
and what `core` shows of safety is proved for all of them. `funded_one_mint` has
one mint in one vault, and eight decimals, so that the precision factor is 10
and every restake rounds. Its schedule emits 9. The funding of 14 covers a
single stake of 4 and its first roundings but not two; 25 covers all that two
stakers can have staked. The fees and withdrawals are those of `core`.
`two_pools` has one staker per pool, which
suffices because its properties relate the pools: the first pool stakes mint a
for rewards in mint b, the second stakes and rewards in b, so that one vault has
three uses. At 8 tokens a slot for three slots the schedule emits 24, and the
fundings of 8 and 20 are both less, so that a payment out of the wrong pool's
tokens would be noticed. Withdrawals of 3 out of a stake of 4 settle a reward,
and each staker can pay the fee of a few calls. The clock stops at 5, the
earliest end of a schedule.

`raydium` uses 13 values per byte, enough for all tags, words 0, 10, one that
crosses a byte and the largest, and bytes 0, 10 and 12, of which 10 is the tag
of `PreInitialize`; data is cut at every byte and extended by up to two. The
byte 10 is there because of the reserved variants, which `amm_instruction.rs`
packs as an empty buffer: an empty buffer with `<< 10, x >>` behind it is a
`PreInitialize`, of which nothing was packed. `IntactOrRefused` says so by its
hypothesis, and without it is false of the code for every byte that is a tag. `StakeBufferLength` is 40; the other alignment of u128 gives 48, with
longer padding only. `CHECK_DEADLOCK` is off there because data that is empty
has nothing left to lose.

Each property has a mutant in `PROJECT.json`: a plausible slip in the code that
the property catches under the run's own constants.

### Fairness

The program has no scheduler of its own and no step it must take: everything
happens when somebody calls. The only fairness that can be assumed is that of a
staker who keeps calling, and `Fairness` is weak fairness of each user's own
claim and of each user's withdrawals: who can claim or withdraw for ever, does
in the end, and which amount is withdrawn is left open. Nothing is assumed about
the clock, the creator, or the order among users. `FairCoreSpec` adds it to the pool without compounding and
stopping. Under it `ClaimsArePaid` and `StakesCanLeave` hold. What they rule out
is that a call stays disabled: weak fairness gives nothing for a claim that is
refused.

They are about a pool whose funding covers what it has to (`FundingCovers`).
With two mints and nine decimals that is the schedule (the check that
`start_reward` has commented out), which is the case of `core`. With fewer
decimals each change of a stake may cost up to one unit more. With one mint
`get_available_reward_tokens` subtracts `total_staked` from `reward_amount`,
which never contained it, so that claims, and with them withdrawals, are refused
for ever in a pool funded for its schedule only; there the funding has to exceed
the schedule by what is staked, and a later stake can end the cover. The second
restriction is `Unhindered`: a wallet may be unable to pay the performance fee,
which `initialize` may raise at any time, and a product may overflow, which
freezes a stake or the pool (`FrozenStake`, `FrozenPool`). The properties let
go when either happens.

## What is proved

The proofs hold for every finite set of users, width of integers, length of a
day, decimals and set of arguments, under the assumptions named in
`StakingUtils` and `StakingPool`: parameters have their types, vaults start
empty, are no user's account, and one vault has one mint. `RewardShares` adds
that the scale is positive. `TwoPools` has its own (`NumbersAssumption`,
`TwoUsersAssumption`, `TwoPoolArgumentAssumption`, `AdminAssumption`: the admin
whose accounts are the vaults is no user of either pool), and `FirstAssumptions`
and `SecondAssumptions` derive from them what `StakingPool` assumes of each
pool.

- `TypeCorrect`: `Spec => []TypeOK`. `TypeOK` is inductive. One lemma per
  action; the substance is that the guards of every handler cover each field it
  writes.
- `AccumulatorGrows`: no step decreases `acc_token_per_share`.
- `DebtsCovered`: `Spec => []DebtCovered`. Inductive with `TypeOK`: a step
  either leaves a user's record alone, and then the accrual of the same stake
  does not decrease because the accumulator does not and division is monotonic,
  or it resets the debt to the accrual (`Accrues`). So the checked subtraction
  in `stake.rs:48` and its copies never panics.
- `RewardsBalance`, `RewardVaultExplained`, `StakeVaultExplained`,
  `SharedVaultExplained`: the equations between `reward_amount`, `paid_rewards`,
  `total_staked`, the funding and the vaults. The invariant `Books` says of each
  vault that it has what the pool holds there by its books (`Held`), and that
  all amounts are 0 before `create_pool`, which is needed because `create_pool`
  assigns `reward_amount` and `total_staked` instead of adding to them. The
  lemma of a step is stated so that it holds on any ledger (`HeldMoves`): the
  tokens of an account that is nobody's wallet move by as much as `Held` does.
- `TotalIsSum`: `Spec => []TotalStakedIsSum`, with the sum that TLC computes
  (`SumFunction` of the community modules). Every step moves at most one stake,
  and `total_staked` by as much (`MovesOneStake`). What a change of one value
  does to a sum is proved from the recursive definition of the sum over
  subsets: among the subsets for which a fact fails a smallest one
  exists, because the users are finite, and the recursion gives a smaller one.
  That is induction without a theorem that takes an operator as a parameter.
- `RewardsWithinEmission`: `Spec => []PaidWithinEmission`. Inductive with
  `TotalStakedIsSum` and `DebtCovered`. An update adds a quotient to the
  accumulator, and the sum of the stakes times the quotient is at most what was
  emitted, because the sum of the stakes is the divisor. A settled reward moves
  from what is unpaid to what is paid, and a new debt is rounded down by less
  than one unit, counted in `restakes`: with a precision factor of 1 the bound is
  the emission itself.
- `FundedPoolSolvent`: `Spec => []FundedPoolPaysAll`, of pools with two mints
  and up to the roundings of the restakes. `RewardsWithinEmission`
  bounds the pendings by the emission, `EmissionCap` the emission by the
  schedule, the invariant `Funds` the schedule by the funding (what
  `InsufficientRewards` was 0 for when the rewards were started), and the books
  the funding by the vault.
- `NobodyIsOverpaid`, `NobodyIsUnderpaid`: for two mints (`TwoMints`),
  `SharesSpec => []NobodyOverpaid` and `SharesSpec => []NobodyUnderpaid`. The
  bounds are not inductive: only whole units are added to the accumulator, and
  between two updates the shares grow while it does not. The invariant
  `FairToAll` therefore compares the shares with what is booked for the staker
  at the last update and the staker's part of the emission since then (`Due`),
  multiplied by the total instead of divided by it. A slot that pays adds to
  both (`SlotDue`: `get_multiplier` grows by one in exactly the slots of the
  schedule, which needs that `last_reward_slot` is not ahead of the clock,
  `LastSlot`); a call turns what is due into what is booked (`UpdateFair`) and
  rounds one debt (`CallCredit`).
- `EmissionCapped`: `Spec => []EmissionCap`. Inductive with `Schedule`: nothing
  has accrued before `start_reward`, and `start_slot` is at or before
  `last_reward_slot` and `end_slot` after it.
- `RewardsNeverDiluted`, `ClaimsPayTheView`: the action properties `NoDilution`
  and `ClaimPaysView`, from the lemma that the view is the pending reward after
  `update_pool` (`pending_reward.rs` computes it in code of its own), that none
  of the view's own checked products overflows when a claim goes through
  (`PendingRewardFits`), and that
  what `update_pool` gives at a later slot, or in two steps instead of one, is
  no less.
- `OverflowFreezesPool`, `OverflowFreezesStake`: `Spec => FrozenPool` and `Spec
  => FrozenStake`. Every handler calls `update_pool` first, and its products
  only grow with the clock. For a stake also that nobody has one in a pool whose
  mint has too many decimals (`Stakeless`).
- `PoolImplementsEscrow`: for two mints with at most nine decimals and a creator
  who does not stake in the own pool (`TwoMints`), `CoreSpec => PoolIsEscrow`.
  The initial states map to initial states, and each action to a step of the
  escrow: `Stake` to `Deposit`, `Unstake` to `Withdraw`, `ClaimReward` to
  `Claim` or a stutter, `CreatePool` to `Endow`, `Tick` to `Earn`, the others to
  stutters. It rests on `TypeOK`, `Schedule`, `DebtCovered` and on the lemmas
  about the view: settling a reward makes the caller's view 0 and leaves every
  other view as it was.

- `SharedVaultsBalance`: `Spec => []SharedVaultsAddUp` of `TwoPools`. By
  `HeldMoves`, a call of one pool moves the tokens of a vault by what that
  pool's `Held` moves, and the other pool's books do not change. The invariant
  has both pools' `OwnBooks`: types, amounts 0 before creation, the sum of the
  stakes.
- `PoolsStayIsolated`: `Spec => PoolsIsolated`. With both books backed, neither
  pool holds less than nothing anywhere, so each vault covers what one pool
  holds there (`VaultsCover`); who can leave by the state of the own pool alone
  (`Payable`) then can leave (`CoveredCanLeave`), and a call of the other pool
  leaves that state alone.

The theorems of `RaydiumClient_proofs` are about `Spec` of `RaydiumClient`, for
every number of values of a byte that leaves room for the tags and for every u64
and u8 value of a field (`BufferAssumption`, `ClientAssumption`). They rest on
two invariants. `Carried`: the message is one that the client can mean, the
receiver its program or a sibling, and every byte that arrives at a place where
one was packed is the byte that was packed. `Listed`: the accounts are those of
the builder for some choice of options.

- `IntactOrRefusedAlways`: `Spec => []IntactOrRefused`. `FromBytes` undoes
  `ToBytes` on what fits the width (`RoundTrip`), the fields lie one behind the
  other where `Field` looks for them (`FieldsInPlace`, `FieldsRead`), and so
  `Unpack` reads what `Pack` wrote when all the fields have arrived, and refuses
  when one has not (`UnpackReads`). The row of each variant in the table of what
  is written and that of its tag in the table of what is read are compared by
  computation (`OwnRows`). `ToBytes`, `FromBytes`, `Values` and `Ends` are
  recursive functions; that they exist and follow their equations is
  `RecursionExists`, and what they compute is proved by looking at the least
  number for which it would fail (`LeastNumber`, `Climb`), again without a
  theorem that takes an operator as a parameter.
- `SiblingReadingsAlways`: every row of the table that is written against the
  row that the sibling has for its tag, of whatever variant (`SiblingRows`): the
  places of the fields that both have are the same (`LaidAlike`), so what is read
  is what was written there (`UnpackPrefix`), and the farm's instruction without
  fields is padded with zeros, which are read as an amount of zero
  (`PaddedWithZeros`).
- `WrappersInPlaceAlways`: the fields of a wrapper and the parameters of its
  builder differ by `FieldOf` only, place by place, and every account of the
  builder is a parameter or the same for all callers (`WrapperRenames`).
  `SwapAccountsInPlaceAlways` and `SwapRightsDeclaredAlways` add the accounts of
  `compound_reward`. `ListedAsDocumentedAlways` compares the lists of a deposit,
  a withdrawal and a swap with the comments, key by key and with the rights.
- `RouteLegsAgreeAlways`, `SiblingAccountsAgreeAlways`: in every list the rights
  of an account depend on its key alone (`KeyedRights`), so it is enough to
  compare the keys that two lists name and the sets they mark.
- `OptionsReadableAlways`: the ends that options can give a list have different
  lengths (`Distinct`): none or one account, none or a pair, and in the stable
  program's withdrawal none, the referrer, the order book or both.

TLC checks every one of these formulas as well, except `AccumulatorGrows`.

Only model-checked: `ClaimsArePaid` and `StakesCanLeave`. They are liveness
properties, and liveness needs `ENABLED`, which is out of the prover's reach.

## What the violations show

- A second `stop_reward` computes the same surplus again, and
  `available_reward_tokens` promises tokens that have left the vault, because
  `reward_amount` is not reduced (`stop_sweep`). Where a second pool uses the
  vault, its tokens pay for the promise.
- Rewards go on after `RewardsStop { end_slot }` (`stop_event`), and the sweep
  has taken the tokens they would be paid from.
- Stakers who compound with two mints lose the reward they compound
  (`compound_swap`): it is booked as paid, and the tokens it is swapped for are
  in the stake vault without an owner.
- A stake can be reduced to one token and no further (`full_exit`).
- A route through an amm or a stable pool asks for write access to two or three
  accounts too many (`route_flags`).

One more disagreement has no run, because it needs none: the comment of the
amm's `Initialize` (`amm_instruction.rs:86-102`) has the new amm account second
and signing, and the builder (`amm_instruction.rs:452-472`) lists it fourth and
unsigned, behind two accounts that the comment does not have. The comment of
`Initialize2` has it third and signing, the builder fifth and unsigned.
`ListedAsDocumented` leaves both out.

## Not modelled

- Raydium account layouts (`lib/src/*_stats.rs`, `route_states.rs`,
  `route_error.rs`): plain memory layouts and an error enum, with no operation.
- Clients, tests and migrations: they drive the program. What the tests assert
  is stated as the properties of the violation runs, and how they derive the
  vaults is in `TwoPools`.
- The Raydium AMM is external: `compound_reward` shows only that an amount goes
  in and at least one token comes out of its reserve, or the transaction is
  aborted.
- The text of events and error messages.

## Plan

Done: the pool with all instructions, its properties, reference and theorems;
the escrow and the proof that the pool implements it; the lazy accumulator
against the eager shares; liveness; two pools on shared vaults; the Raydium
codecs and all account lists.

Every safety property of the passing runs is proved. What is left: the shares of
stakers who compound (`RewardShares` has the pool without `compound_reward`,
which pays out of the accumulator without paying tokens).
