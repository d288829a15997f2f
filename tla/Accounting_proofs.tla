--------------------------- MODULE Accounting_proofs ---------------------------
(***************************************************************************)
(* Proofs about the books of StakingPool: how reward_amount, paid_rewards  *)
(* and total_staked relate to the funding and to the tokens in the vaults  *)
(* after any history of calls.                                             *)
(***************************************************************************)
EXTENDS StakingPool_proofs

UserAccounts == Wallet \X {stake_mint, reward_mint}

(* The accounts that belong to no wallet of the pool: its vaults, and what *)
(* else the ledger has.                                                    *)
Reserves == TokenAccount \ UserAccounts

(* Before create_pool all the amounts of the pool are zero, and so are the *)
(* counts of the history that the books compare them with.                 *)
NothingBeforeCreation ==
    "pool" \notin opened =>
        /\ pool_state.reward_amount = 0 /\ pool_state.paid_rewards = 0
        /\ pool_state.total_staked = 0
        /\ hist.funding = 0 /\ hist.swept = 0 /\ hist.compounded = 0
        /\ hist.restaked = 0 /\ hist.swapped_in = 0 /\ hist.swapped_out = 0

Books ==
    /\ NothingBeforeCreation
    /\ RewardBooks
    /\ tokens[pool_reward_token_vault] = Held(pool_reward_token_vault)
    /\ tokens[pool_stake_token_vault] = Held(pool_stake_token_vault)
    /\ stake_mint = reward_mint => hist.swapped_in = 0 /\ hist.swapped_out = 0

(* What every step does, whatever the accounts hold: the tokens of a       *)
(* reserve move with what the books say that it holds, and those that the  *)
(* pool has no vault in stay.                                              *)
HeldMoves == \A a \in Reserves : tokens'[a] - Held(a)' = tokens[a] - Held(a)

BooksMove ==
    /\ NothingBeforeCreation'
    /\ (pool_state.reward_amount + pool_state.paid_rewards)' - (hist.funding + hist.compounded)'
        = (pool_state.reward_amount + pool_state.paid_rewards) - (hist.funding + hist.compounded)
    /\ stake_mint = reward_mint => /\ hist'.swapped_in = hist.swapped_in
                                   /\ hist'.swapped_out = hist.swapped_out
    /\ HeldMoves

-----------------------------------------------------------------------------
(* What a transfer does to the vaults.                                     *)

LEMMA VaultTypes ==
    /\ Reserves \subseteq TokenAccount /\ UserAccounts \subseteq TokenAccount
    /\ \A v \in Reserves : v \notin UserAccounts
    /\ pool_stake_token_vault \in Reserves /\ pool_reward_token_vault \in Reserves
    /\ \A w \in Wallet : StakeAccount(w) \in UserAccounts /\ RewardAccount(w) \in UserAccounts
  BY VaultAssumption, InitialAssumption
     DEF Reserves, UserAccounts, PoolTokenAccount, StakeAccount, RewardAccount

LEMMA TransferOut ==
    ASSUME NEW balances \in [TokenAccount -> Nat], NEW vault \in Reserves,
           NEW to \in UserAccounts, NEW amount \in Nat, NEW v \in Reserves
    PROVE  Transfer(balances, vault, to, amount)[v] =
                IF v = vault THEN balances[v] - amount ELSE balances[v]
<1>1. /\ vault \in TokenAccount /\ to \in TokenAccount /\ v \in TokenAccount
      /\ vault # to /\ v # to
  BY VaultTypes
<1> QED
  BY <1>1 DEF Transfer

LEMMA TransferIn ==
    ASSUME NEW balances \in [TokenAccount -> Nat], NEW vault \in Reserves,
           NEW from \in UserAccounts, NEW amount \in Nat, NEW v \in Reserves
    PROVE  Transfer(balances, from, vault, amount)[v] =
                IF v = vault THEN balances[v] + amount ELSE balances[v]
<1>1. /\ vault \in TokenAccount /\ from \in TokenAccount /\ v \in TokenAccount
      /\ vault # from /\ v # from
  BY VaultTypes
<1> QED
  BY <1>1 DEF Transfer

(* The numbers that the books compare are natural.                         *)
LEMMA BookTypes ==
    ASSUME TypeOK
    PROVE  /\ pool_state.reward_amount \in Nat /\ pool_state.paid_rewards \in Nat
           /\ pool_state.total_staked \in Nat
           /\ hist.funding \in Nat /\ hist.swept \in Nat /\ hist.compounded \in Nat
           /\ hist.restaked \in Nat /\ hist.swapped_in \in Nat /\ hist.swapped_out \in Nat
           /\ tokens[pool_stake_token_vault] \in Nat
           /\ tokens[pool_reward_token_vault] \in Nat
<1>1. pool_state \in PoolState /\ hist \in HistType /\ tokens \in [TokenAccount -> Nat]
  BY DEF TypeOK
<1>2. pool_state.reward_amount \in Nat /\ pool_state.paid_rewards \in Nat
      /\ pool_state.total_staked \in Nat
  BY <1>1, UtilsAssumption DEF PoolState, U64
<1> QED
  BY <1>1, <1>2, AccountTypes DEF HistType

(* A step by which paid rewards leave the books and moved stakes enter     *)
(* them, and as many tokens leave the one vault and enter the other.       *)
LEMMA HeldMoved ==
    ASSUME TypeOK, NEW paid \in Int, NEW moved \in Int,
           HeldRewards' = HeldRewards - paid, HeldStakes' = HeldStakes + moved,
           \A a \in Reserves : tokens'[a] =
                tokens[a] - (IF a = pool_reward_token_vault THEN paid ELSE 0)
                          + (IF a = pool_stake_token_vault THEN moved ELSE 0)
    PROVE  HeldMoves
<1> SUFFICES ASSUME NEW a \in Reserves
             PROVE  tokens'[a] - Held(a)' = tokens[a] - Held(a)
  BY DEF HeldMoves
<1>1. HeldRewards \in Int /\ HeldStakes \in Int
  BY BookTypes DEF HeldRewards, HeldStakes
<1>2. tokens[a] \in Nat
  BY VaultTypes DEF TypeOK
<1>3. tokens'[a] = tokens[a] - (IF a = pool_reward_token_vault THEN paid ELSE 0)
                             + (IF a = pool_stake_token_vault THEN moved ELSE 0)
  OBVIOUS
<1>4. /\ Held(a) = (IF a = pool_reward_token_vault THEN HeldRewards ELSE 0)
                      + (IF a = pool_stake_token_vault THEN HeldStakes ELSE 0)
      /\ Held(a)' = (IF a = pool_reward_token_vault THEN HeldRewards' ELSE 0)
                      + (IF a = pool_stake_token_vault THEN HeldStakes' ELSE 0)
  BY DEF Held
<1> QED
  BY <1>1, <1>2, <1>3, <1>4

(* A step that leaves the amounts and the vaults alone keeps the books.    *)
LEMMA BooksUnmoved ==
    ASSUME TypeOK, NothingBeforeCreation, "pool" \in opened => "pool" \in opened',
           pool_state'.reward_amount = pool_state.reward_amount,
           pool_state'.paid_rewards = pool_state.paid_rewards,
           pool_state'.total_staked = pool_state.total_staked,
           hist'.funding = hist.funding, hist'.swept = hist.swept,
           hist'.compounded = hist.compounded, hist'.restaked = hist.restaked,
           hist'.swapped_in = hist.swapped_in, hist'.swapped_out = hist.swapped_out,
           \A v \in Reserves : tokens'[v] = tokens[v]
    PROVE  BooksMove
<1>1. NothingBeforeCreation'
  BY DEF NothingBeforeCreation
<1>2. HeldMoves
  BY DEF HeldMoves, Held, HeldRewards, HeldStakes
<1> QED
  BY <1>1, <1>2 DEF BooksMove

-----------------------------------------------------------------------------
LEMMA InitializeBooks ==
    ASSUME TypeOK, NothingBeforeCreation, NEW a, NEW b, Initialize(a, b)
    PROVE  BooksMove
<1>1. opened' = opened \union {"platform"} /\ UNCHANGED << pool_state, tokens, hist >>
  BY DEF Initialize
<1> QED
  BY <1>1, BooksUnmoved

LEMMA TickBooks ==
    ASSUME TypeOK, NothingBeforeCreation,
           UNCHANGED << opened, pool_state, tokens, hist >>
    PROVE  BooksMove
  BY BooksUnmoved

LEMMA CreatePoolBooks ==
    ASSUME TypeOK, NothingBeforeCreation, NEW a, NEW b, NEW funding \in Fundings,
           NEW rate, NEW duration, CreatePool(a, b, funding, rate, duration)
    PROVE  BooksMove
<1>1. /\ "pool" \notin opened
      /\ opened' = opened \union {"pool"}
      /\ pool_state' = [pool_state EXCEPT !.reward_amount = funding, !.total_staked = 0]
      /\ tokens' = Transfer(tokens, RewardAccount(creator), pool_reward_token_vault, funding)
      /\ hist' = [hist EXCEPT !.funding = funding]
  BY DEF CreatePool
<1>2. pool_state \in PoolState /\ hist \in HistType /\ tokens \in [TokenAccount -> Nat]
  BY DEF TypeOK
<1>3. funding \in Nat
  BY ArgumentAssumption, UtilsAssumption DEF U64
<1>4. /\ pool_state'.reward_amount = funding /\ pool_state'.total_staked = 0
      /\ pool_state'.paid_rewards = pool_state.paid_rewards
  BY <1>1, <1>2 DEF PoolState
<1>5. /\ hist'.funding = funding /\ hist'.swept = hist.swept
      /\ hist'.compounded = hist.compounded /\ hist'.restaked = hist.restaked
      /\ hist'.swapped_in = hist.swapped_in /\ hist'.swapped_out = hist.swapped_out
  BY <1>1, <1>2 DEF HistType
<1> DEFINE paid == 0 - funding
           moved == 0
<1>6. \A v \in Reserves : tokens'[v] =
            IF v = pool_reward_token_vault THEN tokens[v] + funding ELSE tokens[v]
  BY <1>1, <1>2, <1>3, TransferIn, VaultTypes, AccountTypes
<1>7. /\ pool_state.reward_amount = 0 /\ pool_state.paid_rewards = 0
      /\ pool_state.total_staked = 0 /\ hist.funding = 0 /\ hist.swept = 0
      /\ hist.compounded = 0 /\ hist.restaked = 0
      /\ hist.swapped_in = 0 /\ hist.swapped_out = 0
  BY <1>1 DEF NothingBeforeCreation
<1>8. \A v \in Reserves : tokens[v] \in Nat
  BY VaultTypes DEF TypeOK
<1>9. \A v \in Reserves : tokens'[v] =
            tokens[v] - (IF v = pool_reward_token_vault THEN paid ELSE 0)
                      + (IF v = pool_stake_token_vault THEN moved ELSE 0)
  BY <1>3, <1>6, <1>8
<1>10. /\ paid \in Int /\ moved \in Int
       /\ HeldRewards' = HeldRewards - paid /\ HeldStakes' = HeldStakes + moved
  BY <1>3, <1>4, <1>5, <1>7 DEF HeldRewards, HeldStakes
<1> HIDE DEF paid, moved
<1>11. HeldMoves
  BY <1>9, <1>10, HeldMoved
<1>12. NothingBeforeCreation'
  BY <1>1 DEF NothingBeforeCreation
<1> QED
  BY <1>3, <1>4, <1>5, <1>7, <1>11, <1>12 DEF BooksMove

LEMMA StartRewardBooks ==
    ASSUME TypeOK, NothingBeforeCreation, StartReward
    PROVE  BooksMove
<1> DEFINE short == InsufficientRewards(pool_config, pool_state)
           start == slot + START_DELAY
<1>1. /\ pool_state' = [pool_state EXCEPT !.last_reward_slot = start]
      /\ hist' = [hist EXCEPT !.shortfall = short]
      /\ UNCHANGED << opened, tokens >>
  BY DEF StartReward
<1> HIDE DEF short, start
<1>2. pool_state \in PoolState /\ hist \in HistType
  BY DEF TypeOK
<1>3. /\ pool_state'.reward_amount = pool_state.reward_amount
      /\ pool_state'.paid_rewards = pool_state.paid_rewards
      /\ pool_state'.total_staked = pool_state.total_staked
  BY <1>1, <1>2 DEF PoolState
<1>4. /\ hist'.funding = hist.funding /\ hist'.swept = hist.swept
      /\ hist'.compounded = hist.compounded /\ hist'.restaked = hist.restaked
      /\ hist'.swapped_in = hist.swapped_in /\ hist'.swapped_out = hist.swapped_out
  BY <1>1, <1>2 DEF HistType
<1> QED
  BY <1>1, <1>3, <1>4, BooksUnmoved

-----------------------------------------------------------------------------
(* Paying a reward: what leaves the books leaves the reward vault.         *)
LEMMA SettleBooks ==
    ASSUME TypeOK, CanUpdate, NEW u \in Users, CanSettle(u)
    PROVE  /\ Owed(u) \in Nat
           /\ Paid(Updated, Owed(u)) \in PoolState
           /\ Paid(Updated, Owed(u)).reward_amount = pool_state.reward_amount - Owed(u)
           /\ Paid(Updated, Owed(u)).paid_rewards = pool_state.paid_rewards + Owed(u)
           /\ Paid(Updated, Owed(u)).total_staked = pool_state.total_staked
           /\ PaidOut(tokens, u, Owed(u)) \in [TokenAccount -> Nat]
           /\ \A v \in Reserves : PaidOut(tokens, u, Owed(u))[v] =
                    IF v = pool_reward_token_vault THEN tokens[v] - Owed(u) ELSE tokens[v]
<1>1. Owed(u) \in Nat /\ Updated \in PoolState
  BY SettleType, UpdatedType
<1>2. tokens \in [TokenAccount -> Nat] /\ RewardAccount(u) \in UserAccounts
  BY AccountTypes, VaultTypes DEF TypeOK
<1>3. \A v \in Reserves : PaidOut(tokens, u, Owed(u))[v] =
            IF v = pool_reward_token_vault THEN tokens[v] - Owed(u) ELSE tokens[v]
  BY <1>1, <1>2, TransferOut, VaultTypes DEF PaidOut
<1>4. /\ Paid(Updated, Owed(u)).reward_amount = Updated.reward_amount - Owed(u)
      /\ Paid(Updated, Owed(u)).paid_rewards = Updated.paid_rewards + Owed(u)
      /\ Paid(Updated, Owed(u)).total_staked = Updated.total_staked
  BY <1>1, SettleType DEF PoolState
<1> QED
  BY <1>1, <1>3, <1>4, SettleType, UpdatedType

(* A handler that pays paid rewards out of the reward vault and moves      *)
(* moved stakes into (or out of) the stake vault keeps the books.          *)
LEMMA BooksSettled ==
    ASSUME TypeOK, NEW paid \in Int, NEW moved \in Int, "pool" \in opened',
           pool_state'.reward_amount = pool_state.reward_amount - paid,
           pool_state'.paid_rewards = pool_state.paid_rewards + paid,
           pool_state'.total_staked = pool_state.total_staked + moved,
           hist'.funding = hist.funding, hist'.swept = hist.swept,
           hist'.compounded = hist.compounded, hist'.restaked = hist.restaked,
           hist'.swapped_in = hist.swapped_in, hist'.swapped_out = hist.swapped_out,
           \A v \in Reserves : tokens'[v] =
                tokens[v] - (IF v = pool_reward_token_vault THEN paid ELSE 0)
                          + (IF v = pool_stake_token_vault THEN moved ELSE 0)
    PROVE  BooksMove
<1>1. NothingBeforeCreation'
  BY DEF NothingBeforeCreation
<1>2. HeldRewards' = HeldRewards - paid /\ HeldStakes' = HeldStakes + moved
  BY BookTypes DEF HeldRewards, HeldStakes
<1>3. HeldMoves
  BY <1>2, HeldMoved
<1> QED
  BY <1>1, <1>3, BookTypes DEF BooksMove

(* What compound_reward compounds is a natural number.                     *)
LEMMA CompoundOwed ==
    ASSUME TypeOK, NEW u \in Users, NEW added, CanCompound(u, added)
    PROVE  Owed(u) \in Nat
<1>1. PendingFits(Updated, user_info[u])
  BY DEF CanCompound
<1>2. Pending(Updated, user_info[u]) \in U64
  BY <1>1 DEF PendingFits, Fits
<1> QED
  BY <1>2, UtilsAssumption DEF Owed, U64

(* The history of a restake counts the restake only.                       *)
LEMMA RestakeHistory ==
    ASSUME TypeOK, hist' = [hist EXCEPT !.restakes = @ + 1]
    PROVE  /\ hist'.funding = hist.funding /\ hist'.swept = hist.swept
           /\ hist'.compounded = hist.compounded /\ hist'.restaked = hist.restaked
           /\ hist'.swapped_in = hist.swapped_in /\ hist'.swapped_out = hist.swapped_out
  BY DEF TypeOK, HistType

LEMMA StakeBooks ==
    ASSUME TypeOK, NEW u \in Users, NEW amount \in StakeAmounts, Stake(u, amount)
    PROVE  BooksMove
<1> DEFINE fee == Percent(amount, pool_config.stake_fee)
           real == amount - fee
           settled == PaidOut(tokens, u, Owed(u))
           received == Transfer(settled, StakeAccount(u), pool_stake_token_vault, amount)
<1>1. /\ CanUpdate /\ CanSettle(u) /\ "pool" \in opened
      /\ Holds(settled, StakeAccount(u), amount)
      /\ opened' = opened \union {u}
      /\ tokens' = Transfer(received, pool_stake_token_vault, StakeAccount(creator), fee)
      /\ pool_state' = [Paid(Updated, Owed(u)) EXCEPT !.total_staked = @ + real]
      /\ hist' = [hist EXCEPT !.restakes = @ + 1]
  BY DEF Stake
<1>2. amount \in Nat /\ fee \in Nat
  BY ArgumentAssumption, UtilsAssumption, PercentBound DEF U64, TypeOK, PoolConfig
<1>3. real \in Int /\ real = amount - fee
  BY <1>2
<1> HIDE DEF fee, real, settled
<1>4. /\ Owed(u) \in Nat /\ settled \in [TokenAccount -> Nat]
      /\ \A v \in Reserves : settled[v] =
            IF v = pool_reward_token_vault THEN tokens[v] - Owed(u) ELSE tokens[v]
  BY <1>1, SettleBooks DEF settled
<1>5. /\ StakeAccount(u) \in UserAccounts /\ StakeAccount(creator) \in UserAccounts
      /\ pool_stake_token_vault \in Reserves /\ Reserves \subseteq TokenAccount
      /\ UserAccounts \subseteq TokenAccount
  BY AccountTypes, VaultTypes
<1>6. received \in [TokenAccount -> Nat]
  BY <1>1, <1>2, <1>4, <1>5, TransferType
<1>7. \A v \in Reserves : received[v] =
            IF v = pool_stake_token_vault THEN settled[v] + amount ELSE settled[v]
  BY <1>2, <1>4, <1>5, TransferIn
<1> HIDE DEF received
<1>8. \A v \in Reserves : tokens'[v] =
            IF v = pool_stake_token_vault THEN received[v] - fee ELSE received[v]
  BY <1>1, <1>2, <1>5, <1>6, TransferOut
<1>9. \A v \in Reserves : tokens[v] \in Nat
  BY <1>5 DEF TypeOK
<1>10. \A v \in Reserves : tokens'[v] =
            tokens[v] - (IF v = pool_reward_token_vault THEN Owed(u) ELSE 0)
                      + (IF v = pool_stake_token_vault THEN real ELSE 0)
  BY <1>2, <1>3, <1>4, <1>7, <1>8, <1>9
<1>11. /\ pool_state'.reward_amount = pool_state.reward_amount - Owed(u)
       /\ pool_state'.paid_rewards = pool_state.paid_rewards + Owed(u)
       /\ pool_state'.total_staked = pool_state.total_staked + real
  BY <1>1, SettleBooks DEF PoolState
<1> QED
  BY <1>1, <1>3, <1>4, <1>10, <1>11, RestakeHistory, BooksSettled

LEMMA UnstakeBooks ==
    ASSUME TypeOK, NEW u \in Users, NEW amount \in UnstakeAmounts, Unstake(u, amount)
    PROVE  BooksMove
<1> DEFINE fee == Percent(amount, pool_config.unstake_fee)
           settled == PaidOut(tokens, u, Owed(u))
           charged == Transfer(settled, pool_stake_token_vault, StakeAccount(creator), fee)
<1>1. /\ CanUpdate /\ CanSettle(u) /\ "pool" \in opened
      /\ Holds(settled, pool_stake_token_vault, amount)
      /\ opened' = opened
      /\ tokens' = Transfer(charged, pool_stake_token_vault, StakeAccount(u), amount - fee)
      /\ pool_state' = Left(Paid(Updated, Owed(u)), amount)
      /\ hist' = [hist EXCEPT !.restakes = @ + 1]
  BY DEF Unstake
<1>2. amount \in Nat /\ fee \in Nat /\ amount - fee \in Nat
  BY ArgumentAssumption, UtilsAssumption, PercentBound DEF U64, TypeOK, PoolConfig
<1> HIDE DEF fee, settled
<1>4. /\ Owed(u) \in Nat /\ settled \in [TokenAccount -> Nat]
      /\ \A v \in Reserves : settled[v] =
            IF v = pool_reward_token_vault THEN tokens[v] - Owed(u) ELSE tokens[v]
  BY <1>1, SettleBooks DEF settled
<1>5. /\ StakeAccount(u) \in UserAccounts /\ StakeAccount(creator) \in UserAccounts
      /\ pool_stake_token_vault \in Reserves /\ Reserves \subseteq TokenAccount
      /\ UserAccounts \subseteq TokenAccount
  BY AccountTypes, VaultTypes
<1>6. charged \in [TokenAccount -> Nat]
  <2>1. Holds(settled, pool_stake_token_vault, fee)
    BY <1>1, <1>2, <1>4, <1>5 DEF Holds
  <2> QED
    BY <1>2, <1>4, <1>5, <2>1, TransferType
<1>7. \A v \in Reserves : charged[v] =
            IF v = pool_stake_token_vault THEN settled[v] - fee ELSE settled[v]
  BY <1>2, <1>4, <1>5, TransferOut
<1> HIDE DEF charged
<1>8. \A v \in Reserves : tokens'[v] =
            IF v = pool_stake_token_vault THEN charged[v] - (amount - fee) ELSE charged[v]
  BY <1>1, <1>2, <1>5, <1>6, TransferOut
<1>9. \A v \in Reserves : tokens[v] \in Nat
  BY <1>5 DEF TypeOK
<1> DEFINE moved == 0 - amount
<1>10. moved \in Int /\ \A v \in Reserves : tokens'[v] =
            tokens[v] - (IF v = pool_reward_token_vault THEN Owed(u) ELSE 0)
                      + (IF v = pool_stake_token_vault THEN moved ELSE 0)
  BY <1>2, <1>4, <1>7, <1>8, <1>9
<1>11. /\ pool_state'.reward_amount = pool_state.reward_amount - Owed(u)
       /\ pool_state'.paid_rewards = pool_state.paid_rewards + Owed(u)
       /\ pool_state'.total_staked = pool_state.total_staked - amount
  BY <1>1, SettleBooks DEF PoolState, Left
<1>12. pool_state'.total_staked = pool_state.total_staked + moved
  BY <1>2, <1>11, BookTypes
<1> HIDE DEF moved
<1> QED
  BY <1>1, <1>4, <1>10, <1>11, <1>12, RestakeHistory, BooksSettled

LEMMA CallWithoutStakeBooks ==
    ASSUME TypeOK, NothingBeforeCreation, NEW u \in Users, CallWithoutStake(u)
    PROVE  BooksMove
<1>1. CanUpdate /\ pool_state' = Updated /\ UNCHANGED << opened, tokens, hist >>
  BY DEF CallWithoutStake
<1> QED
  BY <1>1, UpdatedType, BooksUnmoved

LEMMA ClaimStakedBooks ==
    ASSUME TypeOK, NEW u \in Users, ClaimStaked(u)
    PROVE  BooksMove
<1>1. /\ CanUpdate /\ CanSettle(u) /\ "pool" \in opened
      /\ tokens' = PaidOut(tokens, u, Owed(u))
      /\ pool_state' = Paid(Updated, Owed(u))
      /\ UNCHANGED << opened, hist >>
  BY DEF ClaimStaked
<1>2. /\ Owed(u) \in Nat
      /\ pool_state'.reward_amount = pool_state.reward_amount - Owed(u)
      /\ pool_state'.paid_rewards = pool_state.paid_rewards + Owed(u)
      /\ pool_state'.total_staked = pool_state.total_staked + 0
      /\ \A v \in Reserves : tokens'[v] =
            IF v = pool_reward_token_vault THEN tokens[v] - Owed(u) ELSE tokens[v]
  BY <1>1, SettleBooks, BookTypes
<1>3. \A v \in Reserves : tokens[v] \in Nat
  BY VaultTypes DEF TypeOK
<1>4. \A v \in Reserves : tokens'[v] =
            tokens[v] - (IF v = pool_reward_token_vault THEN Owed(u) ELSE 0)
                      + (IF v = pool_stake_token_vault THEN 0 ELSE 0)
  BY <1>2, <1>3
<1> QED
  BY <1>1, <1>2, <1>4, BooksSettled

(* Compounding with one mint: the reward counts as paid, as compounded and *)
(* as stake, and no token moves.                                           *)
LEMMA CompoundDirectBooks ==
    ASSUME TypeOK, NEW u \in Users, CompoundDirect(u)
    PROVE  BooksMove
<1> DEFINE compounded == hist.compounded + Owed(u)
           restaked == hist.restaked + Owed(u)
           restakes == hist.restakes + (IF Owed(u) > 0 THEN 1 ELSE 0)
<1>1. /\ CanCompound(u, Owed(u)) /\ CompoundState(u, Owed(u))
      /\ hist' = [hist EXCEPT !.compounded = compounded, !.restaked = restaked,
                              !.restakes = restakes]
      /\ UNCHANGED tokens
  BY DEF CompoundDirect
<1> HIDE DEF compounded, restaked, restakes
<1>2. /\ CanUpdate /\ "pool" \in opened
      /\ pool_state' = Compounded(Updated, Owed(u), Owed(u))
      /\ UNCHANGED opened
  BY <1>1 DEF CanCompound, CompoundState
<1>3. Owed(u) \in Nat
  BY <1>1, CompoundOwed
<1>4. /\ pool_state'.reward_amount = pool_state.reward_amount
      /\ pool_state'.paid_rewards = pool_state.paid_rewards + Owed(u)
      /\ pool_state'.total_staked = pool_state.total_staked + Owed(u)
  BY <1>2, UpdatedType DEF Compounded, PoolState
<1>5. hist \in HistType
  BY DEF TypeOK
<1>6. /\ hist'.funding = hist.funding /\ hist'.swept = hist.swept
      /\ hist'.compounded = compounded /\ hist'.restaked = restaked
      /\ hist'.swapped_in = hist.swapped_in /\ hist'.swapped_out = hist.swapped_out
  BY <1>1, <1>5 DEF HistType
<1>7. NothingBeforeCreation'
  BY <1>2 DEF NothingBeforeCreation
<1>8. UNCHANGED << HeldRewards, HeldStakes >>
  BY <1>3, <1>4, <1>6, BookTypes DEF HeldRewards, HeldStakes, restaked
<1>9. HeldMoves
  BY <1>1, <1>8 DEF HeldMoves, Held
<1> QED
  BY <1>3, <1>4, <1>6, <1>7, <1>9, BookTypes DEF BooksMove, compounded

(* Compounding with two mints: the reward counts as paid and as compounded *)
(* and leaves for the swap pool, whose answer no field counts.             *)
LEMMA CompoundSwapBooks ==
    ASSUME TypeOK, NEW u \in Users, NEW out \in SwapOutputs, CompoundSwap(u, out)
    PROVE  BooksMove
<1> DEFINE compounded == hist.compounded + Owed(u)
           swapped_in == hist.swapped_in + Owed(u)
           swapped_out == hist.swapped_out + out
           sent == Transfer(tokens, pool_reward_token_vault, RewardAccount(amm), Owed(u))
<1>1. /\ stake_mint # reward_mint
      /\ CanCompound(u, 0) /\ CompoundState(u, 0)
      /\ Holds(tokens, pool_reward_token_vault, Owed(u))
      /\ tokens' = Transfer(sent, StakeAccount(amm), pool_stake_token_vault, out)
      /\ hist' = [hist EXCEPT !.compounded = compounded, !.swapped_in = swapped_in,
                              !.swapped_out = swapped_out]
  BY DEF CompoundSwap
<1> HIDE DEF compounded, swapped_in, swapped_out, sent
<1>2. /\ CanUpdate /\ "pool" \in opened
      /\ pool_state' = Compounded(Updated, Owed(u), 0)
      /\ UNCHANGED opened
  BY <1>1 DEF CanCompound, CompoundState
<1>3. Owed(u) \in Nat /\ out \in Nat
  BY <1>1, CompoundOwed, ArgumentAssumption
<1>5. /\ StakeAccount(amm) \in UserAccounts /\ RewardAccount(amm) \in UserAccounts
      /\ Reserves \subseteq TokenAccount /\ UserAccounts \subseteq TokenAccount
      /\ tokens \in [TokenAccount -> Nat]
      /\ pool_stake_token_vault \in Reserves /\ pool_reward_token_vault \in Reserves
  BY AccountTypes, VaultTypes DEF TypeOK
<1>6. sent \in [TokenAccount -> Nat]
  BY <1>1, <1>3, <1>5, TransferType DEF sent
<1>7. \A v \in Reserves : sent[v] =
            IF v = pool_reward_token_vault THEN tokens[v] - Owed(u) ELSE tokens[v]
  BY <1>3, <1>5, TransferOut DEF sent
<1>8. \A v \in Reserves : tokens'[v] =
            tokens[v] - (IF v = pool_reward_token_vault THEN Owed(u) ELSE 0)
                      + (IF v = pool_stake_token_vault THEN out ELSE 0)
  <2>1. \A v \in Reserves : tokens'[v] =
            IF v = pool_stake_token_vault THEN sent[v] + out ELSE sent[v]
    BY <1>1, <1>3, <1>5, <1>6, TransferIn
  <2>2. \A v \in Reserves : tokens[v] \in Nat
    BY <1>5
  <2> QED
    BY <1>3, <1>7, <2>1, <2>2
<1>9. /\ pool_state'.reward_amount = pool_state.reward_amount
      /\ pool_state'.paid_rewards = pool_state.paid_rewards + Owed(u)
      /\ pool_state'.total_staked = pool_state.total_staked + 0
  BY <1>2, UpdatedType DEF Compounded, PoolState
<1>10. hist \in HistType
  BY DEF TypeOK
<1>11. /\ hist'.funding = hist.funding /\ hist'.swept = hist.swept
       /\ hist'.compounded = compounded /\ hist'.restaked = hist.restaked
       /\ hist'.swapped_in = swapped_in /\ hist'.swapped_out = swapped_out
  BY <1>1, <1>10 DEF HistType
<1>12. NothingBeforeCreation'
  BY <1>2 DEF NothingBeforeCreation
<1>13. HeldRewards' = HeldRewards - Owed(u) /\ HeldStakes' = HeldStakes + out
  BY <1>3, <1>9, <1>11, BookTypes DEF HeldRewards, HeldStakes, swapped_in, swapped_out
<1>14. HeldMoves
  BY <1>3, <1>8, <1>13, HeldMoved
<1> QED
  BY <1>1, <1>3, <1>9, <1>11, <1>12, <1>14, BookTypes DEF BooksMove, compounded

(* The sweep of stop_reward leaves the vault and stays in the books.       *)
LEMMA StopRewardBooks ==
    ASSUME TypeOK, StopReward
    PROVE  BooksMove
<1> DEFINE surplus == Surplus(Updated)
           swept == hist.swept + surplus
           earned == SaturatingSub(Updated.total_earned, surplus)
<1>1. /\ "pool" \in opened /\ CanUpdate
      /\ tokens' = Transfer(tokens, pool_reward_token_vault, RewardAccount(creator), surplus)
      /\ pool_state' = [Updated EXCEPT !.total_earned = earned]
      /\ hist' = [hist EXCEPT !.swept = swept, !.announced_end = slot]
      /\ UNCHANGED opened
  BY DEF StopReward
<1>2. Updated \in PoolState
  BY <1>1, UpdatedType
<1>3. surplus \in Nat
  BY <1>2, UtilsAssumption DEF Surplus, SaturatingSub, AvailableRewardTokens, PoolState, U64
<1> HIDE DEF surplus, swept, earned
<1>4. \A v \in Reserves : tokens'[v] =
            IF v = pool_reward_token_vault THEN tokens[v] - surplus ELSE tokens[v]
  BY <1>1, <1>3, TransferOut, VaultTypes, AccountTypes DEF TypeOK
<1>5. /\ pool_state'.reward_amount = pool_state.reward_amount
      /\ pool_state'.paid_rewards = pool_state.paid_rewards
      /\ pool_state'.total_staked = pool_state.total_staked
  BY <1>1, <1>2, UpdatedType DEF PoolState
<1>6. hist \in HistType
  BY DEF TypeOK
<1>7. /\ hist'.funding = hist.funding /\ hist'.swept = swept
      /\ hist'.compounded = hist.compounded /\ hist'.restaked = hist.restaked
      /\ hist'.swapped_in = hist.swapped_in /\ hist'.swapped_out = hist.swapped_out
  BY <1>1, <1>6 DEF HistType
<1>8. NothingBeforeCreation'
  BY <1>1 DEF NothingBeforeCreation
<1> DEFINE moved == 0
<1>9. /\ moved \in Int
      /\ HeldRewards' = HeldRewards - surplus /\ HeldStakes' = HeldStakes + moved
  BY <1>3, <1>5, <1>7, BookTypes DEF HeldRewards, HeldStakes, swept
<1>10. \A v \in Reserves : tokens'[v] =
            tokens[v] - (IF v = pool_reward_token_vault THEN surplus ELSE 0)
                      + (IF v = pool_stake_token_vault THEN moved ELSE 0)
  <2>1. \A v \in Reserves : tokens[v] \in Nat
    BY VaultTypes DEF TypeOK
  <2> QED
    BY <1>3, <1>4, <2>1
<1> HIDE DEF moved
<1>11. HeldMoves
  BY <1>3, <1>9, <1>10, HeldMoved
<1> QED
  BY <1>5, <1>7, <1>8, <1>11 DEF BooksMove

(* Every step moves the books as it moves the tokens.  Nothing is assumed  *)
(* of the balances, so this holds of a pool that shares its vaults.        *)
LEMMA BooksMoveStep == TypeOK /\ NothingBeforeCreation /\ [Next]_vars => BooksMove
<1> SUFFICES ASSUME TypeOK, NothingBeforeCreation, [Next]_vars PROVE BooksMove
  OBVIOUS
<1>1. UNCHANGED vars => BooksMove
  BY TickBooks DEF vars
<1>2. Tick => BooksMove
  BY TickBooks DEF Tick
<1>3. \A a \in DeployFees, b \in PerformanceFees : Initialize(a, b) => BooksMove
  BY InitializeBooks
<1>4. \A a \in StakeFees, b \in UnstakeFees, funding \in Fundings,
        rate \in Rates, duration \in Durations :
            CreatePool(a, b, funding, rate, duration) => BooksMove
  BY CreatePoolBooks
<1> QED
  BY <1>1, <1>2, <1>3, <1>4, StepCases, StartRewardBooks, StakeBooks, UnstakeBooks,
     CallWithoutStakeBooks, ClaimStakedBooks, CompoundDirectBooks, CompoundSwapBooks,
     StopRewardBooks

(* In the beginning the vaults are empty and the books say so.             *)
LEMMA InitBooks == Init => Books
<1> SUFFICES ASSUME Init PROVE Books
  OBVIOUS
<1>1. /\ pool_state.reward_amount = 0 /\ pool_state.paid_rewards = 0
      /\ pool_state.total_staked = 0
      /\ hist.funding = 0 /\ hist.swept = 0 /\ hist.compounded = 0
      /\ hist.restaked = 0 /\ hist.swapped_in = 0 /\ hist.swapped_out = 0
  BY DEF Init, PoolInit
<1>2. tokens[pool_stake_token_vault] = 0 /\ tokens[pool_reward_token_vault] = 0
  BY EmptyVaultAssumption DEF Init, LedgerInit
<1> QED
  BY <1>1, <1>2 DEF Books, NothingBeforeCreation, RewardBooks, Held, HeldRewards, HeldStakes

LEMMA BooksStep == TypeOK /\ TypeOK' /\ Books /\ [Next]_vars => Books'
<1> SUFFICES ASSUME TypeOK, TypeOK', Books, BooksMove PROVE Books'
  BY BooksMoveStep DEF Books
<1>1. RewardBooks'
  <2> DEFINE sum == pool_state.reward_amount + pool_state.paid_rewards
             origin == hist.funding + hist.compounded
             new_sum == pool_state'.reward_amount + pool_state'.paid_rewards
             new_origin == hist'.funding + hist'.compounded
  <2>1. sum \in Int /\ new_sum \in Int /\ origin \in Int /\ new_origin \in Int
    BY UtilsAssumption DEF TypeOK, PoolState, HistType, U64
  <2>2. sum = origin
    BY DEF Books, RewardBooks
  <2>3. new_sum - new_origin = sum - origin
    BY DEF BooksMove
  <2> HIDE DEF sum, origin, new_sum, new_origin
  <2>4. new_sum = new_origin
    BY <2>1, <2>2, <2>3
  <2> QED
    BY <2>4 DEF RewardBooks, new_sum, new_origin
<1>2. ASSUME NEW a \in Reserves, tokens[a] = Held(a) PROVE tokens'[a] = Held(a)'
  <2>1. tokens'[a] - Held(a)' = tokens[a] - Held(a)
    BY DEF BooksMove, HeldMoves
  <2>2. tokens'[a] \in Nat /\ tokens[a] \in Nat
    BY VaultTypes DEF TypeOK
  <2>3. Held(a)' \in Int
    <3>1. HeldRewards' \in Int /\ HeldStakes' \in Int
      BY UtilsAssumption DEF HeldRewards, HeldStakes, TypeOK, PoolState, HistType, U64
    <3> QED
      BY <3>1 DEF Held
  <2> QED
    BY <1>2, <2>1, <2>2, <2>3
<1>3. /\ tokens'[pool_reward_token_vault] = Held(pool_reward_token_vault)'
      /\ tokens'[pool_stake_token_vault] = Held(pool_stake_token_vault)'
  BY <1>2, VaultTypes DEF Books
<1> QED
  BY <1>1, <1>3 DEF Books, BooksMove

LEMMA BooksCorrect == Spec => []Books
<1> QED
  BY InitBooks, BooksStep, TypeCorrect, PTL DEF Spec

(* What the books say of two vaults, and of one.                           *)
LEMMA BooksExplain ==
    TypeOK /\ Books => RewardBooks /\ RewardVaultDrift /\ StakeVaultDrift /\ SharedVaultDrift
<1> SUFFICES ASSUME TypeOK, Books
             PROVE  RewardBooks /\ RewardVaultDrift /\ StakeVaultDrift /\ SharedVaultDrift
  OBVIOUS
<1>1. CASE pool_stake_token_vault # pool_reward_token_vault
  BY <1>1, BookTypes DEF Books, Held, HeldRewards, HeldStakes, RewardVaultDrift,
                         StakeVaultDrift, SharedVaultDrift
<1>2. CASE pool_stake_token_vault = pool_reward_token_vault
  <2>1. hist.swapped_in = 0 /\ hist.swapped_out = 0
    BY <1>2, VaultAssumption DEF Books
  <2> QED
    BY <1>2, <2>1, BookTypes DEF Books, Held, HeldRewards, HeldStakes, RewardVaultDrift,
                                 StakeVaultDrift, SharedVaultDrift
<1> QED
  BY <1>1, <1>2 DEF Books

-----------------------------------------------------------------------------
(* What is left and what was paid add up to the funding and the compounded *)
(* rewards, after any history of calls.                                    *)
THEOREM RewardsBalance == Spec => []RewardBooks
<1> QED
  BY BooksExplain, TypeCorrect, BooksCorrect, PTL

(* The reward vault against reward_amount, for two vaults.                 *)
THEOREM RewardVaultExplained == Spec => []RewardVaultDrift
<1> QED
  BY BooksExplain, TypeCorrect, BooksCorrect, PTL

(* The stake vault against total_staked, for two vaults.                   *)
THEOREM StakeVaultExplained == Spec => []StakeVaultDrift
<1> QED
  BY BooksExplain, TypeCorrect, BooksCorrect, PTL

(* The one vault of a pool against both.                                   *)
THEOREM SharedVaultExplained == Spec => []SharedVaultDrift
<1> QED
  BY BooksExplain, TypeCorrect, BooksCorrect, PTL
=============================================================================
