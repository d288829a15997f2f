-------------------------- MODULE TwoPools_proofs --------------------------
(***************************************************************************)
(* Proofs about two pools that share a ledger and some of their vaults.    *)
(***************************************************************************)
EXTENDS TwoPools, TLAPS

-----------------------------------------------------------------------------
(* The assumptions of StakingPool hold of each pool, and so do its lemmas. *)

LEMMA FirstAssumptions ==
    /\ P1!UtilsAssumption /\ P1!UsersAssumption /\ P1!CostAssumption
    /\ P1!FeeAssumption /\ P1!ArgumentAssumption /\ P1!InitialAssumption
    /\ P1!EmptyVaultAssumption /\ P1!VaultAssumption
<1>1. P1!UtilsAssumption /\ P1!CostAssumption
  BY NumbersAssumption DEF P1!UtilsAssumption, P1!CostAssumption
<1>2. P1!UsersAssumption
  BY TwoUsersAssumption DEF P1!UsersAssumption, P1!IsFiniteSet, IsFiniteSet
<1>3. P1!FeeAssumption /\ P1!ArgumentAssumption
  BY TwoPoolArgumentAssumption DEF P1!FeeAssumption, P1!ArgumentAssumption, P1!U64
<1>4. P1!PoolTokenAccount = TokenAccounts1
  BY DEF P1!PoolTokenAccount, P1!Wallet, TokenAccounts1, WalletAccounts
<1>5. P1!InitialAssumption
  <2>1. /\ P1!TokenAccount = TokenAccounts1 \union TokenAccounts2
        /\ InitialTokens \in [P1!TokenAccount -> Nat]
    BY NumbersAssumption DEF P1!TokenAccount, InitialTokens, InitialBalance
  <2>2. /\ P1!SolAccount = Users1 \union Users2 \union {creator1, creator2, treasury}
        /\ InitialLamports \in [P1!SolAccount -> Nat]
    BY NumbersAssumption DEF P1!SolAccount, InitialLamports
  <2> QED
    BY <1>4, <2>1, <2>2 DEF P1!InitialAssumption, P1!PoolSolAccount
<1>6. P1!EmptyVaultAssumption /\ P1!VaultAssumption
  <2>1. ASSUME NEW mint \in {stake_mint1, reward_mint1}
        PROVE  /\ InitialTokens[Vault(mint)] = 0
               /\ Vault(mint) \notin P1!Wallet \X {stake_mint1, reward_mint1}
    <3>1. Vault(mint) \in TokenAccounts1 \union TokenAccounts2
      BY DEF TokenAccounts1
    <3>2. Vault(mint)[1] = admin
      BY DEF Vault
    <3>3. admin \notin P1!Wallet
      BY AdminAssumption DEF P1!Wallet
    <3> QED
      BY <3>1, <3>2, <3>3, AdminAssumption DEF InitialTokens, InitialBalance, Vault
  <2> QED
    BY <2>1 DEF P1!EmptyVaultAssumption, P1!VaultAssumption, Vault
<1> QED
  BY <1>1, <1>2, <1>3, <1>5, <1>6

LEMMA FirstInit == P1!Init => P1!OwnBooks
  BY FirstAssumptions, P1!OwnBooksInit

LEMMA FirstStep == P1!OwnBooks /\ [P1!Next]_P1!vars => P1!OwnBooks' /\ P1!HeldMoves
  BY FirstAssumptions, P1!OwnBooksStep

LEMMA FirstHeldType ==
    P1!OwnBooks => \A a \in P1!TokenAccount : P1!Held(a) \in Int /\ tokens[a] \in Nat
  BY FirstAssumptions, P1!HeldType

LEMMA FirstHeldTypeNext ==
    P1!OwnBooks'
        => (\A a \in P1!TokenAccount : P1!Held(a) \in Int /\ tokens[a] \in Nat)'
  BY FirstHeldType, PTL

LEMMA FirstHeld == P1!TypeOK /\ P1!BooksBacked => \A a : P1!Held(a) \in Nat
  BY FirstAssumptions, P1!BackedHeld

LEMMA FirstStays ==
    (P1!OwnBooks /\ P1!BooksBacked /\ P1!VaultsCover)'
            /\ UNCHANGED << pool_config1, pool_state1, user_info1, slot >>
        => \A u \in Users1 : P1!CanLeave(u) => P1!CanLeave(u)'
  BY FirstAssumptions, P1!LeavableStays

LEMMA SecondAssumptions ==
    /\ P2!UtilsAssumption /\ P2!UsersAssumption /\ P2!CostAssumption
    /\ P2!FeeAssumption /\ P2!ArgumentAssumption /\ P2!InitialAssumption
    /\ P2!EmptyVaultAssumption /\ P2!VaultAssumption
<1>1. P2!UtilsAssumption /\ P2!CostAssumption
  BY NumbersAssumption DEF P2!UtilsAssumption, P2!CostAssumption
<1>2. P2!UsersAssumption
  BY TwoUsersAssumption DEF P2!UsersAssumption, P2!IsFiniteSet, IsFiniteSet
<1>3. P2!FeeAssumption /\ P2!ArgumentAssumption
  BY TwoPoolArgumentAssumption DEF P2!FeeAssumption, P2!ArgumentAssumption, P2!U64
<1>4. P2!PoolTokenAccount = TokenAccounts2
  BY DEF P2!PoolTokenAccount, P2!Wallet, TokenAccounts2, WalletAccounts
<1>5. P2!InitialAssumption
  <2>1. /\ P2!TokenAccount = TokenAccounts1 \union TokenAccounts2
        /\ InitialTokens \in [P2!TokenAccount -> Nat]
    BY NumbersAssumption DEF P2!TokenAccount, InitialTokens, InitialBalance
  <2>2. /\ P2!SolAccount = Users1 \union Users2 \union {creator1, creator2, treasury}
        /\ InitialLamports \in [P2!SolAccount -> Nat]
    BY NumbersAssumption DEF P2!SolAccount, InitialLamports
  <2> QED
    BY <1>4, <2>1, <2>2 DEF P2!InitialAssumption, P2!PoolSolAccount
<1>6. P2!EmptyVaultAssumption /\ P2!VaultAssumption
  <2>1. ASSUME NEW mint \in {stake_mint2, reward_mint2}
        PROVE  /\ InitialTokens[Vault(mint)] = 0
               /\ Vault(mint) \notin P2!Wallet \X {stake_mint2, reward_mint2}
    <3>1. Vault(mint) \in TokenAccounts1 \union TokenAccounts2
      BY DEF TokenAccounts2
    <3>2. Vault(mint)[1] = admin
      BY DEF Vault
    <3>3. admin \notin P2!Wallet
      BY AdminAssumption DEF P2!Wallet
    <3> QED
      BY <3>1, <3>2, <3>3, AdminAssumption DEF InitialTokens, InitialBalance, Vault
  <2> QED
    BY <2>1 DEF P2!EmptyVaultAssumption, P2!VaultAssumption, Vault
<1> QED
  BY <1>1, <1>2, <1>3, <1>5, <1>6

LEMMA SecondInit == P2!Init => P2!OwnBooks
  BY SecondAssumptions, P2!OwnBooksInit

LEMMA SecondStep == P2!OwnBooks /\ [P2!Next]_P2!vars => P2!OwnBooks' /\ P2!HeldMoves
  BY SecondAssumptions, P2!OwnBooksStep

LEMMA SecondHeldType ==
    P2!OwnBooks => \A a \in P2!TokenAccount : P2!Held(a) \in Int /\ tokens[a] \in Nat
  BY SecondAssumptions, P2!HeldType

LEMMA SecondHeldTypeNext ==
    P2!OwnBooks'
        => (\A a \in P2!TokenAccount : P2!Held(a) \in Int /\ tokens[a] \in Nat)'
  BY SecondHeldType, PTL

LEMMA SecondHeld == P2!TypeOK /\ P2!BooksBacked => \A a : P2!Held(a) \in Nat
  BY SecondAssumptions, P2!BackedHeld

LEMMA SecondStays ==
    (P2!OwnBooks /\ P2!BooksBacked /\ P2!VaultsCover)'
            /\ UNCHANGED << pool_config2, pool_state2, user_info2, slot >>
        => \A u \in Users2 : P2!CanLeave(u) => P2!CanLeave(u)'
  BY SecondAssumptions, P2!LeavableStays

-----------------------------------------------------------------------------
(* The vaults of both pools are accounts of no wallet of either, and empty *)
(* in the beginning.                                                       *)
LEMMA VaultsReserved ==
    /\ Vaults \subseteq P1!Reserves /\ Vaults \subseteq P2!Reserves
    /\ Vaults \subseteq P1!TokenAccount /\ Vaults \subseteq P2!TokenAccount
    /\ \A v \in Vaults : InitialTokens[v] = 0
<1>1. P1!TokenAccount = TokenAccounts1 \union TokenAccounts2
  BY DEF P1!TokenAccount, InitialTokens
<1>2. P2!TokenAccount = TokenAccounts1 \union TokenAccounts2
  BY DEF P2!TokenAccount, InitialTokens
<1>3. Vaults \subseteq TokenAccounts1 \union TokenAccounts2
  BY DEF Vaults, TokenAccounts1, TokenAccounts2
<1>4. \A v \in Vaults : v[1] = admin
  BY DEF Vaults, Vault
<1>5. admin \notin P1!Wallet /\ admin \notin P2!Wallet
  BY AdminAssumption DEF P1!Wallet, P2!Wallet
<1>6. \A v \in Vaults : v \notin P1!UserAccounts /\ v \notin P2!UserAccounts
  BY <1>4, <1>5 DEF P1!UserAccounts, P2!UserAccounts
<1>7. \A v \in Vaults : InitialTokens[v] = 0
  BY <1>3, <1>4, AdminAssumption DEF InitialTokens, InitialBalance
<1> QED
  BY <1>1, <1>2, <1>3, <1>6, <1>7 DEF P1!Reserves, P2!Reserves

(* A step of the one pool leaves the ledgers with their types, and with    *)
(* that the other pool with its books.                                     *)
LEMMA FirstKeepsSecond ==
    P1!OwnBooks' /\ P2!OwnBooks /\ UNCHANGED pool2
        => P2!OwnBooks' /\ \A a : P2!Held(a)' = P2!Held(a)
<1> SUFFICES ASSUME P1!OwnBooks', P2!OwnBooks, UNCHANGED pool2
             PROVE  P2!OwnBooks' /\ \A a : P2!Held(a)' = P2!Held(a)
  OBVIOUS
<1>1. UNCHANGED << opened2, pool_config2, pool_state2, user_info2, hist2 >>
  BY DEF pool2
<1>2. P2!TypeOK'
  <2>1. P1!TypeOK' /\ P2!TypeOK
    BY DEF P1!OwnBooks, P2!OwnBooks
  <2>2. /\ platform' \in P2!PlatformInfo /\ slot' \in Nat
        /\ tokens' \in [P2!TokenAccount -> Nat] /\ lamports' \in [P2!SolAccount -> Nat]
    BY <2>1 DEF P1!TypeOK, P1!PlatformInfo, P2!PlatformInfo, P1!TokenAccount,
                P2!TokenAccount, P1!SolAccount, P2!SolAccount
  <2> QED
    BY <1>1, <2>1, <2>2 DEF P2!TypeOK
<1>3. P2!NothingBeforeCreation' /\ P2!TotalStakedIsSum'
  BY <1>1 DEF P2!OwnBooks, P2!NothingBeforeCreation, P2!TotalStakedIsSum, P2!Stakes
<1>4. \A a : P2!Held(a)' = P2!Held(a)
  BY <1>1 DEF P2!Held, P2!HeldRewards, P2!HeldStakes
<1> QED
  BY <1>2, <1>3, <1>4 DEF P2!OwnBooks

LEMMA SecondKeepsFirst ==
    P2!OwnBooks' /\ P1!OwnBooks /\ UNCHANGED pool1
        => P1!OwnBooks' /\ \A a : P1!Held(a)' = P1!Held(a)
<1> SUFFICES ASSUME P2!OwnBooks', P1!OwnBooks, UNCHANGED pool1
             PROVE  P1!OwnBooks' /\ \A a : P1!Held(a)' = P1!Held(a)
  OBVIOUS
<1>1. UNCHANGED << opened1, pool_config1, pool_state1, user_info1, hist1 >>
  BY DEF pool1
<1>2. P1!TypeOK'
  <2>1. P2!TypeOK' /\ P1!TypeOK
    BY DEF P2!OwnBooks, P1!OwnBooks
  <2>2. /\ platform' \in P1!PlatformInfo /\ slot' \in Nat
        /\ tokens' \in [P1!TokenAccount -> Nat] /\ lamports' \in [P1!SolAccount -> Nat]
    BY <2>1 DEF P2!TypeOK, P2!PlatformInfo, P1!PlatformInfo, P2!TokenAccount,
                P1!TokenAccount, P2!SolAccount, P1!SolAccount
  <2> QED
    BY <1>1, <2>1, <2>2 DEF P1!TypeOK
<1>3. P1!NothingBeforeCreation' /\ P1!TotalStakedIsSum'
  BY <1>1 DEF P1!OwnBooks, P1!NothingBeforeCreation, P1!TotalStakedIsSum, P1!Stakes
<1>4. \A a : P1!Held(a)' = P1!Held(a)
  BY <1>1 DEF P1!Held, P1!HeldRewards, P1!HeldStakes
<1> QED
  BY <1>2, <1>3, <1>4 DEF P1!OwnBooks

-----------------------------------------------------------------------------
(* The inductive invariant: both pools keep their own books, and the       *)
(* vaults agree with the sum.                                              *)
SharedBooks == P1!OwnBooks /\ P2!OwnBooks /\ SharedVaultsAddUp

LEMMA InitShared == Init => SharedBooks
<1> SUFFICES ASSUME Init PROVE SharedBooks
  OBVIOUS
<1>1. P1!OwnBooks
  BY FirstInit DEF Init, P1!Init, P1!LedgerInit
<1>2. P2!OwnBooks
  BY SecondInit DEF Init, P2!Init, P2!LedgerInit
<1>3. ASSUME NEW v \in Vaults PROVE tokens[v] = P1!Held(v) + P2!Held(v)
  <2>1. P1!Held(v) = 0
    BY DEF Init, P1!PoolInit, P1!Held, P1!HeldRewards, P1!HeldStakes
  <2>2. P2!Held(v) = 0
    BY DEF Init, P2!PoolInit, P2!Held, P2!HeldRewards, P2!HeldStakes
  <2> QED
    BY <2>1, <2>2, VaultsReserved DEF Init
<1> QED
  BY <1>1, <1>2, <1>3 DEF SharedBooks, SharedVaultsAddUp

(* An instruction of one pool is a step of that pool.                      *)
LEMMA FirstInstruction ==
    SharedBooks /\ Instruction1 => P1!OwnBooks' /\ P1!HeldMoves
<1>1. Instruction1 => P1!Next
  BY DEF Instruction1, P1!Next, P1!CompoundNext, P1!CoreNext, P1!Setup
<1> QED
  BY <1>1, FirstStep DEF SharedBooks

LEMMA SecondInstruction ==
    SharedBooks /\ Instruction2 => P2!OwnBooks' /\ P2!HeldMoves
<1>1. Instruction2 => P2!Next
  BY DEF Instruction2, P2!Next, P2!CompoundNext, P2!CoreNext, P2!Setup
<1> QED
  BY <1>1, SecondStep DEF SharedBooks

(* initialize and the clock are steps of both, and move no books.          *)
LEMMA SharedStep ==
    ASSUME SharedBooks,
           \/ \E a \in DeployFees, b \in PerformanceFees : Initialize(a, b)
           \/ Tick
    PROVE  SharedBooks'
<1>1. P1!Next /\ P2!Next
  BY DEF Initialize, Tick, P1!Next, P1!CompoundNext, P1!CoreNext, P1!Setup,
         P2!Next, P2!CompoundNext, P2!CoreNext, P2!Setup
<1>2. P1!OwnBooks' /\ P2!OwnBooks'
  BY <1>1, FirstStep, SecondStep DEF SharedBooks
<1>3. UNCHANGED << tokens, pool_state1, hist1, pool_state2, hist2 >>
  BY DEF Initialize, Tick, P1!Initialize, P1!Tick, P2!Initialize, P2!Tick
<1>4. SharedVaultsAddUp'
  BY <1>3 DEF SharedBooks, SharedVaultsAddUp, P1!Held, P1!HeldRewards, P1!HeldStakes,
              P2!Held, P2!HeldRewards, P2!HeldStakes
<1> QED
  BY <1>2, <1>4 DEF SharedBooks

(* A vault whose tokens move with the books of the one pool, while those   *)
(* of the other stay, still agrees with the sum.                           *)
LEMMA StillAddsUp ==
    ASSUME NEW t \in Int, NEW s \in Int, NEW h \in Int, NEW g \in Int, NEW k \in Int,
           t = h + k, s - g = t - h
    PROVE  s = g + k
  OBVIOUS

LEMMA SharedBooksStep == SharedBooks /\ [Next]_vars => SharedBooks'
<1> SUFFICES ASSUME SharedBooks, [Next]_vars PROVE SharedBooks'
  OBVIOUS
<1>1. \A v \in Vaults :
            /\ v \in P1!TokenAccount /\ v \in P1!Reserves
            /\ v \in P2!TokenAccount /\ v \in P2!Reserves
  BY VaultsReserved
<1>2. \A v \in Vaults :
            /\ tokens[v] \in Int /\ P1!Held(v) \in Int /\ P2!Held(v) \in Int
            /\ tokens[v] = P1!Held(v) + P2!Held(v)
  BY <1>1, FirstHeldType, SecondHeldType DEF SharedBooks, SharedVaultsAddUp
<1>3. CASE Instruction1
  <2>1. P1!OwnBooks' /\ P1!HeldMoves
    BY <1>3, FirstInstruction
  <2>2. P2!OwnBooks' /\ \A a : P2!Held(a)' = P2!Held(a)
    BY <1>3, <2>1, FirstKeepsSecond DEF Instruction1, SharedBooks
  <2>3. ASSUME NEW v \in Vaults PROVE tokens'[v] = P1!Held(v)' + P2!Held(v)'
    <3>1. tokens'[v] - P1!Held(v)' = tokens[v] - P1!Held(v)
      BY <1>1, <2>1 DEF P1!HeldMoves
    <3>2. tokens'[v] \in Int /\ P1!Held(v)' \in Int
      BY <1>1, <2>1, FirstHeldTypeNext
    <3> QED
      BY <1>2, <2>2, <3>1, <3>2, StillAddsUp
  <2> QED
    BY <2>1, <2>2, <2>3 DEF SharedBooks, SharedVaultsAddUp
<1>4. CASE Instruction2
  <2>1. P2!OwnBooks' /\ P2!HeldMoves
    BY <1>4, SecondInstruction
  <2>2. P1!OwnBooks' /\ \A a : P1!Held(a)' = P1!Held(a)
    BY <1>4, <2>1, SecondKeepsFirst DEF Instruction2, SharedBooks
  <2>3. ASSUME NEW v \in Vaults PROVE tokens'[v] = P1!Held(v)' + P2!Held(v)'
    <3>1. tokens'[v] - P2!Held(v)' = tokens[v] - P2!Held(v)
      BY <1>1, <2>1 DEF P2!HeldMoves
    <3>2. tokens'[v] \in Int /\ P2!Held(v)' \in Int
      BY <1>1, <2>1, SecondHeldTypeNext
    <3>3. tokens[v] = P2!Held(v) + P1!Held(v)
      BY <1>2
    <3>4. tokens'[v] = P2!Held(v)' + P1!Held(v)'
      BY <1>2, <2>2, <3>1, <3>2, <3>3, StillAddsUp
    <3> QED
      BY <1>2, <2>2, <3>2, <3>4
  <2> QED
    BY <2>1, <2>2, <2>3 DEF SharedBooks, SharedVaultsAddUp
<1>5. CASE UNCHANGED vars
  <2>1. UNCHANGED << pool1, pool2, tokens >>
    BY <1>5 DEF vars
  <2>2. P1!OwnBooks'
    BY <1>5, FirstStep DEF vars, pool1, P1!vars, SharedBooks
  <2>3. P2!OwnBooks' /\ \A a : P2!Held(a)' = P2!Held(a)
    BY <2>1, <2>2, FirstKeepsSecond DEF SharedBooks
  <2>4. \A a : P1!Held(a)' = P1!Held(a)
    BY <2>1, <2>3, SecondKeepsFirst DEF SharedBooks
  <2> QED
    BY <2>1, <2>2, <2>3, <2>4 DEF SharedBooks, SharedVaultsAddUp
<1> QED
  BY <1>3, <1>4, <1>5, SharedStep DEF Next

LEMMA SharedBooksCorrect == Spec => []SharedBooks
  BY InitShared, SharedBooksStep, PTL DEF Spec

(* Each vault holds the sum of what the books of the two pools say that it *)
(* holds for them, however their instructions interleave.                  *)
THEOREM SharedVaultsBalance == Spec => []SharedVaultsAddUp
<1>1. SharedBooks => SharedVaultsAddUp
  BY DEF SharedBooks
<1> QED
  BY <1>1, SharedBooksCorrect, PTL

-----------------------------------------------------------------------------
(* With the books of both pools backed, no vault holds less than either    *)
(* pool counts on.                                                         *)
LEMMA BackedCover ==
    SharedBooks /\ P1!BooksBacked /\ P2!BooksBacked => P1!VaultsCover /\ P2!VaultsCover
<1> SUFFICES ASSUME SharedBooks, P1!BooksBacked, P2!BooksBacked
             PROVE  P1!VaultsCover /\ P2!VaultsCover
  OBVIOUS
<1>1. \A v \in Vaults : tokens[v] = P1!Held(v) + P2!Held(v)
  BY DEF SharedBooks, SharedVaultsAddUp
<1>2. \A v \in Vaults : P1!Held(v) \in Nat /\ P2!Held(v) \in Nat
  BY FirstHeld, SecondHeld DEF SharedBooks, P1!OwnBooks, P2!OwnBooks
<1>3. \A v \in Vaults : P1!Held(v) <= tokens[v] /\ P2!Held(v) <= tokens[v]
  BY <1>1, <1>2
<1> QED
  BY <1>3 DEF P1!VaultsCover, P2!VaultsCover, Vaults

LEMMA BackedCoverNext ==
    SharedBooks' /\ P1!BooksBacked' /\ P2!BooksBacked'
        => P1!VaultsCover' /\ P2!VaultsCover'
  BY BackedCover, PTL

(* While nobody sweeps or compounds, no call of one pool locks a staker of *)
(* the other in.                                                           *)
THEOREM PoolsStayIsolated == Spec => PoolsIsolated
<1>1. ASSUME SharedBooks', P1!BooksBacked', P2!BooksBacked', slot' = slot, pool2' = pool2
      PROVE  \A u \in Users2 : P2!CanLeave(u) => P2!CanLeave(u)'
  BY <1>1, BackedCoverNext, SecondStays DEF SharedBooks, pool2
<1>2. ASSUME SharedBooks', P1!BooksBacked', P2!BooksBacked', slot' = slot, pool1' = pool1
      PROVE  \A u \in Users1 : P1!CanLeave(u) => P1!CanLeave(u)'
  BY <1>2, BackedCoverNext, FirstStays DEF SharedBooks, pool1
<1>3. SharedBooks /\ [Next]_vars
        => [ P1!BooksBacked' /\ P2!BooksBacked' /\ slot' = slot =>
                /\ pool2' = pool2 => \A u \in Users2 : P2!CanLeave(u) => P2!CanLeave(u)'
                /\ pool1' = pool1 => \A u \in Users1 : P1!CanLeave(u) => P1!CanLeave(u)' ]_vars
  BY <1>1, <1>2, SharedBooksStep
<1> QED
  BY <1>3, SharedBooksCorrect, PTL DEF Spec, PoolsIsolated
=============================================================================
