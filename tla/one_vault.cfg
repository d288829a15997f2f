SPECIFICATION Spec
CONSTANTS
    Users = {u1, u2}
    u1 = u1
    u2 = u2
    creator = creator
    amm = amm
    treasury = treasury
    stake_mint = mint
    reward_mint = mint
    pool_stake_token_vault = vault
    pool_reward_token_vault = vault
    MaxU64 = 10000
    SLOTS_PER_DAY = 3
    reward_mint_decimals = 6
    START_DELAY = 1
    user_info_rent = 1
    pool_rent = 1
    DeployFees = {1}
    PerformanceFees = {1}
    StakeFees = {2000}
    UnstakeFees = {2000}
    Fundings = {30}
    Rates = {6}
    Durations = {1}
    StakeAmounts = {5}
    UnstakeAmounts = {4}
    SwapOutputs = {}
    StakerTokens = 20
    CreatorTokens = 30
    SwapReserve = 0
    StakerLamports = 5
    MaxSlot = 7
    InitialTokens <- MCInitialTokens
    InitialLamports <- MCInitialLamports
SYMMETRY Symmetry
INVARIANTS
    SharedVaultDrift
    TotalStakedIsSum
PROPERTIES
    NoDilution
    FrozenStake
    FrozenPool
