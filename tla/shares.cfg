SPECIFICATION SharesSpec
CONSTANTS
    Users = {u1, u2}
    u1 = u1
    u2 = u2
    creator = creator
    amm = amm
    treasury = treasury
    stake_mint = stake_mint
    reward_mint = reward_mint
    pool_stake_token_vault = stake_vault
    pool_reward_token_vault = reward_vault
    MaxU64 = 100000
    SLOTS_PER_DAY = 3
    reward_mint_decimals = 8
    START_DELAY = 1
    user_info_rent = 1
    pool_rent = 1
    DeployFees = {1}
    PerformanceFees = {1}
    StakeFees = {2000}
    UnstakeFees = {2000}
    Fundings = {20}
    Rates = {3}
    Durations = {1}
    StakeAmounts = {5, 10}
    UnstakeAmounts = {1}
    SwapOutputs = {}
    StakerTokens = 10
    CreatorTokens = 20
    SwapReserve = 0
    StakerLamports = 5
    MaxSlot = 7
    ShareScale = 720720
    InitialTokens <- MCInitialTokens
    InitialLamports <- MCInitialLamports
SYMMETRY Symmetry
INVARIANTS
    DebtCovered
    PaidWithinEmission
    NobodyOverpaid
    NobodyUnderpaid
