SPECIFICATION FairCoreSpec
CONSTANTS
    Users = {u1, u2}
    u1 = u1
    u2 = u2
    creator = creator
    amm = amm
    treasury = treasury
    stake_mint = stake_mint
    reward_mint = stake_mint
    pool_stake_token_vault = vault
    pool_reward_token_vault = vault
    MaxU64 = 100000
    SLOTS_PER_DAY = 3
    reward_mint_decimals = 8
    START_DELAY = 1
    user_info_rent = 1
    pool_rent = 1
    DeployFees = {1}
    PerformanceFees = {0, 1}
    StakeFees = {2000}
    UnstakeFees = {0}
    Fundings = {14, 25}
    Rates = {3}
    Durations = {1}
    StakeAmounts = {5}
    UnstakeAmounts = {3}
    SwapOutputs = {}
    StakerTokens = 5
    CreatorTokens = 25
    SwapReserve = 0
    StakerLamports = 2
    MaxSlot = 6
    InitialTokens <- MCInitialTokens
    InitialLamports <- MCInitialLamports
PROPERTIES
    ClaimsArePaid
    StakesCanLeave
