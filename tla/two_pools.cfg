SPECIFICATION Spec
CONSTANTS
    MaxU64 = 100000
    SLOTS_PER_DAY = 3
    START_DELAY = 1
    user_info_rent = 1
    pool_rent = 1
    admin = admin
    amm = amm
    treasury = treasury
    u1 = u1
    u2 = u2
    mint_a = mint_a
    mint_b = mint_b
    Users1 = {u1}
    Users2 = {u2}
    creator1 = creator1
    creator2 = creator2
    stake_mint1 = mint_a
    reward_mint1 = mint_b
    reward_mint_decimals1 = 9
    stake_mint2 = mint_b
    reward_mint2 = mint_b
    reward_mint_decimals2 = 9
    DeployFees = {1}
    PerformanceFees = {1}
    StakeFees = {2000}
    UnstakeFees = {2000}
    Fundings1 = {8}
    Fundings2 = {20}
    Rates = {8}
    Durations = {1}
    StakeAmounts = {5}
    UnstakeAmounts = {3}
    SwapOutputs = {1}
    StakerTokens = 10
    CreatorTokens = 20
    SwapReserve = 3
    StakerLamports = 4
    CreatorLamports = 4
    MaxSlot = 5
INVARIANTS
    SharedVaultsAddUp
PROPERTIES
    PoolsIsolated
