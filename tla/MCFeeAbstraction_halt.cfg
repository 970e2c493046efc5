SPECIFICATION FeeSpec
CONSTANTS
    Prec = 100
    BaseDenomUnit = 2
    alice = alice
    native = native
    usd = usd
    eth = eth
    Accounts = {alice}
    Coins = {usd, eth}
    Native = native
    Paired = {eth}
    Denoms = {1, 2}
    NativeOracleDenom = 1
    Values = {50, 100}
    Whitelists <- Targets
    Lookbacks = {1, 2}
    Gaps = {0, 1}
    Horizon = 3
    InitBalance <- Wallet
    InitErc20 <- Erc20Wallet
    Fees = {30}
    EVMValues = {10}
    InitFeeParams <- FeeParams
    FeeProposals <- FeeParamsProposals
    TokenProposals <- TokenCollections
    MaxBlocks = 4
INVARIANT FallbackPreventsHalt
CHECK_DEADLOCK FALSE
