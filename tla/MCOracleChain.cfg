SPECIFICATION ChainSpec
CONSTANTS
    Prec = 100
    SdUnit = 10
    v1 = v1
    v2 = v2
    Validators = {v1, v2}
    Feeders = {}
    Denoms = {1, 2}
    VoteRates = {100}
    InitParams <- ChainParams
    ParamsProposals <- ChainProposals
    PowerReduction = 2
    InitTokens <- EqualTokens
    Delegates = {}
    Faulty = {v2}
    UnbondingBlocks = 0
    BlockGaps = {1}
    MaxHeight = 4
    InitFunds <- OneFee
    RestartGaps = {2}
    MaxRestarts = 1
    Horizon = 3
INVARIANTS AtMostOneFreeVote VotesOnTargets
PROPERTIES QuorumBehindRate WhitelistApplied FeedSpec
CHECK_DEADLOCK FALSE
