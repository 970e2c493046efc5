SPECIFICATION Spec
CONSTANTS
    Prec = 100
    SdUnit = 10
    v1 = v1
    v2 = v2
    v3 = v3
    Validators = {v1, v2}
    f = f
    Feeders = {f}
    Denoms = {1}
    VoteRates = {100}
    InitParams <- SlashParams
    ParamsProposals <- LongWindow
    PowerReduction = 2
    InitTokens <- EqualTokens
    Delegates = {f}
    Faulty = {v1}
    UnbondingBlocks = 2
    BlockGaps = {1}
    MaxHeight = 7
INVARIANTS TypeOK WindowAccounting CountersHaveValidators
CHECK_DEADLOCK FALSE
