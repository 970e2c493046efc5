SPECIFICATION Spec
CONSTANTS
    Prec = 100
    SdUnit = 10
    v1 = v1
    v2 = v2
    v3 = v3
    f = f
    Validators = {v1, v2, v3}
    Feeders = {}
    Denoms = {1, 2}
    VoteRates = {100, 200}
    InitParams <- BaseParams
    ParamsProposals <- NoProposals
    PowerReduction = 2
    InitTokens <- VotingTokens
    Delegates = {}
    Faulty = {v3}
    UnbondingBlocks = 4
    BlockGaps = {1}
    MaxHeight = 3
INVARIANTS TallyDeterministic
PROPERTIES QuorumBehindRate MajoritySetsRate FairWhenAllPass
CHECK_DEADLOCK FALSE
