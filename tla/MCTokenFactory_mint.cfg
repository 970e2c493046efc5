SPECIFICATION Spec
CONSTANTS
    alice = alice
    contract = contract
    gov = gov
    pool = pool
    d1 = d1
    d2 = d2
    native = native
    none = none
    Denoms = {d1, d2}
    Creator <- MCCreator
    Accounts = {alice, contract}
    Contracts = {contract}
    Modules = {gov, pool}
    Blocked = {pool}
    Community = pool
    NoAdmin = none
    Native = native
    CapabilitySets <- MCCapabilities
    GenesisAdmins <- MCGenesis
    InitBalances <- MCBalances
    InitSupply <- MCSupply
    Fees = {0, 1}
    Amounts = {1}
    MaxSupply = 2
PROPERTIES MintReachesRecipient
