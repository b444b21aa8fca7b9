SPECIFICATION MCPortalSpec
CONSTANTS
    Scale = 1
    Module = module
    Yield = yield
    StakedVault = vault
    Warp = warp
    alice = alice
    Collector = alice
    Account = {alice, vault, warp}
    Amounts = {1, 2}
    Indices = {2, 3}
    Low = 2
    High = 3
    ChainId = {1, 2}
    ThisChain = 1
    Contract = {c1, c2}
    c1 = c1
    c2 = c2
    NoContract = none
    Manager = manager
    RemoteToken = {wrapped}
    wrapped = wrapped
    RawToken = usdn
    NoOwner = nobody
    Vaa <- MCVaa
    NonceModulus = 2
    MaxSupply = 4
    MaxPrincipal = 1
    MaxPosted = 2
INVARIANTS
    PortalTypeOK
    SupplyAccounted
    NoncesFresh
    PostedIndicesOrdered
    NoSelfDelivery
PROPERTIES
    PauseFreezesSupply
