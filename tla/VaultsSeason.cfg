SPECIFICATION MCVaultsLive
CONSTANTS
    Scale = 1
    Precision = 100
    Module = module
    Yield = yield
    StakedVault = stakedVault
    FlexibleVault = flex
    Warp = warp
    Collector = collector
    alice = alice
    bob = bob
    stakedVault = stakedVault
    flex = flex
    warp = warp
    collector = collector
    User = {alice}
    UserOrder <- MCUserOrder
    Endowment <- MCEndowment
    Account <- MCAccount
    Time = {1, 2, 3}
    SeasonEnd = 2
    Pauses = {"none", "lock", "unlock", "all"}
    MinimumLock = 1
    MinimumUnlock = 2
    Amounts = {1, 2}
    Indices = {2, 3}
    MaxIssued = 4
    MaxLocks = 2
    AliceHolds = 3
INVARIANT
    PositionsBacked
PROPERTIES
    NothingLost
    SeasonEnds
    StakedReturned
