SPECIFICATION MCVaultsSpec
CONSTANTS
    Scale = 4
    Precision = 100
    Module = module
    Yield = yield
    StakedVault = stakedVault
    FlexibleVault = flex
    Warp = warp
    Collector = collector
    alice = alice
    bob = bob
    stakedVault = stakedVault
    flex = flex
    warp = warp
    collector = collector
    User = {alice}
    UserOrder <- MCUserOrder
    Endowment <- MCEndowment
    Account <- MCAccount
    Time = {1, 2, 3}
    SeasonEnd = 2
    Pauses = {"none", "all"}
    MinimumLock = 1
    MinimumUnlock = 1
    Amounts = {1, 3}
    Indices = {5, 6, 7}
    MaxIssued = 8
    MaxLocks = 2
    AliceHolds = 3
INVARIANT
    AllFlexibleUnlocked
