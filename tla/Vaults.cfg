SPECIFICATION MCVaultsSpec
CONSTANTS
    Scale = 1
    Precision = 100
    Module = module
    Yield = yield
    StakedVault = stakedVault
    FlexibleVault = flex
    Warp = warp
    Collector = collector
    alice = alice
    bob = bob
    stakedVault = stakedVault
    flex = flex
    warp = warp
    collector = collector
    User = {alice, bob}
    UserOrder <- MCUserOrder
    Endowment <- MCEndowment
    Account <- MCAccount
    Time = {1, 2}
    SeasonEnd = 1
    Pauses = {"none", "all"}
    MinimumLock = 1
    MinimumUnlock = 1
    Amounts = {1, 2}
    Indices = {2, 3}
    MaxIssued = 4
    MaxLocks = 3
    AliceHolds = 3
INVARIANTS
    VaultsTypeOK
    PositionsBacked
    RewardsBacked
    RewardsNotOvershared
    PrincipalCovered
    UsersCounted
    PendingWithinTotal
PROPERTIES
    NothingLost
