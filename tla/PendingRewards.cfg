SPECIFICATION MCVaultsSpec
CONSTANTS
    Scale = 4
    Precision = 100
    Module = module
    Yield = yield
    StakedVault = stakedVault
    FlexibleVault = flex
    Warp = warp
    Collector = collector
    alice = alice
    bob = bob
    stakedVault = stakedVault
    flex = flex
    warp = warp
    collector = collector
    User = {alice, bob}
    UserOrder <- MCUserOrder
    Endowment <- MCEndowment
    Account <- MCAccount
    Time = {1, 2}
    SeasonEnd = 1
    Pauses = {"none"}
    MinimumLock = 1
    MinimumUnlock = 1
    Amounts = {1, 8}
    Indices = {5, 6}
    MaxIssued = 10
    MaxLocks = 3
    AliceHolds = 9
INVARIANT
    PendingRewardsPaid
