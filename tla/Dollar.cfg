SPECIFICATION MCDollarSpec
CONSTANTS
    Scale = 1
    Precision = 100
    Module = module
    Yield = yield
    StakedVault = stakedVault
    FlexibleVault = flex
    Warp = warp
    Collector = collector
    alice = alice
    stakedVault = stakedVault
    flex = flex
    warp = warp
    collector = collector
    channel1 = channel1
    escrow1 = escrow1
    c1 = c1
    wrapped = wrapped
    User = {alice}
    UserOrder <- MCUserOrder
    Endowment <- MCEndowment
    Account <- MCAccount
    Amounts = {1}
    Indices = {2, 3}
    Low = 2
    High = 3
    Time = {1, 2}
    SeasonEnd = 1
    Pauses = {"none"}
    MinimumLock = 1
    MinimumUnlock = 1
    Channel = {channel1}
    ChannelOrder <- MCChannelOrder
    Escrow <- MCEscrow
    Route = {}
    RouteOrder <- MCRouteOrder
    ChainId = {1, 2, 3}
    ThisChain = 1
    Contract = {c1}
    NoContract = none
    Manager = manager
    RemoteToken = {wrapped}
    RawToken = usdn
    NoOwner = nobody
    Vaa <- MCDollarVaa
    NonceModulus = 2
    MaxPrincipal = 2
    MaxPosted = 1
    MaxPackets = 1
    MaxLocks = 2
    Stake = 2
INVARIANTS
    DollarBacked
    DollarSupplyAccounted
    PrincipalBacked
PROPERTIES
    UserYieldKept
    RestartKeepsAnswers
