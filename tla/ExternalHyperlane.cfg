SPECIFICATION MCExternalSpec
CONSTANTS
    Scale = 1
    Precision = 100
    Module = module
    Yield = yield
    StakedVault = vault
    Warp = warp
    Collector = alice
    User = {alice}
    Account = {alice, vault, warp}
    Channel = {}
    Route = {route1, route2}
    ChannelOrder <- MCChannelOrder
    RouteOrder <- MCRouteOrder
    Escrow <- MCEscrow
    channel1 = channel1
    escrow1 = escrow1
    route1 = route1
    route2 = route2
    Amounts = {1}
    Indices = {1, 2, 3}
    MaxIssued = 3
    MaxPrincipal = 3
    MaxPackets = 2
INVARIANTS
    WarpBacked
    RouteYieldNotDuplicated
