SPECIFICATION MCExternalSpec
CONSTANTS
    Scale = 4
    Precision = 100
    Module = module
    Yield = yield
    StakedVault = vault
    Warp = warp
    Collector = alice
    User = {alice}
    Account = {alice, vault, warp}
    Channel = {}
    Route = {route1}
    ChannelOrder <- MCChannelOrder
    RouteOrder <- MCRouteOrder
    Escrow <- MCEscrow
    channel1 = channel1
    escrow1 = escrow1
    route1 = route1
    route2 = route2
    Amounts = {8}
    Indices = {4, 5, 6}
    MaxIssued = 16
    MaxPrincipal = 16
    MaxPackets = 2
INVARIANTS
    RouteYieldKept
