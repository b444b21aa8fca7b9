SPECIFICATION MCExternalLive
CONSTANTS
    Scale = 1
    Precision = 100
    Module = module
    Yield = yield
    StakedVault = vault
    Warp = warp
    Collector = alice
    User = {alice}
    Account = {alice, vault, warp, escrow1}
    Channel = {channel1}
    Route = {}
    ChannelOrder <- MCChannelOrder
    RouteOrder <- MCRouteOrder
    Escrow <- MCEscrow
    channel1 = channel1
    escrow1 = escrow1
    route1 = route1
    route2 = route2
    Amounts = {1, 2}
    Indices = {1, 2, 3}
    MaxIssued = 3
    MaxPrincipal = 3
    MaxPackets = 2
INVARIANTS
    ExternalTypeOK
    EscrowBacked
    ChannelYieldAccounted
PROPERTY
    PacketsSettled
