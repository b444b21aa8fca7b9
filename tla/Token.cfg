SPECIFICATION MCSpec
CONSTANTS
    Scale = 1
    Module = module
    Yield = yield
    StakedVault = vault
    Warp = warp
    Collector = collector
    Account = {collector, vault, warp}
    Amounts = {1, 2}
    Indices = {2, 3}
    MaxSupply = 4
    MaxPrincipal = 2
    MaxBurns = 1
INVARIANTS
    TypeOK
    PrincipalBacked
    HoldersNeverOverstated
    SupplyWithinDust
PROPERTIES
    YieldOnlyShrinksByOwnAction
    TransferFavoursRecipient
