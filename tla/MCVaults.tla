------------------------------ MODULE MCVaults ------------------------------
(***************************************************************************)
(* Vaults for TLC.  Locking and unlocking again moves principal between    *)
(* accounts without bound, through the rounding, so the number of locks is *)
(* bounded.                                                                *)
(***************************************************************************)
EXTENDS Vaults

CONSTANTS
    MaxIssued,      \* bound on the supply without the yield
    MaxLocks,       \* bound on the number of locks
    AliceHolds,     \* the endowment of the first user; the second has 1
    alice, bob, stakedVault, flex, warp, collector

VARIABLE locks      \* the locks so far

MCUserOrder == SelectSeq(<<alice, bob>>, LAMBDA u : u \in User)

MCEndowment == [u \in User |-> IF u = alice THEN AliceHolds ELSE 1]

MCAccount ==
    User \cup {stakedVault, flex, warp, collector}
         \cup (User \X {t \in Time : t <= SeasonEnd})

\* A step is a lock when it makes a new position.
MCVaultsNext ==
    /\ VaultsNext
    /\ locks' = locks + Cardinality(DOMAIN positions' \ DOMAIN positions)
    /\ locks' <= MaxLocks
    /\ ledger'.supply - ledger'.totalYieldAccrued <= MaxIssued

MCVaultsInit == VaultsInit /\ locks = 0

MCVaultsSpec == MCVaultsInit /\ [][MCVaultsNext]_<<vaultsVars, locks>>

MCVaultsLive == MCVaultsSpec /\ VaultsFairness

=============================================================================
