------------------------------ MODULE MCDollar -------------------------------
(***************************************************************************)
(* The whole module for TLC: one user with a little $USDN, one IBC channel *)
(* and no route, a portal that its genesis has configured, and the VAAs    *)
(* below.                                                                  *)
(***************************************************************************)
EXTENDS Genesis, TLC

CONSTANTS
    MaxPrincipal,   \* bound on the magnitude of an account's principal
    MaxPosted,      \* bound on the number of posted messages
    MaxPackets,     \* bound on the packets under way
    MaxLocks,       \* bound on the number of positions at a time
    Stake,          \* what the user holds at first
    Low, High,      \* the indices of the VAAs
    alice, stakedVault, flex, warp, collector, channel1, escrow1, c1, wrapped

MCUserOrder == <<alice>>
MCEndowment == [u \in User |-> Stake]
MCChannelOrder == <<channel1>>
MCRouteOrder == <<>>
MCEscrow == [c \in Channel |-> escrow1]
MCAccount ==
    User \cup {stakedVault, flex, warp, collector, escrow1}
         \cup (User \X {t \in Time : t <= SeasonEnd})

From(payload) ==
    [emitterChain |-> 2, emitterAddress |-> c1, sourceManager |-> c1,
     recipientManager |-> Manager, payload |-> payload]

Update(index) == From([type |-> "index", index |-> index, chain |-> ThisChain])

DepositAt(index) ==
    From([type |-> "token", recipient |-> collector, amount |-> 1, index |-> index,
          chain |-> ThisChain, token |-> RawToken])

\* An index update, and a deposit that carries a newer index.
MCDollarVaa == {Update(Low), DepositAt(High)}

\* One path of the portal is supported and another one has been set to
\* unsupported, to a chain without a peer.
ConfiguredInit ==
    /\ ledger = Endowed
    /\ paused = FALSE /\ burns = 0 /\ donated = 0
    /\ portalPaused = FALSE
    /\ portalOwner = alice
    /\ portalPeers = 2 :> [transceiver |-> c1, manager |-> c1]
    /\ portalBridgingPaths = <<2, wrapped>> :> TRUE @@ <<3, wrapped>> :> FALSE
    /\ portalNonce = 0
    /\ archive = {}
    /\ posted = <<>>
    /\ VaultsGenesis
    /\ ExternalGenesis

WithinBounds ==
    /\ \A a \in Account : ledger.principal[a] \in -MaxPrincipal .. MaxPrincipal
    /\ Len(posted) <= MaxPosted
    /\ Cardinality(packets) <= MaxPackets
    /\ Cardinality(DOMAIN positions) <= MaxLocks

\* The owner leaves the portal as it is, and the chain may be restarted.
MCDollarNext ==
    /\ GenesisNext
    /\ UNCHANGED <<paused, portalOwner, portalPaused, portalPeers>>
    /\ DOMAIN portalBridgingPaths' \subseteq DOMAIN portalBridgingPaths
    /\ WithinBounds'

MCDollarSpec == ConfiguredInit /\ [][MCDollarNext]_dollarVars

=============================================================================
