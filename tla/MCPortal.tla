------------------------------ MODULE MCPortal ------------------------------
(***************************************************************************)
(* Portal for TLC: one foreign chain whose peer may be rotated, one remote *)
(* token, and the VAAs below, which between them meet every check of       *)
(* Deliver and every payload type.                                         *)
(***************************************************************************)
EXTENDS Portal, TLC

CONSTANTS
    MaxSupply,      \* bound on the supply
    MaxPrincipal,   \* bound on the magnitude of an account's principal
    MaxPosted,      \* bound on the number of posted messages
    Low, High,      \* the indices of the VAAs
    alice, c1, c2, wrapped

From(chain, transceiver, manager, to, payload) ==
    [emitterChain |-> chain, emitterAddress |-> transceiver,
     sourceManager |-> manager, recipientManager |-> to, payload |-> payload]

TokenTo(recipient, amount, index, chain, token) ==
    [type |-> "token", recipient |-> recipient, amount |-> amount,
     index |-> index, chain |-> chain, token |-> token]

\* Two deposits, the second carrying a newer index; a deposit from the peer
\* after its rotation, to the yield account; an index update; an unknown
\* payload; and messages that must not be accepted.
MCVaa ==
    { From(2, c1, c1, Manager, TokenTo(alice, 2, Low, ThisChain, RawToken)),
      From(2, c1, c1, Manager, TokenTo(alice, 1, High, ThisChain, RawToken)),
      From(2, c2, c1, Manager, TokenTo(Yield, 1, Low, ThisChain, RawToken)),
      From(2, c1, c1, Manager, [type |-> "index", index |-> High, chain |-> ThisChain]),
      From(2, c1, c1, Manager, [type |-> "unknown"]),
      From(ThisChain, c1, c1, Manager, TokenTo(alice, 1, Low, ThisChain, RawToken)),
      From(2, c1, c1, c2, TokenTo(alice, 1, Low, ThisChain, RawToken)),
      From(2, c1, c1, Manager, TokenTo(alice, 1, Low, 2, RawToken)) }

WithinBounds ==
    /\ ledger.supply <= MaxSupply
    /\ \A a \in Account : ledger.principal[a] \in -MaxPrincipal .. MaxPrincipal
    /\ Len(posted) <= MaxPosted

\* The bounds hold back no message from another chain, of which there are few,
\* and nothing that leaves the ledger alone.
MCPortalNext ==
    /\ PortalNext
    /\ \/ WithinBounds'
       \/ archive' # archive
       \/ ledger' = ledger

MCPortalSpec == PortalInit /\ [][MCPortalNext]_allVars

\* A portal that its genesis has configured already; the owner only rotates the
\* peer's transceiver and pauses the portal.
ConfiguredInit ==
    /\ Init
    /\ portalPaused = FALSE
    /\ portalOwner = alice
    /\ portalPeers = 2 :> [transceiver |-> c1, manager |-> c1]
    /\ portalBridgingPaths = <<2, wrapped>> :> TRUE
    /\ portalNonce = 0
    /\ archive = {}
    /\ posted = <<>>

ConfiguredNext ==
    /\ MCPortalNext
    /\ portalPeers'[2].manager = c1
    /\ UNCHANGED <<paused, portalOwner, portalBridgingPaths>>

ConfiguredSpec == ConfiguredInit /\ [][ConfiguredNext]_allVars

ConfiguredLive == ConfiguredSpec /\ PortalFairness

=============================================================================
