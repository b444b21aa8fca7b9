----------------------------- MODULE MCExternal -----------------------------
(***************************************************************************)
(* ExternalYield for TLC.  Issuance makes the supply unbounded, and going  *)
(* back and forth moves principal between two accounts without bound, so   *)
(* both are bounded, as is the number of packets under way.                *)
(***************************************************************************)
EXTENDS ExternalYield

CONSTANTS
    MaxIssued,      \* bound on the supply without the yield
    MaxPrincipal,   \* bound on the magnitude of an account's principal
    MaxPackets,     \* bound on the packets under way
    channel1, escrow1, route1, route2

MCEscrow == [c \in Channel |-> escrow1]

MCChannelOrder == SelectSeq(<<channel1>>, LAMBDA c : c \in Channel)

MCRouteOrder == SelectSeq(<<route1, route2>>, LAMBDA r : r \in Route)

WithinBounds ==
    /\ ledger.supply - ledger.totalYieldAccrued <= MaxIssued
    /\ \A a \in Account : ledger.principal[a] \in -MaxPrincipal .. MaxPrincipal
    /\ Cardinality(packets) <= MaxPackets

\* The bounds hold back no relayer, and nothing that leaves the ledger alone.
MCExternalNext ==
    /\ ExternalNext
    /\ \/ WithinBounds'
       \/ ledger' = ledger
       \/ Cardinality(packets') < Cardinality(packets)

MCExternalSpec == ExternalInit /\ [][MCExternalNext]_externalVars

\* Relayers report every packet back sooner or later.
MCExternalLive ==
    MCExternalSpec /\ \A id \in 1 .. MaxPackets : WF_externalVars(Relay(id))

\* Every packet is done with at some time: acknowledged, or refunded after an
\* error or a timeout.  No refund is stuck for lack of coins in the escrow
\* account, whatever yield it has sent and has to retry.
PacketsSettled == \A id \in 1 .. MaxPackets : InFlight(id) ~> ~InFlight(id)

=============================================================================
