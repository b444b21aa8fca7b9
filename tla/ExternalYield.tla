---------------------------- MODULE ExternalYield ----------------------------
(***************************************************************************)
(* Yield for $USDN that lives on other chains.  What was sent over an IBC  *)
(* channel is held by the channel's escrow account, what was sent over     *)
(* Hyperlane by the warp module's account.  For a channel or a route with  *)
(* a yield recipient, every index update claims the yield of that account  *)
(* and sends it to the recipient the same way: from the account to itself, *)
(* since it is there already that the coins have to end up.  A transfer    *)
(* that fails, at once or later, leaves an amount to retry.                *)
(*                                                                         *)
(* ICS-20, IBC and Hyperlane are external.  IBC reports every packet once, *)
(* as acknowledged or, if it was never received, as timed out.             *)
(*                                                                         *)
(* The module extends Token, whose index update is the special case of no  *)
(* recipients.                                                             *)
(***************************************************************************)
EXTENDS Keeper

CONSTANTS
    Channel,        \* IBC channels
    ChannelOrder,   \* the channels, sorted
    Escrow,         \* the escrow account of a channel
    Route,          \* Hyperlane tokens for $USDN
    RouteOrder      \* the routes, sorted

Destination == Channel \cup Route

ASSUME ExternalAssumption ==
    /\ User \subseteq Account \ {StakedVault, Warp}
    /\ IsFiniteSet(Destination)
    /\ Channel \cap Route = {}
    /\ ChannelOrder \in [1 .. Cardinality(Channel) -> Channel] /\ Range(ChannelOrder) = Channel
    /\ RouteOrder \in [1 .. Cardinality(Route) -> Route] /\ Range(RouteOrder) = Route
    /\ Escrow \in [Channel -> Account \ (User \cup {StakedVault, Warp, Collector})]
    /\ \A c, d \in Channel : Escrow[c] = Escrow[d] => c = d
    /\ Precision \in Nat \ {0}

VARIABLES
    yieldRecipients,    \* Keeper.YieldRecipients: the destinations that have one
    retryAmounts,       \* Keeper.RetryAmounts, zero where there is none
    totalExternal,      \* Keeper.TotalExternalYield, zero where there is none
    packets,            \* IBC: the packets not yet reported back
    vouchers,           \* the $USDN that circulates behind each channel
    collateral,         \* warp: the collateral of each route
    routers,            \* warp: the number of routers enrolled for each route
    delivered           \* history: yield that reached each destination

externalBooks == <<retryAmounts, totalExternal, packets, collateral, delivered>>
externalVars == <<vars, yieldRecipients, externalBooks, vouchers, routers>>

\* What an index update reads and writes.
ExternalStore ==
    [ ledger |-> ledger, retry |-> retryAmounts, total |-> totalExternal,
      packets |-> packets, collateral |-> collateral, delivered |-> delivered ]

CommitExternal(s) ==
    /\ ledger' = s.ledger
    /\ retryAmounts' = s.retry
    /\ totalExternal' = s.total
    /\ packets' = s.packets
    /\ collateral' = s.collateral
    /\ delivered' = s.delivered

ExternalGenesis ==
    /\ yieldRecipients = {}
    /\ retryAmounts = [d \in Destination |-> 0]
    /\ totalExternal = [d \in Destination |-> 0]
    /\ packets = {}
    /\ vouchers = [c \in Channel |-> 0]
    /\ collateral = [r \in Route |-> 0]
    /\ routers = [r \in Route |-> 0]
    /\ delivered = [d \in Destination |-> 0]

ExternalInit == Init /\ ExternalGenesis

\* The destinations of a provider that have a recipient.
GetYieldRecipientsByProvider(provider) == provider \cap yieldRecipients

\* A fold over those of them that are in an order, which stops at the first
\* failure.
ForEachRecipient(step(_, _), s, order) ==
    FoldLeft(LAMBDA done, d : IF done.ok /\ d \in yieldRecipients
                              THEN step(done.store, d) ELSE done,
             Ok(s), order)

-----------------------------------------------------------------------------
(* Retry amounts and statistics (keeper/state.go). *)

\* Mutant of RemoveRetryAmount: the amount is read and stays.
RemoveRetryAmountKept(s, destination) == s

\* GetRetryAmountAndRemove, its effect.
RemoveRetryAmount(s, destination) == [s EXCEPT !.retry[destination] = 0]

IncrementRetryAmount(s, destination, amount) ==
    [s EXCEPT !.retry[destination] = @ + amount]

IncrementTotalExternalYield(s, destination, amount) ==
    [s EXCEPT !.total[destination] = @ + amount]

-----------------------------------------------------------------------------
(* IBC. *)

NewId(s) == CHOOSE n \in 1 .. Cardinality(s.packets) + 1 :
                \A p \in s.packets : p.id # n

\* An ICS-20 transfer (external): escrow the coins and send a packet.
SendTransfer(s, channel, sender, amount) ==
    [s EXCEPT !.ledger  = SendCoins(@, sender, Escrow[channel], amount),
              !.packets = @ \cup {[id |-> NewId(s), channel |-> channel, sender |-> sender,
                                   amount |-> amount, state |-> "sent"]}]

\* Mutant of ClaimChannel: a transfer is made even when there is nothing to send.
ClaimChannelAlways(s, channel, down) ==
    LET yield   == GetYield(s.ledger, Escrow[channel])
        claimed == RemoveRetryAmount(
                       [s EXCEPT !.ledger = ClaimModuleYield(@, Escrow[channel])], channel)
        accrued == yield + s.retry[channel]
    IN  IF ~CanClaim(s.ledger, Escrow[channel]) THEN Fail(s)
        ELSE Ok(IncrementTotalExternalYield(
                    SendTransfer(claimed, channel, Escrow[channel], accrued), channel, yield))

\* One round of claimExternalYieldIBC; the transfers over channels that are down
\* fail.
ClaimChannel(s, channel, down) ==
    LET yield   == GetYield(s.ledger, Escrow[channel])
        claimed == RemoveRetryAmount(
                       [s EXCEPT !.ledger = ClaimModuleYield(@, Escrow[channel])], channel)
        accrued == yield + s.retry[channel]
        works   == /\ channel \notin down
                   /\ CanSend(claimed.ledger, Escrow[channel], Escrow[channel], accrued)
        moved   == IF works
                   THEN SendTransfer(claimed, channel, Escrow[channel], accrued)
                   ELSE IncrementRetryAmount(claimed, channel, accrued)
    IN  IF ~CanClaim(s.ledger, Escrow[channel]) THEN Fail(s)
        ELSE IF accrued <= 0 THEN Ok(claimed)
        ELSE Ok(IncrementTotalExternalYield(moved, channel, yield))

ClaimExternalYieldIBC(s, down) ==
    ForEachRecipient(LAMBDA t, c : ClaimChannel(t, c, down), s, ChannelOrder)

\* A user's transfer; ICS4Wrapper.SendPacket lets $USDN pass only over channels
\* with a yield recipient.
IBCTransfer(user, channel, amount) ==
    /\ channel \in yieldRecipients
    /\ CanSend(ledger, user, Escrow[channel], amount)
    /\ CommitExternal(SendTransfer(ExternalStore, channel, user, amount))
    /\ UNCHANGED <<paused, burns, donated, yieldRecipients, vouchers, routers>>

\* The other chain receives a packet, and accepts or refuses it (external).
ReceivePacket(packet, accept) ==
    /\ packet \in packets
    /\ packet.state = "sent"
    /\ packets' = (packets \ {packet})
                  \cup {[packet EXCEPT !.state = IF accept THEN "accepted" ELSE "refused"]}
    /\ vouchers' = [vouchers EXCEPT ![packet.channel] =
                       IF accept THEN @ + packet.amount ELSE @]
    /\ delivered' = [delivered EXCEPT ![packet.channel] =
                       IF accept /\ packet.sender = Escrow[packet.channel]
                       THEN @ + packet.amount ELSE @]
    /\ UNCHANGED <<vars, yieldRecipients, retryAmounts, totalExternal, collateral, routers>>

\* Mutant of AddAmountToRetry: the amounts of users are added as well.
AddAmountToRetryAnySender(s, packet) ==
    IncrementRetryAmount(s, packet.channel, packet.amount)

\* Only what the escrow account itself sent is yield.
AddAmountToRetry(s, packet) ==
    IF packet.sender = Escrow[packet.channel]
    THEN IncrementRetryAmount(s, packet.channel, packet.amount)
    ELSE s

\* A packet that failed: note the amount, then let ICS-20 refund the sender
\* (external).
Refund(packet) ==
    /\ CanSend(ledger, Escrow[packet.channel], packet.sender, packet.amount)
    /\ CommitExternal([AddAmountToRetry(ExternalStore, packet) EXCEPT
                  !.ledger  = SendCoins(@, Escrow[packet.channel], packet.sender, packet.amount),
                  !.packets = @ \ {packet}])
    /\ UNCHANGED <<paused, burns, donated, yieldRecipients, vouchers, routers>>

OnAcknowledgementPacket(packet) ==
    \/ /\ packet.state = "accepted"
       /\ packets' = packets \ {packet}
       /\ UNCHANGED <<vars, yieldRecipients, retryAmounts, totalExternal, vouchers,
                      collateral, routers, delivered>>
    \/ /\ packet.state = "refused"
       /\ Refund(packet)

OnTimeoutPacket(packet) ==
    /\ packet.state = "sent"
    /\ Refund(packet)

\* $USDN comes back over a channel (external).
OnRecvPacket(channel, user, amount) ==
    /\ vouchers[channel] >= amount
    /\ CanSend(ledger, Escrow[channel], user, amount)
    /\ ledger' = SendCoins(ledger, Escrow[channel], user, amount)
    /\ vouchers' = [vouchers EXCEPT ![channel] = @ - amount]
    /\ UNCHANGED <<paused, burns, donated, yieldRecipients, externalBooks, routers>>

-----------------------------------------------------------------------------
(* Hyperlane. *)

\* warp.RemoteTransferCollateral (external).
RemoteTransferCollateral(s, route, sender, amount) ==
    [s EXCEPT !.ledger = SendCoins(@, sender, Warp, amount),
              !.collateral[route] = @ + amount]

\* Mutant of YieldPortion: the product is rounded up.
YieldPortionRoundedUp(share, total, yield) ==
    (((share * Precision) \div total) * yield + Precision - 1) \div Precision

\* A route's part of the yield: a truncated fraction, then a truncated product.
YieldPortion(share, total, yield) ==
    (((share * Precision) \div total) * yield) \div Precision

\* One round of claimExternalYieldHyperlane: the retry amount is removed before
\* the router is looked up.  A recipient that cannot be decoded ends the update at
\* the same point and in the same state as a route without exactly one router, and
\* the number of routers stands for both.
ClaimRoute(s, route, portion, down) ==
    LET removed == RemoveRetryAmount(s, route)
        accrued == portion + s.retry[route]
        works   == route \notin down /\ CanSend(s.ledger, Warp, Warp, accrued)
        moved   == IF works
                   THEN [RemoteTransferCollateral(removed, route, Warp, accrued)
                            EXCEPT !.delivered[route] = @ + accrued]
                   ELSE IncrementRetryAmount(removed, route, accrued)
    IN  IF accrued <= 0 THEN Ok(removed)
        ELSE IF routers[route] # 1 THEN Fail(removed)
        ELSE Ok(IncrementTotalExternalYield(moved, route, portion))

\* The yield of the warp account is shared in proportion to the collateral that
\* the routes had before the first transfer.
ClaimExternalYieldRoutes(s, down) ==
    LET yield   == GetYield(s.ledger, Warp)
        claimed == [s EXCEPT !.ledger = ClaimModuleYield(@, Warp)]
        total   == SumFunctionOnSet(s.collateral, GetYieldRecipientsByProvider(Route))
        portion == [r \in Route |-> YieldPortion(s.collateral[r], total, yield)]
    IN  IF ~CanClaim(s.ledger, Warp) THEN Fail(s)
        ELSE IF yield <= 0 \/ total <= 0 THEN Ok(claimed)
        ELSE ForEachRecipient(LAMBDA t, r : ClaimRoute(t, r, portion[r], down),
                              claimed, RouteOrder)

\* A user's transfer over a route (external).
RemoteTransfer(user, route, amount) ==
    /\ routers[route] > 0
    /\ CanSend(ledger, user, Warp, amount)
    /\ CommitExternal(RemoteTransferCollateral(ExternalStore, route, user, amount))
    /\ UNCHANGED <<paused, burns, donated, yieldRecipients, vouchers, routers>>

\* $USDN comes back over a route (external).
RemoteReceive(route, user, amount) ==
    /\ collateral[route] >= amount
    /\ CanSend(ledger, Warp, user, amount)
    /\ ledger' = SendCoins(ledger, Warp, user, amount)
    /\ collateral' = [collateral EXCEPT ![route] = @ - amount]
    /\ UNCHANGED <<paused, burns, donated, yieldRecipients, retryAmounts, totalExternal,
                   packets, vouchers, routers, delivered>>

\* The owner of a route enrols or unrolls routers (external).
SetRouters(route, n) ==
    /\ routers' = [routers EXCEPT ![route] = n]
    /\ UNCHANGED <<vars, yieldRecipients, externalBooks, vouchers>>

-----------------------------------------------------------------------------
(* Index updates and administration. *)

\* What an index update does for recipients on other chains, in this order.
ClaimExternalYield(s, down) ==
    LET ibc == ClaimExternalYieldIBC(s, down)
    IN  IF ibc.ok THEN ClaimExternalYieldRoutes(ibc.store, down) ELSE ibc

\* The outcome of Keeper.UpdateIndex, in Season Two.
ExternalUpdateIndexStore(s, index, down) ==
    LET accrued == [s EXCEPT !.ledger = AccrueYield(@, index)]
        vaulted == [accrued EXCEPT !.ledger = HandleVaultsYieldSeasonTwo(@)]
    IN  IF index <= s.ledger.index THEN Fail(s)
        ELSE IF ~CanClaim(accrued.ledger, StakedVault) THEN Fail(accrued)
        ELSE ClaimExternalYield(vaulted, down)

\* A delivered index payload.
ExternalUpdateIndex(index, down) ==
    /\ SupplyShortfall(ledger, index) >= 0
    /\ \E result \in {ExternalUpdateIndexStore(ExternalStore, index, down)} :
           result.ok /\ CommitExternal(result.store)
    /\ UNCHANGED <<paused, burns, donated, yieldRecipients, vouchers, routers>>

\* A delivered token payload: the error of the index update is ignored.
ExternalMint(recipient, amount, index, down) ==
    /\ index > ledger.index => SupplyShortfall(ledger, index) >= 0
    /\ \E updated \in {ExternalUpdateIndexStore(ExternalStore, index, down).store} :
           CommitExternal([updated EXCEPT !.ledger = MintTo(@, recipient, amount)])
    /\ UNCHANGED <<paused, burns, donated, yieldRecipients, vouchers, routers>>

\* Signed by the authority.
SetYieldRecipient(destination) ==
    /\ destination \in Route => routers[destination] = 1
    /\ yieldRecipients' = yieldRecipients \cup {destination}
    /\ UNCHANGED <<vars, externalBooks, vouchers, routers>>

InFlight(id) == \E packet \in packets : packet.id = id

\* A relayer takes a packet one step further.
Relay(id) ==
    \E packet \in packets :
        /\ packet.id = id
        /\ \/ \E accept \in BOOLEAN : ReceivePacket(packet, accept)
           \/ OnAcknowledgementPacket(packet)
           \/ OnTimeoutPacket(packet)

\* What happens on the way to other chains apart from index updates.
ExternalTraffic ==
    \/ \E user \in User, channel \in Channel, amount \in Amounts :
           \/ IBCTransfer(user, channel, amount)
           \/ OnRecvPacket(channel, user, amount)
    \/ \E packet \in packets : Relay(packet.id)
    \/ \E user \in User, route \in Route, amount \in Amounts :
           \/ RemoteTransfer(user, route, amount)
           \/ RemoteReceive(route, user, amount)
    \/ \E route \in Route, n \in 0 .. 2 : SetRouters(route, n)
    \/ \E destination \in Destination : SetYieldRecipient(destination)

ExternalNext ==
    \/ ExternalTraffic
    \/ \E index \in Indices, down \in SUBSET Destination : ExternalUpdateIndex(index, down)
    \/ \E user \in User, amount \in Amounts, index \in Indices, down \in SUBSET Destination :
           ExternalMint(user, amount, index, down)

ExternalSpec == ExternalInit /\ [][ExternalNext]_externalVars

-----------------------------------------------------------------------------
(* Properties. *)

PacketType ==
    [id : Nat, channel : Channel, sender : Account, amount : Nat \ {0},
     state : {"sent", "accepted", "refused"}]

\* Every variable has its type; packets keep distinct ids.
ExternalTypeOK ==
    /\ TypeOK
    /\ yieldRecipients \subseteq Destination
    /\ retryAmounts \in [Destination -> Nat]
    /\ totalExternal \in [Destination -> Nat]
    /\ packets \subseteq PacketType
    /\ \A p, q \in packets : p.id = q.id => p = q
    /\ vouchers \in [Channel -> Nat]
    /\ collateral \in [Route -> Nat]
    /\ routers \in [Route -> 0 .. 2]
    /\ delivered \in [Destination -> Nat]

\* What the packets of a set carry.
Carried(some) == SumFunction([p \in some |-> p.amount])

\* An escrow account covers what circulates on the other chain, what is on its
\* way there or back from a failure, and what is to be retried: a voucher can
\* always be redeemed, a failed transfer refunded and a retry paid.
EscrowBacked ==
    \A c \in Channel :
        ledger.balance[Escrow[c]] >=
            vouchers[c] + retryAmounts[c]
            + Carried({p \in packets : p.channel = c /\ p.state # "accepted"})

\* The same for the warp account, which all routes share: the truncated portions
\* never hand out more than what was claimed.
WarpBacked ==
    ledger.balance[Warp] >=
        SumFunction(collateral) + SumFunctionOnSet(retryAmounts, Route)

\* Yield claimed for a channel is delivered, on its way or to be retried, each
\* coin of it once, whatever packets failed or timed out in which order.
ChannelYieldAccounted ==
    \A c \in Channel :
        totalExternal[c] = delivered[c] + retryAmounts[c]
            + Carried({p \in packets : /\ p.channel = c
                                       /\ p.sender = Escrow[c]
                                       /\ p.state # "accepted"})

\* Yield claimed for a route is never delivered and retried twice over.
RouteYieldNotDuplicated ==
    \A r \in Route : delivered[r] + retryAmounts[r] <= totalExternal[r]

\* Distributing yield over a route handles errors gracefully: what could not be
\* transferred stays to be retried.
RouteYieldKept ==
    \A r \in Route : delivered[r] + retryAmounts[r] = totalExternal[r]

=============================================================================
