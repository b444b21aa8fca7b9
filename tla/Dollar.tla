------------------------------- MODULE Dollar --------------------------------
(***************************************************************************)
(* The whole x/dollar module: the portal, the vaults and the yield of      *)
(* other chains on one ledger.  They meet in Keeper.UpdateIndex, which     *)
(* accrues the yield, hands the vaults theirs according to the season, and *)
(* then pays the recipients on other chains, in that order and all from    *)
(* the one yield account: what one of them takes the next one may lack,    *)
(* and an update that fails halfway inside a Mint leaves its first steps   *)
(* in place.                                                               *)
(*                                                                         *)
(* The module extends those of the three components.  A handler of one     *)
(* component is a step of it that leaves the rest alone; only the delivery *)
(* of a VAA is a step of all three.                                        *)
(***************************************************************************)
EXTENDS Portal, Vaults, ExternalYield

\* What only the vaults, and only external yield, have.
vaultsOnly == <<vaultsBooks, vaultsPaused, ended, now>>
externalOnly == <<externalBooks, yieldRecipients, vouchers, routers>>
dollarVars == <<allVars, vaultsOnly, externalOnly>>

\* The accounts that hold coins for the vaults and those that hold them for other
\* chains are not the same.
ASSUME DollarAssumption ==
    \A c \in Channel :
        /\ Escrow[c] # FlexibleVault
        /\ \A u \in User, t \in Time : Escrow[c] # PositionAccount(u, t)

DollarInit ==
    /\ ledger = Endowed
    /\ paused = FALSE /\ burns = 0 /\ donated = 0
    /\ PortalGenesis
    /\ VaultsGenesis
    /\ ExternalGenesis

-----------------------------------------------------------------------------
(* Messages from other chains. *)

\* The outcome of an update: whether it succeeded, and what it has written to the
\* stores of the vaults and of external yield.  It ends with the ledger of the
\* latter.
Outcome(ok, vaults, external) == [ok |-> ok, vaults |-> vaults, external |-> external]

\* An update is written, with the given ledger.
CommitUpdate(updated, l) ==
    /\ CommitVaults([updated.vaults EXCEPT !.ledger = l])
    /\ CommitExternal([updated.external EXCEPT !.ledger = l])

\* What a new index leads to: accrual, the vaults' yield, and then that of the
\* recipients on other chains, on the ledger that the vaults have left.
Updated(index, down) ==
    LET vaulted  == HandleVaultsYield([VaultsStore EXCEPT !.ledger = AccrueYield(@, index)])
        external == [ExternalStore EXCEPT !.ledger = vaulted.store.ledger]
        claimed  == ClaimExternalYield(external, down)
    IN  IF vaulted.ok
        THEN Outcome(claimed.ok, vaulted.store, claimed.store)
        ELSE Outcome(FALSE, vaulted.store, external)

\* Mutant of UpdateIndexStores: any index but the current one is accepted.
UpdateIndexStoresAnyIndex(index, down) ==
    IF index = ledger.index
    THEN Outcome(FALSE, VaultsStore, ExternalStore)
    ELSE Updated(index, down)

\* The outcome of Keeper.UpdateIndex, which refuses an index that does not rise.
UpdateIndexStores(index, down) ==
    IF index <= ledger.index
    THEN Outcome(FALSE, VaultsStore, ExternalStore)
    ELSE Updated(index, down)

\* HandlePayload once more, with the full index update.  The error of the one
\* inside Mint is ignored; a panic reverts the transaction.
DollarHandlePayload(payload, down) ==
    \/ /\ payload.type = "unknown"
       /\ UNCHANGED <<ledger, vaultsBooks, externalBooks>>
    \/ /\ payload.type # "unknown"
       /\ payload.chain = ThisChain
       /\ payload.index > ledger.index \/ payload.type = "index"
              => SupplyShortfall(ledger, payload.index) >= 0
       /\ \E updated \in {UpdateIndexStores(payload.index, down)} :
             \/ /\ payload.type = "token"
                /\ payload.token = RawToken
                /\ CommitUpdate(updated, MintTo(updated.external.ledger,
                                                payload.recipient, payload.amount))
             \/ /\ payload.type = "index"
                /\ updated.ok
                /\ CommitUpdate(updated, updated.external.ledger)

\* Transfers over the channels and routes that are down fail meanwhile.
DollarDeliver(vaa, down) ==
    /\ ~portalPaused
    /\ ParseAndVerifyVAA(vaa)
    /\ FromPeer(vaa)
    /\ DollarHandlePayload(vaa.payload, down)
    /\ UNCHANGED <<paused, burns, donated, config, portalNonce, posted, vaultsPaused,
                   ended, now, yieldRecipients, vouchers, routers>>

-----------------------------------------------------------------------------
(* Steps of one component. *)

PortalStep ==
    /\ \/ \E sender \in User, amount \in Amounts, chain \in ChainId, token \in RemoteToken :
              PortalTransfer(sender, amount, chain, token)
       \/ Administration
    /\ UNCHANGED <<vaultsOnly, externalOnly>>

TokenStep ==
    /\ \/ \E sender \in User, recipient \in User, amount \in Amounts :
              Transfer(sender, recipient, amount)
       \/ \E pause \in BOOLEAN : SetPausedState(pause)
    /\ UNCHANGED <<portalVars, vaultsOnly, externalOnly>>

VaultsStep == VaultsTraffic /\ UNCHANGED <<portalVars, externalOnly>>

ExternalStep == ExternalTraffic /\ UNCHANGED <<portalVars, vaultsOnly>>

DollarNext ==
    \/ \E vaa \in Vaa, down \in SUBSET Destination : DollarDeliver(vaa, down)
    \/ PortalStep
    \/ TokenStep
    \/ VaultsStep
    \/ ExternalStep

DollarSpec == DollarInit /\ [][DollarNext]_dollarVars

-----------------------------------------------------------------------------
(* Properties. *)

\* Everything the module owes is there at the same time: the positions and the
\* rewards of the vaults, and what stands for $USDN on other chains, even though
\* all of them are paid from the same yield account in the same update and the
\* update may stop after any of them.
DollarBacked ==
    /\ PositionsBacked
    /\ RewardsBacked
    /\ EscrowBacked
    /\ WarpBacked

\* Conservation over the whole module: what was there at first, what deposits
\* brought and what accrued as yield is what circulates or was bridged out.
DollarSupplyAccounted ==
    ledger.supply + SumFunction([i \in DOMAIN posted |-> posted[i].amount])
        = SumFunction(Endowment) + ledger.totalYieldAccrued
          + SumFunction([vaa \in archive |-> Issued(vaa)])

\* Nobody's claimable yield shrinks while its account stands still: no lock,
\* season end, packet or update, complete or not, reaches into it, although the
\* vaults also write principals of their own.
UserYieldKept ==
    [][\A u \in User : ledger'.balance[u] = ledger.balance[u]
          => GetYield(ledger', u) >= GetYield(ledger, u)]_dollarVars

=============================================================================
