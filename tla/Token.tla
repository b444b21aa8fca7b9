------------------------------- MODULE Token --------------------------------
(***************************************************************************)
(* The token core of x/dollar: $USDN changes hands through the bank        *)
(* module, is issued and redeemed through the portal, accrues yield when   *)
(* the index moves and pays that yield out on request.                     *)
(*                                                                         *)
(* The chain is in Vaults Season Two and no external yield recipient is    *)
(* configured: an index update claims the yield of the Staked vault,       *)
(* forwards it to the collector and, recipients or not, claims the yield   *)
(* of the Hyperlane warp account.                                          *)
(*                                                                         *)
(* One action is one transaction: a handler that returns an error or       *)
(* panics leaves no trace, so failures are disabled actions, except for    *)
(* the error that Keeper.Mint swallows.                                    *)
(***************************************************************************)
EXTENDS Ledger, Functions

CONSTANTS
    StakedVault,    \* vaults.StakedVaultAddress
    Warp,           \* the Hyperlane warp module account
    Collector,      \* vaultsSeasonTwoYieldCollector
    Amounts,        \* the amounts messages carry
    Indices         \* the indices portal messages carry

ASSUME TokenAssumption ==
    /\ StakedVault \in Account
    /\ Warp \in Account \ {StakedVault}
    /\ Collector \in Account \ {StakedVault}
    /\ Amounts \subseteq Nat \ {0}
    /\ Indices \subseteq Int

VARIABLES
    ledger,     \* balances, principals, index and stats
    paused,     \* Keeper.Paused
    burns,      \* history: burns since the index last moved
    donated     \* history: coins minted straight to Yield since then

vars == <<ledger, paused, burns, donated>>

\* Accounts that can sign a transaction.
Signer == Account \ {StakedVault, Warp}

Init ==
    /\ ledger = EmptyLedger
    /\ paused = FALSE
    /\ burns = 0
    /\ donated = 0

-----------------------------------------------------------------------------
(* Index updates. *)

\* claimModuleYield succeeds when the yield account covers the yield.
CanClaim(l, account) == CanSend(l, Yield, account, GetYield(l, account))

\* Mutant of HandleVaultsYieldSeasonTwo: what is forwarded is all the vault has.
HandleVaultsYieldSeasonTwoAll(l) ==
    LET claimed == ClaimModuleYield(l, StakedVault)
    IN  IF GetYield(l, StakedVault) > 0
        THEN SendCoins(claimed, StakedVault, Collector, claimed.balance[StakedVault])
        ELSE l

\* handleVaultsYieldSeasonTwo, for a Staked vault that CanClaim.
HandleVaultsYieldSeasonTwo(l) ==
    LET yield == GetYield(l, StakedVault)
    IN  IF yield > 0
        THEN SendCoins(ClaimModuleYield(l, StakedVault),
                       StakedVault, Collector, yield)
        ELSE l

\* claimExternalYieldHyperlane with no yield recipient: there is no collateral
\* to share the yield over, so what is claimed stays with the warp account.
ClaimExternalYieldHyperlane(l) == ClaimModuleYield(l, Warp)

\* Mutant of UpdateIndexResult: an index that decreases is accepted, and no
\* yield is minted for it.
UpdateIndexResultAnyIndex(l, index) ==
    LET accrued == AccrueYield(l, index)
        vaulted == HandleVaultsYieldSeasonTwo(accrued)
    IN  IF index = l.index
        THEN [status |-> "error", ledger |-> l]
        ELSE IF ~CanClaim(accrued, StakedVault)
        THEN [status |-> "error", ledger |-> accrued]
        ELSE IF ~CanClaim(vaulted, Warp)
        THEN [status |-> "error", ledger |-> vaulted]
        ELSE [status |-> "ok", ledger |-> ClaimExternalYieldHyperlane(vaulted)]

\* The outcome of Keeper.UpdateIndex: its status, and the ledger left behind
\* when no one reverts it.  Building the coin to mint panics when its amount is
\* negative; a claim fails when Yield cannot cover it, after the index has been
\* set and the yield minted.
UpdateIndexResult(l, index) ==
    LET accrued == AccrueYield(l, index)
        vaulted == HandleVaultsYieldSeasonTwo(accrued)
    IN  IF index <= l.index
        THEN [status |-> "error", ledger |-> l]
        ELSE IF SupplyShortfall(l, index) < 0
        THEN [status |-> "panic", ledger |-> l]
        ELSE IF ~CanClaim(accrued, StakedVault)
        THEN [status |-> "error", ledger |-> accrued]
        ELSE IF ~CanClaim(vaulted, Warp)
        THEN [status |-> "error", ledger |-> vaulted]
        ELSE [status |-> "ok", ledger |-> ClaimExternalYieldHyperlane(vaulted)]

-----------------------------------------------------------------------------
(* Transactions. *)

\* Any bank transfer between accounts: MsgSend, locking into and unlocking from
\* the vault, bridging over Hyperlane into and out of the warp account.  Module
\* is a blocked address and Yield is refused by the send restriction.
Transfer(sender, recipient, amount) ==
    /\ CanSend(ledger, sender, recipient, amount)
    /\ ledger' = SendCoins(ledger, sender, recipient, amount)
    /\ UNCHANGED <<paused, burns, donated>>

\* A portal transfer out of Noble redeems the amount.
Burn(sender, amount) ==
    /\ CanSend(ledger, sender, Module, amount)
    /\ ledger' = BurnFrom(ledger, sender, amount)
    /\ burns' = burns + 1
    /\ UNCHANGED <<paused, donated>>

\* Mutant of MintSucceeds: the error of the index update is passed on.
MintSucceedsStrict(index) == UpdateIndexResult(ledger, index).status = "ok"

\* Keeper.Mint ignores the error of the index update; nothing else in it fails,
\* and only a panic reverts it.
MintSucceeds(index) == UpdateIndexResult(ledger, index).status # "panic"

\* A delivered token payload: try to move the index, ignore the error, and
\* issue the amount.  Yield is not a blocked address, so it may be named as the
\* recipient.
Mint(recipient, amount, index) ==
    LET result == UpdateIndexResult(ledger, index)
        moved  == result.ledger.index > ledger.index
        gift   == IF recipient = Yield THEN amount ELSE 0
    IN  /\ MintSucceeds(index)
        /\ ledger' = MintTo(result.ledger, recipient, amount)
        /\ burns' = IF moved THEN 0 ELSE burns
        /\ donated' = IF moved THEN gift ELSE donated + gift
        /\ UNCHANGED paused

\* A delivered index payload.
UpdateIndex(index) ==
    LET result == UpdateIndexResult(ledger, index)
    IN  /\ result.status = "ok"
        /\ ledger' = result.ledger
        /\ burns' = 0
        /\ donated' = 0
        /\ UNCHANGED paused

ClaimYield(account) ==
    LET yield == GetYield(ledger, account)
    IN  /\ ~paused
        /\ CanSend(ledger, Yield, account, yield)
        /\ ledger' = SendCoins(ledger, Yield, account, yield)
        /\ UNCHANGED <<paused, burns, donated>>

\* Signed by the authority.
SetPausedState(pause) ==
    /\ paused' = pause
    /\ UNCHANGED <<ledger, burns, donated>>

Next ==
    \/ \E sender \in Account, recipient \in Account, amount \in Amounts :
           Transfer(sender, recipient, amount)
    \/ \E sender \in Signer, amount \in Amounts : Burn(sender, amount)
    \/ \E recipient \in Account \cup {Yield}, amount \in Amounts, index \in Indices :
           Mint(recipient, amount, index)
    \/ \E index \in Indices : UpdateIndex(index)
    \/ \E account \in Signer : ClaimYield(account)
    \/ \E pause \in BOOLEAN : SetPausedState(pause)

Spec == Init /\ [][Next]_vars

-----------------------------------------------------------------------------
(* Properties. *)

\* Every variable has its type.  In particular no balance is ever negative.
TypeOK ==
    /\ ledger \in LedgerType
    /\ paused \in BOOLEAN
    /\ burns \in Nat
    /\ donated \in Nat

\* The total principal of the stats item, on which UpdateIndex pays yield, is
\* never below the sum of the principals that accounts claim against: rounding
\* up on issuance and on redemption never favours the accounts.
PrincipalBacked == SumFunction(ledger.principal) <= ledger.totalPrincipal

\* The accounts that hold $USDN.
Holders(l) == {a \in Account : l.balance[a] > 0}

\* The total_holders statistic never counts an account that holds nothing: the
\* clamp in DecrementTotalHolders and the missing increment on yield payouts
\* only ever lose holders.
HoldersNeverOverstated == ledger.totalHolders <= Cardinality(Holders(ledger))

\* UpdateIndex panics when the supply exceeds the present value of the total
\* principal.  The excess is at most the rounding of the burns since the index
\* last moved, less than one unit of principal for each, plus what was minted
\* straight to the yield account, which earns no principal.
SupplyWithinDust ==
    ledger.supply * Scale <=
        ledger.totalPrincipal * ledger.index
        + burns * (ledger.index - 1)
        + donated * Scale

\* Nobody's claimable yield is lowered by a transaction that leaves its balance
\* alone: not by another's transfer, claim, issuance or redemption, and not by
\* an index update.  The Staked vault is the exception, its yield goes to the
\* collector.
YieldOnlyShrinksByOwnAction ==
    [][\A a \in Account \ {StakedVault} :
          ledger'.balance[a] = ledger.balance[a]
              => GetYield(ledger', a) >= GetYield(ledger, a)]_vars

\* A transfer never moves claimable yield from the recipient to the sender:
\* principal is rounded up for both, in the recipient's favour.
TransferFavoursRecipient ==
    [][\A s, r \in Account \ {StakedVault} :
          /\ ledger'.balance[s] < ledger.balance[s]
          /\ ledger'.balance[r] > ledger.balance[r]
          => /\ GetYield(ledger', s) <= GetYield(ledger, s)
             /\ GetYield(ledger', r) >= GetYield(ledger, r)]_vars

=============================================================================
