------------------------------- MODULE Ledger -------------------------------
(***************************************************************************)
(* The $USDN ledger: what the bank module keeps for the denomination       *)
(* (balances and supply), the principal the dollar module keeps beside it, *)
(* the current index and the stats item.  Every operator takes a ledger    *)
(* and returns the ledger the code leaves behind; whether a call succeeds  *)
(* is a predicate of its own (CanSend).                                    *)
(*                                                                         *)
(* The bank module is external.  Its SendCoins subtracts from the sender,  *)
(* runs the send restriction and then adds to the recipient: the tests for *)
(* a zero balance in SendRestrictionFn are written for that order.         *)
(***************************************************************************)
EXTENDS Indexing, FiniteSets

CONSTANTS
    Account,    \* every account other than the two module accounts below
    Module,     \* types.ModuleAddress: mints and burns
    Yield       \* types.YieldAddress: holds accrued, unclaimed yield

ASSUME AccountAssumption ==
    /\ IsFiniteSet(Account)
    /\ Module \notin Account
    /\ Yield \notin Account
    /\ Module # Yield

Address == Account \cup {Module, Yield}

LedgerType ==
    [ index             : Nat \ {0},
      principal         : [Account -> Int],
      balance           : [Address -> Nat],
      supply            : Nat,
      totalPrincipal    : Int,
      totalHolders      : Nat,
      totalYieldAccrued : Nat ]

\* The default genesis: index 1e12, nothing issued.
EmptyLedger ==
    [ index             |-> Scale,
      principal         |-> [a \in Account |-> 0],
      balance           |-> [a \in Address |-> 0],
      supply            |-> 0,
      totalPrincipal    |-> 0,
      totalHolders      |-> 0,
      totalYieldAccrued |-> 0 ]

-----------------------------------------------------------------------------
(* The stats item (keeper/state.go). *)

\* Mutant of DecrementTotalHolders: the count is not clamped at zero.
DecrementTotalHoldersUnclamped(l) == [l EXCEPT !.totalHolders = @ - 1]

DecrementTotalHolders(l) ==
    [l EXCEPT !.totalHolders = IF @ > 0 THEN @ - 1 ELSE @]

IncrementTotalHolders(l) == [l EXCEPT !.totalHolders = @ + 1]

DecrementTotalPrincipal(l, amount) == [l EXCEPT !.totalPrincipal = @ - amount]

IncrementTotalPrincipal(l, amount) == [l EXCEPT !.totalPrincipal = @ + amount]

IncrementTotalYieldAccrued(l, amount) ==
    [l EXCEPT !.totalYieldAccrued = @ + amount]

-----------------------------------------------------------------------------
(* The send restriction (keeper/keeper.go). *)

\* The sender's half: its principal shrinks, and it stops being counted as a
\* holder when the bank has just taken its last coin.
DebitPrincipal(l, sender, principal) ==
    LET debited == [l EXCEPT !.principal[sender] = @ - principal]
    IN  IF l.balance[sender] = 0 THEN DecrementTotalHolders(debited) ELSE debited

\* Mutant of CreditPrincipal: every credit counts as a new holder.
CreditPrincipalCountsAlways(l, recipient, principal) ==
    IncrementTotalHolders([l EXCEPT !.principal[recipient] = @ + principal])

\* The recipient's half: its principal grows, and it starts being counted as a
\* holder when it had no coin before this transfer.
CreditPrincipal(l, recipient, principal) ==
    LET credited == [l EXCEPT !.principal[recipient] = @ + principal]
    IN  IF l.balance[recipient] = 0 THEN IncrementTotalHolders(credited) ELSE credited

\* Mutant of SendRestrictionFn: on issuance the two roundings are swapped.
SendRestrictionFnSwapped(l, sender, recipient, amount) ==
    LET up   == GetPrincipalAmountRoundedUp(amount, l.index)
        down == GetPrincipalAmountRoundedDown(amount, l.index)
        debited == IF sender = Module
                   THEN IncrementTotalPrincipal(l, down)
                   ELSE DebitPrincipal(l, sender, up)
    IN  IF amount = 0 \/ sender = Yield \/ recipient = Yield THEN l
        ELSE IF recipient = Module THEN DecrementTotalPrincipal(debited, up)
        ELSE CreditPrincipal(debited, recipient, up)

\* Mutant of SendRestrictionFn: transfers move principal rounded down.
SendRestrictionFnRoundsDown(l, sender, recipient, amount) ==
    LET up   == GetPrincipalAmountRoundedUp(amount, l.index)
        down == GetPrincipalAmountRoundedDown(amount, l.index)
        debited == IF sender = Module
                   THEN IncrementTotalPrincipal(l, up)
                   ELSE DebitPrincipal(l, sender,
                                       IF recipient = Module THEN up ELSE down)
    IN  IF amount = 0 \/ sender = Yield \/ recipient = Yield THEN l
        ELSE IF recipient = Module THEN DecrementTotalPrincipal(debited, up)
        ELSE CreditPrincipal(debited, recipient, down)

\* Yield payout (from Yield) and yield accrual (Module to Yield) leave the
\* principals alone; any other transfer to Yield is refused, see CanSend.
SendRestrictionFn(l, sender, recipient, amount) ==
    LET up   == GetPrincipalAmountRoundedUp(amount, l.index)
        down == GetPrincipalAmountRoundedDown(amount, l.index)
        debited == IF sender = Module
                   THEN IncrementTotalPrincipal(l, up)
                   ELSE DebitPrincipal(l, sender, up)
    IN  IF amount = 0 \/ sender = Yield \/ recipient = Yield THEN l
        ELSE IF recipient = Module THEN DecrementTotalPrincipal(debited, up)
        ELSE CreditPrincipal(debited, recipient,
                             IF sender = Module THEN down ELSE up)

-----------------------------------------------------------------------------
(* The bank module (external). *)

CanSend(l, sender, recipient, amount) ==
    /\ l.balance[sender] >= amount
    /\ recipient = Yield /\ amount > 0 => sender \in {Module, Yield}

SubUnlockedCoins(l, sender, amount) ==
    [l EXCEPT !.balance[sender] = @ - amount]

AddCoins(l, recipient, amount) ==
    [l EXCEPT !.balance[recipient] = @ + amount]

SendCoins(l, sender, recipient, amount) ==
    AddCoins(SendRestrictionFn(SubUnlockedCoins(l, sender, amount),
                               sender, recipient, amount),
             recipient, amount)

MintCoins(l, amount) ==
    [l EXCEPT !.balance[Module] = @ + amount, !.supply = @ + amount]

BurnCoins(l, amount) ==
    [l EXCEPT !.balance[Module] = @ - amount, !.supply = @ - amount]

-----------------------------------------------------------------------------
(* Yield, issuance and redemption. *)

\* A difference of exactly one unit is rounding dust and is not claimable.
GetYield(l, account) ==
    LET yield == GetPresentAmount(l.principal[account], l.index)
                 - l.balance[account]
    IN  IF yield = 1 \/ yield < 0 THEN 0 ELSE yield

\* Keeper.Burn, for an account that CanSend the amount to Module.
BurnFrom(l, sender, amount) ==
    BurnCoins(SendCoins(l, sender, Module, amount), amount)

\* The part of Keeper.Mint that follows the index update.
MintTo(l, recipient, amount) ==
    SendCoins(MintCoins(l, amount), Module, recipient, amount)

\* expectedSupply - currentSupply of Keeper.UpdateIndex.
SupplyShortfall(l, index) ==
    GetPresentAmount(l.totalPrincipal, index) - l.supply

\* Mutant of AccrueYield: the statistic is not updated.
AccrueYieldUncounted(l, index) ==
    LET indexed == [l EXCEPT !.index = index]
        yield   == SupplyShortfall(l, index)
    IN  IF yield > 0
        THEN SendCoins(MintCoins(indexed, yield), Module, Yield, yield)
        ELSE indexed

\* Mutant of AccrueYield: the whole expected supply is minted again.
AccrueYieldFromZero(l, index) ==
    LET indexed == [l EXCEPT !.index = index]
        yield   == GetPresentAmount(l.totalPrincipal, index)
    IN  IF yield > 0
        THEN IncrementTotalYieldAccrued(
                 SendCoins(MintCoins(indexed, yield), Module, Yield, yield),
                 yield)
        ELSE indexed

\* The first half of Keeper.UpdateIndex: set the index, and mint what the
\* principal has earned to the yield account.
AccrueYield(l, index) ==
    LET indexed == [l EXCEPT !.index = index]
        yield   == SupplyShortfall(l, index)
    IN  IF yield > 0
        THEN IncrementTotalYieldAccrued(
                 SendCoins(MintCoins(indexed, yield), Module, Yield, yield),
                 yield)
        ELSE indexed

\* Keeper.claimModuleYield, when the yield account CanSend the yield.
ClaimModuleYield(l, account) ==
    SendCoins(l, Yield, account, GetYield(l, account))

=============================================================================
