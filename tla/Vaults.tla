------------------------------- MODULE Vaults -------------------------------
(***************************************************************************)
(* The Noble Dollar Vaults.  Users lock $USDN in the Staked vault, whose   *)
(* yield is redirected, or in the Flexible vault, whose positions earn the *)
(* redirected yield on top of their own, in proportion to their principal. *)
(* When Season One ends, a block unlocks every Flexible position; from     *)
(* then on the Staked vault's yield goes to the collector.                 *)
(*                                                                         *)
(* A Flexible position has an account of its own; the rewards wait in the  *)
(* Flexible vault's account, with one record for every index update saying *)
(* how much was set aside and over how much principal it is shared.        *)
(*                                                                         *)
(* The module extends Token and leaves out what Token says of transfers,   *)
(* redemptions and gifts to the yield account.                             *)
(***************************************************************************)
EXTENDS Keeper

CONSTANTS
    UserOrder,      \* the users, sorted by address
    Endowment,      \* what users hold before the first vault is opened
    Time,           \* block times
    FlexibleVault,  \* vaults.FlexibleVaultAddress
    SeasonEnd,      \* vaultsSeasonOneEndTimestamp
    Pauses,         \* the paused states messages carry
    MinimumLock,    \* vaultsMinimumLock
    MinimumUnlock   \* vaultsMinimumUnlock

Vault == {"staked", "flexible"}
PausedType == {"none", "lock", "unlock", "all"}

\* The account of a Flexible position.
PositionAccount(user, time) == <<user, time>>

ASSUME VaultsAssumption ==
    /\ User \subseteq Account \ {StakedVault, Warp, FlexibleVault}
    /\ Collector \notin User
    /\ UserOrder \in [1 .. Cardinality(User) -> User] /\ Range(UserOrder) = User
    /\ Endowment \in [User -> Nat]
    /\ Time \subseteq Nat
    /\ FlexibleVault \in Account \ {StakedVault, Warp, Collector}
    /\ \A u \in User, t \in {t \in Time : t <= SeasonEnd} :
           PositionAccount(u, t) \in Account \ (User \cup {StakedVault, Warp, FlexibleVault})
    /\ SeasonEnd \in Nat /\ MinimumLock \in Nat \ {0} /\ MinimumUnlock \in Nat
    /\ Pauses \subseteq PausedType
    /\ Precision \in Nat \ {0} /\ Precision % Scale = 0

VARIABLES
    positions,      \* Keeper.VaultsPositions: <<user, vault, time>> -> position
    totalFlexible,  \* Keeper.VaultsTotalFlexiblePrincipal
    rewards,        \* Keeper.VaultsRewards: index -> record
    stats,          \* Keeper.VaultsStats
    vaultsPaused,   \* Keeper.VaultsPaused
    ended,          \* Keeper.VaultsSeasonOneEnded
    now             \* the time of the current block

vaultsBooks == <<positions, totalFlexible, rewards, stats>>
vaultsVars == <<vars, vaultsBooks, vaultsPaused, ended, now>>

\* What a handler reads and writes; a handler is a function on these.
VaultsStore ==
    [ ledger |-> ledger, positions |-> positions, totalFlexible |-> totalFlexible,
      rewards |-> rewards, stats |-> stats ]

CommitVaults(s) ==
    /\ ledger' = s.ledger
    /\ positions' = s.positions
    /\ totalFlexible' = s.totalFlexible
    /\ rewards' = s.rewards
    /\ stats' = s.stats

\* $USDN issued to users at the initial index, and nothing else.
Endowed == FoldLeft(LAMBDA l, u : MintTo(l, u, Endowment[u]), EmptyLedger, UserOrder)

VaultsGenesis ==
    /\ positions = <<>>
    /\ totalFlexible = 0
    /\ rewards = <<>>
    /\ stats = [ users       |-> [v \in Vault |-> 0],
                 principal   |-> [v \in Vault |-> 0],
                 distributed |-> 0 ]
    /\ vaultsPaused = "none"
    /\ ended = FALSE
    /\ now \in Time /\ \A t \in Time : now <= t

VaultsInit ==
    /\ ledger = Endowed
    /\ paused = FALSE /\ burns = 0 /\ donated = 0
    /\ VaultsGenesis

-----------------------------------------------------------------------------
(* Decimals (external): integers in units of 1 / Precision. *)

\* LegacyDec.Quo: divided with twice the digits, then rounded half to even.
DecQuo(a, b) ==
    LET quotient == (a * Precision * Precision) \div b
        whole    == quotient \div Precision
        rest     == 2 * (quotient % Precision)
    IN  IF rest > Precision \/ (rest = Precision /\ whole % 2 = 1)
        THEN whole + 1
        ELSE whole

TruncateInt(d) == d \div Precision

-----------------------------------------------------------------------------
(* Locking. *)

PositionsOf(s, user, vault) ==
    {key \in DOMAIN s.positions : key[1] = user /\ key[2] = vault}

Custodian(user, vault, time) ==
    IF vault = "flexible" THEN PositionAccount(user, time) ELSE StakedVault

\* Mutant of IncrementVaultUsers: every lock counts a user.
IncrementVaultUsersAlways(s, user, vault) == [s EXCEPT !.stats.users[vault] = @ + 1]

\* The user is counted when the new position is its only one.
IncrementVaultUsers(s, user, vault) ==
    IF Cardinality(PositionsOf(s, user, vault)) = 1
    THEN [s EXCEPT !.stats.users[vault] = @ + 1]
    ELSE s

\* The store after the amount moved into the vault.
Locked(s, user, vault, amount) ==
    LET key       == <<user, vault, now>>
        principal == GetPrincipalAmountRoundedDown(amount, s.ledger.index)
        position  == [index |-> s.ledger.index, principal |-> principal, amount |-> amount]
        moved     == [s EXCEPT
            !.ledger    = SendCoins(@, user, Custodian(user, vault, now), amount),
            !.positions = [k \in DOMAIN @ \cup {key} |->
                              IF k = key THEN position ELSE @[k]],
            !.totalFlexible = IF vault = "flexible" THEN @ + principal ELSE @,
            !.stats.principal[vault] = @ + principal]
    IN  IncrementVaultUsers(moved, user, vault)

Lock(user, vault, amount) ==
    /\ vault = "flexible" => now <= SeasonEnd
    /\ vaultsPaused \notin {"lock", "all"}
    /\ amount >= MinimumLock
    /\ <<user, vault, now>> \notin DOMAIN positions
    /\ CanSend(ledger, user, Custodian(user, vault, now), amount)
    /\ CommitVaults(Locked(VaultsStore, user, vault, amount))
    /\ UNCHANGED <<paused, burns, donated, vaultsPaused, ended, now>>

-----------------------------------------------------------------------------
(* Unlocking. *)

\* Mutant of OpenRecords: the record of the position's own index is included.
OpenRecordsInclusive(s, position) ==
    {i \in DOMAIN s.rewards : /\ i >= position.index
                              /\ s.rewards[i].total > 0
                              /\ s.rewards[i].rewards > 0}

\* The records a position takes part in: those later than the position, as long
\* as there is something to share.
OpenRecords(s, position) ==
    {i \in DOMAIN s.rewards : /\ i > position.index
                              /\ s.rewards[i].total > 0
                              /\ s.rewards[i].rewards > 0}

\* Mutant of Charge: the record keeps what was paid.
ChargeNothing(record, principal, share) == [record EXCEPT !.total = @ - principal]

\* A record after a share of it was claimed for some principal.
Charge(record, principal, share) ==
    [total |-> record.total - principal, rewards |-> record.rewards - share]

\* The share of a record that some principal of a position earns.  The record of
\* the current index is forgone.
Share(s, i, principal) ==
    LET record == s.rewards[i]
        part   == DecQuo(record.rewards * Precision, record.total * Precision)
    IN  IF i = s.ledger.index THEN 0 ELSE TruncateInt(part * principal)

\* Keeper.ClaimRewards for the given principal of a position.
ClaimRewards(s, user, position, principal) ==
    LET open    == OpenRecords(s, position)
        share   == [i \in open |-> Share(s, i, principal)]
        amount  == SumFunction(share)
        charged == [s EXCEPT !.rewards =
                       [i \in DOMAIN @ |-> IF i \in open
                                           THEN Charge(@[i], principal, share[i])
                                           ELSE @[i]]]
    IN  IF s.ledger.principal[FlexibleVault] <= 0 THEN Ok(s)
        ELSE IF ~CanSend(s.ledger, FlexibleVault, user, amount) THEN Fail(charged)
        ELSE Ok([charged EXCEPT
                    !.ledger = SendCoins(@, FlexibleVault, user, amount),
                    !.stats.distributed = @ + amount])

\* What unlocking does to a Flexible position before it is paid out: take its
\* principal off the total, claim its rewards, and claim its yield.
SettleFlexible(s, user, time, position, principal) ==
    LET claimed == ClaimRewards([s EXCEPT !.totalFlexible = @ - principal],
                                user, position, principal)
        account == PositionAccount(user, time)
    IN  IF ~claimed.ok THEN claimed
        ELSE IF ~CanClaim(claimed.store.ledger, account) THEN Fail(claimed.store)
        ELSE Ok([claimed.store EXCEPT !.ledger = ClaimModuleYield(@, account)])

\* Mutant of PrincipalToRemove: a partial unlock removes all of it.
PrincipalToRemoveAll(position, amount) == position.principal

\* The principal that goes with an amount is recomputed, at the position's index.
PrincipalToRemove(position, amount) ==
    GetPrincipalAmountRoundedDown(amount, position.index)

\* What a Flexible position pays out along with the yield it claimed.
AmountToSend(amount, yield) == IF yield > 0 THEN amount + yield ELSE amount

\* Mutants of RemoveFromPosition: a partial unlock removes the position; a
\* position that stays keeps its amount.
RemoveFromPositionAll(all, key, amount, principal) ==
    [k \in DOMAIN all \ {key} |-> all[k]]
RemoveFromPositionPrincipal(all, key, amount, principal) ==
    IF amount >= all[key].amount
    THEN [k \in DOMAIN all \ {key} |-> all[k]]
    ELSE [all EXCEPT ![key].principal = @ - principal]

\* The positions after one was unlocked, in full or in part.
RemoveFromPosition(all, key, amount, principal) ==
    IF amount >= all[key].amount
    THEN [k \in DOMAIN all \ {key} |-> all[k]]
    ELSE [all EXCEPT ![key] = [index     |-> @.index,
                               principal |-> @.principal - principal,
                               amount    |-> @.amount - amount]]

\* One round of Keeper.unlock: a position is paid out as far as there is
\* something left to unlock.
UnlockPosition(call, user, vault, time) ==
    LET key       == <<user, vault, time>>
        position  == call.store.positions[key]
        amount    == IF position.amount > call.left THEN call.left ELSE position.amount
        principal == PrincipalToRemove(position, amount)
        account   == Custodian(user, vault, time)
        settled   == IF vault = "flexible"
                     THEN SettleFlexible(call.store, user, time, position, principal)
                     ELSE Ok(call.store)
        payout    == IF vault = "flexible"
                     THEN AmountToSend(amount, GetYield(call.store.ledger, account))
                     ELSE amount
        paid      == [settled.store EXCEPT
                         !.ledger = SendCoins(@, account, user, payout),
                         !.positions = RemoveFromPosition(@, key, amount, principal)]
    IN  IF ~call.ok \/ call.left = 0 THEN call
        ELSE IF ~settled.ok \/ ~CanSend(settled.store.ledger, account, user, payout)
        THEN [ok |-> FALSE, store |-> settled.store,
              left |-> call.left, removed |-> call.removed]
        ELSE [ok |-> TRUE, store |-> paid,
              left |-> call.left - amount, removed |-> call.removed + principal]

\* Mutant of DecrementVaultUsers: every unlock takes a user off the count.
DecrementVaultUsersAlways(s, user, vault) == [s EXCEPT !.stats.users[vault] = @ - 1]

\* The user leaves the count with its last position.
DecrementVaultUsers(s, user, vault) ==
    IF PositionsOf(s, user, vault) = {}
    THEN [s EXCEPT !.stats.users[vault] = @ - 1]
    ELSE s

\* What all positions of a user in a vault hold.
TotalPositions(s, user, vault) ==
    SumFunctionOnSet([key \in DOMAIN s.positions |-> s.positions[key].amount],
                     PositionsOf(s, user, vault))

\* Keeper.unlock: the user's positions in the order of their times (the fold takes
\* the latest last), and then the statistics.
Unlocked(s, user, vault, amount) ==
    LET times == {key[3] : key \in PositionsOf(s, user, vault)}
        total == TotalPositions(s, user, vault)
        done  == MapThenFoldSet(LAMBDA time, call : UnlockPosition(call, user, vault, time),
                                [ok |-> TRUE, store |-> s, left |-> amount, removed |-> 0],
                                LAMBDA time : time,
                                LAMBDA upto : Max(upto),
                                times)
    IN  IF amount <= 0 \/ amount > total \/ (amount < MinimumUnlock /\ amount # total)
        THEN Fail(s)
        ELSE IF ~done.ok THEN Fail(done.store)
        ELSE Ok([DecrementVaultUsers(done.store, user, vault) EXCEPT
                    !.stats.principal[vault] = @ - done.removed])

Unlock(user, vault, amount) ==
    /\ vault = "flexible" => now <= SeasonEnd
    /\ vaultsPaused \notin {"unlock", "all"}
    /\ \E result \in {Unlocked(VaultsStore, user, vault, amount)} :
           result.ok /\ CommitVaults(result.store)
    /\ UNCHANGED <<paused, burns, donated, vaultsPaused, ended, now>>

-----------------------------------------------------------------------------
(* Queries. *)

PendingRewards(s) == SumFunction([i \in DOMAIN s.rewards |-> s.rewards[i].rewards])

\* Mutant of PositionRewards: the record of the position's own index counts.
PositionRewardsInclusive(s, position) ==
    LET principal == PrincipalToRemove(position, position.amount)
    IN  SumFunction([i \in OpenRecordsInclusive(s, position) |-> Share(s, i, principal)])

\* The pending rewards of one Flexible position.
PositionRewards(s, position) ==
    LET principal == PrincipalToRemove(position, position.amount)
    IN  SumFunction([i \in OpenRecords(s, position) |-> Share(s, i, principal)])

PendingRewardsByProvider(s, user) ==
    SumFunction([key \in PositionsOf(s, user, "flexible") |->
                    PositionRewards(s, s.positions[key])])

-----------------------------------------------------------------------------
(* The end of Season One. *)

\* endVaultsSeasonOne: a user whose unlock fails is skipped, with what the call
\* had written until then.
EndVaultsSeasonOne(s) ==
    FoldLeft(LAMBDA t, u :
                 IF PositionsOf(s, u, "flexible") = {} THEN t
                 ELSE Unlocked(t, u, "flexible", TotalPositions(s, u, "flexible")).store,
             s, UserOrder)

\* Mutant of BeginBlocker: a season end that skipped a user is left for the next
\* block.
BeginBlockerUntilAllUnlocked ==
    LET ending == now' > SeasonEnd /\ ~ended
    IN  /\ now' \in {t \in Time : t > now}
        /\ \E done \in {IF ending THEN EndVaultsSeasonOne(VaultsStore) ELSE VaultsStore} :
               /\ CommitVaults(done)
               /\ ended' = (ended \/ (ending /\ \A key \in DOMAIN done.positions :
                                                    key[2] # "flexible"))
        /\ UNCHANGED <<paused, burns, donated, vaultsPaused>>

\* The next block begins; its BeginBlocker ends the season when it is time.
BeginBlocker ==
    LET ending == now' > SeasonEnd /\ ~ended
    IN  /\ now' \in {t \in Time : t > now}
        /\ ended' = (ended \/ ending)
        /\ \E done \in {IF ending THEN EndVaultsSeasonOne(VaultsStore) ELSE VaultsStore} :
               CommitVaults(done)
        /\ UNCHANGED <<paused, burns, donated, vaultsPaused>>

-----------------------------------------------------------------------------
(* Index updates. *)

\* claimStakedVaultYield: the yield goes to the Flexible vault, and with it the
\* principal the yield is worth.
ClaimStakedVaultYield(l) ==
    LET yield     == GetYield(l, StakedVault)
        principal == TruncateInt(DecQuo(yield * Precision,
                                        (l.index * Precision) \div Scale))
    IN  [SendCoins(l, Yield, FlexibleVault, yield) EXCEPT
            !.principal[StakedVault] = @ - principal,
            !.principal[FlexibleVault] = @ + principal]

\* handleVaultsYieldSeasonOne, after the index was set: the rewards of this
\* index are what both vaults earned, shared over the Flexible principal.
HandleVaultsYieldSeasonOne(s) ==
    LET flexible == ClaimModuleYield(s.ledger, FlexibleVault)
        staked   == ClaimStakedVaultYield(flexible)
        index    == s.ledger.index
        record   == [total   |-> s.totalFlexible,
                     rewards |-> GetYield(s.ledger, FlexibleVault)
                                 + GetYield(flexible, StakedVault)]
    IN  IF ~CanClaim(s.ledger, FlexibleVault) THEN Fail(s)
        ELSE IF ~CanClaim(flexible, StakedVault)
        THEN Fail([s EXCEPT !.ledger = flexible])
        ELSE Ok([s EXCEPT !.ledger = staked,
                          !.rewards = [i \in DOMAIN @ \cup {index} |->
                                          IF i = index THEN record ELSE @[i]]])

\* What an index update does for the vaults, in either season.
HandleVaultsYield(s) ==
    IF ~ended THEN HandleVaultsYieldSeasonOne(s)
    ELSE IF CanClaim(s.ledger, StakedVault)
    THEN Ok([s EXCEPT !.ledger = HandleVaultsYieldSeasonTwo(@)])
    ELSE Fail(s)

\* The outcome of Keeper.UpdateIndex, without yield recipients.
VaultsUpdateIndexStore(s, index) ==
    LET vaulted == HandleVaultsYield([s EXCEPT !.ledger = AccrueYield(@, index)])
    IN  IF index <= s.ledger.index THEN Fail(s)
        ELSE IF ~vaulted.ok THEN vaulted
        ELSE IF ~CanClaim(vaulted.store.ledger, Warp) THEN Fail(vaulted.store)
        ELSE Ok([vaulted.store EXCEPT !.ledger = ClaimExternalYieldHyperlane(@)])

\* A delivered index payload.
VaultsUpdateIndex(index) ==
    /\ SupplyShortfall(ledger, index) >= 0
    /\ \E result \in {VaultsUpdateIndexStore(VaultsStore, index)} :
           result.ok /\ CommitVaults(result.store)
    /\ UNCHANGED <<paused, burns, donated, vaultsPaused, ended, now>>

\* A delivered token payload: the error of the index update is ignored.
VaultsMint(recipient, amount, index) ==
    /\ index > ledger.index => SupplyShortfall(ledger, index) >= 0
    /\ \E updated \in {VaultsUpdateIndexStore(VaultsStore, index).store} :
           CommitVaults([updated EXCEPT !.ledger = MintTo(@, recipient, amount)])
    /\ UNCHANGED <<paused, burns, donated, vaultsPaused, ended, now>>

-----------------------------------------------------------------------------

\* Signed by the authority.
VaultsSetPausedState(pause) ==
    /\ vaultsPaused' = pause
    /\ UNCHANGED <<vars, vaultsBooks, ended, now>>

VaultsClaimYield(user) ==
    /\ ClaimYield(user)
    /\ UNCHANGED <<vaultsBooks, vaultsPaused, ended, now>>

\* What happens in the vaults apart from index updates.
VaultsTraffic ==
    \/ \E user \in User, vault \in Vault, amount \in Amounts : Lock(user, vault, amount)
    \/ \E user \in User, vault \in Vault, amount \in Amounts : Unlock(user, vault, amount)
    \/ BeginBlocker
    \/ \E pause \in Pauses : VaultsSetPausedState(pause)
    \/ \E user \in User : VaultsClaimYield(user)

VaultsNext ==
    \/ VaultsTraffic
    \/ \E index \in Indices : VaultsUpdateIndex(index)
    \/ \E user \in User, amount \in Amounts, index \in Indices :
           VaultsMint(user, amount, index)

VaultsSpec == VaultsInit /\ [][VaultsNext]_vaultsVars

\* The step to another block, which only BeginBlocker takes.
NextBlock == now' \in {t \in Time : t > now}

\* Some unlock of what a user has staked would succeed.
CanUnlockStaked(user) ==
    /\ vaultsPaused \notin {"unlock", "all"}
    /\ \E amount \in Amounts : Unlocked(VaultsStore, user, "staked", amount).ok

\* Blocks keep coming, the authority does not keep the vaults paused for good,
\* and users keep asking for what they have staked: strong fairness of Unlock,
\* whose enabling condition is spelled out.
VaultsFairness ==
    /\ WF_now(NextBlock)
    /\ WF_vaultsVars(VaultsSetPausedState("none"))
    /\ \A user \in User :
           []<>CanUnlockStaked(user)
               => []<><<\E amount \in Amounts : Unlock(user, "staked", amount)>>_vaultsVars

-----------------------------------------------------------------------------
(* Properties. *)

Position == [index : Nat \ {0}, principal : Int, amount : Nat \ {0}]

\* Every variable of the vaults has its type; in particular the counts of users
\* never underflow and no position is left with nothing in it.
VaultsTypeOK ==
    /\ TypeOK
    /\ DOMAIN positions \subseteq User \X Vault \X Time
    /\ \A key \in DOMAIN positions : positions[key] \in Position
    /\ totalFlexible \in Int
    /\ \A i \in DOMAIN rewards : rewards[i] \in [total : Int, rewards : Nat]
    /\ stats \in [users : [Vault -> Nat], principal : [Vault -> Int], distributed : Nat]
    /\ vaultsPaused \in PausedType
    /\ ended \in BOOLEAN
    /\ now \in Time

KeysIn(vault) == {key \in DOMAIN positions : key[2] = vault}

\* What the given positions hold, and the principal that unlocking them removes.
AmountOf(keys) ==
    SumFunctionOnSet([key \in DOMAIN positions |-> positions[key].amount], keys)
PrincipalOf(keys) ==
    SumFunctionOnSet([key \in DOMAIN positions |->
        GetPrincipalAmountRoundedDown(positions[key].amount, positions[key].index)], keys)

\* Every position can be paid out: the Staked vault's account covers all Staked
\* positions at once, and the account of a Flexible position covers it, whatever
\* yield was claimed, redirected or forwarded, and whatever unlock of the season
\* end stopped halfway.
PositionsBacked ==
    /\ ledger.balance[StakedVault] >= AmountOf(KeysIn("staked"))
    /\ \A key \in KeysIn("flexible") :
           ledger.balance[PositionAccount(key[1], key[3])] >= positions[key].amount

\* The rewards on record are there: ClaimRewards never lacks the coins to pay
\* a share, which would make every later unlock fail.
RewardsBacked ==
    ledger.balance[FlexibleVault]
        >= SumFunction([i \in DOMAIN rewards |-> rewards[i].rewards])

\* A record is shared over at least the principal that can still claim from it,
\* so that early exits never take more than their share and leave the last one
\* with too little.
RewardsNotOvershared ==
    ~ended => \A i \in DOMAIN rewards :
        rewards[i].total >= PrincipalOf({key \in KeysIn("flexible") : positions[key].index < i})

\* The principal on which the next record is shared, and the statistics, are
\* never below the principal of the positions: partial unlocks only lose dust.
PrincipalCovered ==
    /\ stats.principal["staked"] >= PrincipalOf(KeysIn("staked"))
    /\ ~ended => /\ totalFlexible >= PrincipalOf(KeysIn("flexible"))
                 /\ stats.principal["flexible"] = totalFlexible

\* The number of users of a vault is the number of accounts with a position in
\* it, for the Flexible vault until the season ends.
UsersCounted ==
    \A vault \in Vault :
        vault = "staked" \/ ~ended
            => stats.users[vault] = Cardinality({key[1] : key \in KeysIn(vault)})

\* What a user owns: its balance and what it has locked.
Wealth(user) ==
    ledger.balance[user] + AmountOf({key \in DOMAIN positions : key[1] = user})

\* Nobody ever loses $USDN in a vault: no lock, unlock, claim, index update or
\* season end, complete or not, lowers what a user has in its account and its
\* positions together.
NothingLost == [][\A u \in User : Wealth(u)' >= Wealth(u)]_vaultsVars

\* The season does end, no matter whose unlock fails in the block that ends it.
SeasonEnds == <>[]ended

\* A user that keeps asking gets every Staked position back, whatever pauses,
\* partial unlocks and index updates, complete or not, come in between: neither
\* the minimum nor a shortfall of the vault's account ever locks one in.
StakedReturned ==
    \A user \in User, time \in Time :
        <<user, "staked", time>> \in DOMAIN positions
            ~> <<user, "staked", time>> \notin DOMAIN positions

\* The queries on pending rewards agree while the season lasts: what all providers
\* are told is theirs is never more than what is reported as pending for all of
\* them.  Once it is over they need not: a position whose unlock stopped halfway,
\* after a record was charged, is counted against that record again.
PendingWithinTotal ==
    ~ended => SumFunction([u \in User |-> PendingRewardsByProvider(VaultsStore, u)])
                  <= PendingRewards(VaultsStore)

\* What unlocking all Flexible positions of a user would lead to.
Exit(user) == Unlocked(VaultsStore, user, "flexible", TotalPositions(VaultsStore, user, "flexible"))

\* What spec/02_messages_vaults.md says of unlocking, that it claims any
\* available rewards: a user that leaves the Flexible vault is paid at least
\* what the query reports as pending for it.
PendingRewardsPaid ==
    \A user \in User :
        Exit(user).ok => Exit(user).store.stats.distributed - stats.distributed
                             >= PendingRewardsByProvider(VaultsStore, user)

\* What the comment on endVaultsSeasonOne says: it unlocks all Flexible
\* positions.
AllFlexibleUnlocked == ended => KeysIn("flexible") = {}

=============================================================================
