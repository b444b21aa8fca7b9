---------------------------- MODULE DollarProofs -----------------------------
(***************************************************************************)
(* Theorems about the whole module and its restarts, for every set of      *)
(* users, channels, routes and VAAs.  The components keep their            *)
(* invariants while the others work on the same ledger, because a step of  *)
(* one takes coins only from users and from the accounts that hold coins   *)
(* for that component (Moves), and no account holds coins for both; and an *)
(* update, complete or not, takes from no account but the Staked vault's   *)
(* what Season Two donates of its yield (Spares).                          *)
(***************************************************************************)
EXTENDS Genesis, PortalProofs, VaultsProofs, ExternalProofs

-----------------------------------------------------------------------------
(* The invariant. *)

\* What the accounting reads of the portal.
LogsTyped ==
    /\ \A c \in DOMAIN portalPeers : portalPeers[c] \in Peer
    /\ portalNonce \in Nat
    /\ archive \in SUBSET Vaa
    /\ posted \in Seq(Message)

\* The inductive invariant: that of each component, on the one ledger, and the
\* accounting.
DollarInv ==
    /\ VaultsInv
    /\ ExternalInv
    /\ LogsTyped
    /\ DollarSupplyAccounted

\* Nobody's claimable yield shrinks while its account stands still.
YieldKept ==
    \A u \in User : ledger'.balance[u] = ledger.balance[u]
        => GetYield(ledger', u) >= GetYield(ledger, u)

\* What every step does.
DollarStepped ==
    /\ DollarInv'
    /\ ledger'.index >= ledger.index
    /\ Bounded /\ RewardsSafe(VaultsStore) => RewardsSafe(VaultsStore')
    /\ YieldKept

\* The ledger is sound, and the same in the stores of the components.
LEMMA OneLedger ==
  ASSUME DollarInv
  PROVE  /\ Sound(ledger) /\ VaultsStore.ledger = ledger /\ ExternalStore.ledger = ledger
         /\ GoodStore(VaultsStore) /\ Safe(VaultsStore, ~ended) /\ (~ended) \in BOOLEAN
         /\ vouchers \in [Channel -> Nat] /\ Kept(ExternalStore, vouchers, 0)
<1>1. VaultsInv /\ ExternalInv
  BY DEF DollarInv
<1>2. GoodStore(VaultsStore) /\ Safe(VaultsStore, ~ended) /\ (~ended) \in BOOLEAN
  BY <1>1, InvParts
<1>3. vouchers \in [Channel -> Nat] /\ Kept(ExternalStore, vouchers, 0)
  BY <1>1 DEF ExternalInv
<1>4. VaultsStore.ledger = ledger /\ ExternalStore.ledger = ledger
  BY DEF VaultsStore, ExternalStore
<1>5. Sound(ledger)
  BY <1>2, <1>4 DEF GoodStore
<1> QED BY <1>2, <1>3, <1>4, <1>5

\* No account holds coins for the vaults and for other chains, or is a user's.
LEMMA NobodyTwice ==
  /\ Holding \in SUBSET (Account \ (User \cup Custody))
  /\ Account \cap Custody \in SUBSET (Account \ (User \cup Holding))
  /\ StakedVault \notin Holding /\ StakedVault \notin User
<1>1. /\ Warp \in Account /\ Warp # StakedVault /\ Warp # FlexibleVault
      /\ \A u \in User, t \in {t \in Time : t <= SeasonEnd} : PositionAccount(u, t) # Warp
  BY TokenAssumption, VaultsAssumption
<1>2. \A c \in Channel :
          /\ Escrow[c] \in Account /\ Escrow[c] # StakedVault /\ Escrow[c] # FlexibleVault
          /\ \A u \in User, t \in Time : Escrow[c] # PositionAccount(u, t)
  BY ExternalAssumption, DollarAssumption
<1>3. Holding \cap Custody = {}
  BY <1>1, <1>2 DEF Holding, Custody
<1>4. Holding \in SUBSET (Account \ User) /\ User \in SUBSET (Account \ Custody)
  BY UsersHoldNothing, UsersAreNotCustody
<1>5. StakedVault \notin Holding /\ StakedVault \notin User
  BY <1>3, <1>4 DEF Custody
<1> QED BY <1>3, <1>4, <1>5

-----------------------------------------------------------------------------
(* Steps of one component, seen by the others. *)

\* A step of another component that takes nothing from the accounts of the vaults
\* keeps the invariant of the vaults.
LEMMA VaultsSpared ==
  ASSUME VaultsInv, Sound(ledger'), ledger'.index >= ledger.index,
         \A a \in Account \cap Custody : ledger'.balance[a] >= ledger.balance[a],
         paused' \in BOOLEAN /\ burns' \in Nat /\ donated' \in Nat,
         UNCHANGED vaultsOnly
  PROVE  VaultsInv' /\ (RewardsSafe(VaultsStore) => RewardsSafe(VaultsStore'))
<1> DEFINE s == VaultsStore
           t == VaultsStore'
           open == ~ended
<1>1. Safe(s, open) /\ open \in BOOLEAN /\ s.ledger = ledger
  BY InvParts, StoreViews
<1>2. t = [ledger |-> ledger', positions |-> s.positions,
           totalFlexible |-> s.totalFlexible, rewards |-> s.rewards, stats |-> s.stats]
  BY DEF VaultsStore, vaultsOnly, vaultsBooks
<1>3. /\ \A a \in Account \cap Custody : ledger'.balance[a] >= s.ledger.balance[a]
      /\ ledger'.index >= s.ledger.index
  BY <1>1
<1> DEFINE m == ledger'
<1>4. Sound(m)
  OBVIOUS
<1> HIDE DEF s, t, open, m
<1>5. Safe(t, open) /\ (RewardsSafe(s) => RewardsSafe(t))
  BY <1>1, <1>2, <1>3, <1>4, OthersStep DEF m
<1> QED BY <1>5 DEF VaultsInv, vaultsOnly, s, t, open

\* The accounting survives a step that mints only what it accrues.
LEMMA AccruedAccounted ==
  ASSUME DollarInv, Sound(ledger'),
         ledger'.supply - ledger.supply
             = ledger'.totalYieldAccrued - ledger.totalYieldAccrued,
         UNCHANGED <<posted, archive>>
  PROVE  DollarSupplyAccounted'
<1>1. Sound(ledger)
  BY OneLedger
<1>2. /\ ledger.supply \in Nat /\ ledger'.supply \in Nat
      /\ ledger.totalYieldAccrued \in Nat /\ ledger'.totalYieldAccrued \in Nat
  BY <1>1, SoundNumbers
<1>3. Sent(posted) \in Int /\ Sent(posted') = Sent(posted)
  BY SentType DEF DollarInv, LogsTyped
<1>4. Received(archive') = Received(archive)
  OBVIOUS
<1>5. ledger.supply + Sent(posted)
          = SumFunction(Endowment) + ledger.totalYieldAccrued + Received(archive)
  BY DEF DollarInv, DollarSupplyAccounted, Sent, Received
<1>6. SumFunction(Endowment) \in Int /\ Received(archive) \in Int
  BY EndowmentWhole, ReceivedType DEF DollarInv, LogsTyped
<1>7. ledger'.supply + Sent(posted')
          = SumFunction(Endowment) + ledger'.totalYieldAccrued + Received(archive')
  BY <1>2, <1>3, <1>4, <1>5, <1>6
<1> QED BY <1>7 DEF DollarSupplyAccounted, Sent, Received

-----------------------------------------------------------------------------
(* An index update across the components. *)

\* What an update has written, complete or not: the vaults have grown, external
\* yield keeps its invariant, and of the accounts only the Staked vault's has paid.
\* The claims for other chains take nothing from what the vaults were left with.
UpdateKeeps(u) ==
    /\ Grown(u.vaults, VaultsStore)
    /\ Kept(u.external, vouchers, 0)
    /\ Spares(u.external.ledger, u.vaults.ledger, Account)
    /\ Spares(u.external.ledger, ledger, Account \ {StakedVault})

\* An update that is refused has written nothing.
LEMMA RefusedKeeps ==
  ASSUME DollarInv, NEW ok
  PROVE  UpdateKeeps(Outcome(ok, VaultsStore, ExternalStore))
<1>1. /\ Sound(ledger) /\ VaultsStore.ledger = ledger /\ ExternalStore.ledger = ledger
      /\ GoodStore(VaultsStore) /\ Kept(ExternalStore, vouchers, 0)
  BY OneLedger
<1>2. Grown(VaultsStore, VaultsStore)
  BY <1>1, GrownStarts
<1>3. /\ Spares(ledger, ledger, Account)
      /\ Spares(ledger, ledger, Account \ {StakedVault})
  BY <1>1, SparesReflexive
<1> QED BY <1>1, <1>2, <1>3 DEF UpdateKeeps, Outcome

\* Accrual, seen by the vaults.
LEMMA AccrualGrows ==
  ASSUME DollarInv, NEW index \in Int, index > ledger.index,
         SupplyShortfall(ledger, index) >= 0
  PROVE  LET a == AccrueYield(ledger, index)
             t == [VaultsStore EXCEPT !.ledger = AccrueYield(@, index)]
         IN  /\ Spares(a, ledger, Account) /\ a.index = index
             /\ Grown(t, VaultsStore) /\ t.ledger = a /\ t.rewards = VaultsStore.rewards
<1> DEFINE a == AccrueYield(ledger, index)
           s == VaultsStore
           t == [VaultsStore EXCEPT !.ledger = AccrueYield(@, index)]
<1>1. Sound(ledger) /\ s.ledger = ledger /\ GoodStore(s) /\ s \in StoreType
  BY OneLedger DEF GoodStore
<1>2. Spares(a, ledger, Account)
  BY <1>1, AccrualSpares
<1>3. a.index = index
  <2>1. /\ Sound(a)
        /\ SameExcept(a, ledger, {"index", "balance", "supply", "totalYieldAccrued"})
        /\ a.index = index
        /\ a.supply = GetPresentAmount(ledger.totalPrincipal, index)
    <3> HIDE DEF a
    <3> QED BY <1>1, Accrual DEF a
  <2> QED BY <2>1
<1>4. t = [s EXCEPT !.ledger = a]
  BY <1>1 DEF StoreType
<1> HIDE DEF a, s, t
<1>5. Grown(s, s)
  BY <1>1, GrownStarts
<1>6. /\ Sound(a) /\ a.index >= s.ledger.index
      /\ \A x \in Account : a.balance[x] >= s.ledger.balance[x]
  BY <1>1, <1>2 DEF Spares
<1> DEFINE k == [s EXCEPT !.ledger = a]
<1>7. Grown(k, s) /\ k.ledger = a /\ k.rewards = s.rewards /\ k.totalFlexible = s.totalFlexible
  BY <1>1, <1>5, <1>6, LedgerGrows
<1> HIDE DEF k
<1>8. t = k
  BY <1>4 DEF k
<1> QED BY <1>2, <1>3, <1>7, <1>8 DEF a, s, t

\* An update that is accepted, wherever it stops.
LEMMA UpdatedKeeps ==
  ASSUME DollarInv, NEW index \in Int, NEW down, index > ledger.index,
         SupplyShortfall(ledger, index) >= 0
  PROVE  UpdateKeeps(Updated(index, down))
<1> DEFINE a == AccrueYield(ledger, index)
           t == [VaultsStore EXCEPT !.ledger = AccrueYield(@, index)]
           h == HandleVaultsYield(t)
           v == h.store
           x == [ExternalStore EXCEPT !.ledger = v.ledger]
           claimed == ClaimExternalYield(x, down)
           z == claimed.store
<1>1. /\ Sound(ledger) /\ VaultsStore.ledger = ledger /\ ExternalStore.ledger = ledger
      /\ GoodStore(VaultsStore)
      /\ vouchers \in [Channel -> Nat] /\ Kept(ExternalStore, vouchers, 0)
  BY OneLedger
<1>2. Updated(index, down) = IF h.ok THEN Outcome(claimed.ok, v, z) ELSE Outcome(FALSE, v, x)
  BY DEF Updated
<1>3. /\ Spares(a, ledger, Account) /\ a.index = index
      /\ Grown(t, VaultsStore) /\ t.ledger = a /\ t.rewards = VaultsStore.rewards
  BY AccrualGrows
<1> HIDE DEF a, t
<1>4. h.ok \in BOOLEAN /\ Grown(v, VaultsStore)
  BY <1>1, <1>3, VaultsYieldEffect
<1>5. Spares(v.ledger, a, Account \ {StakedVault})
  <2>1. GoodStore(t)
    BY <1>3 DEF Grown
  <2> QED BY <1>3, <2>1, VaultsYieldSpares
<1> HIDE DEF h, v
<1>6. Spares(v.ledger, ledger, Account \ {StakedVault}) /\ Sound(v.ledger)
  <2>1. Spares(a, ledger, Account \ {StakedVault})
    BY <1>3, SparesFewer
  <2>2. Account \ {StakedVault} \in SUBSET Account
    OBVIOUS
  <2>3. Spares(v.ledger, ledger, Account \ {StakedVault})
    BY <1>1, <1>5, <2>1, <2>2, SparesTransitive
  <2> QED BY <2>3 DEF Spares
<1>7. Kept(x, vouchers, 0)
  <2>1. ExternalStore.ledger.balance[Warp] \in Nat
    BY <1>1, StoreSums DEF Kept
  <2>2. /\ \A c \in Channel :
               v.ledger.balance[Escrow[c]] >= ExternalStore.ledger.balance[Escrow[c]]
        /\ v.ledger.balance[Warp] >= ExternalStore.ledger.balance[Warp] + 0
        /\ 0 \in Int
    BY <1>1, <1>6, <2>1, HoldingAccounts DEF Spares
  <2>3. Kept(x, vouchers, 0 + 0)
    BY <1>1, <1>6, <2>2, LedgerStep
  <2> QED BY <2>3
<1>8. x.ledger = v.ledger
  BY <1>1 DEF Kept, GoodExternal, ExternalStoreType
<1> HIDE DEF x
<1>9. Kept(z, vouchers, 0) /\ Spares(z.ledger, x.ledger, Account)
  BY <1>1, <1>7, ClaimExternalYieldKept
<1> HIDE DEF claimed, z
<1>10. Spares(z.ledger, ledger, Account \ {StakedVault})
  <2>1. Spares(z.ledger, x.ledger, Account \ {StakedVault})
    BY <1>9, SparesFewer
  <2> QED BY <1>1, <1>6, <1>8, <2>1, SparesTransitive
<1>11. Spares(x.ledger, v.ledger, Account)
  BY <1>6, <1>8, SparesReflexive
<1>12. UpdateKeeps(Outcome(claimed.ok, v, z))
  BY <1>4, <1>8, <1>9, <1>10 DEF UpdateKeeps, Outcome
<1>13. UpdateKeeps(Outcome(FALSE, v, x))
  BY <1>4, <1>6, <1>7, <1>8, <1>11 DEF UpdateKeeps, Outcome
<1> QED BY <1>2, <1>12, <1>13

\* Keeper.UpdateIndex, whatever it is given.
LEMMA UpdateIndexKeeps ==
  ASSUME DollarInv, NEW index \in Int, NEW down,
         index > ledger.index => SupplyShortfall(ledger, index) >= 0
  PROVE  UpdateKeeps(UpdateIndexStores(index, down))
<1>1. ledger.index \in Int
  BY OneLedger, SoundNumbers
<1>2. CASE index <= ledger.index
  BY <1>2, RefusedKeeps DEF UpdateIndexStores
<1>3. CASE ~(index <= ledger.index)
  <2>1. index > ledger.index
    BY <1>1, <1>3
  <2>2. UpdateKeeps(Updated(index, down))
    BY <2>1, UpdatedKeeps
  <2> QED BY <1>3, <2>2 DEF UpdateIndexStores
<1> QED BY <1>2, <1>3

\* An update is written with its ledger, or with one that more coins were issued
\* on.
LEMMA CommitKeeps ==
  ASSUME DollarInv, NEW u, UpdateKeeps(u), NEW l, Sound(l),
         l.index >= u.external.ledger.index,
         \A a \in Account : l.balance[a] >= u.external.ledger.balance[a],
         CommitUpdate(u, l),
         UNCHANGED <<paused, burns, donated, vaultsPaused, ended, now, yieldRecipients,
                     vouchers, routers>>
  PROVE  /\ VaultsInv' /\ ExternalInv' /\ ledger' = l
         /\ Bounded /\ RewardsSafe(VaultsStore) => RewardsSafe(VaultsStore')
<1> DEFINE s == VaultsStore
           v == u.vaults
           x == u.external
           t == [v EXCEPT !.ledger = l]
           y == [x EXCEPT !.ledger = l]
           open == ~ended
<1>1. /\ VaultsInv /\ ExternalInv /\ GoodStore(s) /\ Safe(s, open) /\ open \in BOOLEAN
      /\ vouchers \in [Channel -> Nat]
  BY OneLedger DEF DollarInv
<1>2. /\ Grown(v, s) /\ Kept(x, vouchers, 0) /\ Spares(x.ledger, v.ledger, Account)
      /\ CommitVaults(t) /\ CommitExternal(y)
  BY DEF UpdateKeeps, CommitUpdate
<1> HIDE DEF s, v, x, open
<1>3. Sound(x.ledger) /\ Sound(v.ledger)
  BY <1>2 DEF Spares, Grown, GoodStore
<1>4. /\ l.index >= v.ledger.index
      /\ \A a \in Account : l.balance[a] >= v.ledger.balance[a]
  <2>1. /\ l.index >= x.ledger.index /\ x.ledger.index >= v.ledger.index
        /\ \A a \in Account : /\ l.balance[a] >= x.ledger.balance[a]
                              /\ x.ledger.balance[a] >= v.ledger.balance[a]
    BY <1>2 DEF Spares, x
  <2>2. /\ l.index \in Int /\ x.ledger.index \in Int /\ v.ledger.index \in Int
        /\ \A a \in Account : /\ l.balance[a] \in Int /\ x.ledger.balance[a] \in Int
                              /\ v.ledger.balance[a] \in Int
    BY <1>3, SoundNumbers
  <2> QED BY <2>1, <2>2
<1>5. Grown(t, s) /\ t.ledger = l /\ t.rewards = v.rewards /\ t.totalFlexible = v.totalFlexible
  BY <1>1, <1>2, <1>4, LedgerGrows
<1>6. Kept(y, vouchers, 0)
  <2>1. x.ledger.balance[Warp] \in Nat
    BY <1>2, StoreSums DEF Kept
  <2>2. /\ \A c \in Channel : l.balance[Escrow[c]] >= x.ledger.balance[Escrow[c]]
        /\ l.balance[Warp] >= x.ledger.balance[Warp] + 0
        /\ 0 \in Int
    BY <2>1, HoldingAccounts DEF x
  <2>3. Kept(y, vouchers, 0 + 0)
    BY <1>1, <1>2, <2>2, LedgerStep
  <2> QED BY <2>3
<1> HIDE DEF t, y
<1>7. Safe(t, open) /\ NoLoss(t, s)
  BY <1>1, <1>5, GrownSafe
<1>8. Bounded /\ RewardsSafe(s) => RewardsSafe(t)
  <2> SUFFICES ASSUME Bounded, RewardsSafe(s) PROVE RewardsSafe(t)
    OBVIOUS
  <2>1. s.totalFlexible < 2 * Precision
    BY StoreViews DEF Bounded, s
  <2> QED BY <1>1, <1>5, <2>1, GrownRewards
<1>9. Stepped
  <2>1. /\ Safe(t, ~ended) /\ NoLoss(t, VaultsStore)
        /\ Bounded /\ RewardsSafe(VaultsStore) => RewardsSafe(t)
    BY <1>7, <1>8 DEF s, open
  <2> QED BY <1>1, <1>2, <2>1, HandlerStep
<1>10. ExternalInv'
  <2>1. y \in ExternalStoreType
    BY <1>6 DEF Kept, GoodExternal
  <2>2. ExternalStore' = y
    BY <1>2, <2>1, ExternalCommitted
  <2>3. Kept(ExternalStore', vouchers, 0)
    BY <1>6, <2>2
  <2> QED BY <1>1, <2>3 DEF ExternalInv
<1>11. ledger' = l
  BY <1>2, <1>5 DEF CommitVaults
<1> QED BY <1>9, <1>10, <1>11 DEF Stepped

-----------------------------------------------------------------------------
(* Messages from other chains. *)

\* Issuing coins takes none from any account.
LEMMA IssueSpares ==
  ASSUME NEW l, Sound(l), NEW r \in Account \cup {Yield}, NEW n \in Nat, n > 0
  PROVE  LET m == MintTo(l, r, n)
         IN  /\ Sound(m) /\ m.index = l.index
             /\ m.supply = l.supply + n /\ m.totalYieldAccrued = l.totalYieldAccrued
             /\ \A a \in Account :
                    /\ m.balance[a] >= l.balance[a]
                    /\ m.balance[a] = l.balance[a] => m.principal[a] = l.principal[a]
<1> DEFINE m == MintTo(l, r, n)
<1>1. CASE r \in Account
  <2> DEFINE up   == GetPrincipalAmountRoundedUp(n, l.index)
             down == GetPrincipalAmountRoundedDown(n, l.index)
  <2>1. /\ Sound(m)
        /\ SameExcept(m, l, {"balance", "principal", "supply",
                             "totalPrincipal", "totalHolders"})
        /\ m.supply = l.supply + n
        /\ m.totalPrincipal = l.totalPrincipal + up
        /\ m.balance = [l.balance EXCEPT ![r] = @ + n]
        /\ m.principal = [l.principal EXCEPT ![r] = @ + down]
    BY <1>1, IssueToAccount
  <2> HIDE DEF m, up, down
  <2>2. m.index = l.index /\ m.totalYieldAccrued = l.totalYieldAccrued
    BY <2>1 DEF SameExcept
  <2>3. \A a \in Account : /\ m.balance[a] >= l.balance[a]
                           /\ m.balance[a] = l.balance[a] => m.principal[a] = l.principal[a]
    BY <1>1, <2>1, SoundNumbers
  <2> QED BY <2>1, <2>2, <2>3 DEF m
<1>2. CASE r = Yield
  <2>1. /\ Sound(m)
        /\ SameExcept(m, l, {"balance", "supply"})
        /\ m.supply = l.supply + n
        /\ m.balance = [l.balance EXCEPT ![Yield] = @ + n]
    BY <1>2, IssueToYield
  <2> HIDE DEF m
  <2>2. /\ m.index = l.index /\ m.totalYieldAccrued = l.totalYieldAccrued
        /\ m.principal = l.principal
    BY <2>1 DEF SameExcept
  <2>3. \A a \in Account : m.balance[a] >= l.balance[a]
    BY <2>1, SoundNumbers, AccountAssumption
  <2> QED BY <2>1, <2>2, <2>3 DEF m
<1> QED BY <1>1, <1>2

\* A message that brings n coins besides the yield that accrues is accounted for
\* when it is recorded.
LEMMA DeliveredAccounted ==
  ASSUME DollarInv, NEW vaa \in Vaa, ParseAndVerifyVAA(vaa), Sound(ledger'),
         ledger'.supply - ledger.supply
             = ledger'.totalYieldAccrued - ledger.totalYieldAccrued + Issued(vaa),
         UNCHANGED posted
  PROVE  DollarSupplyAccounted'
<1>1. Sound(ledger)
  BY OneLedger
<1>2. /\ ledger.supply \in Nat /\ ledger'.supply \in Nat
      /\ ledger.totalYieldAccrued \in Nat /\ ledger'.totalYieldAccrued \in Nat
  BY <1>1, SoundNumbers
<1>3. Sent(posted) \in Int /\ Sent(posted') = Sent(posted)
  BY SentType DEF DollarInv, LogsTyped
<1>4. archive \in SUBSET Vaa /\ vaa \notin archive /\ archive' = archive \cup {vaa}
  BY DEF DollarInv, LogsTyped, ParseAndVerifyVAA
<1>5. Received(archive) \in Int /\ Received(archive \cup {vaa}) = Received(archive) + Issued(vaa)
  BY <1>4, ReceivedAccept
<1>6. Received(archive') = Received(archive \cup {vaa})
  BY <1>4
<1>7. ledger.supply + Sent(posted)
          = SumFunction(Endowment) + ledger.totalYieldAccrued + Received(archive)
  BY DEF DollarInv, DollarSupplyAccounted, Sent, Received
<1>8. SumFunction(Endowment) \in Int /\ Issued(vaa) \in Int
  BY EndowmentWhole, IssuedType
<1>9. ledger'.supply + Sent(posted')
          = SumFunction(Endowment) + ledger'.totalYieldAccrued + Received(archive')
  BY <1>2, <1>3, <1>5, <1>6, <1>7, <1>8
<1> QED BY <1>9 DEF DollarSupplyAccounted, Sent, Received

\* The yield of users survives an update and what is issued after it.
LEMMA UpdateYieldKept ==
  ASSUME DollarInv, NEW e, Spares(e, ledger, Account \ {StakedVault}), Sound(ledger'),
         ledger'.index >= e.index,
         \A a \in Account : /\ ledger'.balance[a] >= e.balance[a]
                            /\ ledger'.balance[a] = e.balance[a]
                                   => ledger'.principal[a] >= e.principal[a]
  PROVE  YieldKept
<1> SUFFICES ASSUME NEW a \in User, ledger'.balance[a] = ledger.balance[a]
             PROVE  GetYield(ledger', a) >= GetYield(ledger, a)
  BY DEF YieldKept
<1>1. a \in Account /\ a \in Account \ {StakedVault}
  BY UsersAreNotCustody, NobodyTwice
<1>2. Sound(ledger) /\ Sound(e)
  BY OneLedger DEF Spares
<1> DEFINE m == ledger'
<1>3. /\ e.index >= ledger.index /\ e.balance[a] >= ledger.balance[a]
      /\ e.balance[a] = ledger.balance[a] => e.principal[a] >= ledger.principal[a]
  BY <1>1 DEF Spares
<1>4. /\ m.index >= e.index /\ m.balance[a] >= e.balance[a] /\ m.balance[a] = ledger.balance[a]
      /\ m.balance[a] = e.balance[a] => m.principal[a] >= e.principal[a]
  BY <1>1
<1>5. Sound(m)
  OBVIOUS
<1> HIDE DEF m
<1>6. \A x \in {ledger, e, m} : /\ x.index \in Int /\ x.balance[a] \in Int
                                /\ x.principal[a] \in Int
  BY <1>1, <1>2, <1>5, SoundNumbers
<1>7. m.index >= ledger.index /\ m.principal[a] >= ledger.principal[a]
  BY <1>3, <1>4, <1>6
<1>8. GetYield(m, a) >= GetYield(ledger, a)
  BY <1>1, <1>2, <1>4, <1>5, <1>7, StandingYield
<1> QED BY <1>8 DEF m

\* What a delivery does besides handling the payload.
LEMMA DeliverFrame ==
  ASSUME DollarInv, NEW vaa \in Vaa, NEW down, DollarDeliver(vaa, down)
  PROVE  /\ ParseAndVerifyVAA(vaa) /\ LogsTyped'
         /\ UNCHANGED <<paused, burns, donated, vaultsPaused, ended, now, yieldRecipients,
                        vouchers, routers>>
         /\ UNCHANGED posted
         /\ paused' \in BOOLEAN /\ burns' \in Nat /\ donated' \in Nat
<1>1. /\ ParseAndVerifyVAA(vaa)
      /\ UNCHANGED <<paused, burns, donated, config, portalNonce, posted, vaultsPaused,
                     ended, now, yieldRecipients, vouchers, routers>>
  BY DEF DollarDeliver
<1>2. archive' = archive \cup {vaa}
  BY <1>1 DEF ParseAndVerifyVAA
<1>3. portalPeers' = portalPeers /\ portalNonce' = portalNonce /\ posted' = posted
  BY <1>1 DEF config
<1>4. LogsTyped'
  BY <1>2, <1>3 DEF DollarInv, LogsTyped
<1> QED BY <1>1, <1>4 DEF DollarInv, VaultsInv

\* A payload of another type is recorded and changes nothing.
LEMMA UnknownStep ==
  ASSUME DollarInv, NEW vaa \in Vaa, NEW down, DollarDeliver(vaa, down),
         vaa.payload.type = "unknown",
         UNCHANGED <<ledger, vaultsBooks, externalBooks>>
  PROVE  DollarStepped
<1>1. /\ ParseAndVerifyVAA(vaa) /\ LogsTyped'
      /\ UNCHANGED <<paused, burns, donated, vaultsPaused, ended, now, yieldRecipients,
                     vouchers, routers>>
      /\ UNCHANGED posted
      /\ paused' \in BOOLEAN /\ burns' \in Nat /\ donated' \in Nat
  BY DeliverFrame
<1>2. Sound(ledger) /\ ledger' = ledger /\ VaultsInv /\ ExternalInv
  BY OneLedger DEF DollarInv
<1>3. UNCHANGED vaultsOnly /\ UNCHANGED <<externalBooks, yieldRecipients, vouchers, routers>>
  BY <1>1 DEF vaultsOnly
<1>4. /\ \A a \in Account : ledger'.balance[a] >= ledger.balance[a]
      /\ ledger'.index >= ledger.index /\ Sound(ledger')
  BY <1>2, SoundNumbers
<1>5. VaultsInv' /\ (RewardsSafe(VaultsStore) => RewardsSafe(VaultsStore'))
  BY <1>1, <1>2, <1>3, <1>4, VaultsSpared
<1>6. ExternalInv'
  BY <1>1, <1>2, <1>3, <1>4, UsersHoldNothing, ExternalSpared
<1>7. Issued(vaa) = 0
  BY DEF Issued
<1>8. ledger'.supply - ledger.supply
          = ledger'.totalYieldAccrued - ledger.totalYieldAccrued + Issued(vaa)
  BY <1>2, <1>7, SoundNumbers
<1>9. DollarSupplyAccounted'
  BY <1>1, <1>4, <1>8, DeliveredAccounted
<1>10. YieldKept
  <2>1. Spares(ledger, ledger, Account \ {StakedVault})
    BY <1>2, SparesReflexive
  <2>2. \A a \in Account : ledger'.principal[a] >= ledger.principal[a]
    BY <1>2, SoundNumbers
  <2> QED BY <1>4, <2>1, <2>2, UpdateYieldKept
<1> QED BY <1>1, <1>4, <1>5, <1>6, <1>9, <1>10 DEF DollarStepped, DollarInv

\* An index payload writes a complete update.
LEMMA IndexStep ==
  ASSUME DollarInv, NEW vaa \in Vaa, NEW down, DollarDeliver(vaa, down),
         vaa.payload.type = "index", NEW u, UpdateKeeps(u),
         CommitUpdate(u, u.external.ledger)
  PROVE  DollarStepped
<1> DEFINE e == u.external.ledger
<1>1. /\ ParseAndVerifyVAA(vaa) /\ LogsTyped'
      /\ UNCHANGED <<paused, burns, donated, vaultsPaused, ended, now, yieldRecipients,
                     vouchers, routers>>
      /\ UNCHANGED posted
      /\ paused' \in BOOLEAN /\ burns' \in Nat /\ donated' \in Nat
  BY DeliverFrame
<1>2. Spares(e, ledger, Account \ {StakedVault}) /\ Sound(e)
  BY DEF UpdateKeeps, Spares
<1>3. /\ e.index >= u.external.ledger.index
      /\ \A a \in Account : e.balance[a] >= u.external.ledger.balance[a]
      /\ \A a \in Account : e.principal[a] >= e.principal[a]
  BY <1>2, SoundNumbers
<1> HIDE DEF e
<1>4. /\ VaultsInv' /\ ExternalInv' /\ ledger' = e
      /\ Bounded /\ RewardsSafe(VaultsStore) => RewardsSafe(VaultsStore')
  <2>1. CommitUpdate(u, e)
    BY DEF e
  <2> QED BY <1>1, <1>2, <1>3, <2>1, CommitKeeps
<1>5. Issued(vaa) = 0
  BY DEF Issued
<1>6. ledger'.supply - ledger.supply
          = ledger'.totalYieldAccrued - ledger.totalYieldAccrued + Issued(vaa)
  <2>1. e.supply - ledger.supply = e.totalYieldAccrued - ledger.totalYieldAccrued
    BY <1>2 DEF Spares
  <2>2. e.totalYieldAccrued \in Int /\ ledger.totalYieldAccrued \in Int
    BY <1>2, OneLedger, SoundNumbers
  <2> QED BY <1>4, <1>5, <2>1, <2>2
<1>7. DollarSupplyAccounted'
  BY <1>1, <1>2, <1>4, <1>6, DeliveredAccounted
<1>8. YieldKept
  BY <1>2, <1>3, <1>4, UpdateYieldKept DEF e
<1>9. ledger'.index >= ledger.index
  BY <1>2, <1>4 DEF Spares
<1> QED BY <1>1, <1>4, <1>7, <1>8, <1>9 DEF DollarStepped, DollarInv

\* A token payload writes an update, complete or not, and issues its coins.
LEMMA TokenPayloadStep ==
  ASSUME DollarInv, NEW vaa \in Vaa, NEW down, DollarDeliver(vaa, down),
         vaa.payload.type = "token", NEW u, UpdateKeeps(u),
         CommitUpdate(u, MintTo(u.external.ledger, vaa.payload.recipient, vaa.payload.amount))
  PROVE  DollarStepped
<1> DEFINE e == u.external.ledger
           r == vaa.payload.recipient
           n == vaa.payload.amount
           m == MintTo(e, r, n)
<1>1. /\ ParseAndVerifyVAA(vaa) /\ LogsTyped'
      /\ UNCHANGED <<paused, burns, donated, vaultsPaused, ended, now, yieldRecipients,
                     vouchers, routers>>
      /\ UNCHANGED posted
      /\ paused' \in BOOLEAN /\ burns' \in Nat /\ donated' \in Nat
  BY DeliverFrame
<1>2. Spares(e, ledger, Account \ {StakedVault}) /\ Sound(e)
  BY DEF UpdateKeeps, Spares
<1>3. r \in Account \cup {Yield} /\ n \in Nat /\ n > 0
  <2>1. r \in Account \cup {Yield} /\ n \in Amounts
    BY VaaTyped
  <2> HIDE DEF r, n
  <2> QED BY <2>1, TokenAssumption
<1>4. Issued(vaa) = n
  BY DEF Issued
<1>5. CommitUpdate(u, m)
  OBVIOUS
<1> HIDE DEF r, n
<1>6. /\ Sound(m) /\ m.index = e.index
      /\ m.supply = e.supply + n /\ m.totalYieldAccrued = e.totalYieldAccrued
      /\ \A a \in Account :
             /\ m.balance[a] >= e.balance[a]
             /\ m.balance[a] = e.balance[a] => m.principal[a] = e.principal[a]
  BY <1>2, <1>3, IssueSpares
<1> HIDE DEF m
<1>7. /\ m.index >= u.external.ledger.index
      /\ \A a \in Account : m.balance[a] >= u.external.ledger.balance[a]
  BY <1>2, <1>6, SoundNumbers
<1> HIDE DEF e
<1>8. /\ VaultsInv' /\ ExternalInv' /\ ledger' = m
      /\ Bounded /\ RewardsSafe(VaultsStore) => RewardsSafe(VaultsStore')
  BY <1>1, <1>5, <1>6, <1>7, CommitKeeps
<1>9. ledger'.supply - ledger.supply
          = ledger'.totalYieldAccrued - ledger.totalYieldAccrued + Issued(vaa)
  <2>1. e.supply - ledger.supply = e.totalYieldAccrued - ledger.totalYieldAccrued
    BY <1>2 DEF Spares
  <2>2. /\ e.totalYieldAccrued \in Int /\ ledger.totalYieldAccrued \in Int
        /\ e.supply \in Int /\ ledger.supply \in Int
    BY <1>2, OneLedger, SoundNumbers
  <2> QED BY <1>3, <1>4, <1>6, <1>8, <2>1, <2>2
<1>10. DollarSupplyAccounted'
  BY <1>1, <1>6, <1>8, <1>9, DeliveredAccounted
<1>11. YieldKept
  <2>1. /\ m.index >= e.index
        /\ \A a \in Account : m.principal[a] >= m.principal[a]
    BY <1>2, <1>6, SoundNumbers
  <2>2. \A a \in Account : /\ m.balance[a] >= e.balance[a]
                           /\ m.balance[a] = e.balance[a] => m.principal[a] >= e.principal[a]
    BY <1>6, <2>1
  <2> QED BY <1>2, <1>6, <1>8, <2>1, <2>2, UpdateYieldKept
<1>12. ledger'.index >= ledger.index
  BY <1>2, <1>6, <1>8 DEF Spares
<1> QED BY <1>1, <1>8, <1>10, <1>11, <1>12 DEF DollarStepped, DollarInv

\* The delivery of a VAA.
LEMMA DeliverStep ==
  ASSUME DollarInv, NEW vaa \in Vaa, NEW down, DollarDeliver(vaa, down)
  PROVE  DollarStepped
<1> DEFINE payload == vaa.payload
           u == UpdateIndexStores(payload.index, down)
<1>1. DollarHandlePayload(payload, down)
  BY DEF DollarDeliver
<1>2. CASE payload.type = "unknown" /\ UNCHANGED <<ledger, vaultsBooks, externalBooks>>
  BY <1>2, UnknownStep
<1>3. ASSUME payload.type # "unknown",
             payload.index > ledger.index \/ payload.type = "index"
                 => SupplyShortfall(ledger, payload.index) >= 0
      PROVE  UpdateKeeps(u)
  <2>1. payload.index \in Int
    BY <1>3, VaaTyped, TokenAssumption
  <2> QED BY <1>3, <2>1, UpdateIndexKeeps
<1>4. CASE /\ payload.type = "token" /\ UpdateKeeps(u)
           /\ CommitUpdate(u, MintTo(u.external.ledger, payload.recipient, payload.amount))
  <2> HIDE DEF u
  <2> QED BY <1>4, TokenPayloadStep
<1>5. CASE payload.type = "index" /\ UpdateKeeps(u) /\ CommitUpdate(u, u.external.ledger)
  <2> HIDE DEF u
  <2> QED BY <1>5, IndexStep
<1> HIDE DEF payload
<1>6. \/ payload.type = "unknown" /\ UNCHANGED <<ledger, vaultsBooks, externalBooks>>
      \/ /\ payload.type # "unknown"
         /\ payload.index > ledger.index \/ payload.type = "index"
                => SupplyShortfall(ledger, payload.index) >= 0
         /\ \/ /\ payload.type = "token"
               /\ CommitUpdate(u, MintTo(u.external.ledger, payload.recipient, payload.amount))
            \/ payload.type = "index" /\ CommitUpdate(u, u.external.ledger)
  BY <1>1 DEF DollarHandlePayload
<1> HIDE DEF u
<1> QED BY <1>2, <1>3, <1>4, <1>5, <1>6

-----------------------------------------------------------------------------
(* Steps of one component, as steps of the whole. *)

\* A step that leaves the ledger and the books alone.
LEMMA StandStill ==
  ASSUME DollarInv, ledger' = ledger, UNCHANGED vaultsOnly,
         UNCHANGED <<externalBooks, yieldRecipients, vouchers, routers>>,
         paused' \in BOOLEAN /\ burns' \in Nat /\ donated' \in Nat, LogsTyped',
         UNCHANGED <<posted, archive>>
  PROVE  DollarStepped
<1>1. Sound(ledger) /\ VaultsInv /\ ExternalInv
  BY OneLedger DEF DollarInv
<1>2. /\ \A a \in Account : ledger'.balance[a] >= ledger.balance[a]
      /\ ledger'.index >= ledger.index /\ Sound(ledger')
  BY <1>1, SoundNumbers
<1>3. VaultsInv' /\ (RewardsSafe(VaultsStore) => RewardsSafe(VaultsStore'))
  BY <1>1, <1>2, VaultsSpared
<1>4. ExternalInv'
  BY <1>1, <1>2, UsersHoldNothing, ExternalSpared
<1>5. DollarSupplyAccounted'
  <2>1. ledger'.supply - ledger.supply
            = ledger'.totalYieldAccrued - ledger.totalYieldAccrued
    BY <1>1, SoundNumbers
  <2> QED BY <1>2, <2>1, AccruedAccounted
<1>6. YieldKept
  <2>1. Spares(ledger, ledger, Account \ {StakedVault})
    BY <1>1, SparesReflexive
  <2>2. \A a \in Account : ledger'.principal[a] >= ledger.principal[a]
    BY <1>1, SoundNumbers
  <2> QED BY <1>2, <2>1, <2>2, UpdateYieldKept
<1> QED BY <1>2, <1>3, <1>4, <1>5, <1>6 DEF DollarStepped, DollarInv

\* A step that takes coins only from users and from the accounts H.
LEMMA MovesKeep ==
  ASSUME DollarInv, NEW H, Moves(ledger', ledger, User, H), UNCHANGED <<posted, archive>>
  PROVE  /\ Sound(ledger') /\ ledger'.index >= ledger.index
         /\ \A a \in Account \ (User \cup H) : ledger'.balance[a] >= ledger.balance[a]
         /\ DollarSupplyAccounted' /\ YieldKept
<1>1. Sound(ledger)
  BY OneLedger
<1>2. /\ Sound(ledger') /\ ledger'.index >= ledger.index
      /\ ledger'.supply - ledger.supply
             = ledger'.totalYieldAccrued - ledger.totalYieldAccrued
      /\ \A a \in Account \ (User \cup H) : ledger'.balance[a] >= ledger.balance[a]
  BY DEF Moves, Spares
<1>3. DollarSupplyAccounted'
  BY <1>2, AccruedAccounted
<1>4. YieldKept
  <2> SUFFICES ASSUME NEW u \in User, ledger'.balance[u] = ledger.balance[u]
               PROVE  GetYield(ledger', u) >= GetYield(ledger, u)
    BY DEF YieldKept
  <2> DEFINE m == ledger'
  <2>1. u \in Account /\ ledger.balance[u] \in Nat
    BY <1>1, UsersAreNotCustody, SoundNumbers
  <2>2. m.balance[u] < ledger.balance[u] \/ Spares(m, ledger, {u})
    BY DEF Moves
  <2>3. m.balance[u] = ledger.balance[u]
    OBVIOUS
  <2> HIDE DEF m
  <2>4. Spares(m, ledger, {u})
    BY <2>1, <2>2, <2>3
  <2>5. GetYield(m, u) >= GetYield(ledger, u)
    BY <1>1, <2>1, <2>3, <2>4, SparesYield
  <2> QED BY <2>5 DEF m
<1> QED BY <1>2, <1>3, <1>4

\* A transfer over the portal.
LEMMA PortalTransferStep ==
  ASSUME DollarInv, NEW sender \in User, NEW amount \in Amounts, NEW chain \in ChainId,
         NEW token \in RemoteToken, PortalTransfer(sender, amount, chain, token),
         UNCHANGED <<vaultsOnly, externalOnly>>
  PROVE  DollarStepped
<1> DEFINE x == [ nonce   |-> portalNonce,
                  index   |-> ledger.index,
                  amount  |-> amount,
                  chain   |-> chain,
                  token   |-> token,
                  manager |-> portalPeers[chain].manager ]
           up == GetPrincipalAmountRoundedUp(amount, ledger.index)
           m  == ledger'
<1>1. /\ chain \in DOMAIN portalPeers
      /\ portalNonce' = (portalNonce + 1) % NonceModulus
      /\ Burn(sender, amount)
      /\ posted' = Append(posted, x)
      /\ UNCHANGED <<portalPeers, archive>>
  BY DEF PortalTransfer, IncrementPortalNonce, config
<1>2. /\ Sound(ledger) /\ VaultsInv /\ ExternalInv /\ LogsTyped /\ DollarSupplyAccounted
      /\ paused \in BOOLEAN /\ burns \in Nat /\ donated \in Nat
  BY OneLedger DEF DollarInv, VaultsInv
<1>3. /\ m = BurnFrom(ledger, sender, amount) /\ ledger.balance[sender] >= amount
      /\ paused' = paused /\ burns' = burns + 1 /\ donated' = donated
  BY <1>1 DEF Burn, CanSend
<1>4. sender \in Account /\ amount \in Nat /\ amount > 0
  BY UsersAreNotCustody, TokenAssumption
<1>5. /\ ledger.index \in Nat /\ ledger.supply \in Nat /\ ledger.totalYieldAccrued \in Nat
      /\ ledger.balance \in [Address -> Nat] /\ Account \in SUBSET Address
  BY <1>2, SoundNumbers DEF Address
<1>6. x \in Message /\ x.amount = amount
  <2>1. portalNonce \in Nat /\ portalPeers[chain].manager \in Contract
    BY <1>1, <1>2 DEF LogsTyped, Peer
  <2> QED BY <1>5, <2>1 DEF Message
<1> HIDE DEF x, m
<1>7. LogsTyped'
  <2>1. portalNonce' \in Nat
    <3>1. portalNonce + 1 \in Nat /\ NonceModulus \in Nat \ {0}
      BY <1>2, PortalAssumption DEF LogsTyped
    <3>2. (portalNonce + 1) % NonceModulus \in 0 .. NonceModulus - 1
      BY <3>1, ModRange
    <3>3. \A i \in 0 .. NonceModulus - 1 : i \in Nat
      BY <3>1
    <3> QED BY <1>1, <3>2, <3>3
  <2>2. posted' \in Seq(Message)
    BY <1>1, <1>2, <1>6 DEF LogsTyped
  <2> QED BY <1>1, <1>2, <2>1, <2>2 DEF LogsTyped
<1>8. /\ Sound(m)
      /\ SameExcept(m, ledger, {"balance", "principal", "supply",
                                "totalPrincipal", "totalHolders"})
      /\ m.supply = ledger.supply - amount
      /\ m.totalPrincipal = ledger.totalPrincipal - up
      /\ m.balance = [ledger.balance EXCEPT ![sender] = @ - amount]
      /\ m.principal = [ledger.principal EXCEPT ![sender] = @ - up]
  BY <1>2, <1>3, <1>4, RedeemFromAccount
<1>9. m.index = ledger.index /\ m.totalYieldAccrued = ledger.totalYieldAccrued
  BY <1>8 DEF SameExcept
<1>10. /\ m.balance[sender] < ledger.balance[sender]
       /\ \A a \in Account \ {sender} : /\ m.balance[a] = ledger.balance[a]
                                        /\ m.principal[a] = ledger.principal[a]
  BY <1>2, <1>4, <1>5, <1>8, SoundNumbers
<1>11. \A a \in (Account \cap Custody) \cup Holding : m.balance[a] >= ledger.balance[a]
  <2>1. \A a \in (Account \cap Custody) \cup Holding : a \in Account \ {sender}
    BY UsersHoldNothing, UsersAreNotCustody
  <2> QED BY <1>2, <1>10, <2>1, SoundNumbers
<1>12. m.index >= ledger.index
  BY <1>5, <1>9
<1>13. VaultsInv' /\ (RewardsSafe(VaultsStore) => RewardsSafe(VaultsStore'))
  BY <1>2, <1>3, <1>8, <1>11, <1>12, VaultsSpared DEF m
<1>14. ExternalInv'
  BY <1>2, <1>3, <1>8, <1>11, ExternalSpared DEF m, externalOnly
<1>15. DollarSupplyAccounted'
  <2>1. Sent(posted) \in Int /\ Sent(posted') = Sent(posted) + amount
    BY <1>1, <1>2, <1>6, SentAppend DEF LogsTyped
  <2>2. Received(archive) \in Int /\ Received(archive') = Received(archive)
    BY <1>1, <1>2, ReceivedType DEF LogsTyped
  <2>3. ledger.supply + Sent(posted)
            = SumFunction(Endowment) + ledger.totalYieldAccrued + Received(archive)
    BY <1>2 DEF DollarSupplyAccounted, Sent, Received
  <2>4. SumFunction(Endowment) \in Int
    BY EndowmentWhole
  <2>5. m.supply + Sent(posted')
            = SumFunction(Endowment) + m.totalYieldAccrued + Received(archive')
    BY <1>4, <1>5, <1>8, <1>9, <2>1, <2>2, <2>3, <2>4
  <2> QED BY <2>5 DEF DollarSupplyAccounted, Sent, Received, m
<1>16. YieldKept
  <2> SUFFICES ASSUME NEW u \in User, m.balance[u] = ledger.balance[u]
               PROVE  GetYield(m, u) >= GetYield(ledger, u)
    BY DEF YieldKept, m
  <2>1. u \in Account /\ ledger.balance[u] \in Nat /\ ledger.principal[u] \in Int
    BY <1>2, UsersAreNotCustody, SoundNumbers
  <2>2. u # sender
    BY <1>10, <2>1
  <2>3. m.principal[u] >= ledger.principal[u]
    BY <1>10, <2>1, <2>2
  <2> QED BY <1>2, <1>8, <1>12, <2>1, <2>3, StandingYield
<1> QED BY <1>7, <1>12, <1>13, <1>14, <1>15, <1>16 DEF DollarStepped, DollarInv, m

\* The owner's handlers of the portal.
LEMMA AdministrationStep ==
  ASSUME DollarInv, Administration, UNCHANGED <<vaultsOnly, externalOnly>>
  PROVE  DollarStepped
<1>1. UNCHANGED <<vars, portalNonce, archive, posted>>
  BY DEF Administration, PortalSetPausedState, SetPeer, SetBridgingPath,
         TransferOwnership
<1>2. LogsTyped
  BY DEF DollarInv
<1> DEFINE PeersTyped == \A c \in DOMAIN portalPeers : portalPeers[c] \in Peer
<1>3. ASSUME NEW signer \in Signer, NEW chain \in ChainId,
             NEW transceiver \in Contract \cup {NoContract},
             NEW manager \in Contract \cup {NoContract},
             SetPeer(signer, chain, transceiver, manager)
      PROVE  PeersTyped'
  <2> DEFINE peer == [transceiver |-> transceiver, manager |-> manager]
  <2>1. /\ peer \in Peer
        /\ portalPeers' = [c \in DOMAIN portalPeers \cup {chain} |->
                              IF c = chain THEN peer ELSE portalPeers[c]]
    BY <1>3 DEF SetPeer, Peer
  <2>2. \A c \in DOMAIN portalPeers : portalPeers[c] \in Peer
    BY <1>2 DEF LogsTyped
  <2> HIDE DEF peer
  <2> QED BY <2>1, <2>2
<1>4. ASSUME portalPeers' = portalPeers PROVE PeersTyped'
  BY <1>2, <1>4 DEF LogsTyped
<1>5. PeersTyped'
  <2> HIDE DEF PeersTyped
  <2> QED BY <1>3, <1>4 DEF Administration, PortalSetPausedState, SetBridgingPath,
                            TransferOwnership
<1>6. LogsTyped'
  BY <1>1, <1>2, <1>5 DEF LogsTyped
<1> QED BY <1>1, <1>6, StandStill DEF vars, externalOnly, DollarInv, VaultsInv

\* The other messages of the token core.
LEMMA TokenPartStep == DollarInv /\ TokenStep => DollarStepped
<1> SUFFICES ASSUME DollarInv, TokenStep PROVE DollarStepped
  OBVIOUS
<1>1. /\ Sound(ledger) /\ VaultsInv /\ ExternalInv /\ LogsTyped
      /\ paused \in BOOLEAN /\ burns \in Nat /\ donated \in Nat
  BY OneLedger DEF DollarInv, VaultsInv
<1>2. UNCHANGED <<portalVars, vaultsOnly, externalOnly>>
  BY DEF TokenStep
<1>3. LogsTyped' /\ UNCHANGED <<posted, archive>>
  BY <1>1, <1>2 DEF portalVars, config, LogsTyped
<1>4. ASSUME NEW s \in User, NEW r \in User, NEW n \in Amounts, Transfer(s, r, n)
      PROVE  DollarStepped
  <2>1. /\ ledger' = SendCoins(ledger, s, r, n) /\ ledger.balance[s] >= n
        /\ UNCHANGED <<paused, burns, donated>>
    BY <1>4 DEF Transfer, CanSend
  <2>2. n \in Nat /\ n > 0 /\ r \in Account
    BY UsersAreNotCustody, TokenAssumption
  <2>3. Moves(ledger', ledger, User, {})
    BY <1>1, <2>1, <2>2, UsersAreNotCustody, PaymentMoves
  <2>4. /\ Sound(ledger') /\ ledger'.index >= ledger.index
        /\ \A a \in Account \ (User \cup {}) : ledger'.balance[a] >= ledger.balance[a]
        /\ DollarSupplyAccounted' /\ YieldKept
    BY <1>3, <2>3, MovesKeep
  <2>5. \A a \in (Account \cap Custody) \cup Holding : ledger'.balance[a] >= ledger.balance[a]
    BY <2>4, UsersHoldNothing, UsersAreNotCustody
  <2>6. VaultsInv' /\ (RewardsSafe(VaultsStore) => RewardsSafe(VaultsStore'))
    BY <1>1, <1>2, <2>1, <2>4, <2>5, VaultsSpared
  <2>7. ExternalInv'
    BY <1>1, <1>2, <2>1, <2>4, <2>5, ExternalSpared DEF externalOnly
  <2> QED BY <1>3, <2>4, <2>6, <2>7 DEF DollarStepped, DollarInv
<1>5. ASSUME NEW pause \in BOOLEAN, SetPausedState(pause)
      PROVE  DollarStepped
  BY <1>1, <1>2, <1>3, <1>5, StandStill DEF SetPausedState, externalOnly
<1> QED BY <1>4, <1>5 DEF TokenStep

\* The messages of the vaults, and blocks.
LEMMA VaultsPartStep == DollarInv /\ VaultsStep => DollarStepped
<1> SUFFICES ASSUME DollarInv, VaultsStep PROVE DollarStepped
  OBVIOUS
<1>1. VaultsInv /\ ExternalInv /\ LogsTyped
  BY DEF DollarInv
<1>2. VaultsTraffic /\ UNCHANGED <<portalVars, externalOnly>>
  BY DEF VaultsStep
<1>3. LogsTyped' /\ UNCHANGED <<posted, archive>>
  BY <1>1, <1>2 DEF portalVars, config, LogsTyped
<1>4. /\ VaultsInv' /\ (Bounded /\ RewardsSafe(VaultsStore) => RewardsSafe(VaultsStore'))
      /\ Moves(ledger', ledger, User, Custody)
  BY <1>1, <1>2, VaultsTrafficStep DEF Orderly, Stepped
<1>5. /\ Sound(ledger') /\ ledger'.index >= ledger.index
      /\ \A a \in Account \ (User \cup Custody) : ledger'.balance[a] >= ledger.balance[a]
      /\ DollarSupplyAccounted' /\ YieldKept
  BY <1>3, <1>4, MovesKeep
<1>6. \A a \in Holding : ledger'.balance[a] >= ledger.balance[a]
  BY <1>5, NobodyTwice
<1>7. ExternalInv'
  BY <1>1, <1>2, <1>4, <1>5, <1>6, ExternalSpared DEF externalOnly, VaultsInv
<1> QED BY <1>3, <1>4, <1>5, <1>7 DEF DollarStepped, DollarInv

\* What happens on the way to and from other chains, and the governance of external
\* yield.
LEMMA ExternalPartStep == DollarInv /\ ExternalStep => DollarStepped
<1> SUFFICES ASSUME DollarInv, ExternalStep PROVE DollarStepped
  OBVIOUS
<1>1. VaultsInv /\ ExternalInv /\ LogsTyped
  BY DEF DollarInv
<1>2. ExternalTraffic /\ UNCHANGED <<portalVars, vaultsOnly>>
  BY DEF ExternalStep
<1>3. LogsTyped' /\ UNCHANGED <<posted, archive>>
  BY <1>1, <1>2 DEF portalVars, config, LogsTyped
<1>4. ExternalInv' /\ Moves(ledger', ledger, User, Holding)
  BY <1>1, <1>2, TrafficMoves
<1>5. /\ Sound(ledger') /\ ledger'.index >= ledger.index
      /\ \A a \in Account \ (User \cup Holding) : ledger'.balance[a] >= ledger.balance[a]
      /\ DollarSupplyAccounted' /\ YieldKept
  BY <1>3, <1>4, MovesKeep
<1>6. \A a \in Account \cap Custody : ledger'.balance[a] >= ledger.balance[a]
  BY <1>5, NobodyTwice
<1>7. VaultsInv' /\ (RewardsSafe(VaultsStore) => RewardsSafe(VaultsStore'))
  BY <1>1, <1>2, <1>4, <1>5, <1>6, VaultsSpared DEF ExternalInv
<1> QED BY <1>3, <1>4, <1>5, <1>7 DEF DollarStepped, DollarInv

-----------------------------------------------------------------------------
(* Restarts. *)

\* The positions come back as they were: no two of them have the same entry.
LEMMA PositionsRestored ==
  ASSUME Book(positions)
  PROVE  ImportedPositions(GetVaultsPositions) = positions
<1> DEFINE entry(key) == [address |-> key[1], vault |-> key[2], time |-> key[3],
                          position |-> positions[key]]
           E == GetVaultsPositions
           keyOf(e) == <<e.address, e.vault, e.time>>
           D == {keyOf(e) : e \in E}
           found(key) == CHOOSE e \in E : keyOf(e) = key
<1>1. /\ DOMAIN positions \subseteq User \X Vault \X Time
      /\ positions = [key \in DOMAIN positions |-> positions[key]]
  BY DEF Book, Keys
<1>2. E = {entry(key) : key \in DOMAIN positions}
  BY DEF GetVaultsPositions
<1>3. \A key \in DOMAIN positions : keyOf(entry(key)) = key
  BY <1>1
<1>4. \A key \in DOMAIN positions : entry(key).position = positions[key]
  OBVIOUS
<1>5. ImportedPositions(E) = [key \in D |-> found(key).position]
  BY DEF ImportedPositions
<1> HIDE DEF entry, keyOf, E
<1>6. D = DOMAIN positions
  BY <1>2, <1>3
<1>7. ASSUME NEW key \in DOMAIN positions
      PROVE  found(key).position = positions[key]
  <2>1. found(key) \in E /\ keyOf(found(key)) = key
    BY <1>2, <1>3
  <2> HIDE DEF found
  <2>2. PICK k \in DOMAIN positions : found(key) = entry(k)
    BY <1>2, <2>1
  <2>3. k = key
    BY <1>3, <2>1, <2>2
  <2> QED BY <1>4, <2>2, <2>3
<1> HIDE DEF found, D
<1>8. [key \in D |-> found(key).position] = [key \in DOMAIN positions |-> positions[key]]
  BY <1>6, <1>7
<1> QED BY <1>1, <1>5, <1>8 DEF E

\* So do the records of rewards.
LEMMA RewardsRestored ==
  ASSUME rewards = [i \in DOMAIN rewards |-> rewards[i]]
  PROVE  ImportedRewards(GetVaultsRewards) = rewards
<1> DEFINE entry(i) == [index |-> i, record |-> rewards[i]]
           E == GetVaultsRewards
           D == {e.index : e \in E}
           found(i) == CHOOSE e \in E : e.index = i
<1>1. E = {entry(i) : i \in DOMAIN rewards}
  BY DEF GetVaultsRewards
<1>2. \A i \in DOMAIN rewards : entry(i).index = i /\ entry(i).record = rewards[i]
  OBVIOUS
<1>3. ImportedRewards(E) = [i \in D |-> found(i).record]
  BY DEF ImportedRewards
<1> HIDE DEF entry, E
<1>4. D = DOMAIN rewards
  BY <1>1, <1>2
<1>5. ASSUME NEW i \in DOMAIN rewards
      PROVE  found(i).record = rewards[i]
  <2>1. found(i) \in E /\ found(i).index = i
    BY <1>1, <1>2
  <2> HIDE DEF found
  <2>2. PICK j \in DOMAIN rewards : found(i) = entry(j)
    BY <1>1, <2>1
  <2>3. j = i
    BY <1>2, <2>1, <2>2
  <2> QED BY <1>2, <2>2, <2>3
<1> HIDE DEF found, D
<1>6. [i \in D |-> found(i).record] = [i \in DOMAIN rewards |-> rewards[i]]
  BY <1>4, <1>5
<1> QED BY <1>3, <1>6 DEF E

\* An amount that the document leaves out reads as the zero that it was.
LEMMA AmountsRestored ==
  ASSUME NEW amounts \in [Destination -> Nat]
  PROVE  Imported(NonZero(amounts)) = amounts
<1> DEFINE f == NonZero(amounts)
<1>1. /\ DOMAIN f = {d \in Destination : amounts[d] # 0}
      /\ \A d \in DOMAIN f : f[d] = amounts[d]
  BY DEF NonZero
<1> HIDE DEF f
<1>2. \A d \in Destination : (IF d \in DOMAIN f THEN f[d] ELSE 0) = amounts[d]
  BY <1>1
<1>3. Imported(f) = [d \in Destination |-> amounts[d]]
  BY <1>2 DEF Imported
<1> QED BY <1>3 DEF f

\* A restart changes nothing but the set of paths with an entry.
LEMMA RestartEffect ==
  ASSUME DollarInv, Restart
  PROVE  /\ ledger' = ledger /\ UNCHANGED <<paused, burns, donated>>
         /\ UNCHANGED vaultsOnly /\ UNCHANGED externalOnly
         /\ UNCHANGED <<portalOwner, portalPaused, portalPeers, portalNonce, archive, posted>>
         /\ portalBridgingPaths' = [path \in GetPortalBridgingPaths |-> TRUE]
<1>1. /\ GoodStore(VaultsStore) /\ Sound(ledger) /\ ExternalStore \in ExternalStoreType
  BY OneLedger DEF Kept, GoodExternal
<1>2. /\ ledger \in LedgerType /\ Book(positions)
      /\ rewards = [i \in DOMAIN rewards |-> rewards[i]]
      /\ retryAmounts \in [Destination -> Nat] /\ totalExternal \in [Destination -> Nat]
  <2>1. Book(positions) /\ rewards = [i \in DOMAIN rewards |-> rewards[i]]
    BY <1>1 DEF GoodStore, Records, VaultsStore
  <2>2. retryAmounts \in [Destination -> Nat] /\ totalExternal \in [Destination -> Nat]
    BY <1>1 DEF ExternalStore, ExternalStoreType
  <2> QED BY <1>1, <2>1, <2>2 DEF Sound
<1>3. /\ InitGenesis(ExportGenesis)
      /\ UNCHANGED <<burns, donated, archive, posted, now, packets, vouchers, collateral,
                     routers, delivered>>
  BY DEF Restart
<1>4. ledger' = ledger
  <2>1. ledger' = [ index             |-> ledger.index,
                    principal         |-> ledger.principal,
                    balance           |-> ledger.balance,
                    supply            |-> ledger.supply,
                    totalPrincipal    |-> ledger.totalPrincipal,
                    totalHolders      |-> ledger.totalHolders,
                    totalYieldAccrued |-> ledger.totalYieldAccrued ]
    BY <1>3 DEF InitGenesis, ExportGenesis, ImportedLedger
  <2> QED BY <1>2, <2>1 DEF LedgerType
<1>5. /\ paused' = paused /\ yieldRecipients' = yieldRecipients
      /\ totalExternal' = Imported(NonZero(totalExternal))
      /\ retryAmounts' = Imported(NonZero(retryAmounts))
  BY <1>3 DEF InitGenesis, ExportGenesis
<1>6. /\ positions' = ImportedPositions(GetVaultsPositions)
      /\ rewards' = ImportedRewards(GetVaultsRewards)
      /\ UNCHANGED <<vaultsPaused, ended, stats, totalFlexible>>
  BY <1>3 DEF InitGenesis, ExportGenesis, InitVaults
<1>7. /\ UNCHANGED <<portalOwner, portalPaused, portalPeers, portalNonce>>
      /\ portalBridgingPaths' = [path \in GetPortalBridgingPaths |-> TRUE]
  BY <1>3 DEF InitGenesis, ExportGenesis, InitPortal
<1>8. totalExternal' = totalExternal /\ retryAmounts' = retryAmounts
  BY <1>2, <1>5, AmountsRestored
<1>9. positions' = positions /\ rewards' = rewards
  BY <1>2, <1>6, PositionsRestored, RewardsRestored
<1>10. UNCHANGED vaultsOnly
  BY <1>3, <1>6, <1>9 DEF vaultsOnly, vaultsBooks
<1>11. UNCHANGED externalOnly
  BY <1>3, <1>5, <1>8 DEF externalOnly, externalBooks
<1> QED BY <1>3, <1>4, <1>5, <1>7, <1>10, <1>11

\* So it is a step that stands still.
LEMMA RestartStep == DollarInv /\ Restart => DollarStepped
<1> SUFFICES ASSUME DollarInv, Restart PROVE DollarStepped
  OBVIOUS
<1>1. /\ ledger' = ledger /\ UNCHANGED <<paused, burns, donated>>
      /\ UNCHANGED vaultsOnly /\ UNCHANGED externalOnly
      /\ UNCHANGED <<portalPeers, portalNonce, archive, posted>>
  BY RestartEffect
<1>2. LogsTyped'
  BY <1>1 DEF DollarInv, LogsTyped
<1> QED BY <1>1, <1>2, StandStill DEF externalOnly, DollarInv, VaultsInv

-----------------------------------------------------------------------------
(* The invariant. *)

\* Genesis owes nothing to anyone, and all that there is was endowed.
LEMMA DollarInitInv == DollarInit => DollarInv /\ RewardsSafe(VaultsStore)
<1> SUFFICES ASSUME DollarInit PROVE DollarInv /\ RewardsSafe(VaultsStore)
  OBVIOUS
<1>1. /\ ledger = Endowed
      /\ paused = FALSE /\ burns = 0 /\ donated = 0
      /\ PortalGenesis /\ VaultsGenesis /\ ExternalGenesis
  BY DEF DollarInit
<1>2. VaultsInv /\ RewardsSafe(VaultsStore)
  BY <1>1, VaultsInitInv DEF VaultsInit
<1>3. /\ Sound(ledger)
      /\ ledger.supply = SumFunction(Endowment) /\ ledger.totalYieldAccrued = 0
  BY <1>1, EndowedFresh DEF Fresh
<1>4. ExternalInv
  BY <1>1, <1>3, ExternalGenesisInv
<1>5. portalPeers = <<>> /\ portalNonce = 0 /\ archive = {} /\ posted = <<>>
  BY <1>1 DEF PortalGenesis
<1>6. LogsTyped
  BY <1>5 DEF LogsTyped
<1>7. DollarSupplyAccounted
  <2>1. Sent(posted) = 0 /\ Received(archive) = 0
    BY <1>5, NothingSent
  <2>2. SumFunction(Endowment) \in Int
    BY EndowmentWhole
  <2>3. ledger.supply + Sent(posted)
            = SumFunction(Endowment) + ledger.totalYieldAccrued + Received(archive)
    BY <1>3, <2>1, <2>2
  <2> QED BY <2>3 DEF DollarSupplyAccounted, Sent, Received
<1> QED BY <1>2, <1>4, <1>6, <1>7 DEF DollarInv

\* Every step of the module, and every restart, keeps all of it.
LEMMA DollarNextStep == DollarInv /\ [GenesisNext]_dollarVars => DollarStepped
<1> SUFFICES ASSUME DollarInv, [GenesisNext]_dollarVars PROVE DollarStepped
  OBVIOUS
<1>1. ASSUME NEW vaa \in Vaa, NEW down \in SUBSET Destination, DollarDeliver(vaa, down)
      PROVE  DollarStepped
  BY <1>1, DeliverStep
<1>2. CASE PortalStep
  <2>1. UNCHANGED <<vaultsOnly, externalOnly>>
    BY <1>2 DEF PortalStep
  <2>2. CASE Administration
    BY <2>1, <2>2, AdministrationStep
  <2>3. ASSUME NEW sender \in User, NEW amount \in Amounts, NEW chain \in ChainId,
               NEW token \in RemoteToken, PortalTransfer(sender, amount, chain, token)
        PROVE  DollarStepped
    BY <2>1, <2>3, PortalTransferStep
  <2> QED BY <1>2, <2>2, <2>3 DEF PortalStep
<1>3. CASE TokenStep
  BY <1>3, TokenPartStep
<1>4. CASE VaultsStep
  BY <1>4, VaultsPartStep
<1>5. CASE ExternalStep
  BY <1>5, ExternalPartStep
<1>6. CASE Restart
  BY <1>6, RestartStep
<1>7. CASE UNCHANGED dollarVars
  <2>1. UNCHANGED <<allVars, vaultsOnly, externalOnly>>
    BY <1>7 DEF dollarVars
  <2>2. /\ ledger' = ledger /\ UNCHANGED <<paused, burns, donated>>
        /\ UNCHANGED <<portalPeers, portalNonce, archive, posted>>
    BY <2>1 DEF allVars, vars, portalVars, config
  <2>3. LogsTyped'
    BY <2>2 DEF DollarInv, LogsTyped
  <2> QED BY <2>1, <2>2, <2>3, StandStill DEF externalOnly, DollarInv, VaultsInv
<1> QED BY <1>1, <1>2, <1>3, <1>4, <1>5, <1>6, <1>7 DEF GenesisNext, DollarNext

-----------------------------------------------------------------------------
(* Nonces and indices in order. *)

\* What every step does to the two logs.
LEMMA LogsStep ==
  ASSUME DollarInv, WireInv, DollarStepped, [GenesisNext]_dollarVars
  PROVE  WireInv'
<1>1. /\ ledger.index \in Nat /\ ledger'.index \in Nat /\ ledger'.index >= ledger.index
      /\ posted \in Seq(Message)
  <2>1. Sound(ledger)
    BY OneLedger
  <2>2. Sound(ledger')
    BY DEF DollarStepped, DollarInv, VaultsInv, Safe, GoodStore, VaultsStore
  <2> QED BY <2>1, <2>2, SoundNumbers DEF DollarStepped, DollarInv, LogsTyped
<1>2. ASSUME UNCHANGED <<portalPeers, portalNonce, archive, posted>> PROVE WireInv'
  <2>1. OwnChainUnpeered'
    BY <1>2 DEF WireInv, OwnChainUnpeered
  <2> QED BY <1>1, <1>2, <2>1, WireKept
<1>3. ASSUME NEW vaa \in Vaa, NEW down \in SUBSET Destination, DollarDeliver(vaa, down)
      PROVE  WireInv'
  <2>1. /\ archive' = archive \cup {vaa} /\ vaa.emitterChain \in DOMAIN portalPeers
        /\ UNCHANGED <<portalPeers, portalNonce, posted>>
    BY <1>3 DEF DollarDeliver, ParseAndVerifyVAA, FromPeer, config
  <2>2. OwnChainUnpeered'
    BY <2>1 DEF WireInv, OwnChainUnpeered
  <2> QED BY <1>1, <2>1, <2>2, WireKept
<1>4. ASSUME NEW signer \in Signer, NEW chain \in ChainId,
             NEW transceiver \in Contract \cup {NoContract},
             NEW manager \in Contract \cup {NoContract},
             SetPeer(signer, chain, transceiver, manager)
      PROVE  WireInv'
  <2>1. /\ chain # ThisChain /\ DOMAIN portalPeers' = DOMAIN portalPeers \cup {chain}
        /\ UNCHANGED <<portalNonce, archive, posted>>
    BY <1>4 DEF SetPeer
  <2>2. OwnChainUnpeered'
    BY <2>1 DEF WireInv, OwnChainUnpeered
  <2> QED BY <1>1, <2>1, <2>2, WireKept
<1>5. ASSUME NEW sender \in User, NEW amount \in Amounts, NEW chain \in ChainId,
             NEW token \in RemoteToken, PortalTransfer(sender, amount, chain, token)
      PROVE  WireInv'
  <2>1. /\ Burn(sender, amount) /\ portalNonce' = (portalNonce + 1) % NonceModulus
        /\ UNCHANGED <<portalPeers, archive>>
        /\ \E x \in Message : /\ x.nonce = portalNonce /\ x.index = ledger.index
                              /\ posted' = Append(posted, x)
    <3> DEFINE x == [ nonce   |-> portalNonce,
                      index   |-> ledger.index,
                      amount  |-> amount,
                      chain   |-> chain,
                      token   |-> token,
                      manager |-> portalPeers[chain].manager ]
    <3>1. /\ Burn(sender, amount) /\ portalNonce' = (portalNonce + 1) % NonceModulus
          /\ UNCHANGED <<portalPeers, archive>>
          /\ posted' = Append(posted, x) /\ chain \in DOMAIN portalPeers
      BY <1>5 DEF PortalTransfer, IncrementPortalNonce, config
    <3>2. x \in Message /\ x.nonce = portalNonce /\ x.index = ledger.index
      <4>1. portalNonce \in Nat /\ portalPeers[chain].manager \in Contract
        BY <3>1 DEF DollarInv, LogsTyped, Peer
      <4> QED BY <1>1, <4>1 DEF Message
    <3> HIDE DEF x
    <3> QED BY <3>1, <3>2
  <2>2. ledger'.index = ledger.index
    <3> DEFINE up == GetPrincipalAmountRoundedUp(amount, ledger.index)
               m  == BurnFrom(ledger, sender, amount)
    <3>1. /\ Sound(ledger) /\ sender \in Account /\ amount \in Nat /\ amount > 0
          /\ ledger.balance[sender] >= amount /\ ledger' = m
      BY <2>1, OneLedger, UsersAreNotCustody, TokenAssumption DEF Burn, CanSend
    <3>2. /\ Sound(m)
          /\ SameExcept(m, ledger, {"balance", "principal", "supply",
                                    "totalPrincipal", "totalHolders"})
          /\ m.supply = ledger.supply - amount
          /\ m.totalPrincipal = ledger.totalPrincipal - up
          /\ m.balance = [ledger.balance EXCEPT ![sender] = @ - amount]
          /\ m.principal = [ledger.principal EXCEPT ![sender] = @ - up]
      BY <3>1, RedeemFromAccount
    <3> HIDE DEF m
    <3> QED BY <3>1, <3>2 DEF SameExcept
  <2> QED BY <1>1, <2>1, <2>2, WirePosts
<1>6. CASE Administration
  <2>1. UNCHANGED <<portalNonce, archive, posted>>
    BY <1>6 DEF Administration, PortalSetPausedState, SetPeer, SetBridgingPath,
                TransferOwnership
  <2> QED BY <1>2, <1>4, <1>6, <2>1 DEF Administration, PortalSetPausedState, SetBridgingPath,
                                        TransferOwnership
<1>7. CASE PortalStep
  BY <1>5, <1>6, <1>7 DEF PortalStep
<1>8. CASE TokenStep \/ VaultsStep \/ ExternalStep
  <2>1. UNCHANGED portalVars
    BY <1>8 DEF TokenStep, VaultsStep, ExternalStep
  <2> QED BY <1>2, <2>1 DEF portalVars, config
<1>9. CASE Restart
  BY <1>2, <1>9, RestartEffect
<1>10. CASE UNCHANGED dollarVars
  BY <1>2, <1>10 DEF dollarVars, allVars, portalVars, config
<1> QED BY <1>3, <1>7, <1>8, <1>9, <1>10 DEF GenesisNext, DollarNext

-----------------------------------------------------------------------------
(* The theorems. *)

\* The components keep their invariants together: no message to one of them, no
\* update, wherever it stops, no failed packet and no restart puts another one in a
\* state that it could not have reached by itself, and the accounting holds.
THEOREM DollarInvariance == GenesisSpec => []DollarInv
<1>1. DollarInv /\ [GenesisNext]_dollarVars => DollarInv'
  BY DollarNextStep DEF DollarStepped
<1> QED BY <1>1, DollarInitInv, PTL DEF GenesisSpec

\* The records promise no more than the Flexible vault's account holds, whatever the
\* other components do with the ledger and however often the chain restarts.
LEMMA DollarRewardsSafe == GenesisSpec /\ []Bounded => []RewardsSafe(VaultsStore)
<1>1. DollarInv /\ Bounded /\ RewardsSafe(VaultsStore) /\ [GenesisNext]_dollarVars
        => RewardsSafe(VaultsStore)'
  BY DollarNextStep DEF DollarStepped
<1> QED BY <1>1, DollarInitInv, DollarInvariance, PTL DEF GenesisSpec

\* Everything the module owes is there at the same time, positions, rewards and what
\* stands for $USDN on other chains, as long as the Flexible principal is small
\* enough for the rounding of LegacyDec.
THEOREM DollarBackedAlways == GenesisSpec /\ []Bounded => []DollarBacked
<1>1. DollarInv /\ RewardsSafe(VaultsStore) => DollarBacked
  BY VaultsImplications, ExternalImplications DEF DollarInv, DollarBacked
<1> QED BY <1>1, DollarInvariance, DollarRewardsSafe, PTL

\* All of it but the rewards is there however large the Flexible principal is.
THEOREM CustodyBackedAlways == GenesisSpec => [](PositionsBacked /\ EscrowBacked /\ WarpBacked)
<1>1. DollarInv => PositionsBacked /\ EscrowBacked /\ WarpBacked
  BY VaultsImplications, ExternalImplications DEF DollarInv
<1> QED BY <1>1, DollarInvariance, PTL

\* Conservation over the whole module: a coin is only ever endowed, deposited by a
\* message or accrued as yield, and only leaves in a message, also across updates
\* that fail halfway inside a Mint.
THEOREM DollarSupplyAccountedAlways == GenesisSpec => []DollarSupplyAccounted
<1>1. DollarInv => DollarSupplyAccounted
  BY DEF DollarInv
<1> QED BY <1>1, DollarInvariance, PTL

\* The supply never exceeds what the total principal is worth, whichever component
\* moved principal last: accrual never has to take coins away.
THEOREM DollarPrincipalBacked == GenesisSpec => []PrincipalBacked
<1>1. DollarInv => PrincipalBacked
  BY OneLedger DEF Sound, PrincipalBacked
<1> QED BY <1>1, DollarInvariance, PTL

\* Nobody's claimable yield shrinks while its account stands still, whatever the
\* rest of the module does.
THEOREM UserYieldKeptAlways == GenesisSpec => UserYieldKept
<1>1. DollarInv /\ [GenesisNext]_dollarVars
        => [\A u \in User : ledger'.balance[u] = ledger.balance[u]
                => GetYield(ledger', u) >= GetYield(ledger, u)]_dollarVars
  BY DollarNextStep DEF DollarStepped, YieldKept
<1> QED BY <1>1, DollarInvariance, PTL DEF GenesisSpec, UserYieldKept

\* No query can tell a restarted chain from the one that was exported, and after a
\* restart Transfer accepts the paths that the queries report.
THEOREM RestartKeepsAnswersAlways == GenesisSpec => RestartKeepsAnswers
<1>1. DollarInv /\ [GenesisNext]_dollarVars
        => [Restart => /\ Answers' = Answers
                       /\ DOMAIN portalBridgingPaths' = GetPortalBridgingPaths]_dollarVars
  <2> SUFFICES ASSUME DollarInv, Restart
               PROVE  /\ Answers' = Answers
                      /\ DOMAIN portalBridgingPaths' = GetPortalBridgingPaths
    OBVIOUS
  <2>1. /\ ledger' = ledger /\ UNCHANGED <<paused, burns, donated>>
        /\ UNCHANGED vaultsOnly /\ UNCHANGED externalOnly
        /\ UNCHANGED <<portalOwner, portalPaused, portalPeers, portalNonce, archive, posted>>
        /\ portalBridgingPaths' = [path \in GetPortalBridgingPaths |-> TRUE]
    BY RestartEffect
  <2>2. GetPortalBridgingPaths'
            = {path \in DOMAIN portalBridgingPaths' : portalBridgingPaths'[path]}
    BY DEF GetPortalBridgingPaths
  <2> DEFINE G == GetPortalBridgingPaths
  <2>3. DOMAIN portalBridgingPaths' = G /\ \A path \in G : portalBridgingPaths'[path]
    <3> HIDE DEF G
    <3>1. portalBridgingPaths' = [path \in G |-> TRUE]
      BY <2>1 DEF G
    <3> QED BY <3>1
  <2> HIDE DEF G
  <2>4. GetPortalBridgingPaths' = G
    BY <2>2, <2>3
  <2>5. Answers' = Answers
    BY <2>1, <2>4 DEF Answers, vaultsOnly, vaultsBooks, externalOnly, externalBooks, G
  <2> QED BY <2>3, <2>5 DEF G
<1> QED BY <1>1, DollarInvariance, PTL DEF GenesisSpec, RestartKeepsAnswers

\* The nonce and the index of the messages of a chain stay in order across updates
\* of all components and across restarts, which keep the nonce, and nothing that
\* Noble emitted is accepted.
LEMMA DollarWireInvariance == GenesisSpec => []WireInv
<1>1. DollarInit => WireInv
  BY WireStarts DEF DollarInit
<1>2. DollarInv /\ WireInv /\ [GenesisNext]_dollarVars => WireInv'
  BY DollarNextStep, LogsStep
<1> QED BY <1>1, <1>2, DollarInvariance, PTL DEF GenesisSpec

\* No nonce is used twice, restarts included, until the uint32 wraps around: a
\* restart that started over would repeat the message ids of the old chain.
THEOREM DollarNoncesFresh == GenesisSpec => []NoncesFresh
<1>1. DollarInv /\ WireInv => NoncesFresh
  BY NoncesApart DEF DollarInv, LogsTyped, WireInv
<1> QED BY <1>1, DollarInvariance, DollarWireInvariance, PTL

\* The messages of a chain carry its indices in order, never ahead of the current
\* one, also when what raised it was an update that failed halfway or was exported
\* and imported in between.
THEOREM DollarPostedIndicesOrdered == GenesisSpec => []PostedIndicesOrdered
<1>1. WireInv => PostedIndicesOrdered
  BY DEF WireInv
<1> QED BY <1>1, DollarWireInvariance, PTL

=============================================================================
