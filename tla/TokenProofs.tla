---------------------------- MODULE TokenProofs -----------------------------
(***************************************************************************)
(* Theorems about Token, for every set of accounts, every Scale, every set *)
(* of amounts and every set of indices.                                    *)
(***************************************************************************)
EXTENDS Token, LedgerProofs

\* The inductive invariant.  PrincipalBacked and HoldersNeverOverstated are
\* preserved together with the facts a burn and an accrual rest on: balances
\* add up to the supply, and the index never falls below its initial value.
Inv ==
    /\ TypeOK
    /\ Sound(ledger)
    /\ SupplyWithinDust

\* The genesis ledger is sound.
LEMMA EmptySound == Sound(EmptyLedger)
<1> DEFINE e == EmptyLedger
<1>1. e \in LedgerType
  BY ScaleAssumption DEF EmptyLedger, LedgerType
<1>2. e.index >= Scale
  BY ScaleAssumption DEF EmptyLedger
<1>3. SumFunction(e.balance) = 0
  <2>1. e.balance \in [Address -> Int] /\ \A a \in Address : e.balance[a] = 0
    BY DEF EmptyLedger
  <2> QED BY <2>1, AddressFinite, SumZero
<1>4. SumFunction(e.principal) = 0
  <2>1. e.principal \in [Account -> Int] /\ \A a \in Account : e.principal[a] = 0
    BY DEF EmptyLedger
  <2> QED BY <2>1, AddressFinite, SumZero
<1>5. CountsHolders(e)
  <2>1. e.totalHolders = 0
    BY DEF EmptyLedger
  <2> QED BY <2>1, HoldersFinite DEF CountsHolders
<1>6. e.supply = 0 /\ e.totalPrincipal = 0
  BY DEF EmptyLedger
<1> QED BY <1>1, <1>2, <1>3, <1>4, <1>5, <1>6 DEF Sound

\* Claimable yield is never negative.
LEMMA YieldType ==
  ASSUME NEW l \in LedgerType, NEW a \in Account
  PROVE  GetYield(l, a) \in Nat
<1>1. l.principal[a] \in Int /\ l.index \in Nat /\ l.balance[a] \in Nat
  BY DEF LedgerType, Address
<1>2. GetPresentAmount(l.principal[a], l.index) \in Int
  BY <1>1, PresentType
<1> QED BY <1>1, <1>2 DEF GetYield

\* What an index update leaves to everyone: it takes coins from the yield account
\* only and gives them to the collector and the warp account only, no principal
\* but the Staked vault's shrinks, and whatever it mints is accrued yield.
PaysYieldOnly(m, l) ==
    /\ \A a \in Account : m.balance[a] >= l.balance[a]
    /\ \A a \in Account \ {Collector, Warp} : m.balance[a] = l.balance[a]
    /\ m.balance[Module] = l.balance[Module]
    /\ \A a \in Account \ {StakedVault} : m.principal[a] >= l.principal[a]
    /\ m.supply - l.supply = m.totalYieldAccrued - l.totalYieldAccrued
    /\ m.totalYieldAccrued >= l.totalYieldAccrued

\* A ledger that did not change pays nothing, and payments add up.
LEMMA PaysYieldOnlyReflexive ==
  ASSUME NEW l \in LedgerType
  PROVE  PaysYieldOnly(l, l)
BY AccountAssumption DEF PaysYieldOnly, LedgerType, Address

\* Two updates in a row have the effect of one.
LEMMA PaysYieldOnlyTransitive ==
  ASSUME NEW l \in LedgerType, NEW m \in LedgerType, NEW n \in LedgerType,
         PaysYieldOnly(m, l), PaysYieldOnly(n, m)
  PROVE  PaysYieldOnly(n, l)
<1>1. \A x \in {l, m, n} : /\ \A a \in Account : /\ x.balance[a] \in Int
                                                  /\ x.principal[a] \in Int
                           /\ x.supply \in Int /\ x.totalYieldAccrued \in Int
  BY DEF LedgerType, Address
<1>2. \A a \in Account : n.balance[a] >= l.balance[a]
  BY <1>1 DEF PaysYieldOnly
<1>3. \A a \in Account \ {StakedVault} : n.principal[a] >= l.principal[a]
  BY <1>1 DEF PaysYieldOnly
<1>4. /\ n.supply - l.supply = n.totalYieldAccrued - l.totalYieldAccrued
      /\ n.totalYieldAccrued >= l.totalYieldAccrued
  BY <1>1 DEF PaysYieldOnly
<1> QED BY <1>2, <1>3, <1>4 DEF PaysYieldOnly

\* Season Two's distribution moves coins and principal between accounts only.
LEMMA SeasonTwoEffect ==
  ASSUME NEW l, Sound(l),
         CanClaim(l, StakedVault)
  PROVE  LET m == HandleVaultsYieldSeasonTwo(l)
         IN  /\ Sound(m)
             /\ SameExcept(m, l, {"balance", "principal", "totalHolders"})
             /\ PaysYieldOnly(m, l)
<1> DEFINE y == GetYield(l, StakedVault)
           k == SendCoins(l, Yield, StakedVault, y)
           m == SendCoins(k, StakedVault, Collector, y)
<1>1. StakedVault \in Account /\ Collector \in Account /\ l \in LedgerType
  BY TokenAssumption DEF Sound
<1>2. y \in Nat /\ l.balance[Yield] >= y
  BY <1>1, YieldType DEF CanClaim, CanSend
<1>3. CASE y > 0
  <2>1. HandleVaultsYieldSeasonTwo(l) = m
    BY <1>3 DEF HandleVaultsYieldSeasonTwo, ClaimModuleYield
  <2> HIDE DEF y
  <2>2. /\ Sound(k)
        /\ SameExcept(k, l, {"balance"})
        /\ k.balance = [[l.balance EXCEPT ![Yield] = @ - y]
                           EXCEPT ![StakedVault] = @ + y]
    BY <1>1, <1>2, SendYield
  <2>3. k.balance[StakedVault] >= y
    BY <1>1, <1>2, <2>2, AccountAssumption DEF LedgerType, Address
  <2> HIDE DEF k
  <2> DEFINE up == GetPrincipalAmountRoundedUp(y, k.index)
  <2>4. /\ Sound(m)
        /\ SameExcept(m, k, {"balance", "principal", "totalHolders"})
        /\ m.balance = [[k.balance EXCEPT ![StakedVault] = @ - y]
                           EXCEPT ![Collector] = @ + y]
        /\ m.principal = [[k.principal EXCEPT ![StakedVault] = @ - up]
                             EXCEPT ![Collector] = @ + up]
    BY <1>1, <1>2, <1>3, <2>2, <2>3, SendBetweenAccounts
  <2>5. up \in Nat
    BY <1>2, <2>2, RoundedUpBounds DEF Sound, LedgerType
  <2> HIDE DEF m, up
  <2>6. /\ l.balance \in [Address -> Nat] /\ l.principal \in [Account -> Int]
        /\ k.principal = l.principal
        /\ m.supply = l.supply /\ m.totalYieldAccrued = l.totalYieldAccrued
        /\ l.supply \in Nat /\ l.totalYieldAccrued \in Nat
    BY <1>1, <2>2, <2>4 DEF LedgerType, SameExcept
  <2>7. /\ \A a \in Account : m.balance[a] >= l.balance[a]
        /\ \A a \in Account \ {Collector, Warp} : m.balance[a] = l.balance[a]
        /\ m.balance[Module] = l.balance[Module]
    BY <1>1, <1>2, <2>2, <2>4, <2>6, AccountAssumption, TokenAssumption DEF Address
  <2>8. \A a \in Account \ {StakedVault} : m.principal[a] >= l.principal[a]
    BY <1>1, <2>4, <2>5, <2>6
  <2>9. PaysYieldOnly(m, l)
    BY <2>6, <2>7, <2>8 DEF PaysYieldOnly
  <2> QED BY <2>1, <2>2, <2>4, <2>9 DEF SameExcept
<1>4. CASE y = 0
  BY <1>1, <1>4, PaysYieldOnlyReflexive DEF HandleVaultsYieldSeasonTwo, SameExcept
<1> QED BY <1>2, <1>3, <1>4

\* The claim of the warp account's yield moves coins only.
LEMMA HyperlaneEffect ==
  ASSUME NEW l, Sound(l), CanClaim(l, Warp)
  PROVE  LET m == ClaimExternalYieldHyperlane(l)
         IN  /\ Sound(m)
             /\ SameExcept(m, l, {"balance"})
             /\ PaysYieldOnly(m, l)
<1> DEFINE y == GetYield(l, Warp)
<1>1. Warp \in Account /\ l \in LedgerType
  BY TokenAssumption DEF Sound
<1>2. y \in Nat /\ l.balance[Yield] >= y
  BY <1>1, YieldType DEF CanClaim, CanSend
<1>3. ClaimExternalYieldHyperlane(l) = SendCoins(l, Yield, Warp, y)
  BY DEF ClaimExternalYieldHyperlane, ClaimModuleYield
<1> DEFINE m == SendCoins(l, Yield, Warp, y)
<1> HIDE DEF y
<1>4. /\ Sound(m)
      /\ SameExcept(m, l, {"balance"})
      /\ m.balance = [[l.balance EXCEPT ![Yield] = @ - y] EXCEPT ![Warp] = @ + y]
  BY <1>1, <1>2, SendYield
<1> HIDE DEF m
<1>5. /\ l.balance \in [Address -> Nat] /\ l.principal \in [Account -> Int]
      /\ m.principal = l.principal
      /\ m.supply = l.supply /\ m.totalYieldAccrued = l.totalYieldAccrued
      /\ l.supply \in Nat /\ l.totalYieldAccrued \in Nat
  BY <1>1, <1>4 DEF LedgerType, SameExcept
<1>6. /\ \A a \in Account : m.balance[a] >= l.balance[a]
      /\ \A a \in Account \ {Collector, Warp} : m.balance[a] = l.balance[a]
      /\ m.balance[Module] = l.balance[Module]
  BY <1>1, <1>2, <1>4, <1>5, AccountAssumption DEF Address
<1>7. PaysYieldOnly(m, l)
  BY <1>5, <1>6 DEF PaysYieldOnly
<1> QED BY <1>3, <1>4, <1>7 DEF m

\* Whatever UpdateIndex leaves behind, error or not, is sound; and either the
\* index did not move, or the supply is covered by the total principal.
LEMMA UpdateIndexEffect ==
  ASSUME NEW l, Sound(l), NEW index \in Int,
         UpdateIndexResult(l, index).status # "panic"
  PROVE  LET m == UpdateIndexResult(l, index).ledger
         IN  /\ Sound(m)
             /\ \/ m = l
                \/ /\ m.index > l.index
                   /\ m.supply * Scale <= m.totalPrincipal * m.index
             /\ UpdateIndexResult(l, index).status = "ok" => m.index > l.index
             /\ PaysYieldOnly(m, l)
             /\ m.index = l.index => m = l
<1> DEFINE a == AccrueYield(l, index)
           v == HandleVaultsYieldSeasonTwo(a)
           w == ClaimExternalYieldHyperlane(v)
           result == UpdateIndexResult(l, index)
<1>1. CASE index <= l.index
  <2>1. result.ledger = l /\ result.status = "error"
    BY <1>1 DEF UpdateIndexResult
  <2>2. PaysYieldOnly(l, l)
    BY PaysYieldOnlyReflexive DEF Sound
  <2> QED BY <2>1, <2>2
<1>2. CASE ~(index <= l.index)
  <2>1. l.index \in Nat \ {0} /\ l.totalPrincipal \in Int /\ l.supply \in Nat
    BY DEF Sound, LedgerType
  <2>2. index > l.index /\ index \in Nat
    BY <1>2, <2>1
  <2>3. SupplyShortfall(l, index) \in Int
    <3>1. GetPresentAmount(l.totalPrincipal, index) \in Int
      BY <2>1, <2>2, PresentType
    <3> QED BY <2>1, <3>1 DEF SupplyShortfall
  <2>4. ~(SupplyShortfall(l, index) < 0)
    BY <1>2 DEF UpdateIndexResult
  <2>5. /\ Sound(a)
        /\ SameExcept(a, l, {"index", "balance", "supply", "totalYieldAccrued"})
        /\ a.index = index
        /\ a.supply * Scale <= a.totalPrincipal * a.index
        /\ a.supply >= l.supply
        /\ a.totalYieldAccrued = l.totalYieldAccrued + (a.supply - l.supply)
        /\ a.balance = [l.balance EXCEPT ![Yield] = @ + (a.supply - l.supply)]
    <3>1. SupplyShortfall(l, index) >= 0
      BY <2>3, <2>4
    <3> HIDE DEF a
    <3> QED BY <2>2, <3>1, Accrual DEF a
  <2>6. PaysYieldOnly(a, l)
    <3> HIDE DEF a
    <3>1. /\ l \in LedgerType /\ l.balance \in [Address -> Nat]
          /\ l.principal \in [Account -> Int]
          /\ l.totalYieldAccrued \in Nat /\ a.supply \in Nat
          /\ a.principal = l.principal
      BY <2>5 DEF Sound, LedgerType, SameExcept
    <3>2. \A x \in Account \cup {Module} : a.balance[x] = l.balance[x]
      BY <2>5, <3>1, AccountAssumption DEF Address
    <3> QED BY <2>1, <2>5, <3>1, <3>2 DEF PaysYieldOnly, Address
  <2>7. l \in LedgerType /\ a \in LedgerType
    BY <2>5 DEF Sound
  <2>8. CASE ~CanClaim(a, StakedVault)
    <3>1. result.ledger = a
      BY <1>2, <2>4, <2>8 DEF UpdateIndexResult
    <3> HIDE DEF a, result
    <3> QED BY <2>2, <2>5, <2>6, <3>1 DEF result
  <2>9. CASE CanClaim(a, StakedVault)
    <3>1. result.ledger = IF CanClaim(v, Warp) THEN w ELSE v
      BY <1>2, <2>4, <2>9 DEF UpdateIndexResult
    <3> HIDE DEF a, result
    <3>2. /\ Sound(v)
          /\ SameExcept(v, a, {"balance", "principal", "totalHolders"})
          /\ PaysYieldOnly(v, a)
      BY <2>5, <2>9, SeasonTwoEffect
    <3>3. v.index = a.index /\ v.supply = a.supply /\ v.totalPrincipal = a.totalPrincipal
      BY <3>2 DEF SameExcept
    <3> HIDE DEF v
    <3>4. v \in LedgerType /\ PaysYieldOnly(v, l)
      BY <2>6, <2>7, <3>2, PaysYieldOnlyTransitive DEF Sound
    <3>5. CASE CanClaim(v, Warp)
      <4>1. Sound(w) /\ SameExcept(w, v, {"balance"}) /\ PaysYieldOnly(w, v)
        BY <3>2, <3>5, HyperlaneEffect
      <4>2. w.index = a.index /\ w.supply = a.supply /\ w.totalPrincipal = a.totalPrincipal
        BY <3>3, <4>1 DEF SameExcept
      <4> HIDE DEF w
      <4>3. PaysYieldOnly(w, l)
        BY <2>7, <3>4, <4>1, PaysYieldOnlyTransitive DEF Sound
      <4> QED BY <2>2, <2>5, <3>1, <3>5, <4>1, <4>2, <4>3 DEF result
    <3>6. CASE ~CanClaim(v, Warp)
      BY <2>2, <2>5, <3>1, <3>2, <3>3, <3>6, <3>4 DEF result
    <3> QED BY <3>5, <3>6
  <2> QED BY <2>8, <2>9
<1> QED BY <1>1, <1>2

-----------------------------------------------------------------------------
(* What an account may claim. *)

\* Claimable yield does not shrink when the exact value of the principal, less
\* the balance, does not: rounding and the one-unit cut-off keep the order.  A
\* principal below zero has no yield to lose.
LEMMA YieldRises ==
  ASSUME NEW l \in LedgerType, NEW m \in LedgerType, NEW a \in Account,
         l.principal[a] >= 0 =>
             m.principal[a] * m.index - Scale * m.balance[a]
                 >= l.principal[a] * l.index - Scale * l.balance[a]
  PROVE  GetYield(m, a) >= GetYield(l, a)
<1> DEFINE p == l.principal[a]
           q == m.principal[a]
           i == l.index
           j == m.index
           b == l.balance[a]
           c == m.balance[a]
           P == GetPresentAmount(p, i)
           Q == GetPresentAmount(q, j)
<1>1. /\ p \in Int /\ q \in Int /\ i \in Nat \ {0} /\ j \in Nat \ {0}
      /\ b \in Nat /\ c \in Nat /\ Scale \in Nat \ {0}
  BY ScaleAssumption DEF LedgerType, Address
<1>2. p >= 0 => q * j - Scale * c >= p * i - Scale * b
  OBVIOUS
<1>3. /\ GetYield(l, a) = IF P - b = 1 \/ P - b < 0 THEN 0 ELSE P - b
      /\ GetYield(m, a) = IF Q - c = 1 \/ Q - c < 0 THEN 0 ELSE Q - c
  BY DEF GetYield
<1>4. GetYield(l, a) \in Nat /\ GetYield(m, a) \in Nat
  BY YieldType
<1> HIDE DEF p, q, i, j, b, c
<1>5. P \in Int /\ Q \in Int
  BY <1>1, PresentType
<1> HIDE DEF P, Q
<1>6. /\ p * i \in Int /\ q * j \in Int
      /\ Scale * b \in Int /\ Scale * c \in Int
  BY <1>1
<1>7. CASE p < 0
  <2>1. P <= 0
    BY <1>1, <1>7, PresentBelowZero DEF P
  <2>2. GetYield(l, a) = 0
    BY <1>1, <1>3, <1>5, <2>1
  <2> QED BY <1>4, <2>2
<1>8. CASE p >= 0 /\ q >= 0
  <2>1. Scale * (c - b) = Scale * c - Scale * b
    BY <1>1
  <2>2. q * j >= p * i + Scale * (c - b)
    BY <1>2, <1>6, <1>8, <2>1
  <2>3. p \in Nat /\ q \in Nat /\ i \in Nat /\ j \in Nat /\ c - b \in Int
    BY <1>1, <1>8
  <2>4. Q >= P + (c - b)
    BY <2>2, <2>3, PresentRises DEF P, Q
  <2>5. Q - c >= P - b
    BY <1>1, <1>5, <2>4
  <2> QED BY <1>1, <1>3, <1>5, <2>5
<1>9. CASE p >= 0 /\ q < 0
  <2>1. q * j < 0
    BY <1>1, <1>9
  <2>2. Scale * c >= 0
    BY <1>1
  <2>3. p * i < Scale * b
    BY <1>2, <1>6, <1>9, <2>1, <2>2
  <2>4. Scale * P <= p * i
    BY <1>1, <1>9, PresentOfNat DEF P
  <2>5. ~(P >= b)
    <3>1. P >= b => Scale * P >= Scale * b
      BY <1>1, <1>5
    <3>2. Scale * P \in Int
      BY <1>1, <1>5
    <3> QED BY <1>6, <2>3, <2>4, <3>1, <3>2
  <2>6. GetYield(l, a) = 0
    BY <1>1, <1>3, <1>5, <2>5
  <2> QED BY <1>4, <2>6
<1> QED BY <1>1, <1>7, <1>8, <1>9

-----------------------------------------------------------------------------
(* The supply against the total principal. *)

Dust(l, b, d) ==
    l.supply * Scale <= l.totalPrincipal * l.index + b * (l.index - 1) + d * Scale

\* Issuance to an account brings at least as much principal as supply.
LEMMA DustOfIssue ==
  ASSUME NEW l, Sound(l), NEW r \in Account, NEW amount \in Nat, amount > 0,
         NEW b \in Nat, NEW d \in Nat, Dust(l, b, d)
  PROVE  Dust(MintTo(l, r, amount), b, d)
<1> DEFINE up == GetPrincipalAmountRoundedUp(amount, l.index)
           m  == MintTo(l, r, amount)
<1>1. /\ l.index \in Nat \ {0} /\ l.supply \in Nat /\ l.totalPrincipal \in Int
      /\ Scale \in Nat
  BY ScaleAssumption DEF Sound, LedgerType
<1>2. up \in Nat /\ amount * Scale <= l.index * up
  BY <1>1, RoundedUpBounds
<1>3. /\ m.index = l.index
      /\ m.supply = l.supply + amount
      /\ m.totalPrincipal = l.totalPrincipal + up
  <2>1. /\ SameExcept(m, l, {"balance", "principal", "supply",
                            "totalPrincipal", "totalHolders"})
        /\ m.supply = l.supply + amount
        /\ m.totalPrincipal = l.totalPrincipal + up
        /\ m.balance = [l.balance EXCEPT ![r] = @ + amount]
        /\ m.principal = [l.principal EXCEPT ![r] =
                            @ + GetPrincipalAmountRoundedDown(amount, l.index)]
    BY IssueToAccount
  <2> HIDE DEF up, m
  <2> QED BY <2>1 DEF SameExcept
<1> HIDE DEF up, m
<1>4. /\ m.supply * Scale = l.supply * Scale + amount * Scale
      /\ m.totalPrincipal * m.index = l.totalPrincipal * l.index + l.index * up
  BY <1>1, <1>2, <1>3
<1>5. /\ l.supply * Scale \in Int /\ amount * Scale \in Int
      /\ l.totalPrincipal * l.index \in Int /\ l.index * up \in Int
      /\ b * (l.index - 1) \in Int /\ d * Scale \in Int
  BY <1>1, <1>2
<1>6. Dust(m, b, d)
  BY <1>2, <1>3, <1>4, <1>5 DEF Dust
<1> QED BY <1>6 DEF m

\* A gift to the yield account is all excess.
LEMMA DustOfGift ==
  ASSUME NEW l, Sound(l), NEW amount \in Nat,
         NEW b \in Nat, NEW d \in Nat, Dust(l, b, d)
  PROVE  Dust(MintTo(l, Yield, amount), b, d + amount)
<1> DEFINE m == MintTo(l, Yield, amount)
<1>1. /\ l.index \in Nat \ {0} /\ l.supply \in Nat /\ l.totalPrincipal \in Int
      /\ Scale \in Nat
  BY ScaleAssumption DEF Sound, LedgerType
<1>2. /\ m.index = l.index
      /\ m.supply = l.supply + amount
      /\ m.totalPrincipal = l.totalPrincipal
  BY IssueToYield DEF SameExcept
<1> HIDE DEF m
<1>3. /\ m.supply * Scale = l.supply * Scale + amount * Scale
      /\ (d + amount) * Scale = d * Scale + amount * Scale
  BY <1>1, <1>2
<1>4. /\ l.supply * Scale \in Int /\ amount * Scale \in Int
      /\ l.totalPrincipal * l.index \in Int
      /\ b * (l.index - 1) \in Int /\ d * Scale \in Int
  BY <1>1
<1>5. Dust(m, b, d + amount)
  BY <1>2, <1>3, <1>4 DEF Dust
<1> QED BY <1>5 DEF m

\* One more burn adds one more unit of slack.
LEMMA OneMore ==
  ASSUME NEW b \in Nat, NEW c \in Int
  PROVE  (b + 1) * c = b * c + c
OBVIOUS

\* A burn removes less than one unit of principal too much.
LEMMA DustOfBurn ==
  ASSUME NEW l, Sound(l), NEW s \in Account, NEW amount \in Nat, amount > 0,
         l.balance[s] >= amount, NEW b \in Nat, NEW d \in Nat, Dust(l, b, d)
  PROVE  Dust(BurnFrom(l, s, amount), b + 1, d)
<1> DEFINE up == GetPrincipalAmountRoundedUp(amount, l.index)
           m  == BurnFrom(l, s, amount)
<1>1. /\ l.index \in Nat \ {0} /\ l.supply \in Nat /\ l.totalPrincipal \in Int
      /\ Scale \in Nat
  BY ScaleAssumption DEF Sound, LedgerType
<1>2. up \in Nat /\ l.index * up <= amount * Scale + l.index - 1
  BY <1>1, RoundedUpBounds
<1>3. /\ m.index = l.index
      /\ m.supply = l.supply - amount
      /\ m.totalPrincipal = l.totalPrincipal - up
  <2>1. /\ SameExcept(m, l, {"balance", "principal", "supply",
                            "totalPrincipal", "totalHolders"})
        /\ m.supply = l.supply - amount
        /\ m.totalPrincipal = l.totalPrincipal - up
        /\ m.balance = [l.balance EXCEPT ![s] = @ - amount]
        /\ m.principal = [l.principal EXCEPT ![s] = @ - up]
    BY RedeemFromAccount
  <2> HIDE DEF up, m
  <2> QED BY <2>1 DEF SameExcept
<1> HIDE DEF up, m
<1>4. /\ m.supply * Scale = l.supply * Scale - amount * Scale
      /\ m.totalPrincipal * m.index = l.totalPrincipal * l.index - l.index * up
      /\ (b + 1) * (l.index - 1) = b * (l.index - 1) + (l.index - 1)
  <2>1. m.supply * Scale = l.supply * Scale - amount * Scale
    BY <1>1, <1>3
  <2>2. m.totalPrincipal * m.index = l.totalPrincipal * l.index - l.index * up
    BY <1>1, <1>2, <1>3
  <2>3. (b + 1) * (l.index - 1) = b * (l.index - 1) + (l.index - 1)
    <3>1. l.index - 1 \in Int
      BY <1>1
    <3> QED BY <3>1, OneMore
  <2> QED BY <2>1, <2>2, <2>3
<1>5. /\ l.supply * Scale \in Int /\ amount * Scale \in Int
      /\ l.totalPrincipal * l.index \in Int /\ l.index * up \in Int
      /\ b * (l.index - 1) \in Int /\ d * Scale \in Int
  BY <1>1, <1>2
<1>6. Dust(m, b + 1, d)
  BY <1>1, <1>2, <1>3, <1>4, <1>5 DEF Dust
<1> QED BY <1>6 DEF m

-----------------------------------------------------------------------------
(* The invariant. *)

\* The invariant holds initially.
LEMMA InitInv == Init => Inv
<1> SUFFICES ASSUME Init PROVE Inv
  OBVIOUS
<1>1. Sound(ledger)
  BY EmptySound DEF Init
<1>2. TypeOK
  BY <1>1 DEF Init, TypeOK, Sound
<1>3. SupplyWithinDust
  <2>1. ledger.supply = 0 /\ ledger.totalPrincipal = 0 /\ ledger.index = Scale
    BY DEF Init, EmptyLedger
  <2> QED BY <2>1, ScaleAssumption DEF Init, SupplyWithinDust
<1> QED BY <1>1, <1>2, <1>3 DEF Inv

\* Every transaction preserves the invariant.
LEMMA NextInv == Inv /\ [Next]_vars => Inv'
<1> SUFFICES ASSUME Inv, [Next]_vars PROVE Inv'
  OBVIOUS
<1>1. /\ Sound(ledger) /\ ledger \in LedgerType
      /\ Dust(ledger, burns, donated)
      /\ burns \in Nat /\ donated \in Nat /\ paused \in BOOLEAN
  BY DEF Inv, TypeOK, SupplyWithinDust, Dust
<1>2. SUFFICES /\ Sound(ledger')
               /\ Dust(ledger', burns', donated')
               /\ burns' \in Nat /\ donated' \in Nat /\ paused' \in BOOLEAN
  BY <1>2 DEF Inv, TypeOK, SupplyWithinDust, Dust, Sound
<1>3. /\ ledger.supply \in Nat /\ ledger.totalPrincipal \in Int
      /\ ledger.index \in Nat \ {0} /\ Scale \in Nat
  BY <1>1, ScaleAssumption DEF LedgerType
<1>4. ASSUME NEW s \in Account, NEW r \in Account, NEW n \in Amounts,
             Transfer(s, r, n)
      PROVE  /\ Sound(ledger')
             /\ Dust(ledger', burns', donated')
             /\ burns' \in Nat /\ donated' \in Nat /\ paused' \in BOOLEAN
  <2>1. /\ s \in Account /\ n \in Nat /\ n > 0
        /\ ledger.balance[s] >= n
        /\ ledger' = SendCoins(ledger, s, r, n)
        /\ UNCHANGED <<paused, burns, donated>>
    BY <1>4, TokenAssumption DEF Transfer, CanSend
  <2>2. /\ Sound(ledger')
        /\ SameExcept(ledger', ledger, {"balance", "principal", "totalHolders"})
    BY <1>1, <2>1, SendBetweenAccounts
  <2> QED BY <1>1, <2>1, <2>2 DEF Dust, SameExcept
<1>5. ASSUME NEW s \in Signer, NEW n \in Amounts, Burn(s, n)
      PROVE  /\ Sound(ledger')
             /\ Dust(ledger', burns', donated')
             /\ burns' \in Nat /\ donated' \in Nat /\ paused' \in BOOLEAN
  <2>1. /\ s \in Account /\ n \in Nat /\ n > 0
        /\ ledger.balance[s] >= n
        /\ ledger' = BurnFrom(ledger, s, n)
        /\ burns' = burns + 1
        /\ UNCHANGED <<paused, donated>>
    BY <1>5, TokenAssumption DEF Burn, CanSend, Signer
  <2>2. Sound(ledger')
    BY <1>1, <2>1, RedeemFromAccount
  <2>3. Dust(ledger', burns', donated')
    BY <1>1, <2>1, DustOfBurn
  <2> QED BY <1>1, <2>1, <2>2, <2>3
<1>6. ASSUME NEW r \in Account \cup {Yield}, NEW n \in Amounts,
             NEW i \in Indices, Mint(r, n, i)
      PROVE  /\ Sound(ledger')
             /\ Dust(ledger', burns', donated')
             /\ burns' \in Nat /\ donated' \in Nat /\ paused' \in BOOLEAN
  <2> DEFINE m == UpdateIndexResult(ledger, i).ledger
             moved == m.index > ledger.index
             b == IF moved THEN 0 ELSE burns
             d == IF moved THEN 0 ELSE donated
  <2>1. /\ UpdateIndexResult(ledger, i).status # "panic"
        /\ ledger' = MintTo(m, r, n)
        /\ burns' = b
        /\ donated' = d + (IF r = Yield THEN n ELSE 0)
        /\ UNCHANGED paused
        /\ n \in Nat /\ n > 0 /\ i \in Int
    BY <1>1, <1>6, TokenAssumption DEF Mint, MintSucceeds
  <2>2. /\ Sound(m)
        /\ \/ m = ledger
           \/ /\ m.index > ledger.index
              /\ m.supply * Scale <= m.totalPrincipal * m.index
    BY <1>1, <2>1, UpdateIndexEffect
  <2> HIDE DEF m
  <2>3. b \in Nat /\ d \in Nat
    BY <1>1
  <2>4. Dust(m, b, d)
    <3>1. CASE moved
      <4>1. m.supply * Scale <= m.totalPrincipal * m.index
        BY <1>3, <2>2, <3>1
      <4>2. /\ m.supply * Scale \in Int /\ m.totalPrincipal * m.index \in Int
            /\ 0 * (m.index - 1) = 0 /\ 0 * Scale = 0
        BY <1>3, <2>2 DEF Sound, LedgerType
      <4>3. b = 0 /\ d = 0
        BY <3>1
      <4> QED BY <4>1, <4>2, <4>3 DEF Dust
    <3>2. CASE ~moved
      BY <1>1, <2>2, <3>2
    <3> QED BY <3>1, <3>2
  <2> HIDE DEF b, d
  <2>5. CASE r = Yield
    <3>1. Sound(ledger')
      BY <2>1, <2>2, <2>5, IssueToYield
    <3>2. Dust(ledger', b, d + n)
      BY <2>1, <2>2, <2>3, <2>4, <2>5, DustOfGift
    <3> QED BY <1>1, <2>1, <2>3, <2>5, <3>1, <3>2
  <2>6. CASE r # Yield
    <3>1. r \in Account
      BY <2>6
    <3>2. Sound(ledger')
      BY <2>1, <2>2, <3>1, IssueToAccount
    <3>3. Dust(ledger', b, d)
      BY <2>1, <2>2, <2>3, <2>4, <3>1, DustOfIssue
    <3> QED BY <1>1, <2>1, <2>3, <2>6, <3>2, <3>3
  <2> QED BY <2>5, <2>6
<1>7. ASSUME NEW i \in Indices, UpdateIndex(i)
      PROVE  /\ Sound(ledger')
             /\ Dust(ledger', burns', donated')
             /\ burns' \in Nat /\ donated' \in Nat /\ paused' \in BOOLEAN
  <2> DEFINE m == UpdateIndexResult(ledger, i).ledger
  <2>1. /\ UpdateIndexResult(ledger, i).status = "ok"
        /\ ledger' = m
        /\ burns' = 0 /\ donated' = 0
        /\ UNCHANGED paused
        /\ i \in Int
    BY <1>7, TokenAssumption DEF UpdateIndex
  <2>2. /\ Sound(m)
        /\ \/ m = ledger
           \/ m.supply * Scale <= m.totalPrincipal * m.index
        /\ m.index > ledger.index
    BY <1>1, <2>1, UpdateIndexEffect
  <2> HIDE DEF m
  <2>3. m.supply * Scale <= m.totalPrincipal * m.index
    BY <1>3, <2>2
  <2>4. /\ m.supply * Scale \in Int /\ m.totalPrincipal * m.index \in Int
        /\ 0 * (m.index - 1) = 0 /\ 0 * Scale = 0
    BY <1>3, <2>2 DEF Sound, LedgerType
  <2>5. Dust(m, 0, 0)
    BY <2>3, <2>4 DEF Dust
  <2> QED BY <1>1, <2>1, <2>2, <2>5
<1>8. ASSUME NEW a \in Signer, ClaimYield(a)
      PROVE  /\ Sound(ledger')
             /\ Dust(ledger', burns', donated')
             /\ burns' \in Nat /\ donated' \in Nat /\ paused' \in BOOLEAN
  <2> DEFINE y == GetYield(ledger, a)
  <2>1. /\ a \in Account
        /\ ledger.balance[Yield] >= y
        /\ ledger' = SendCoins(ledger, Yield, a, y)
        /\ UNCHANGED <<paused, burns, donated>>
    BY <1>8 DEF ClaimYield, CanSend, Signer
  <2>2. y \in Nat
    BY <1>1, <2>1, YieldType
  <2> HIDE DEF y
  <2>3. Sound(ledger') /\ SameExcept(ledger', ledger, {"balance"})
    BY <1>1, <2>1, <2>2, SendYield
  <2> QED BY <1>1, <2>1, <2>3 DEF Dust, SameExcept
<1>9. ASSUME NEW p \in BOOLEAN, SetPausedState(p)
      PROVE  /\ Sound(ledger')
             /\ Dust(ledger', burns', donated')
             /\ burns' \in Nat /\ donated' \in Nat /\ paused' \in BOOLEAN
  BY <1>1, <1>9 DEF SetPausedState
<1>10. CASE UNCHANGED vars
  BY <1>1, <1>10 DEF vars
<1> QED BY <1>4, <1>5, <1>6, <1>7, <1>8, <1>9, <1>10 DEF Next

\* In every reachable state the invariant holds.
THEOREM Invariance == Spec => []Inv
BY InitInv, NextInv, PTL DEF Spec

\* Type correctness: no handler drives a balance, the supply, the holder count
\* or the accrued yield below zero, and the index stays positive.
THEOREM TypeCorrect == Spec => []TypeOK
<1>1. Inv => TypeOK
  BY DEF Inv
<1> QED BY <1>1, Invariance, PTL

\* The principal on which UpdateIndex mints yield covers, at all times, the
\* principals against which accounts claim it.
THEOREM PrincipalBackedAlways == Spec => []PrincipalBacked
<1>1. Inv => PrincipalBacked
  BY DEF Inv, Sound, PrincipalBacked
<1> QED BY <1>1, Invariance, PTL

\* The total_holders statistic is at all times a lower bound on the number of
\* accounts with a positive balance.
THEOREM HoldersNeverOverstatedAlways == Spec => []HoldersNeverOverstated
<1>1. Inv => HoldersNeverOverstated
  BY DEF Inv, Sound, CountsHolders, HoldersOf, HoldersNeverOverstated, Holders
<1> QED BY <1>1, Invariance, PTL

\* The supply exceeds the present value of the total principal by at most the
\* rounding of the burns since the last index update plus the gifts to Yield.
THEOREM SupplyWithinDustAlways == Spec => []SupplyWithinDust
<1>1. Inv => SupplyWithinDust
  BY DEF Inv
<1> QED BY <1>1, Invariance, PTL

-----------------------------------------------------------------------------
(* Action properties. *)

\* What a delivered token message does to the accounts: those the index update
\* pays and the recipient gain, and nobody's principal but the vault's shrinks.
LEMMA MintEffect ==
  ASSUME NEW l, Sound(l), NEW r \in Account \cup {Yield}, NEW n \in Nat, n > 0,
         NEW i \in Int, UpdateIndexResult(l, i).status # "panic"
  PROVE  LET k == UpdateIndexResult(l, i).ledger
             m == MintTo(k, r, n)
         IN  /\ Sound(m)
             /\ m.index = k.index /\ m.index >= l.index
             /\ m.balance = [k.balance EXCEPT ![r] = @ + n]
             /\ m.supply = k.supply + n
             /\ m.totalYieldAccrued = k.totalYieldAccrued
             /\ \A a \in Account : m.principal[a] >= k.principal[a]
<1> DEFINE k == UpdateIndexResult(l, i).ledger
           m == MintTo(k, r, n)
<1>1. Sound(k) /\ k.index >= l.index
  <2>1. Sound(k) /\ (k = l \/ k.index > l.index)
    BY UpdateIndexEffect
  <2> HIDE DEF k
  <2> QED BY <2>1 DEF Sound, LedgerType
<1> HIDE DEF k
<1>2. k.index \in Nat \ {0} /\ k.principal \in [Account -> Int]
  BY <1>1 DEF Sound, LedgerType
<1>3. CASE r = Yield
  <2>1. /\ Sound(m)
        /\ SameExcept(m, k, {"balance", "supply"})
        /\ m.supply = k.supply + n
        /\ m.balance = [k.balance EXCEPT ![Yield] = @ + n]
    BY <1>1, <1>3, IssueToYield
  <2> HIDE DEF m
  <2>2. \A a \in Account : m.principal[a] >= k.principal[a]
    BY <1>2, <2>1 DEF SameExcept
  <2>3. m.index = k.index /\ m.totalYieldAccrued = k.totalYieldAccrued
    BY <2>1 DEF SameExcept
  <2> QED BY <1>1, <1>3, <2>1, <2>2, <2>3 DEF m, k
<1>4. CASE r \in Account
  <2> DEFINE up   == GetPrincipalAmountRoundedUp(n, k.index)
             down == GetPrincipalAmountRoundedDown(n, k.index)
  <2>1. /\ Sound(m)
        /\ SameExcept(m, k, {"balance", "principal", "supply",
                             "totalPrincipal", "totalHolders"})
        /\ m.supply = k.supply + n
        /\ m.totalPrincipal = k.totalPrincipal + up
        /\ m.balance = [k.balance EXCEPT ![r] = @ + n]
        /\ m.principal = [k.principal EXCEPT ![r] = @ + down]
    BY <1>1, <1>4, IssueToAccount
  <2>2. down \in Nat
    BY <1>2, RoundedDownBounds
  <2> HIDE DEF m, up, down
  <2>3. \A a \in Account : m.principal[a] >= k.principal[a]
    BY <1>2, <2>1, <2>2
  <2>4. m.index = k.index /\ m.totalYieldAccrued = k.totalYieldAccrued
    BY <2>1 DEF SameExcept
  <2> QED BY <1>1, <2>1, <2>3, <2>4 DEF m, k
<1> QED BY <1>3, <1>4

\* The index never goes back; an account whose balance a transaction leaves
\* alone keeps its principal; and unless coins are transferred between accounts,
\* no account loses or none gains.
LEMMA StepEffect ==
  ASSUME Inv, [Next]_vars
  PROVE  /\ ledger'.index >= ledger.index
         /\ \A a \in Account \ {StakedVault} :
               ledger'.balance[a] = ledger.balance[a]
                   => ledger'.principal[a] >= ledger.principal[a]
         /\ \/ \A a \in Account : ledger'.balance[a] >= ledger.balance[a]
            \/ \A a \in Account : ledger'.balance[a] <= ledger.balance[a]
            \/ \E s, r \in Account, n \in Amounts : Transfer(s, r, n)
<1> DEFINE Kept == /\ ledger'.index >= ledger.index
                   /\ \A a \in Account \ {StakedVault} :
                         ledger'.balance[a] = ledger.balance[a]
                             => ledger'.principal[a] >= ledger.principal[a]
           NoneLoses == \A a \in Account : ledger'.balance[a] >= ledger.balance[a]
           NoneGains == \A a \in Account : ledger'.balance[a] <= ledger.balance[a]
<1>1. /\ Sound(ledger) /\ ledger \in LedgerType /\ ledger.index \in Nat \ {0}
      /\ ledger.balance \in [Address -> Nat] /\ ledger.principal \in [Account -> Int]
      /\ Account \subseteq Address
  BY DEF Inv, Sound, LedgerType, Address
<1>2. ASSUME NEW s \in Account, NEW r \in Account, NEW n \in Amounts,
             Transfer(s, r, n)
      PROVE  Kept
  <2> DEFINE up == GetPrincipalAmountRoundedUp(n, ledger.index)
             m == SendCoins(ledger, s, r, n)
  <2>1. /\ n \in Nat /\ n > 0
        /\ ledger.balance[s] >= n
        /\ ledger' = m
    BY <1>2, TokenAssumption DEF Transfer, CanSend
  <2>2. /\ Sound(m)
        /\ SameExcept(m, ledger, {"balance", "principal", "totalHolders"})
        /\ m.balance = [[ledger.balance EXCEPT ![s] = @ - n]
                           EXCEPT ![r] = @ + n]
        /\ m.principal = [[ledger.principal EXCEPT ![s] = @ - up]
                             EXCEPT ![r] = @ + up]
    <3>1. Sound(ledger) /\ n \in Nat /\ n > 0 /\ ledger.balance[s] >= n
      BY <1>1, <2>1
    <3> QED BY <3>1, SendBetweenAccounts
  <2>3. up \in Nat
    BY <1>1, <2>1, RoundedUpBounds
  <2> HIDE DEF up, m
  <2>4. m.index = ledger.index
    BY <2>2 DEF SameExcept
  <2> QED BY <1>1, <2>1, <2>2, <2>3, <2>4
<1>3. ASSUME NEW s \in Signer, NEW n \in Amounts, Burn(s, n)
      PROVE  Kept /\ NoneGains
  <2> DEFINE up == GetPrincipalAmountRoundedUp(n, ledger.index)
  <2>1. /\ s \in Account /\ n \in Nat /\ n > 0
        /\ ledger.balance[s] >= n
        /\ ledger' = BurnFrom(ledger, s, n)
    BY <1>3, TokenAssumption DEF Burn, CanSend, Signer
  <2>2. /\ Sound(ledger')
        /\ SameExcept(ledger', ledger, {"balance", "principal", "supply",
                                        "totalPrincipal", "totalHolders"})
        /\ ledger'.supply = ledger.supply - n
        /\ ledger'.totalPrincipal = ledger.totalPrincipal - up
        /\ ledger'.balance = [ledger.balance EXCEPT ![s] = @ - n]
        /\ ledger'.principal = [ledger.principal EXCEPT ![s] = @ - up]
    BY <1>1, <2>1, RedeemFromAccount
  <2> HIDE DEF up
  <2>3. ledger'.index = ledger.index
    BY <2>2 DEF SameExcept
  <2>4. Kept
    BY <1>1, <2>1, <2>2, <2>3
  <2>5. NoneGains
    BY <1>1, <2>1, <2>2
  <2> QED BY <2>4, <2>5
<1>4. ASSUME NEW r \in Account \cup {Yield}, NEW n \in Amounts,
             NEW i \in Indices, Mint(r, n, i)
      PROVE  Kept /\ NoneLoses
  <2> DEFINE k == UpdateIndexResult(ledger, i).ledger
  <2>1. /\ UpdateIndexResult(ledger, i).status # "panic"
        /\ ledger' = MintTo(k, r, n)
        /\ n \in Nat /\ n > 0 /\ i \in Int
    BY <1>4, TokenAssumption DEF Mint, MintSucceeds
  <2>2. Sound(k) /\ PaysYieldOnly(k, ledger)
    BY <1>1, <2>1, UpdateIndexEffect
  <2>3. /\ Sound(ledger')
        /\ ledger'.index = k.index /\ ledger'.index >= ledger.index
        /\ ledger'.balance = [k.balance EXCEPT ![r] = @ + n]
        /\ ledger'.supply = k.supply + n
        /\ ledger'.totalYieldAccrued = k.totalYieldAccrued
        /\ \A a \in Account : ledger'.principal[a] >= k.principal[a]
    BY <1>1, <2>1, MintEffect
  <2> HIDE DEF k
  <2>4. /\ k.balance \in [Address -> Nat] /\ k.principal \in [Account -> Int]
        /\ ledger'.principal \in [Account -> Int]
    BY <2>2, <2>3 DEF Sound, LedgerType
  <2>5. \A a \in Account \ {StakedVault} : k.principal[a] >= ledger.principal[a]
    BY <2>2 DEF PaysYieldOnly
  <2>6. \A a \in Account \ {StakedVault} : ledger'.principal[a] >= ledger.principal[a]
    BY <1>1, <2>3, <2>4, <2>5
  <2>7. \A a \in Account : ledger'.balance[a] >= k.balance[a]
    BY <1>1, <2>1, <2>3, <2>4
  <2>8. NoneLoses
    BY <1>1, <2>2, <2>3, <2>4, <2>7 DEF PaysYieldOnly, Sound, LedgerType
  <2> QED BY <2>3, <2>6, <2>8
<1>5. ASSUME NEW i \in Indices, UpdateIndex(i)
      PROVE  Kept /\ NoneLoses
  <2> DEFINE k == UpdateIndexResult(ledger, i).ledger
  <2>1. /\ UpdateIndexResult(ledger, i).status = "ok"
        /\ ledger' = k
        /\ i \in Int
    BY <1>5, TokenAssumption DEF UpdateIndex
  <2>2. Sound(k) /\ PaysYieldOnly(k, ledger) /\ k.index > ledger.index
    BY <1>1, <2>1, UpdateIndexEffect
  <2> HIDE DEF k
  <2>3. k.index \in Nat
    BY <2>2 DEF Sound, LedgerType
  <2> QED BY <1>1, <2>1, <2>2, <2>3 DEF PaysYieldOnly
<1>6. ASSUME NEW a \in Signer, ClaimYield(a)
      PROVE  Kept /\ NoneLoses
  <2> DEFINE y == GetYield(ledger, a)
  <2>1. /\ a \in Account
        /\ ledger.balance[Yield] >= y
        /\ ledger' = SendCoins(ledger, Yield, a, y)
    BY <1>6 DEF ClaimYield, CanSend, Signer
  <2>2. y \in Nat
    BY <1>1, <2>1, YieldType
  <2> HIDE DEF y
  <2>3. /\ Sound(ledger')
        /\ SameExcept(ledger', ledger, {"balance"})
        /\ ledger'.balance = [[ledger.balance EXCEPT ![Yield] = @ - y]
                                 EXCEPT ![a] = @ + y]
    BY <1>1, <2>1, <2>2, SendYield
  <2>4. ledger'.principal = ledger.principal /\ ledger'.index = ledger.index
    BY <2>3 DEF SameExcept
  <2>5. NoneLoses
    BY <1>1, <2>1, <2>2, <2>3, AccountAssumption DEF Address
  <2> QED BY <1>1, <2>4, <2>5
<1>7. ASSUME NEW p \in BOOLEAN, SetPausedState(p)
      PROVE  Kept /\ NoneLoses
  BY <1>1, <1>7 DEF SetPausedState
<1>8. ASSUME UNCHANGED vars
      PROVE  Kept /\ NoneLoses
  BY <1>1, <1>8 DEF vars
<1> QED BY <1>2, <1>3, <1>4, <1>5, <1>6, <1>7, <1>8 DEF Next

\* A larger principal at a later index is worth at least as much.
LEMMA ValueKept ==
  ASSUME NEW p \in Int, NEW q \in Int, NEW i \in Nat, NEW j \in Nat,
         p >= 0, q >= p, j >= i
  PROVE  q * j >= p * i
<1>1. (q - p) * j >= 0 /\ p * (j - i) >= 0
  OBVIOUS
<1>2. (q - p) * j = q * j - p * j /\ p * (j - i) = p * j - p * i
  OBVIOUS
<1>3. q * j \in Int /\ p * j \in Int /\ p * i \in Int
  OBVIOUS
<1> QED BY <1>1, <1>2, <1>3

\* Nobody's claimable yield is lowered by a transaction that leaves its balance
\* alone, whatever mix of handlers ran before it.
THEOREM YieldKeptAlways == Spec => YieldOnlyShrinksByOwnAction
<1>1. ASSUME Inv, Inv', [Next]_vars,
             NEW a \in Account \ {StakedVault}, ledger'.balance[a] = ledger.balance[a]
      PROVE  GetYield(ledger', a) >= GetYield(ledger, a)
  <2> DEFINE l == ledger
             m == ledger'
  <2>1. /\ l \in LedgerType /\ m \in LedgerType
        /\ m.index >= l.index /\ m.principal[a] >= l.principal[a]
    BY <1>1, StepEffect DEF Inv, Sound
  <2>2. /\ l.principal[a] \in Int /\ m.principal[a] \in Int
        /\ l.index \in Nat /\ m.index \in Nat
        /\ l.balance[a] \in Nat /\ m.balance[a] = l.balance[a]
        /\ Scale \in Nat
    BY <1>1, <2>1, ScaleAssumption DEF LedgerType, Address
  <2> HIDE DEF l, m
  <2>3. l.principal[a] >= 0 => m.principal[a] * m.index >= l.principal[a] * l.index
    BY <2>1, <2>2, ValueKept
  <2>4. /\ m.principal[a] * m.index \in Int /\ l.principal[a] * l.index \in Int
        /\ Scale * m.balance[a] = Scale * l.balance[a] /\ Scale * l.balance[a] \in Int
    BY <2>2
  <2>5. l.principal[a] >= 0 =>
            m.principal[a] * m.index - Scale * m.balance[a]
                >= l.principal[a] * l.index - Scale * l.balance[a]
    BY <2>3, <2>4
  <2>6. GetYield(m, a) >= GetYield(l, a)
    BY <2>1, <2>5, YieldRises
  <2> QED BY <2>6 DEF l, m
<1>2. Inv /\ Inv' /\ [Next]_vars =>
        [\A a \in Account \ {StakedVault} :
            ledger'.balance[a] = ledger.balance[a]
                => GetYield(ledger', a) >= GetYield(ledger, a)]_vars
  BY <1>1
<1> QED BY <1>2, Invariance, PTL DEF Spec, YieldOnlyShrinksByOwnAction

\* A transfer never moves claimable yield from the recipient to the sender, and
\* transfers are the only transactions that take from one account and give to
\* another.
THEOREM TransferFavoursRecipientAlways == Spec => TransferFavoursRecipient
<1>1. ASSUME Inv, Inv', [Next]_vars,
             NEW s \in Account \ {StakedVault}, NEW r \in Account \ {StakedVault},
             ledger'.balance[s] < ledger.balance[s],
             ledger'.balance[r] > ledger.balance[r]
      PROVE  /\ GetYield(ledger', s) <= GetYield(ledger, s)
             /\ GetYield(ledger', r) >= GetYield(ledger, r)
  <2> DEFINE l == ledger
             m == ledger'
  <2>1. /\ Sound(l) /\ l \in LedgerType /\ m \in LedgerType
        /\ Scale \in Nat \ {0} /\ s \in Address /\ r \in Address
    BY <1>1, ScaleAssumption DEF Inv, Sound, Address
  <2>2. /\ l.balance \in [Address -> Nat] /\ l.principal \in [Account -> Int]
        /\ m.balance \in [Address -> Nat] /\ m.principal \in [Account -> Int]
        /\ l.index \in Nat \ {0}
    BY <2>1 DEF LedgerType
  <2>3. \E x, y \in Account, n \in Amounts : Transfer(x, y, n)
    <3>1. m.balance[s] < l.balance[s] /\ m.balance[r] > l.balance[r]
      BY <1>1
    <3>2. \/ \A a \in Account : m.balance[a] >= l.balance[a]
          \/ \A a \in Account : m.balance[a] <= l.balance[a]
          \/ \E x, y \in Account, n \in Amounts : Transfer(x, y, n)
      BY <1>1, StepEffect
    <3> HIDE DEF l, m
    <3> QED BY <2>1, <2>2, <3>1, <3>2
  <2>4. PICK x \in Account, y \in Account, n \in Amounts : Transfer(x, y, n)
    BY <2>3
  <2> DEFINE up == GetPrincipalAmountRoundedUp(n, l.index)
             t == SendCoins(l, x, y, n)
  <2>5. n \in Nat /\ n > 0 /\ l.balance[x] >= n /\ m = t
    BY <2>4, TokenAssumption DEF Transfer, CanSend
  <2>6. /\ Sound(t)
        /\ SameExcept(t, l, {"balance", "principal", "totalHolders"})
        /\ t.balance = [[l.balance EXCEPT ![x] = @ - n] EXCEPT ![y] = @ + n]
        /\ t.principal = [[l.principal EXCEPT ![x] = @ - up] EXCEPT ![y] = @ + up]
    BY <2>1, <2>5, SendBetweenAccounts
  <2>7. up \in Nat /\ n * Scale <= l.index * up
    BY <2>2, <2>5, RoundedUpBounds
  <2> HIDE DEF up, t
  <2>8. m.index = l.index
    BY <2>5, <2>6 DEF SameExcept
  <2>9. s = x /\ r = y /\ x # y
    BY <1>1, <2>1, <2>2, <2>5, <2>6 DEF Address
  <2>10. /\ m.balance[s] = l.balance[s] - n
         /\ m.principal[s] = l.principal[s] - up
         /\ m.balance[r] = l.balance[r] + n
         /\ m.principal[r] = l.principal[r] + up
    BY <2>1, <2>2, <2>5, <2>6, <2>9 DEF Address
  <2> HIDE DEF l, m
  <2>11. /\ l.principal[s] \in Int /\ l.principal[r] \in Int /\ l.index \in Int
         /\ l.balance[s] \in Int /\ l.balance[r] \in Int
    BY <2>1, <2>2
  <2>12. /\ (l.principal[s] - up) * l.index = l.principal[s] * l.index - l.index * up
         /\ (l.principal[r] + up) * l.index = l.principal[r] * l.index + l.index * up
         /\ Scale * (l.balance[s] - n) = Scale * l.balance[s] - n * Scale
         /\ Scale * (l.balance[r] + n) = Scale * l.balance[r] + n * Scale
    BY <2>1, <2>5, <2>7, <2>11
  <2>13. /\ l.principal[s] * l.index \in Int /\ l.principal[r] * l.index \in Int
         /\ Scale * l.balance[s] \in Int /\ Scale * l.balance[r] \in Int
         /\ l.index * up \in Int /\ n * Scale \in Int
    BY <2>1, <2>5, <2>7, <2>11
  <2>14. /\ l.principal[s] * l.index - Scale * l.balance[s]
               >= m.principal[s] * m.index - Scale * m.balance[s]
         /\ m.principal[r] * m.index - Scale * m.balance[r]
               >= l.principal[r] * l.index - Scale * l.balance[r]
    BY <2>7, <2>8, <2>10, <2>12, <2>13
  <2>15. GetYield(l, s) >= GetYield(m, s)
    BY <2>1, <2>14, YieldRises
  <2>16. GetYield(m, r) >= GetYield(l, r)
    BY <2>1, <2>14, YieldRises
  <2>17. GetYield(l, s) \in Int /\ GetYield(m, s) \in Int
    BY <2>1, YieldType
  <2> QED BY <2>15, <2>16, <2>17 DEF l, m
<1>2. Inv /\ Inv' /\ [Next]_vars =>
        [\A s, r \in Account \ {StakedVault} :
            /\ ledger'.balance[s] < ledger.balance[s]
            /\ ledger'.balance[r] > ledger.balance[r]
            => /\ GetYield(ledger', s) <= GetYield(ledger, s)
               /\ GetYield(ledger', r) >= GetYield(ledger, r)]_vars
  BY <1>1
<1> QED BY <1>2, Invariance, PTL DEF Spec, TransferFavoursRecipient
-----------------------------------------------------------------------------
(* Steps of other components. *)

\* A step spares the accounts A: it takes no coins from them, no principal unless
\* it pays them, and what it mints is accrued yield.
Spares(m, l, A) ==
    /\ Sound(m)
    /\ m.index >= l.index
    /\ m.supply - l.supply = m.totalYieldAccrued - l.totalYieldAccrued
    /\ \A a \in A : /\ m.balance[a] >= l.balance[a]
                    /\ m.balance[a] = l.balance[a] => m.principal[a] >= l.principal[a]

\* The fields of a ledger, as numbers.
LEMMA SoundNumbers ==
  ASSUME NEW l, Sound(l)
  PROVE  /\ l \in LedgerType
         /\ l.index \in Nat \ {0} /\ l.supply \in Nat /\ l.totalYieldAccrued \in Nat
         /\ l.balance \in [Address -> Nat] /\ l.principal \in [Account -> Int]
         /\ \A a \in Account : /\ a \in Address
                               /\ l.balance[a] \in Nat /\ l.principal[a] \in Int
BY DEF Sound, LedgerType, Address

\* Doing nothing spares everyone.
LEMMA SparesReflexive ==
  ASSUME NEW l, Sound(l), NEW A \in SUBSET Account
  PROVE  Spares(l, l, A)
BY SoundNumbers DEF Spares

\* Two steps in a row spare whom each of them spares.
LEMMA SparesTransitive ==
  ASSUME NEW l, NEW m, NEW n, Sound(l), NEW A \in SUBSET Account,
         Spares(m, l, A), Spares(n, m, A)
  PROVE  Spares(n, l, A)
<1>1. Sound(m) /\ Sound(n)
  BY DEF Spares
<1>2. \A x \in {l, m, n} : /\ x.index \in Nat /\ x.supply \in Nat
                           /\ x.totalYieldAccrued \in Nat
                           /\ \A a \in A : x.balance[a] \in Nat /\ x.principal[a] \in Int
  BY <1>1, SoundNumbers
<1>3. n.index >= l.index
  BY <1>2 DEF Spares
<1>4. n.supply - l.supply = n.totalYieldAccrued - l.totalYieldAccrued
  BY <1>2 DEF Spares
<1>5. ASSUME NEW a \in A
      PROVE  /\ n.balance[a] >= l.balance[a]
             /\ n.balance[a] = l.balance[a] => n.principal[a] >= l.principal[a]
  BY <1>2 DEF Spares
<1> QED BY <1>1, <1>3, <1>4, <1>5 DEF Spares

\* Whoever is spared among many is spared among few.
LEMMA SparesFewer ==
  ASSUME NEW l, NEW m, NEW A, NEW B \in SUBSET A, Spares(m, l, A)
  PROVE  Spares(m, l, B)
BY DEF Spares

\* The claimable yield of an account rises with its principal and the index.
LEMMA StandingYield ==
  ASSUME NEW l, NEW m, Sound(l), Sound(m), NEW a \in Account, m.index >= l.index,
         m.balance[a] = l.balance[a], m.principal[a] >= l.principal[a]
  PROVE  GetYield(m, a) >= GetYield(l, a)
<1>1. l \in LedgerType /\ m \in LedgerType
  BY DEF Sound
<1>2. /\ l.principal[a] \in Int /\ m.principal[a] \in Int
      /\ l.index \in Nat /\ m.index \in Nat
      /\ l.balance[a] \in Nat /\ m.balance[a] = l.balance[a]
      /\ Scale \in Nat
  BY <1>1, ScaleAssumption DEF LedgerType, Address
<1>3. l.principal[a] >= 0 => m.principal[a] * m.index >= l.principal[a] * l.index
  BY <1>2, ValueKept
<1>4. /\ m.principal[a] * m.index \in Int /\ l.principal[a] * l.index \in Int
      /\ Scale * m.balance[a] = Scale * l.balance[a] /\ Scale * l.balance[a] \in Int
  BY <1>2
<1>5. l.principal[a] >= 0 =>
          m.principal[a] * m.index - Scale * m.balance[a]
              >= l.principal[a] * l.index - Scale * l.balance[a]
  BY <1>3, <1>4
<1> QED BY <1>1, <1>5, YieldRises

\* That of an account that is spared and not paid does not shrink.
LEMMA SparesYield ==
  ASSUME NEW l, NEW m, Sound(l), NEW a \in Account,
         Spares(m, l, {a}), m.balance[a] = l.balance[a]
  PROVE  GetYield(m, a) >= GetYield(l, a)
BY StandingYield DEF Spares

\* A payment spares everyone but its sender.
LEMMA PaymentSpares ==
  ASSUME NEW l, Sound(l), NEW s \in Account, NEW r \in Account,
         NEW amount \in Nat, amount > 0, l.balance[s] >= amount
  PROVE  LET m == SendCoins(l, s, r, amount)
         IN  /\ Spares(m, l, Account \ {s})
             /\ s # r => m.balance[s] < l.balance[s]
             /\ s = r => Spares(m, l, Account)
<1> DEFINE m  == SendCoins(l, s, r, amount)
           up == GetPrincipalAmountRoundedUp(amount, l.index)
<1>1. /\ Sound(m)
      /\ SameExcept(m, l, {"balance", "principal", "totalHolders"})
      /\ m.balance = [[l.balance EXCEPT ![s] = @ - amount] EXCEPT ![r] = @ + amount]
      /\ m.principal = [[l.principal EXCEPT ![s] = @ - up] EXCEPT ![r] = @ + up]
  BY SendBetweenAccounts
<1>2. up \in Nat
  BY SoundNumbers, RoundedUpBounds
<1> HIDE DEF m, up
<1>3. /\ m.index = l.index /\ m.supply = l.supply
      /\ m.totalYieldAccrued = l.totalYieldAccrued
  BY <1>1 DEF SameExcept
<1>4. m.index >= l.index /\ m.supply - l.supply = m.totalYieldAccrued - l.totalYieldAccrued
  BY <1>3, SoundNumbers
<1>5. \A a \in Account \ {s} : m.balance[a] >= l.balance[a] /\ m.principal[a] >= l.principal[a]
  BY <1>1, <1>2, SoundNumbers
<1>6. s # r => m.balance[s] < l.balance[s]
  BY <1>1, SoundNumbers
<1>7. s = r => m.balance[s] = l.balance[s] /\ m.principal[s] = l.principal[s]
  BY <1>1, <1>2, SoundNumbers
<1>8. s = r => m.balance[s] >= l.balance[s] /\ m.principal[s] >= l.principal[s]
  BY <1>7, SoundNumbers
<1> QED BY <1>1, <1>4, <1>5, <1>6, <1>8 DEF Spares, m

\* A claim takes from the yield account alone.
LEMMA PayoutSpares ==
  ASSUME NEW l, Sound(l), NEW r \in Account, NEW amount \in Nat,
         l.balance[Yield] >= amount
  PROVE  Spares(SendCoins(l, Yield, r, amount), l, Account)
<1> DEFINE m == SendCoins(l, Yield, r, amount)
<1>1. /\ Sound(m)
      /\ SameExcept(m, l, {"balance"})
      /\ m.balance = [[l.balance EXCEPT ![Yield] = @ - amount] EXCEPT ![r] = @ + amount]
  BY SendYield
<1> HIDE DEF m
<1>2. /\ m.index = l.index /\ m.supply = l.supply
      /\ m.totalYieldAccrued = l.totalYieldAccrued /\ m.principal = l.principal
  BY <1>1 DEF SameExcept
<1>3. m.index >= l.index /\ m.supply - l.supply = m.totalYieldAccrued - l.totalYieldAccrued
  BY <1>2, SoundNumbers
<1>4. \A a \in Account : m.balance[a] >= l.balance[a] /\ m.principal[a] >= l.principal[a]
  BY <1>1, <1>2, SoundNumbers, AccountAssumption DEF Address
<1> QED BY <1>1, <1>3, <1>4 DEF Spares, m

\* Accrual touches no account.
LEMMA AccrualSpares ==
  ASSUME NEW l, Sound(l), NEW index \in Int, index > l.index,
         SupplyShortfall(l, index) >= 0
  PROVE  Spares(AccrueYield(l, index), l, Account)
<1> DEFINE m == AccrueYield(l, index)
<1>1. /\ Sound(m)
      /\ SameExcept(m, l, {"index", "balance", "supply", "totalYieldAccrued"})
      /\ m.index = index
      /\ m.supply = GetPresentAmount(l.totalPrincipal, index)
      /\ m.totalPrincipal >= 0
      /\ m.supply * Scale <= m.totalPrincipal * m.index
      /\ m.supply >= l.supply
      /\ m.totalYieldAccrued = l.totalYieldAccrued + (m.supply - l.supply)
      /\ m.balance = [l.balance EXCEPT ![Yield] = @ + (m.supply - l.supply)]
  BY Accrual
<1> HIDE DEF m
<1>2. m.index >= l.index /\ m.supply - l.supply = m.totalYieldAccrued - l.totalYieldAccrued
  BY <1>1, SoundNumbers
<1>3. m.principal = l.principal
  BY <1>1 DEF SameExcept
<1>4. \A a \in Account : m.balance[a] >= l.balance[a] /\ m.principal[a] >= l.principal[a]
  BY <1>1, <1>3, SoundNumbers, AccountAssumption
<1> QED BY <1>1, <1>2, <1>4 DEF Spares, m

\* Season Two's distribution takes from no account but the Staked vault's.
LEMMA SeasonTwoSpares ==
  ASSUME NEW l, Sound(l), CanClaim(l, StakedVault)
  PROVE  Spares(HandleVaultsYieldSeasonTwo(l), l, Account \ {StakedVault})
<1> DEFINE m == HandleVaultsYieldSeasonTwo(l)
<1>1. /\ Sound(m)
      /\ SameExcept(m, l, {"balance", "principal", "totalHolders"})
      /\ PaysYieldOnly(m, l)
  BY SeasonTwoEffect
<1> HIDE DEF m
<1>2. m.index >= l.index
  BY <1>1, SoundNumbers DEF SameExcept
<1> QED BY <1>1, <1>2 DEF Spares, PaysYieldOnly, m

\* A step of the users moves coins between them and the accounts H that a component
\* holds: it spares everyone else, and a user who is not spared has paid.
Moves(m, l, U, H) ==
    /\ Spares(m, l, Account \ (U \cup H))
    /\ \A u \in U : m.balance[u] < l.balance[u] \/ Spares(m, l, {u})

\* A step that spares all but those accounts is such a step.
LEMMA SparesMoves ==
  ASSUME NEW l, NEW m, NEW H, NEW U \in SUBSET (Account \ H), Spares(m, l, Account \ H)
  PROVE  Moves(m, l, U, H)
<1>1. Spares(m, l, Account \ (U \cup H))
  BY SparesFewer
<1>2. \A u \in U : Spares(m, l, {u})
  BY SparesFewer
<1> QED BY <1>1, <1>2 DEF Moves

\* So is a user's payment.
LEMMA PaymentMoves ==
  ASSUME NEW l, Sound(l), NEW U \in SUBSET Account, NEW H, NEW s \in U, NEW r \in Account,
         NEW amount \in Nat, amount > 0, l.balance[s] >= amount
  PROVE  Moves(SendCoins(l, s, r, amount), l, U, H)
<1> DEFINE m == SendCoins(l, s, r, amount)
<1>1. /\ Spares(m, l, Account \ {s})
      /\ s # r => m.balance[s] < l.balance[s]
      /\ s = r => Spares(m, l, Account)
  BY PaymentSpares
<1> HIDE DEF m
<1>2. Spares(m, l, Account \ (U \cup H))
  BY <1>1, SparesFewer
<1>3. \A u \in U \ {s} : Spares(m, l, {u})
  BY <1>1, SparesFewer
<1>4. m.balance[s] < l.balance[s] \/ Spares(m, l, {s})
  BY <1>1, SparesFewer
<1> QED BY <1>2, <1>3, <1>4 DEF Moves, m
=============================================================================
