---------------------------- MODULE LedgerProofs ----------------------------
(***************************************************************************)
(* What each ledger operation does to the quantities the invariants of the *)
(* state machines are about: the sums of principals and of balances, the   *)
(* totals, and the number of holders.                                      *)
(***************************************************************************)
EXTENDS Ledger, SumTheorems, TLAPS

-----------------------------------------------------------------------------
(* The roundings. *)

\* \div rounds down: the quotient is the last multiple that fits.
LEMMA DivBounds ==
  ASSUME NEW a \in Nat, NEW b \in Nat \ {0}
  PROVE  /\ a \div b \in Nat
         /\ b * (a \div b) <= a
         /\ a < b * (a \div b) + b
OBVIOUS

\* Division towards zero of a non-negative number rounds down.
LEMMA QuoOfNat ==
  ASSUME NEW a \in Nat, NEW b \in Nat \ {0}
  PROVE  /\ Quo(a, b) \in Nat
         /\ b * Quo(a, b) <= a
         /\ a < b * Quo(a, b) + b
BY DivBounds DEF Quo

\* Division towards zero of a negative number rounds up.
LEMMA QuoOfNegative ==
  ASSUME NEW a \in Int, a < 0, NEW b \in Nat \ {0}
  PROVE  /\ Quo(a, b) \in Int
         /\ Quo(a, b) <= 0
         /\ a <= b * Quo(a, b)
         /\ b * Quo(a, b) < a + b
<1> DEFINE q == (-a) \div b
<1>1. -a \in Nat
  OBVIOUS
<1>2. q \in Nat /\ b * q <= -a /\ -a < b * q + b
  BY <1>1, DivBounds
<1>3. Quo(a, b) = -q
  BY DEF Quo
<1> HIDE DEF q
<1>4. b * (-q) = -(b * q) /\ b * q \in Int
  BY <1>2
<1> QED BY <1>2, <1>3, <1>4

\* math.Int.Quo returns an integer.
LEMMA QuoType ==
  ASSUME NEW a \in Int, NEW b \in Nat \ {0}
  PROVE  Quo(a, b) \in Int
<1>1. CASE a < 0
  BY <1>1, QuoOfNegative
<1>2. CASE a >= 0
  <2>1. a \in Nat
    BY <1>2
  <2>2. Quo(a, b) \in Nat
    BY <2>1, QuoOfNat
  <2> QED BY <2>2
<1> QED BY <1>1, <1>2

\* Rounding a principal up never loses value, and gains less than one unit of
\* principal.
LEMMA RoundedUpBounds ==
  ASSUME NEW amount \in Nat, NEW index \in Nat \ {0}
  PROVE  LET up == GetPrincipalAmountRoundedUp(amount, index)
         IN  /\ up \in Nat
             /\ amount * Scale <= index * up
             /\ index * up <= amount * Scale + index - 1
<1> DEFINE n  == amount * Scale + index - 1
           up == Quo(n, index)
<1>1. n \in Nat /\ amount * Scale \in Nat
  BY ScaleAssumption
<1>2. up \in Nat /\ index * up <= n /\ n < index * up + index
  BY <1>1, QuoOfNat
<1>3. index * up \in Int
  BY <1>2
<1> HIDE DEF up
<1>4. amount * Scale <= index * up /\ index * up <= amount * Scale + index - 1
  BY <1>1, <1>2, <1>3
<1> QED BY <1>2, <1>4 DEF GetPrincipalAmountRoundedUp, up

\* Rounding a principal down never gains value, and loses less than one unit of
\* principal.
LEMMA RoundedDownBounds ==
  ASSUME NEW amount \in Nat, NEW index \in Nat \ {0}
  PROVE  LET down == GetPrincipalAmountRoundedDown(amount, index)
         IN  /\ down \in Nat
             /\ index * down <= amount * Scale
             /\ amount * Scale < index * down + index
<1>1. amount * Scale \in Nat
  BY ScaleAssumption
<1> QED BY <1>1, QuoOfNat DEF GetPrincipalAmountRoundedDown

\* Issuance credits the recipient no more principal than it adds to the total.
LEMMA RoundedDownBelowUp ==
  ASSUME NEW amount \in Nat, NEW index \in Nat \ {0}
  PROVE  GetPrincipalAmountRoundedDown(amount, index)
           <= GetPrincipalAmountRoundedUp(amount, index)
<1> DEFINE up   == GetPrincipalAmountRoundedUp(amount, index)
           down == GetPrincipalAmountRoundedDown(amount, index)
<1>1. up \in Nat /\ down \in Nat /\ index * down <= amount * Scale
      /\ amount * Scale <= index * up /\ amount * Scale \in Nat
  BY RoundedUpBounds, RoundedDownBounds, ScaleAssumption
<1> HIDE DEF up, down
<1>2. index * down <= index * up
  BY <1>1
<1>3. down <= up
  BY <1>1, <1>2
<1> QED BY <1>3 DEF up, down

\* GetPresentAmount returns an integer, negative for a negative principal.
LEMMA PresentType ==
  ASSUME NEW principal \in Int, NEW index \in Nat
  PROVE  GetPresentAmount(principal, index) \in Int
<1>1. principal * index \in Int
  OBVIOUS
<1> QED BY <1>1, QuoType, ScaleAssumption DEF GetPresentAmount

\* The present amount of a principal that is not negative is rounded down.
LEMMA PresentOfNat ==
  ASSUME NEW principal \in Nat, NEW index \in Nat
  PROVE  LET present == GetPresentAmount(principal, index)
         IN  /\ present \in Nat
             /\ Scale * present <= principal * index
             /\ principal * index < Scale * present + Scale
<1>1. principal * index \in Nat
  OBVIOUS
<1> QED BY <1>1, QuoOfNat, ScaleAssumption DEF GetPresentAmount

\* At an index of at least Scale, a negative principal has a negative value.
LEMMA PresentOfNegative ==
  ASSUME NEW principal \in Int, principal < 0,
         NEW index \in Nat, index >= Scale
  PROVE  GetPresentAmount(principal, index) < 0
<1> DEFINE a == principal * index
           q == Quo(a, Scale)
<1>1. a \in Int /\ a <= -index
  OBVIOUS
<1>2. a < 0 /\ a <= -Scale
  BY <1>1, ScaleAssumption
<1> HIDE DEF a
<1>3. q \in Int /\ Scale * q < a + Scale
  BY <1>1, <1>2, QuoOfNegative, ScaleAssumption
<1> HIDE DEF q
<1>4. Scale * q < 0
  BY <1>1, <1>2, <1>3, ScaleAssumption
<1>5. q < 0
  BY <1>3, <1>4, ScaleAssumption
<1> QED BY <1>5 DEF q, a, GetPresentAmount

\* The present amount of a principal below zero is not positive at any index.
LEMMA PresentBelowZero ==
  ASSUME NEW principal \in Int, principal < 0, NEW index \in Nat \ {0}
  PROVE  GetPresentAmount(principal, index) <= 0
<1>1. principal * index \in Int /\ principal * index < 0
  OBVIOUS
<1> QED BY <1>1, QuoOfNegative, ScaleAssumption DEF GetPresentAmount

\* Multiplication by a positive number is strictly monotone, by that much.
LEMMA ProductStep ==
  ASSUME NEW k \in Nat \ {0}, NEW x \in Int, NEW y \in Int, x > y
  PROVE  k * x >= k * y + k
<1>1. k * (x - y - 1) >= 0
  OBVIOUS
<1>2. k * (x - y - 1) = k * x - k * y - k
  OBVIOUS
<1>3. k * x \in Int /\ k * y \in Int
  OBVIOUS
<1> QED BY <1>1, <1>2, <1>3

\* When the exact value of a principal grows by at least d, so does its rounded
\* present amount.
LEMMA PresentRises ==
  ASSUME NEW p \in Nat, NEW i \in Nat, NEW q \in Nat, NEW j \in Nat,
         NEW d \in Int, q * j >= p * i + Scale * d
  PROVE  GetPresentAmount(q, j) >= GetPresentAmount(p, i) + d
<1> DEFINE P == GetPresentAmount(p, i)
           Q == GetPresentAmount(q, j)
<1>1. /\ P \in Nat /\ Scale * P <= p * i
      /\ Q \in Nat /\ q * j < Scale * Q + Scale
  BY PresentOfNat
<1> HIDE DEF P, Q
<1>2. Scale \in Nat \ {0} /\ p * i \in Int /\ q * j \in Int
  BY ScaleAssumption
<1>3. SUFFICES ASSUME P + d > Q PROVE FALSE
  BY <1>1 DEF P, Q
<1>4. P + d \in Int /\ Scale * (P + d) = Scale * P + Scale * d
  BY <1>1, <1>2
<1>5. Scale * (P + d) >= Scale * Q + Scale
  BY <1>1, <1>2, <1>3, <1>4, ProductStep
<1>6. Scale * P \in Int /\ Scale * d \in Int /\ Scale * Q \in Int
  BY <1>1, <1>2
<1> QED BY <1>1, <1>2, <1>4, <1>5, <1>6

-----------------------------------------------------------------------------
(* The operations of the ledger. *)

HoldersOf(l) == {a \in Account : l.balance[a] > 0}

\* The statistic counts no one who holds nothing.
CountsHolders(l) == l.totalHolders <= Cardinality(HoldersOf(l))

\* The addresses are finitely many, so sums and counts over them exist.
LEMMA AddressFinite == IsFiniteSet(Address) /\ IsFiniteSet(Account)
<1>1. IsFiniteSet(Account \cup {Module})
  BY AccountAssumption, FS_AddElement
<1>2. IsFiniteSet((Account \cup {Module}) \cup {Yield})
  BY <1>1, FS_AddElement
<1>3. Address = (Account \cup {Module}) \cup {Yield}
  BY DEF Address
<1> QED BY <1>2, <1>3, AccountAssumption

\* Taking coins from an account and the principal that goes with them.
Withdraw(l, a, amount, principal) ==
    DebitPrincipal(SubUnlockedCoins(l, a, amount), a, principal)

Deposit(l, a, amount, principal) ==
    AddCoins(CreditPrincipal(l, a, principal), a, amount)

\* The two ledgers agree on everything but possibly the fields named in F.
SameExcept(m, l, F) ==
    /\ "index" \in F \/ m.index = l.index
    /\ "principal" \in F \/ m.principal = l.principal
    /\ "balance" \in F \/ m.balance = l.balance
    /\ "supply" \in F \/ m.supply = l.supply
    /\ "totalPrincipal" \in F \/ m.totalPrincipal = l.totalPrincipal
    /\ "totalHolders" \in F \/ m.totalHolders = l.totalHolders
    /\ "totalYieldAccrued" \in F \/ m.totalYieldAccrued = l.totalYieldAccrued

\* The bank takes coins from an address that has them.
LEMMA SubEffect ==
  ASSUME NEW l \in LedgerType, NEW a \in Address, NEW amount \in Nat,
         l.balance[a] >= amount
  PROVE  LET m == SubUnlockedCoins(l, a, amount)
         IN  /\ m \in LedgerType
             /\ m.balance = [l.balance EXCEPT ![a] = @ - amount]
             /\ SameExcept(m, l, {"balance"})
<1>1. [l.balance EXCEPT ![a] = @ - amount] \in [Address -> Nat]
  BY DEF LedgerType
<1> QED BY <1>1 DEF SubUnlockedCoins, SameExcept, LedgerType

\* The bank gives coins to an address.
LEMMA AddEffect ==
  ASSUME NEW l \in LedgerType, NEW a \in Address, NEW amount \in Nat
  PROVE  LET m == AddCoins(l, a, amount)
         IN  /\ m \in LedgerType
             /\ m.balance = [l.balance EXCEPT ![a] = @ + amount]
             /\ SameExcept(m, l, {"balance"})
<1>1. [l.balance EXCEPT ![a] = @ + amount] \in [Address -> Nat]
  BY DEF LedgerType
<1> QED BY <1>1 DEF AddCoins, SameExcept, LedgerType

\* The sender half of the send restriction touches its principal and the stat.
LEMMA DebitEffect ==
  ASSUME NEW l \in LedgerType, NEW a \in Account, NEW principal \in Int
  PROVE  LET m == DebitPrincipal(l, a, principal)
         IN  /\ m \in LedgerType
             /\ m.principal = [l.principal EXCEPT ![a] = @ - principal]
             /\ m.totalHolders = IF l.balance[a] = 0 /\ l.totalHolders > 0
                                 THEN l.totalHolders - 1 ELSE l.totalHolders
             /\ SameExcept(m, l, {"principal", "totalHolders"})
<1> DEFINE d == [l EXCEPT !.principal[a] = @ - principal]
<1>1. [l.principal EXCEPT ![a] = @ - principal] \in [Account -> Int]
  BY DEF LedgerType
<1>2. /\ d \in LedgerType
      /\ d.principal = [l.principal EXCEPT ![a] = @ - principal]
      /\ SameExcept(d, l, {"principal"})
  BY <1>1 DEF SameExcept, LedgerType
<1> HIDE DEF d
<1>3. LET m == DecrementTotalHolders(d)
      IN  /\ m \in LedgerType
          /\ m.totalHolders = IF d.totalHolders > 0
                              THEN d.totalHolders - 1 ELSE d.totalHolders
          /\ SameExcept(m, d, {"totalHolders"})
  BY <1>2 DEF DecrementTotalHolders, SameExcept, LedgerType
<1>4. DebitPrincipal(l, a, principal)
        = IF l.balance[a] = 0 THEN DecrementTotalHolders(d) ELSE d
  BY DEF DebitPrincipal, d
<1>5. CASE l.balance[a] = 0
  BY <1>2, <1>3, <1>4, <1>5 DEF SameExcept
<1>6. CASE l.balance[a] # 0
  BY <1>2, <1>4, <1>6 DEF SameExcept
<1> QED BY <1>5, <1>6

\* The recipient half of the send restriction, likewise.
LEMMA CreditEffect ==
  ASSUME NEW l \in LedgerType, NEW a \in Account, NEW principal \in Int
  PROVE  LET m == CreditPrincipal(l, a, principal)
         IN  /\ m \in LedgerType
             /\ m.principal = [l.principal EXCEPT ![a] = @ + principal]
             /\ m.totalHolders = IF l.balance[a] = 0
                                 THEN l.totalHolders + 1 ELSE l.totalHolders
             /\ SameExcept(m, l, {"principal", "totalHolders"})
<1> DEFINE c == [l EXCEPT !.principal[a] = @ + principal]
<1>1. [l.principal EXCEPT ![a] = @ + principal] \in [Account -> Int]
  BY DEF LedgerType
<1>2. /\ c \in LedgerType
      /\ c.principal = [l.principal EXCEPT ![a] = @ + principal]
      /\ SameExcept(c, l, {"principal"})
  BY <1>1 DEF SameExcept, LedgerType
<1> HIDE DEF c
<1>3. LET m == IncrementTotalHolders(c)
      IN  /\ m \in LedgerType
          /\ m.totalHolders = c.totalHolders + 1
          /\ SameExcept(m, c, {"totalHolders"})
  BY <1>2 DEF IncrementTotalHolders, SameExcept, LedgerType
<1>4. CreditPrincipal(l, a, principal)
        = IF l.balance[a] = 0 THEN IncrementTotalHolders(c) ELSE c
  BY DEF CreditPrincipal, c
<1>5. CASE l.balance[a] = 0
  BY <1>2, <1>3, <1>4, <1>5 DEF SameExcept
<1>6. CASE l.balance[a] # 0
  BY <1>2, <1>4, <1>6 DEF SameExcept
<1> QED BY <1>5, <1>6

\* IncrementTotalPrincipal and DecrementTotalPrincipal touch nothing else.
LEMMA TotalPrincipalEffect ==
  ASSUME NEW l \in LedgerType, NEW p \in Int
  PROVE  /\ LET m == IncrementTotalPrincipal(l, p)
            IN  /\ m \in LedgerType
                /\ m.totalPrincipal = l.totalPrincipal + p
                /\ SameExcept(m, l, {"totalPrincipal"})
         /\ LET m == DecrementTotalPrincipal(l, p)
            IN  /\ m \in LedgerType
                /\ m.totalPrincipal = l.totalPrincipal - p
                /\ SameExcept(m, l, {"totalPrincipal"})
BY DEF IncrementTotalPrincipal, DecrementTotalPrincipal, SameExcept, LedgerType

\* Minting raises the supply and the module balance together.
LEMMA MintCoinsEffect ==
  ASSUME NEW l \in LedgerType, NEW amount \in Nat
  PROVE  LET m == MintCoins(l, amount)
         IN  /\ m \in LedgerType
             /\ m.balance = [l.balance EXCEPT ![Module] = @ + amount]
             /\ m.supply = l.supply + amount
             /\ SameExcept(m, l, {"balance", "supply"})
<1> DEFINE b == [l.balance EXCEPT ![Module] = @ + amount]
           k == [l EXCEPT !.balance = b]
           m == [k EXCEPT !.supply = @ + amount]
<1>1. b \in [Address -> Nat]
  BY DEF LedgerType, Address
<1>2. MintCoins(l, amount) = m
  BY DEF MintCoins, LedgerType
<1> HIDE DEF b
<1>3. k \in LedgerType /\ k.balance = b /\ SameExcept(k, l, {"balance"})
  BY <1>1 DEF SameExcept, LedgerType
<1> HIDE DEF k
<1>4. /\ m \in LedgerType
      /\ m.supply = k.supply + amount
      /\ SameExcept(m, k, {"supply"})
  BY <1>3 DEF SameExcept, LedgerType
<1> HIDE DEF m
<1> QED BY <1>2, <1>3, <1>4 DEF SameExcept, b

\* Burning lowers the supply and the module balance together.
LEMMA BurnCoinsEffect ==
  ASSUME NEW l \in LedgerType, NEW amount \in Nat,
         l.balance[Module] >= amount, l.supply >= amount
  PROVE  LET m == BurnCoins(l, amount)
         IN  /\ m \in LedgerType
             /\ m.balance = [l.balance EXCEPT ![Module] = @ - amount]
             /\ m.supply = l.supply - amount
             /\ SameExcept(m, l, {"balance", "supply"})
<1> DEFINE b == [l.balance EXCEPT ![Module] = @ - amount]
           k == [l EXCEPT !.balance = b]
           m == [k EXCEPT !.supply = @ - amount]
<1>1. b \in [Address -> Nat]
  BY DEF LedgerType, Address
<1>2. BurnCoins(l, amount) = m
  BY DEF BurnCoins, LedgerType
<1> HIDE DEF b
<1>3. k \in LedgerType /\ k.balance = b /\ SameExcept(k, l, {"balance"})
  BY <1>1 DEF SameExcept, LedgerType
<1> HIDE DEF k
<1>4. /\ m \in LedgerType
      /\ m.supply = k.supply - amount
      /\ SameExcept(m, k, {"supply"})
  BY <1>3 DEF SameExcept, LedgerType
<1> HIDE DEF m
<1> QED BY <1>2, <1>3, <1>4 DEF SameExcept, b

-----------------------------------------------------------------------------
(* The number of holders. *)

\* The holders can be counted.
LEMMA HoldersFinite ==
  ASSUME NEW l
  PROVE  IsFiniteSet(HoldersOf(l)) /\ Cardinality(HoldersOf(l)) \in Nat
<1>1. HoldersOf(l) \in SUBSET Account
  BY DEF HoldersOf
<1> QED BY <1>1, AddressFinite, FS_Subset, FS_CardinalityType

\* Account balances that only grow lose no holder.
LEMMA HoldersGrow ==
  ASSUME NEW l \in LedgerType, NEW m \in LedgerType, CountsHolders(l),
         m.totalHolders = l.totalHolders,
         \A a \in Account : m.balance[a] >= l.balance[a]
  PROVE  CountsHolders(m)
<1>1. HoldersOf(l) \in SUBSET HoldersOf(m)
  BY DEF HoldersOf, LedgerType, Address
<1>2. Cardinality(HoldersOf(l)) <= Cardinality(HoldersOf(m))
  BY <1>1, HoldersFinite, FS_Subset
<1>3. /\ Cardinality(HoldersOf(l)) \in Nat
      /\ Cardinality(HoldersOf(m)) \in Nat
      /\ l.totalHolders \in Nat
  BY HoldersFinite DEF LedgerType
<1> QED BY <1>2, <1>3 DEF CountsHolders

\* An account that gives up coins keeps the holder count a lower bound: when
\* its balance reaches zero, one holder is lost and one decrement is made.
LEMMA WithdrawEffect ==
  ASSUME NEW l \in LedgerType, NEW a \in Account, NEW amount \in Nat,
         amount > 0, l.balance[a] >= amount, NEW principal \in Int,
         CountsHolders(l)
  PROVE  LET m == Withdraw(l, a, amount, principal)
         IN  /\ m \in LedgerType
             /\ m.balance = [l.balance EXCEPT ![a] = @ - amount]
             /\ m.principal = [l.principal EXCEPT ![a] = @ - principal]
             /\ SameExcept(m, l, {"balance", "principal", "totalHolders"})
             /\ CountsHolders(m)
<1> DEFINE k == SubUnlockedCoins(l, a, amount)
           m == DebitPrincipal(k, a, principal)
<1>1. a \in Address
  BY DEF Address
<1>2. /\ k \in LedgerType
      /\ k.balance = [l.balance EXCEPT ![a] = @ - amount]
      /\ SameExcept(k, l, {"balance"})
  BY <1>1, SubEffect
<1> HIDE DEF k
<1>3. /\ m \in LedgerType
      /\ m.principal = [k.principal EXCEPT ![a] = @ - principal]
      /\ m.totalHolders = IF k.balance[a] = 0 /\ k.totalHolders > 0
                          THEN k.totalHolders - 1 ELSE k.totalHolders
      /\ SameExcept(m, k, {"principal", "totalHolders"})
  BY <1>2, DebitEffect
<1> HIDE DEF m
<1>4. /\ m.balance = [l.balance EXCEPT ![a] = @ - amount]
      /\ m.principal = [l.principal EXCEPT ![a] = @ - principal]
      /\ SameExcept(m, l, {"balance", "principal", "totalHolders"})
  BY <1>2, <1>3 DEF SameExcept
<1>5. /\ l.balance \in [Address -> Nat]
      /\ l.totalHolders \in Nat
      /\ Cardinality(HoldersOf(l)) \in Nat
      /\ l.totalHolders <= Cardinality(HoldersOf(l))
  BY HoldersFinite DEF LedgerType, CountsHolders
<1>6. CountsHolders(m)
  <2>1. CASE l.balance[a] = amount
    <3>1. m.totalHolders = IF l.totalHolders > 0
                           THEN l.totalHolders - 1 ELSE l.totalHolders
      BY <1>1, <1>2, <1>3, <1>5, <2>1 DEF SameExcept
    <3>2. HoldersOf(m) = HoldersOf(l) \ {a} /\ a \in HoldersOf(l)
      BY <1>1, <1>4, <1>5, <2>1 DEF HoldersOf, Address
    <3>3. Cardinality(HoldersOf(m)) = Cardinality(HoldersOf(l)) - 1
      BY <3>2, HoldersFinite, FS_RemoveElement
    <3>4. Cardinality(HoldersOf(m)) \in Nat
      BY HoldersFinite
    <3> QED BY <3>1, <3>3, <3>4, <1>5 DEF CountsHolders
  <2>2. CASE l.balance[a] # amount
    <3>1. m.totalHolders = l.totalHolders
      BY <1>1, <1>2, <1>3, <1>5, <2>2 DEF SameExcept
    <3>2. HoldersOf(m) = HoldersOf(l)
      BY <1>1, <1>4, <1>5, <2>2 DEF HoldersOf, Address
    <3> QED BY <3>1, <3>2, <1>5 DEF CountsHolders
  <2> QED BY <2>1, <2>2
<1> QED BY <1>3, <1>4, <1>6 DEF Withdraw, m, k

\* An account that receives coins keeps the holder count a lower bound: one
\* increment is made only when its balance was zero.
LEMMA DepositEffect ==
  ASSUME NEW l \in LedgerType, NEW a \in Account, NEW amount \in Nat,
         amount > 0, NEW principal \in Int, CountsHolders(l)
  PROVE  LET m == Deposit(l, a, amount, principal)
         IN  /\ m \in LedgerType
             /\ m.balance = [l.balance EXCEPT ![a] = @ + amount]
             /\ m.principal = [l.principal EXCEPT ![a] = @ + principal]
             /\ SameExcept(m, l, {"balance", "principal", "totalHolders"})
             /\ CountsHolders(m)
<1> DEFINE k == CreditPrincipal(l, a, principal)
           m == AddCoins(k, a, amount)
<1>1. a \in Address
  BY DEF Address
<1>2. /\ k \in LedgerType
      /\ k.principal = [l.principal EXCEPT ![a] = @ + principal]
      /\ k.totalHolders = IF l.balance[a] = 0
                          THEN l.totalHolders + 1 ELSE l.totalHolders
      /\ SameExcept(k, l, {"principal", "totalHolders"})
  BY CreditEffect
<1> HIDE DEF k
<1>3. /\ m \in LedgerType
      /\ m.balance = [k.balance EXCEPT ![a] = @ + amount]
      /\ SameExcept(m, k, {"balance"})
  BY <1>1, <1>2, AddEffect
<1> HIDE DEF m
<1>4. /\ m.balance = [l.balance EXCEPT ![a] = @ + amount]
      /\ m.principal = [l.principal EXCEPT ![a] = @ + principal]
      /\ SameExcept(m, l, {"balance", "principal", "totalHolders"})
  BY <1>2, <1>3 DEF SameExcept
<1>5. /\ l.balance \in [Address -> Nat]
      /\ l.totalHolders \in Nat
      /\ Cardinality(HoldersOf(l)) \in Nat
      /\ l.totalHolders <= Cardinality(HoldersOf(l))
  BY HoldersFinite DEF LedgerType, CountsHolders
<1>6. CountsHolders(m)
  <2>1. CASE l.balance[a] = 0
    <3>1. m.totalHolders = l.totalHolders + 1
      BY <1>2, <1>3, <2>1 DEF SameExcept
    <3>2. HoldersOf(m) = HoldersOf(l) \cup {a} /\ a \notin HoldersOf(l)
      BY <1>1, <1>4, <1>5, <2>1 DEF HoldersOf, Address
    <3>3. Cardinality(HoldersOf(m)) = Cardinality(HoldersOf(l)) + 1
      BY <3>2, HoldersFinite, FS_AddElement
    <3> QED BY <3>1, <3>3, <1>5 DEF CountsHolders
  <2>2. CASE l.balance[a] # 0
    <3>1. m.totalHolders = l.totalHolders
      BY <1>2, <1>3, <2>2 DEF SameExcept
    <3>2. HoldersOf(m) = HoldersOf(l)
      BY <1>1, <1>4, <1>5, <2>2 DEF HoldersOf, Address
    <3> QED BY <3>1, <3>2, <1>5 DEF CountsHolders
  <2> QED BY <2>1, <2>2
<1> QED BY <1>3, <1>4, <1>6 DEF Deposit, m, k

-----------------------------------------------------------------------------
(* Sends. *)

\* What holds of a ledger after every transaction.
Sound(l) ==
    /\ l \in LedgerType
    /\ l.index >= Scale
    /\ SumFunction(l.balance) = l.supply
    /\ SumFunction(l.principal) <= l.totalPrincipal
    /\ CountsHolders(l)

\* The sums the invariants are about are numbers.
LEMMA SumsTyped ==
  ASSUME NEW l \in LedgerType
  PROVE  SumFunction(l.balance) \in Nat /\ SumFunction(l.principal) \in Int
<1>1. l.balance \in [Address -> Nat] /\ l.principal \in [Account -> Int]
  BY DEF LedgerType
<1> QED BY <1>1, AddressFinite, SumOfNat, SumType

\* The sums follow one entry.
LEMMA BalanceAdd ==
  ASSUME NEW l \in LedgerType, NEW m, NEW a \in Address, NEW d \in Int,
         m.balance = [l.balance EXCEPT ![a] = @ + d]
  PROVE  SumFunction(m.balance) = SumFunction(l.balance) + d
<1>1. l.balance \in [Address -> Int]
  BY DEF LedgerType
<1>2. /\ m.balance \in [Address -> Int]
      /\ m.balance[a] = l.balance[a] + d
      /\ \A x \in Address : x # a => m.balance[x] = l.balance[x]
  BY <1>1
<1>3. SumFunction(m.balance) = SumFunction(l.balance) + d
  BY <1>1, <1>2, AddressFinite, SumShift
<1> QED BY <1>3, SumsTyped

\* Taking coins from one address lowers the sum of the balances by as much.
LEMMA BalanceSub ==
  ASSUME NEW l \in LedgerType, NEW m, NEW a \in Address, NEW d \in Int,
         m.balance = [l.balance EXCEPT ![a] = @ - d]
  PROVE  SumFunction(m.balance) = SumFunction(l.balance) - d
<1>1. l.balance \in [Address -> Int]
  BY DEF LedgerType
<1>2. /\ m.balance \in [Address -> Int]
      /\ m.balance[a] = l.balance[a] + (-d)
      /\ \A x \in Address : x # a => m.balance[x] = l.balance[x]
  BY <1>1
<1>3. SumFunction(m.balance) = SumFunction(l.balance) + (-d)
  BY <1>1, <1>2, AddressFinite, SumShift
<1> QED BY <1>3, SumsTyped

\* Crediting principal to one account raises the sum of the principals.
LEMMA PrincipalAdd ==
  ASSUME NEW l \in LedgerType, NEW m, NEW a \in Account, NEW d \in Int,
         m.principal = [l.principal EXCEPT ![a] = @ + d]
  PROVE  SumFunction(m.principal) = SumFunction(l.principal) + d
<1>1. l.principal \in [Account -> Int]
  BY DEF LedgerType
<1>2. /\ m.principal \in [Account -> Int]
      /\ m.principal[a] = l.principal[a] + d
      /\ \A x \in Account : x # a => m.principal[x] = l.principal[x]
  BY <1>1
<1>3. SumFunction(m.principal) = SumFunction(l.principal) + d
  BY <1>1, <1>2, AddressFinite, SumShift
<1> QED BY <1>3, SumsTyped

\* Debiting principal from one account lowers the sum of the principals.
LEMMA PrincipalSub ==
  ASSUME NEW l \in LedgerType, NEW m, NEW a \in Account, NEW d \in Int,
         m.principal = [l.principal EXCEPT ![a] = @ - d]
  PROVE  SumFunction(m.principal) = SumFunction(l.principal) - d
<1>1. l.principal \in [Account -> Int]
  BY DEF LedgerType
<1>2. /\ m.principal \in [Account -> Int]
      /\ m.principal[a] = l.principal[a] + (-d)
      /\ \A x \in Account : x # a => m.principal[x] = l.principal[x]
  BY <1>1
<1>3. SumFunction(m.principal) = SumFunction(l.principal) + (-d)
  BY <1>1, <1>2, AddressFinite, SumShift
<1> QED BY <1>3, SumsTyped

\* A transfer between accounts, to oneself included, moves principal and coins
\* and leaves both sums and all totals alone.
LEMMA SendBetweenAccounts ==
  ASSUME NEW l, Sound(l), NEW s \in Account, NEW r \in Account,
         NEW amount \in Nat, amount > 0, l.balance[s] >= amount
  PROVE  LET m  == SendCoins(l, s, r, amount)
             up == GetPrincipalAmountRoundedUp(amount, l.index)
         IN  /\ Sound(m)
             /\ SameExcept(m, l, {"balance", "principal", "totalHolders"})
             /\ m.balance = [[l.balance EXCEPT ![s] = @ - amount]
                                EXCEPT ![r] = @ + amount]
             /\ m.principal = [[l.principal EXCEPT ![s] = @ - up]
                                  EXCEPT ![r] = @ + up]
<1> DEFINE up == GetPrincipalAmountRoundedUp(amount, l.index)
           k  == Withdraw(l, s, amount, up)
           m  == Deposit(k, r, amount, up)
<1>1. l \in LedgerType /\ l.index \in Nat \ {0} /\ CountsHolders(l)
  BY DEF Sound, LedgerType
<1>2. up \in Nat /\ up \in Int
  BY <1>1, RoundedUpBounds
<1>3. SendCoins(l, s, r, amount) = m
  <2>1. /\ SubUnlockedCoins(l, s, amount).index = l.index
        /\ s # Module /\ s # Yield /\ r # Module /\ r # Yield
    BY <1>1, AccountAssumption DEF SubUnlockedCoins, LedgerType
  <2> QED BY <2>1 DEF SendCoins, SendRestrictionFn, Withdraw, Deposit
<1> HIDE DEF up
<1>4. /\ k \in LedgerType
      /\ k.balance = [l.balance EXCEPT ![s] = @ - amount]
      /\ k.principal = [l.principal EXCEPT ![s] = @ - up]
      /\ SameExcept(k, l, {"balance", "principal", "totalHolders"})
      /\ CountsHolders(k)
  BY <1>1, <1>2, WithdrawEffect
<1> HIDE DEF k
<1>5. /\ m \in LedgerType
      /\ m.balance = [k.balance EXCEPT ![r] = @ + amount]
      /\ m.principal = [k.principal EXCEPT ![r] = @ + up]
      /\ SameExcept(m, k, {"balance", "principal", "totalHolders"})
      /\ CountsHolders(m)
  BY <1>2, <1>4, DepositEffect
<1> HIDE DEF m
<1>6. s \in Address /\ r \in Address /\ amount \in Int
  BY DEF Address
<1>7. /\ SumFunction(k.balance) = SumFunction(l.balance) - amount
      /\ SumFunction(k.principal) = SumFunction(l.principal) - up
  BY <1>1, <1>2, <1>4, <1>6, BalanceSub, PrincipalSub
<1>8. /\ SumFunction(m.balance) = SumFunction(k.balance) + amount
      /\ SumFunction(m.principal) = SumFunction(k.principal) + up
  BY <1>2, <1>4, <1>5, <1>6, BalanceAdd, PrincipalAdd
<1>9. /\ SumFunction(m.balance) = SumFunction(l.balance)
      /\ SumFunction(m.principal) = SumFunction(l.principal)
  BY <1>1, <1>2, <1>6, <1>7, <1>8, SumsTyped
<1>10. /\ SameExcept(m, l, {"balance", "principal", "totalHolders"})
       /\ m.balance = [[l.balance EXCEPT ![s] = @ - amount]
                          EXCEPT ![r] = @ + amount]
       /\ m.principal = [[l.principal EXCEPT ![s] = @ - up]
                            EXCEPT ![r] = @ + up]
  BY <1>4, <1>5 DEF SameExcept
<1>11. Sound(m)
  BY <1>5, <1>9, <1>10 DEF Sound, SameExcept
<1> QED BY <1>3, <1>10, <1>11 DEF up

\* Yield payout and yield accrual touch no principal and no statistic.
LEMMA SendYield ==
  ASSUME NEW l, Sound(l), NEW s, NEW r, NEW amount \in Nat,
         \/ s = Yield /\ r \in Account
         \/ s = Module /\ r = Yield,
         l.balance[s] >= amount
  PROVE  LET m == SendCoins(l, s, r, amount)
         IN  /\ Sound(m)
             /\ SameExcept(m, l, {"balance"})
             /\ m.balance = [[l.balance EXCEPT ![s] = @ - amount]
                                EXCEPT ![r] = @ + amount]
<1> DEFINE k == SubUnlockedCoins(l, s, amount)
           m == AddCoins(k, r, amount)
<1>1. /\ l \in LedgerType
      /\ s \in Address /\ r \in Address /\ s # r /\ s \notin Account
  BY AccountAssumption DEF Sound, Address
<1>2. SendCoins(l, s, r, amount) = m
  BY DEF SendCoins, SendRestrictionFn
<1>3. /\ k \in LedgerType
      /\ k.balance = [l.balance EXCEPT ![s] = @ - amount]
      /\ SameExcept(k, l, {"balance"})
  BY <1>1, SubEffect
<1> HIDE DEF k
<1>4. /\ m \in LedgerType
      /\ m.balance = [k.balance EXCEPT ![r] = @ + amount]
      /\ SameExcept(m, k, {"balance"})
  BY <1>1, <1>3, AddEffect
<1> HIDE DEF m
<1>5. SumFunction(m.balance) = SumFunction(l.balance)
  <2>1. SumFunction(k.balance) = SumFunction(l.balance) - amount
    BY <1>1, <1>3, BalanceSub
  <2>2. SumFunction(m.balance) = SumFunction(k.balance) + amount
    BY <1>1, <1>3, <1>4, BalanceAdd
  <2> QED BY <1>1, <2>1, <2>2, SumsTyped
<1>6. CountsHolders(m)
  <2>1. \A a \in Account : m.balance[a] >= l.balance[a]
    BY <1>1, <1>3, <1>4 DEF LedgerType, Address
  <2>2. m.totalHolders = l.totalHolders
    BY <1>3, <1>4 DEF SameExcept
  <2>3. CountsHolders(l)
    BY DEF Sound
  <2> QED BY <1>1, <1>4, <2>1, <2>2, <2>3, HoldersGrow
<1>7. SameExcept(m, l, {"balance"})
  BY <1>3, <1>4 DEF SameExcept
<1>8. Sound(m)
  BY <1>4, <1>5, <1>6, <1>7 DEF Sound, SameExcept
<1> QED BY <1>2, <1>3, <1>4, <1>7, <1>8

\* Issuance to an account: the total grows by the principal rounded up, the
\* account by the principal rounded down.
LEMMA IssueToAccount ==
  ASSUME NEW l, Sound(l), NEW r \in Account, NEW amount \in Nat, amount > 0
  PROVE  LET m    == MintTo(l, r, amount)
             up   == GetPrincipalAmountRoundedUp(amount, l.index)
             down == GetPrincipalAmountRoundedDown(amount, l.index)
         IN  /\ Sound(m)
             /\ SameExcept(m, l, {"balance", "principal", "supply",
                                  "totalPrincipal", "totalHolders"})
             /\ m.supply = l.supply + amount
             /\ m.totalPrincipal = l.totalPrincipal + up
             /\ m.balance = [l.balance EXCEPT ![r] = @ + amount]
             /\ m.principal = [l.principal EXCEPT ![r] = @ + down]
<1> DEFINE up   == GetPrincipalAmountRoundedUp(amount, l.index)
           down == GetPrincipalAmountRoundedDown(amount, l.index)
           h == MintCoins(l, amount)
           j == SubUnlockedCoins(h, Module, amount)
           k == IncrementTotalPrincipal(j, up)
           m == Deposit(k, r, amount, down)
<1>1. /\ l \in LedgerType /\ l.index \in Nat \ {0} /\ CountsHolders(l)
      /\ Module \in Address /\ r \in Address /\ amount \in Int
  BY DEF Sound, LedgerType, Address
<1>2. up \in Nat /\ down \in Nat /\ up \in Int /\ down \in Int /\ down <= up
  <2>1. up \in Nat
    BY <1>1, RoundedUpBounds
  <2>2. down \in Nat
    BY <1>1, RoundedDownBounds
  <2>3. down <= up
    BY <1>1, RoundedDownBelowUp
  <2> QED BY <2>1, <2>2, <2>3
<1>3. /\ h \in LedgerType
      /\ h.balance = [l.balance EXCEPT ![Module] = @ + amount]
      /\ h.supply = l.supply + amount
      /\ SameExcept(h, l, {"balance", "supply"})
  BY <1>1, MintCoinsEffect
<1>4. h.balance[Module] >= amount
  BY <1>1, <1>3 DEF LedgerType
<1>5. /\ j \in LedgerType
      /\ j.balance = [h.balance EXCEPT ![Module] = @ - amount]
      /\ SameExcept(j, h, {"balance"})
  BY <1>1, <1>3, <1>4, SubEffect
<1>6. MintTo(l, r, amount) = m
  <2>1. j.index = l.index
    BY <1>3, <1>5 DEF SameExcept
  <2>2. r # Module /\ r # Yield /\ Module # Yield /\ amount # 0
    BY AccountAssumption
  <2>3. SendRestrictionFn(j, Module, r, amount) = CreditPrincipal(k, r, down)
    BY <2>1, <2>2 DEF SendRestrictionFn
  <2> QED BY <2>3 DEF MintTo, SendCoins, Deposit
<1> HIDE DEF up, down, h, j
<1>7. /\ k \in LedgerType
      /\ k.totalPrincipal = j.totalPrincipal + up
      /\ SameExcept(k, j, {"totalPrincipal"})
  BY <1>2, <1>5, TotalPrincipalEffect
<1>8. CountsHolders(k)
  <2>1. \A a \in Account : k.balance[a] >= l.balance[a]
    BY <1>1, <1>3, <1>5, <1>7, AccountAssumption DEF LedgerType, Address, SameExcept
  <2>2. k.totalHolders = l.totalHolders
    BY <1>3, <1>5, <1>7 DEF SameExcept
  <2> QED BY <1>1, <1>7, <2>1, <2>2, HoldersGrow
<1> HIDE DEF k
<1>9. /\ m \in LedgerType
      /\ m.balance = [k.balance EXCEPT ![r] = @ + amount]
      /\ m.principal = [k.principal EXCEPT ![r] = @ + down]
      /\ SameExcept(m, k, {"balance", "principal", "totalHolders"})
      /\ CountsHolders(m)
  BY <1>2, <1>7, <1>8, DepositEffect
<1> HIDE DEF m
<1>10. SumFunction(m.balance) = SumFunction(l.balance) + amount
  <2>1. SumFunction(h.balance) = SumFunction(l.balance) + amount
    BY <1>1, <1>3, BalanceAdd
  <2>2. SumFunction(j.balance) = SumFunction(h.balance) - amount
    BY <1>1, <1>3, <1>5, BalanceSub
  <2>3. k.balance = j.balance
    BY <1>7 DEF SameExcept
  <2>4. SumFunction(m.balance) = SumFunction(k.balance) + amount
    BY <1>1, <1>7, <1>9, BalanceAdd
  <2> QED BY <1>1, <2>1, <2>2, <2>3, <2>4, SumsTyped
<1>11. SumFunction(m.principal) = SumFunction(l.principal) + down
  <2>1. k.principal = l.principal
    BY <1>3, <1>5, <1>7 DEF SameExcept
  <2> QED BY <1>2, <1>7, <1>9, <2>1, PrincipalAdd
<1>12. /\ SameExcept(m, l, {"balance", "principal", "supply",
                            "totalPrincipal", "totalHolders"})
       /\ m.supply = l.supply + amount
       /\ m.totalPrincipal = l.totalPrincipal + up
  BY <1>3, <1>5, <1>7, <1>9 DEF SameExcept
<1>13. SumFunction(m.principal) <= m.totalPrincipal
  <2>1. /\ SumFunction(l.principal) <= l.totalPrincipal
        /\ SumFunction(l.principal) \in Int /\ l.totalPrincipal \in Int
    BY <1>1, SumsTyped DEF Sound, LedgerType
  <2> QED BY <1>2, <1>11, <1>12, <2>1
<1>14. Sound(m)
  BY <1>9, <1>10, <1>12, <1>13 DEF Sound, SameExcept
<1>15. j.balance = l.balance
  BY <1>1, <1>3, <1>5 DEF LedgerType
<1>16. /\ m.balance = [l.balance EXCEPT ![r] = @ + amount]
       /\ m.principal = [l.principal EXCEPT ![r] = @ + down]
  BY <1>3, <1>5, <1>7, <1>9, <1>15 DEF SameExcept
<1> QED BY <1>6, <1>12, <1>14, <1>16 DEF up, down

\* Coins minted to the yield account come with no principal.
LEMMA IssueToYield ==
  ASSUME NEW l, Sound(l), NEW amount \in Nat
  PROVE  LET m == MintTo(l, Yield, amount)
         IN  /\ Sound(m)
             /\ SameExcept(m, l, {"balance", "supply"})
             /\ m.supply = l.supply + amount
             /\ m.balance = [l.balance EXCEPT ![Yield] = @ + amount]
<1> DEFINE h == MintCoins(l, amount)
           j == SubUnlockedCoins(h, Module, amount)
           m == AddCoins(j, Yield, amount)
<1>1. /\ l \in LedgerType /\ CountsHolders(l)
      /\ Module \in Address /\ Yield \in Address /\ Module # Yield
      /\ Module \notin Account /\ Yield \notin Account
  BY AccountAssumption DEF Sound, LedgerType, Address
<1>2. MintTo(l, Yield, amount) = m
  BY DEF MintTo, SendCoins, SendRestrictionFn
<1>3. /\ h \in LedgerType
      /\ h.balance = [l.balance EXCEPT ![Module] = @ + amount]
      /\ h.supply = l.supply + amount
      /\ SameExcept(h, l, {"balance", "supply"})
  BY <1>1, MintCoinsEffect
<1> HIDE DEF h
<1>4. h.balance[Module] >= amount
  BY <1>1, <1>3 DEF LedgerType
<1>5. /\ j \in LedgerType
      /\ j.balance = [h.balance EXCEPT ![Module] = @ - amount]
      /\ SameExcept(j, h, {"balance"})
  BY <1>1, <1>3, <1>4, SubEffect
<1> HIDE DEF j
<1>6. /\ m \in LedgerType
      /\ m.balance = [j.balance EXCEPT ![Yield] = @ + amount]
      /\ SameExcept(m, j, {"balance"})
  BY <1>1, <1>5, AddEffect
<1> HIDE DEF m
<1>7. j.balance = l.balance
  BY <1>1, <1>3, <1>5 DEF LedgerType
<1>8. SumFunction(m.balance) = SumFunction(l.balance) + amount
  <2>1. SumFunction(m.balance) = SumFunction(j.balance) + amount
    BY <1>1, <1>5, <1>6, BalanceAdd
  <2> QED BY <1>7, <2>1
<1>9. /\ SameExcept(m, l, {"balance", "supply"})
      /\ m.supply = l.supply + amount
  BY <1>3, <1>5, <1>6 DEF SameExcept
<1>10. CountsHolders(m)
  <2>1. \A a \in Account : m.balance[a] >= l.balance[a]
    BY <1>1, <1>6, <1>7 DEF LedgerType, Address
  <2>2. m.totalHolders = l.totalHolders
    BY <1>9 DEF SameExcept
  <2> QED BY <1>1, <1>6, <2>1, <2>2, HoldersGrow
<1>11. Sound(m)
  BY <1>6, <1>8, <1>9, <1>10 DEF Sound, SameExcept
<1> QED BY <1>2, <1>6, <1>7, <1>9, <1>11

\* Redemption: the account and the total lose the same principal, rounded up.
LEMMA RedeemFromAccount ==
  ASSUME NEW l, Sound(l), NEW s \in Account, NEW amount \in Nat, amount > 0,
         l.balance[s] >= amount
  PROVE  LET m  == BurnFrom(l, s, amount)
             up == GetPrincipalAmountRoundedUp(amount, l.index)
         IN  /\ Sound(m)
             /\ SameExcept(m, l, {"balance", "principal", "supply",
                                  "totalPrincipal", "totalHolders"})
             /\ m.supply = l.supply - amount
             /\ m.totalPrincipal = l.totalPrincipal - up
             /\ m.balance = [l.balance EXCEPT ![s] = @ - amount]
             /\ m.principal = [l.principal EXCEPT ![s] = @ - up]
<1> DEFINE up == GetPrincipalAmountRoundedUp(amount, l.index)
           h == Withdraw(l, s, amount, up)
           j == DecrementTotalPrincipal(h, up)
           k == AddCoins(j, Module, amount)
           m == BurnCoins(k, amount)
<1>1. /\ l \in LedgerType /\ l.index \in Nat \ {0} /\ CountsHolders(l)
      /\ Module \in Address /\ s \in Address /\ amount \in Int
      /\ Module \notin Account /\ l.balance \in [Address -> Nat]
  BY AccountAssumption DEF Sound, LedgerType, Address
<1>2. up \in Nat /\ up \in Int
  BY <1>1, RoundedUpBounds
<1>3. BurnFrom(l, s, amount) = m
  <2>1. /\ SubUnlockedCoins(l, s, amount).index = l.index
        /\ s # Module /\ s # Yield /\ Module # Yield /\ amount # 0
    BY <1>1, AccountAssumption DEF SubUnlockedCoins, LedgerType
  <2>2. SendRestrictionFn(SubUnlockedCoins(l, s, amount), s, Module, amount) = j
    BY <2>1 DEF SendRestrictionFn, Withdraw
  <2> QED BY <2>2 DEF BurnFrom, SendCoins
<1> HIDE DEF up
<1>4. /\ h \in LedgerType
      /\ h.balance = [l.balance EXCEPT ![s] = @ - amount]
      /\ h.principal = [l.principal EXCEPT ![s] = @ - up]
      /\ SameExcept(h, l, {"balance", "principal", "totalHolders"})
      /\ CountsHolders(h)
  BY <1>1, <1>2, WithdrawEffect
<1> HIDE DEF h
<1>5. /\ j \in LedgerType
      /\ j.totalPrincipal = h.totalPrincipal - up
      /\ SameExcept(j, h, {"totalPrincipal"})
  BY <1>2, <1>4, TotalPrincipalEffect
<1> HIDE DEF j
<1>6. /\ k \in LedgerType
      /\ k.balance = [j.balance EXCEPT ![Module] = @ + amount]
      /\ SameExcept(k, j, {"balance"})
  BY <1>1, <1>5, AddEffect
<1> HIDE DEF k
<1>7. k.balance[Module] >= amount /\ k.supply >= amount
  <2>1. k.balance[Module] >= amount
    BY <1>1, <1>5, <1>6 DEF LedgerType
  <2>2. l.balance[s] <= l.supply
    BY <1>1, AddressFinite, SumAboveEntry DEF Sound
  <2>3. k.supply = l.supply /\ l.supply \in Nat /\ l.balance[s] \in Nat
    BY <1>1, <1>4, <1>5, <1>6 DEF SameExcept, LedgerType
  <2> QED BY <2>1, <2>2, <2>3
<1>8. /\ m \in LedgerType
      /\ m.balance = [k.balance EXCEPT ![Module] = @ - amount]
      /\ m.supply = k.supply - amount
      /\ SameExcept(m, k, {"balance", "supply"})
  BY <1>6, <1>7, BurnCoinsEffect
<1> HIDE DEF m
<1>9. SumFunction(m.balance) = SumFunction(l.balance) - amount
  <2>1. SumFunction(h.balance) = SumFunction(l.balance) - amount
    BY <1>1, <1>4, BalanceSub
  <2>2. j.balance = h.balance
    BY <1>5 DEF SameExcept
  <2>3. SumFunction(k.balance) = SumFunction(j.balance) + amount
    BY <1>1, <1>5, <1>6, BalanceAdd
  <2>4. SumFunction(m.balance) = SumFunction(k.balance) - amount
    BY <1>1, <1>6, <1>8, BalanceSub
  <2> QED BY <1>1, <2>1, <2>2, <2>3, <2>4, SumsTyped
<1>10. SumFunction(m.principal) = SumFunction(l.principal) - up
  <2>1. m.principal = h.principal
    BY <1>5, <1>6, <1>8 DEF SameExcept
  <2>2. SumFunction(h.principal) = SumFunction(l.principal) - up
    BY <1>1, <1>2, <1>4, PrincipalSub
  <2> QED BY <2>1, <2>2
<1>11. /\ SameExcept(m, l, {"balance", "principal", "supply",
                            "totalPrincipal", "totalHolders"})
       /\ m.supply = l.supply - amount
       /\ m.totalPrincipal = l.totalPrincipal - up
  BY <1>4, <1>5, <1>6, <1>8 DEF SameExcept
<1>12. SumFunction(m.principal) <= m.totalPrincipal
  <2>1. /\ SumFunction(l.principal) <= l.totalPrincipal
        /\ SumFunction(l.principal) \in Int /\ l.totalPrincipal \in Int
    BY <1>1, SumsTyped DEF Sound, LedgerType
  <2> QED BY <1>2, <1>10, <1>11, <2>1
<1>13. CountsHolders(m)
  <2>1. m.totalHolders = h.totalHolders
    BY <1>5, <1>6, <1>8 DEF SameExcept
  <2>2. \A a \in Account : m.balance[a] >= h.balance[a]
    BY <1>1, <1>4, <1>5, <1>6, <1>8 DEF LedgerType, Address, SameExcept
  <2> QED BY <1>4, <1>8, <2>1, <2>2, HoldersGrow
<1>14. Sound(m)
  BY <1>8, <1>9, <1>11, <1>12, <1>13 DEF Sound, SameExcept
<1>15. m.balance = j.balance
  BY <1>1, <1>5, <1>6, <1>8 DEF LedgerType
<1>16. /\ m.balance = [l.balance EXCEPT ![s] = @ - amount]
       /\ m.principal = [l.principal EXCEPT ![s] = @ - up]
  BY <1>4, <1>5, <1>6, <1>8, <1>15 DEF SameExcept
<1> QED BY <1>3, <1>11, <1>14, <1>16 DEF up

\* Accrual at a higher index, when the code does not panic: the supply becomes
\* the present value of the total principal, which is then not negative.
LEMMA Accrual ==
  ASSUME NEW l, Sound(l), NEW index \in Int, index > l.index,
         SupplyShortfall(l, index) >= 0
  PROVE  LET m == AccrueYield(l, index)
         IN  /\ Sound(m)
             /\ SameExcept(m, l, {"index", "balance", "supply", "totalYieldAccrued"})
             /\ m.index = index
             /\ m.supply = GetPresentAmount(l.totalPrincipal, index)
             /\ m.totalPrincipal >= 0
             /\ m.supply * Scale <= m.totalPrincipal * m.index
             /\ m.supply >= l.supply
             /\ m.totalYieldAccrued = l.totalYieldAccrued + (m.supply - l.supply)
             /\ m.balance = [l.balance EXCEPT ![Yield] = @ + (m.supply - l.supply)]
<1> DEFINE yield == SupplyShortfall(l, index)
           h == [l EXCEPT !.index = index]
           j == MintTo(h, Yield, yield)
           m == IncrementTotalYieldAccrued(j, yield)
           present == GetPresentAmount(l.totalPrincipal, index)
<1>1. /\ l \in LedgerType /\ l.index >= Scale /\ l.index \in Nat
      /\ l.totalPrincipal \in Int /\ l.supply \in Nat
      /\ l.balance \in [Address -> Nat]
      /\ Yield \in Address /\ Yield \notin Account
  BY AccountAssumption DEF Sound, LedgerType, Address
<1>2. index \in Nat \ {0} /\ index \in Nat /\ index >= Scale
  BY <1>1, ScaleAssumption
<1>3. present \in Int /\ yield = present - l.supply
  BY <1>1, <1>2, PresentType DEF SupplyShortfall
<1> HIDE DEF present, yield
<1>4. yield \in Nat /\ present >= 0 /\ present \in Nat
  BY <1>1, <1>3 DEF yield
<1>5. l.totalPrincipal >= 0
  <2> SUFFICES ASSUME l.totalPrincipal < 0 PROVE FALSE
    BY <1>1
  <2>1. present < 0
    BY <1>1, <1>2, PresentOfNegative DEF present
  <2> QED BY <2>1, <1>4
<1>6. present * Scale <= l.totalPrincipal * index
  <2>1. l.totalPrincipal \in Nat
    BY <1>1, <1>5
  <2>2. Scale * present <= l.totalPrincipal * index
    BY <1>2, <2>1, PresentOfNat DEF present
  <2>3. Scale * present = present * Scale
    BY <1>4, ScaleAssumption
  <2> QED BY <2>2, <2>3
<1>7. /\ h \in LedgerType
      /\ h.index = index
      /\ SameExcept(h, l, {"index"})
  BY <1>1, <1>2 DEF LedgerType, SameExcept
<1> HIDE DEF h
<1>8. Sound(h)
  <2>1. HoldersOf(h) = HoldersOf(l)
    BY <1>7 DEF HoldersOf, SameExcept
  <2> QED BY <1>2, <1>7, <2>1 DEF Sound, CountsHolders, SameExcept
<1>9. CASE yield > 0
  <2>1. AccrueYield(l, index) = m
    BY <1>9 DEF AccrueYield, MintTo, yield, h
  <2>2. /\ Sound(j)
        /\ SameExcept(j, h, {"balance", "supply"})
        /\ j.supply = h.supply + yield
        /\ j.balance = [h.balance EXCEPT ![Yield] = @ + yield]
    BY <1>4, <1>8, IssueToYield
  <2> HIDE DEF j
  <2>3. j \in LedgerType
    BY <2>2 DEF Sound
  <2>4. /\ m \in LedgerType
        /\ SameExcept(m, j, {"totalYieldAccrued"})
        /\ m.totalYieldAccrued = j.totalYieldAccrued + yield
    BY <1>4, <2>3 DEF IncrementTotalYieldAccrued, LedgerType, SameExcept
  <2> HIDE DEF m
  <2>5. Sound(m)
    <3>1. HoldersOf(m) = HoldersOf(j)
      BY <2>4 DEF HoldersOf, SameExcept
    <3> QED BY <2>2, <2>4, <3>1 DEF Sound, CountsHolders, SameExcept
  <2>6. /\ SameExcept(m, l, {"index", "balance", "supply", "totalYieldAccrued"})
        /\ m.index = index
        /\ m.totalPrincipal = l.totalPrincipal
    BY <1>7, <2>2, <2>4 DEF SameExcept
  <2>7. m.supply = present
    <3>1. m.supply = l.supply + yield
      BY <1>7, <2>2, <2>4 DEF SameExcept
    <3> QED BY <1>1, <1>3, <3>1
  <2>8. /\ m.totalYieldAccrued = l.totalYieldAccrued + yield
        /\ m.balance = [l.balance EXCEPT ![Yield] = @ + yield]
    BY <1>7, <2>2, <2>4 DEF SameExcept
  <2>9. yield = m.supply - l.supply /\ m.supply >= l.supply
    BY <1>1, <1>3, <1>4, <2>7
  <2> QED BY <1>5, <1>6, <2>1, <2>5, <2>6, <2>7, <2>8, <2>9 DEF present
<1>10. CASE yield = 0
  <2>1. AccrueYield(l, index) = h
    BY <1>10 DEF AccrueYield, yield, h
  <2>2. h.supply = present
    BY <1>1, <1>3, <1>7, <1>10 DEF SameExcept
  <2>3. /\ SameExcept(h, l, {"index", "balance", "supply", "totalYieldAccrued"})
        /\ h.totalPrincipal = l.totalPrincipal
        /\ h.balance = l.balance
    BY <1>7 DEF SameExcept
  <2>4. h.supply = l.supply /\ h.supply - l.supply = 0 /\ l.supply >= l.supply
    BY <1>1, <1>7 DEF SameExcept
  <2>5. l.balance = [l.balance EXCEPT ![Yield] = @ + 0]
    BY <1>1
  <2>6. h.totalYieldAccrued = l.totalYieldAccrued + 0
    BY <1>1, <1>7 DEF SameExcept, LedgerType
  <2> QED BY <1>5, <1>6, <1>7, <1>8, <2>1, <2>2, <2>3, <2>4, <2>5, <2>6 DEF present
<1> QED BY <1>4, <1>9, <1>10
=============================================================================
