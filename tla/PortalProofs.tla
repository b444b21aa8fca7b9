---------------------------- MODULE PortalProofs ----------------------------
(***************************************************************************)
(* Theorems about Portal, for every set of accounts, chains, contracts,    *)
(* amounts, indices and VAAs.  Every step of the portal is a step of Token *)
(* or leaves it alone, so Token's invariant carries over; the portal's own *)
(* invariant says what its configuration, its nonce and the two logs of    *)
(* messages have to do with each other and with the ledger.  The last part *)
(* shows that the portal implements the ideal dollar.                      *)
(***************************************************************************)
EXTENDS Portal, TokenProofs, SequenceTheorems

\* SetPeer never lets Noble be its own peer.
OwnChainUnpeered == ThisChain \notin DOMAIN portalPeers

\* The nonce counts the posted messages, and each message carries its count,
\* both as a uint32.
NonceCounts ==
    /\ portalNonce = Len(posted) % NonceModulus
    /\ \A i \in DOMAIN posted : posted[i].nonce = (i - 1) % NonceModulus

\* What keeps Noble's own messages in order and out.
WireInv == OwnChainUnpeered /\ NoSelfDelivery /\ NonceCounts /\ PostedIndicesOrdered

\* The inductive invariant.
PortalInv ==
    /\ Inv
    /\ PortalTypeOK
    /\ WireInv
    /\ SupplyAccounted

-----------------------------------------------------------------------------
(* Arithmetic of the nonce. *)

\* A number below the modulus is its own remainder.
LEMMA ModSmall ==
  ASSUME NEW a \in Nat, NEW k \in Nat \ {0}, a < k
  PROVE  a % k = a
OBVIOUS

\* Remainders are below the modulus.
LEMMA ModRange ==
  ASSUME NEW a \in Nat, NEW k \in Nat \ {0}
  PROVE  a % k \in 0 .. k - 1
OBVIOUS

\* Counting on from a remainder counts on from the number.
LEMMA ModNext ==
  ASSUME NEW a \in Nat, NEW k \in Nat \ {0}
  PROVE  ((a % k) + 1) % k = (a + 1) % k
<1> DEFINE q == a \div k
           r == a % k
<1>1. q \in Nat /\ r \in 0 .. k - 1 /\ a = k * q + r
  OBVIOUS
<1> HIDE DEF q, r
<1>2. CASE r + 1 < k
  <2>1. (r + 1) % k = r + 1
    BY <1>1, <1>2
  <2>2. a + 1 = k * q + (r + 1)
    BY <1>1
  <2>3. (a + 1) % k = r + 1
    BY <1>1, <1>2, <2>2
  <2> QED BY <2>1, <2>3 DEF r
<1>3. CASE r + 1 = k
  <2>1. (r + 1) % k = 0
    BY <1>1, <1>3
  <2>2. a + 1 = k * (q + 1)
    BY <1>1, <1>3
  <2>3. (a + 1) % k = 0
    BY <1>1, <2>2
  <2> QED BY <2>1, <2>3 DEF r
<1> QED BY <1>1, <1>2, <1>3

-----------------------------------------------------------------------------
(* The ledger. *)

\* What a VAA carries.
LEMMA VaaTyped ==
  ASSUME NEW vaa \in Vaa
  PROVE  /\ vaa.emitterChain \in ChainId
         /\ vaa.payload \in Payload
         /\ vaa.payload.type \in {"token", "index", "unknown"}
         /\ vaa.payload.type = "token" =>
                /\ vaa.payload.recipient \in Account \cup {Yield}
                /\ vaa.payload.amount \in Amounts
                /\ vaa.payload.index \in Indices
         /\ vaa.payload.type = "index" => vaa.payload.index \in Indices
<1>1. vaa.emitterChain \in ChainId /\ vaa.payload \in Payload
  BY PortalAssumption
<1> DEFINE payload == vaa.payload
<1>2. payload \in Payload
  BY <1>1
<1> HIDE DEF payload
<1>3. CASE payload \in [type : {"token"}, recipient : Account \cup {Yield}, amount : Amounts,
                        index : Indices, chain : ChainId, token : RemoteToken \cup {RawToken}]
  BY <1>1, <1>3 DEF payload
<1>4. CASE payload \in [type : {"index"}, index : Indices, chain : ChainId]
  BY <1>1, <1>4 DEF payload
<1>5. CASE payload \in [type : {"unknown"}]
  BY <1>1, <1>5 DEF payload
<1> QED BY <1>2, <1>3, <1>4, <1>5 DEF Payload

\* A delivery is a Mint, an UpdateIndex, or nothing.
LEMMA DeliverCases ==
  ASSUME NEW vaa \in Vaa, HandlePayload(vaa.payload)
  PROVE  \/ /\ vaa.payload.type = "token"
            /\ vaa.payload.recipient \in Account \cup {Yield}
            /\ vaa.payload.amount \in Amounts
            /\ vaa.payload.index \in Indices
            /\ Mint(vaa.payload.recipient, vaa.payload.amount, vaa.payload.index)
         \/ /\ vaa.payload.type # "token"
            /\ vaa.payload.index \in Indices
            /\ UpdateIndex(vaa.payload.index)
         \/ /\ vaa.payload.type # "token"
            /\ UNCHANGED vars
BY VaaTyped DEF HandlePayload

\* Every step of the portal is a step of Token, or leaves Token alone.
LEMMA PortalStepIsTokenStep == [PortalNext]_allVars => [Next]_vars
<1>1. ASSUME NEW vaa \in Vaa, Deliver(vaa)
      PROVE  [Next]_vars
  <2>1. HandlePayload(vaa.payload)
    BY <1>1 DEF Deliver
  <2> QED BY <2>1, DeliverCases DEF Next
<1>2. ASSUME NEW sender \in Signer, NEW amount \in Amounts,
             NEW chain \in ChainId, NEW token \in RemoteToken,
             PortalTransfer(sender, amount, chain, token)
      PROVE  [Next]_vars
  BY <1>2 DEF PortalTransfer, Next
<1>3. CASE Administration
  BY <1>3 DEF Administration, PortalSetPausedState, SetPeer, SetBridgingPath,
              TransferOwnership
<1>4. CASE LocalStep
  BY <1>4 DEF LocalStep, Next
<1>5. CASE UNCHANGED allVars
  BY <1>5 DEF allVars
<1> QED BY <1>1, <1>2, <1>3, <1>4, <1>5 DEF PortalNext

\* What Mint issues is the amount and the yield of the index update, even one
\* that failed halfway.
LEMMA MintAccounted ==
  ASSUME Inv, NEW r \in Account \cup {Yield}, NEW n \in Amounts,
         NEW i \in Indices, Mint(r, n, i)
  PROVE  ledger'.supply + ledger.totalYieldAccrued
             = ledger.supply + ledger'.totalYieldAccrued + n
<1> DEFINE k == UpdateIndexResult(ledger, i).ledger
<1>1. /\ Sound(ledger)
      /\ UpdateIndexResult(ledger, i).status # "panic"
      /\ ledger' = MintTo(k, r, n)
      /\ n \in Nat /\ n > 0 /\ i \in Int
  BY TokenAssumption DEF Mint, MintSucceeds, Inv
<1>2. Sound(k) /\ PaysYieldOnly(k, ledger)
  BY <1>1, UpdateIndexEffect
<1>3. /\ Sound(ledger')
      /\ ledger'.index = k.index /\ ledger'.index >= ledger.index
      /\ ledger'.balance = [k.balance EXCEPT ![r] = @ + n]
      /\ ledger'.supply = k.supply + n
      /\ ledger'.totalYieldAccrued = k.totalYieldAccrued
      /\ \A a \in Account : ledger'.principal[a] >= k.principal[a]
  BY <1>1, MintEffect
<1> HIDE DEF k
<1>4. /\ ledger.supply \in Nat /\ ledger.totalYieldAccrued \in Nat
      /\ k.supply \in Nat /\ k.totalYieldAccrued \in Nat
  BY <1>1, <1>2 DEF Sound, LedgerType
<1>5. k.supply - ledger.supply = k.totalYieldAccrued - ledger.totalYieldAccrued
  BY <1>2 DEF PaysYieldOnly
<1> QED BY <1>1, <1>3, <1>4, <1>5

\* An index update issues yield only.
LEMMA UpdateIndexAccounted ==
  ASSUME Inv, NEW i \in Indices, UpdateIndex(i)
  PROVE  ledger'.supply + ledger.totalYieldAccrued
             = ledger.supply + ledger'.totalYieldAccrued
<1> DEFINE k == UpdateIndexResult(ledger, i).ledger
<1>1. /\ Sound(ledger)
      /\ UpdateIndexResult(ledger, i).status = "ok"
      /\ ledger' = k
      /\ i \in Int
  BY TokenAssumption DEF UpdateIndex, Inv
<1>2. Sound(k) /\ PaysYieldOnly(k, ledger)
  BY <1>1, UpdateIndexEffect
<1> HIDE DEF k
<1>3. /\ ledger.supply \in Nat /\ ledger.totalYieldAccrued \in Nat
      /\ k.supply \in Nat /\ k.totalYieldAccrued \in Nat
  BY <1>1, <1>2 DEF Sound, LedgerType
<1> QED BY <1>1, <1>2, <1>3 DEF PaysYieldOnly

\* A burn issues nothing, and destroys the amount.
LEMMA BurnAccounted ==
  ASSUME Inv, NEW s \in Signer, NEW n \in Amounts, Burn(s, n)
  PROVE  /\ ledger'.supply = ledger.supply - n
         /\ ledger'.totalYieldAccrued = ledger.totalYieldAccrued
         /\ ledger'.index = ledger.index
         /\ ledger'.balance = [ledger.balance EXCEPT ![s] = @ - n]
<1> DEFINE up == GetPrincipalAmountRoundedUp(n, ledger.index)
<1>1. /\ s \in Account /\ n \in Nat /\ n > 0
      /\ ledger.balance[s] >= n
      /\ ledger' = BurnFrom(ledger, s, n)
      /\ Sound(ledger)
  BY TokenAssumption DEF Burn, CanSend, Signer, Inv
<1>2. /\ Sound(ledger')
      /\ SameExcept(ledger', ledger, {"balance", "principal", "supply",
                                      "totalPrincipal", "totalHolders"})
      /\ ledger'.supply = ledger.supply - n
      /\ ledger'.totalPrincipal = ledger.totalPrincipal - up
      /\ ledger'.balance = [ledger.balance EXCEPT ![s] = @ - n]
      /\ ledger'.principal = [ledger.principal EXCEPT ![s] = @ - up]
  BY <1>1, RedeemFromAccount
<1> QED BY <1>2 DEF SameExcept

\* What does not go through the portal issues nothing and leaves the index alone.
LEMMA LocalStepEffect ==
  ASSUME Inv, LocalStep
  PROVE  /\ ledger'.supply = ledger.supply
         /\ ledger'.totalYieldAccrued = ledger.totalYieldAccrued
         /\ ledger'.index = ledger.index
<1>1. Sound(ledger) /\ ledger \in LedgerType
  BY DEF Inv, Sound
<1>2. ASSUME NEW s \in Account, NEW r \in Account, NEW n \in Amounts,
             Transfer(s, r, n)
      PROVE  SameExcept(ledger', ledger, {"balance", "principal", "totalHolders"})
  <2>1. /\ n \in Nat /\ n > 0
        /\ ledger.balance[s] >= n
        /\ ledger' = SendCoins(ledger, s, r, n)
    BY <1>2, TokenAssumption DEF Transfer, CanSend
  <2> QED BY <1>1, <2>1, SendBetweenAccounts
<1>3. ASSUME NEW a \in Signer, ClaimYield(a)
      PROVE  SameExcept(ledger', ledger, {"balance"})
  <2> DEFINE y == GetYield(ledger, a)
  <2>1. /\ a \in Account
        /\ ledger.balance[Yield] >= y
        /\ ledger' = SendCoins(ledger, Yield, a, y)
    BY <1>3 DEF ClaimYield, CanSend, Signer
  <2>2. y \in Nat
    BY <1>1, <2>1, YieldType
  <2> HIDE DEF y
  <2> QED BY <1>1, <2>1, <2>2, SendYield
<1>4. ASSUME NEW p \in BOOLEAN, SetPausedState(p)
      PROVE  ledger' = ledger
  BY <1>4 DEF SetPausedState
<1> QED BY <1>2, <1>3, <1>4 DEF LocalStep, SameExcept

-----------------------------------------------------------------------------
(* The two logs of messages. *)

Message == [nonce : Nat, index : Nat, amount : Amounts, chain : ChainId,
            token : RemoteToken, manager : Contract]

\* What posted messages took, and what accepted VAAs brought.
Sent(messages) == SumFunction([i \in DOMAIN messages |-> messages[i].amount])

Received(vaas) == SumFunction([vaa \in vaas |-> Issued(vaa)])

\* What posted messages carry.
LEMMA MessagesTyped ==
  ASSUME NEW messages \in Seq(Message)
  PROVE  /\ Len(messages) \in Nat
         /\ DOMAIN messages = 1 .. Len(messages)
         /\ \A j \in DOMAIN messages :
                /\ messages[j] \in Message
                /\ messages[j].nonce \in Nat
                /\ messages[j].index \in Nat
                /\ messages[j].amount \in Amounts
<1>1. /\ Len(messages) \in Nat
      /\ DOMAIN messages = 1 .. Len(messages)
      /\ \A j \in DOMAIN messages : messages[j] \in Message
  OBVIOUS
<1>2. \A y \in Message : y.nonce \in Nat /\ y.index \in Nat /\ y.amount \in Amounts
  BY DEF Message
<1> QED BY <1>1, <1>2

\* A posted message is counted once.
LEMMA SentAppend ==
  ASSUME NEW messages \in Seq(Message), NEW x \in Message
  PROVE  /\ Sent(messages) \in Int
         /\ Sent(Append(messages, x)) = Sent(messages) + x.amount
<1> DEFINE n == Len(messages)
           longer == Append(messages, x)
           f == [i \in DOMAIN messages |-> messages[i].amount]
           h == [i \in DOMAIN longer |-> longer[i].amount]
<1>1. /\ n \in Nat /\ DOMAIN messages = 1 .. n
      /\ DOMAIN longer = 1 .. n + 1
      /\ \A i \in 1 .. n : longer[i] = messages[i]
      /\ longer[n + 1] = x
  BY SMTT(30)
<1>2. \A i \in 1 .. n : messages[i] \in Message
  BY <1>1
<1>3. \A y \in Message : y.amount \in Int
  <2>1. \A y \in Message : y.amount \in Amounts
    BY DEF Message
  <2>2. \A a \in Amounts : a \in Int
    BY TokenAssumption
  <2> QED BY <2>1, <2>2
<1> HIDE DEF n, longer
<1>4. f \in [1 .. n -> Int]
  BY <1>1, <1>2, <1>3
<1>5. /\ h \in [1 .. n + 1 -> Int]
      /\ \A i \in 1 .. n : h[i] = f[i]
      /\ h[n + 1] = x.amount
  BY <1>1, <1>2, <1>3
<1>6. IsFiniteSet(1 .. n)
  BY <1>1, FS_Interval
<1> HIDE DEF f, h
<1>7. SumFunction(h) = SumFunction(f) + h[n + 1]
  BY <1>1, <1>4, <1>5, SumNextEntry
<1>8. SumFunction(f) \in Int
  BY <1>4, <1>6, SumType
<1> QED BY <1>5, <1>7, <1>8 DEF Sent, f, h, longer

\* What posted messages took is a number.
LEMMA SentType ==
  ASSUME NEW messages \in Seq(Message)
  PROVE  Sent(messages) \in Int
<1> DEFINE f == [i \in DOMAIN messages |-> messages[i].amount]
<1>1. /\ DOMAIN messages = 1 .. Len(messages) /\ Len(messages) \in Nat
      /\ \A i \in DOMAIN messages : messages[i] \in Message
  OBVIOUS
<1>2. \A y \in Message : y.amount \in Amounts
  BY DEF Message
<1>3. \A a \in Amounts : a \in Int
  BY TokenAssumption
<1>4. f \in [DOMAIN messages -> Int]
  BY <1>1, <1>2, <1>3
<1>5. IsFiniteSet(DOMAIN messages)
  BY <1>1, FS_Interval
<1> HIDE DEF f
<1>6. SumFunction(f) \in Int
  BY <1>4, <1>5, SumType
<1> QED BY <1>6 DEF Sent, f

\* What a VAA issues is a number.
LEMMA IssuedType ==
  ASSUME NEW vaa \in Vaa
  PROVE  Issued(vaa) \in Int
<1>1. vaa.payload.type = "token" => vaa.payload.amount \in Amounts
  BY VaaTyped
<1>2. \A a \in Amounts : a \in Int
  BY TokenAssumption
<1> QED BY <1>1, <1>2 DEF Issued

\* An accepted VAA is counted once.
LEMMA ReceivedAccept ==
  ASSUME NEW vaas \in SUBSET Vaa, NEW vaa \in Vaa, vaa \notin vaas
  PROVE  /\ Received(vaas) \in Int
         /\ Received(vaas \cup {vaa}) = Received(vaas) + Issued(vaa)
<1> DEFINE f == [v \in vaas |-> Issued(v)]
           h == [v \in vaas \cup {vaa} |-> Issued(v)]
<1>1. \A v \in Vaa : Issued(v) \in Int
  BY IssuedType
<1>2. IsFiniteSet(vaas)
  BY PortalAssumption, FS_Subset
<1>3. /\ f \in [vaas -> Int]
      /\ h \in [vaas \cup {vaa} -> Int]
      /\ \A v \in vaas : h[v] = f[v]
      /\ h[vaa] = Issued(vaa)
  BY <1>1
<1> HIDE DEF f, h
<1>4. SumFunction(h) = SumFunction(f) + h[vaa]
  BY <1>2, <1>3, SumExtend
<1>5. SumFunction(f) \in Int
  BY <1>2, <1>3, SumType
<1> QED BY <1>3, <1>4, <1>5 DEF Received, f, h

\* What accepted VAAs brought is a number.
LEMMA ReceivedType ==
  ASSUME NEW vaas \in SUBSET Vaa
  PROVE  Received(vaas) \in Int
<1> DEFINE f == [v \in vaas |-> Issued(v)]
<1>1. IsFiniteSet(vaas) /\ f \in [vaas -> Int]
  BY PortalAssumption, FS_Subset, IssuedType
<1> HIDE DEF f
<1>2. SumFunction(f) \in Int
  BY <1>1, SumType
<1> QED BY <1>2 DEF Received, f

\* Nothing was sent or received at genesis.
LEMMA NothingSent == Sent(<<>>) = 0 /\ Received({}) = 0
<1> DEFINE f == [i \in DOMAIN <<>> |-> <<>>[i].amount]
           g == [vaa \in {} |-> Issued(vaa)]
<1>1. DOMAIN <<>> = {}
  OBVIOUS
<1>2. f \in [{} -> Int] /\ g \in [{} -> Int]
  BY <1>1
<1>3. IsFiniteSet({})
  BY FS_EmptySet
<1> HIDE DEF f, g
<1>4. SumFunction(f) = 0 /\ SumFunction(g) = 0
  BY <1>2, <1>3, SumZero
<1> QED BY <1>4 DEF Sent, Received, f, g

-----------------------------------------------------------------------------
(* Nonces and indices in order. *)

\* A step that posts nothing and accepts only what comes from a peer keeps them, as
\* long as Noble is not made its own peer and the index does not fall.
LEMMA WireKept ==
  ASSUME WireInv, posted \in Seq(Message), OwnChainUnpeered', UNCHANGED <<portalNonce, posted>>,
         ledger.index \in Nat, ledger'.index \in Nat, ledger'.index >= ledger.index,
         \A vaa \in archive' : vaa \in archive \/ vaa.emitterChain \in DOMAIN portalPeers
  PROVE  WireInv'
<1>1. NoSelfDelivery'
  BY DEF WireInv, OwnChainUnpeered, NoSelfDelivery
<1>2. NonceCounts'
  BY DEF WireInv, NonceCounts
<1>3. PostedIndicesOrdered'
  <2>1. \A j \in DOMAIN posted : posted[j].index \in Nat
    BY MessagesTyped
  <2>2. \A j \in DOMAIN posted : posted[j].index <= ledger.index
    BY DEF WireInv, PostedIndicesOrdered
  <2>3. \A j \in DOMAIN posted : posted[j].index <= ledger'.index
    BY <2>1, <2>2
  <2>4. \A j \in DOMAIN posted : \A i \in 1 .. j : posted[i].index <= posted[j].index
    BY DEF WireInv, PostedIndicesOrdered
  <2> QED BY <2>3, <2>4 DEF PostedIndicesOrdered
<1> QED BY <1>1, <1>2, <1>3 DEF WireInv

\* So does posting a message with the nonce and the index of the moment.
LEMMA WirePosts ==
  ASSUME WireInv, posted \in Seq(Message), NEW x \in Message,
         x.nonce = portalNonce, x.index = ledger.index, ledger.index \in Nat,
         ledger'.index = ledger.index, portalNonce' = (portalNonce + 1) % NonceModulus,
         posted' = Append(posted, x), UNCHANGED <<portalPeers, archive>>
  PROVE  WireInv'
<1> DEFINE n == Len(posted)
<1>1. /\ n \in Nat /\ DOMAIN posted = 1 .. n
      /\ \A i \in 1 .. n : posted[i].index \in Nat
  BY MessagesTyped
<1>2. /\ Len(posted') = n + 1 /\ DOMAIN posted' = 1 .. n + 1
      /\ \A i \in 1 .. n : posted'[i] = posted[i]
      /\ posted'[n + 1] = x
  <2> DEFINE longer == Append(posted, x)
  <2>1. /\ Len(longer) = n + 1 /\ DOMAIN longer = 1 .. n + 1
        /\ \A i \in 1 .. n : longer[i] = posted[i]
        /\ longer[n + 1] = x
    BY <1>1, SMTT(30)
  <2> QED BY <2>1
<1> HIDE DEF n
<1>3. OwnChainUnpeered' /\ NoSelfDelivery'
  BY DEF WireInv, OwnChainUnpeered, NoSelfDelivery
<1>4. NonceCounts'
  <2>1. /\ portalNonce = n % NonceModulus
        /\ \A i \in 1 .. n : posted[i].nonce = (i - 1) % NonceModulus
    BY <1>1 DEF WireInv, NonceCounts, n
  <2>2. portalNonce' = (n + 1) % NonceModulus
    BY <1>1, <2>1, PortalAssumption, ModNext
  <2>3. \A i \in 1 .. n + 1 : posted'[i].nonce = (i - 1) % NonceModulus
    <3> TAKE i \in 1 .. n + 1
    <3>1. CASE i \in 1 .. n
      BY <1>2, <2>1, <3>1
    <3>2. CASE i = n + 1
      <4>1. posted'[i].nonce = n % NonceModulus
        BY <1>2, <2>1, <3>2
      <4>2. i - 1 = n
        BY <1>1, <3>2
      <4> QED BY <4>1, <4>2
    <3> QED BY <1>1, <3>1, <3>2
  <2> QED BY <1>2, <2>2, <2>3 DEF NonceCounts
<1>5. PostedIndicesOrdered'
  <2>1. /\ \A j \in 1 .. n : posted[j].index <= ledger.index
        /\ \A j \in 1 .. n : \A i \in 1 .. j : posted[i].index <= posted[j].index
    BY <1>1 DEF WireInv, PostedIndicesOrdered
  <2>2. \A j \in 1 .. n + 1 : posted'[j].index <= ledger'.index
    BY <1>1, <1>2, <2>1
  <2>3. \A j \in 1 .. n + 1 : \A i \in 1 .. j : posted'[i].index <= posted'[j].index
    <3> TAKE j \in 1 .. n + 1
    <3> TAKE i \in 1 .. j
    <3>1. CASE j \in 1 .. n
      <4>1. i \in 1 .. n
        BY <1>1, <3>1
      <4> QED BY <1>2, <2>1, <3>1, <4>1
    <3>2. CASE j = n + 1
      <4>1. posted'[j].index = ledger'.index
        BY <1>2, <3>2
      <4>2. i \in 1 .. n + 1
        BY <3>2
      <4> QED BY <2>2, <4>1, <4>2
    <3> QED BY <1>1, <3>1, <3>2
  <2> QED BY <1>2, <2>2, <2>3 DEF PostedIndicesOrdered
<1> QED BY <1>3, <1>4, <1>5 DEF WireInv

\* A portal that has neither posted nor accepted anything.
LEMMA WireStarts ==
  ASSUME PortalGenesis
  PROVE  WireInv
<1>1. portalPeers = <<>> /\ portalNonce = 0 /\ archive = {} /\ posted = <<>>
  BY DEF PortalGenesis
<1>2. DOMAIN portalPeers = {} /\ DOMAIN posted = {} /\ Len(posted) = 0
  BY <1>1
<1>3. 0 % NonceModulus = 0
  BY PortalAssumption, ModSmall
<1> QED BY <1>1, <1>2, <1>3
        DEF WireInv, OwnChainUnpeered, NoSelfDelivery, NonceCounts, PostedIndicesOrdered

\* Counts below the modulus are told apart.
LEMMA NoncesApart ==
  ASSUME NonceCounts, posted \in Seq(Message)
  PROVE  NoncesFresh
<1> SUFFICES ASSUME Len(posted) <= NonceModulus,
                    NEW i \in DOMAIN posted, NEW j \in DOMAIN posted,
                    posted[i].nonce = posted[j].nonce
             PROVE  i = j
  BY DEF NoncesFresh
<1>1. Len(posted) \in Nat /\ DOMAIN posted = 1 .. Len(posted)
  BY MessagesTyped
<1>2. /\ i - 1 \in Nat /\ i - 1 < NonceModulus
      /\ j - 1 \in Nat /\ j - 1 < NonceModulus
      /\ NonceModulus \in Nat \ {0}
  BY <1>1, PortalAssumption
<1>3. (i - 1) % NonceModulus = (j - 1) % NonceModulus
  BY DEF NonceCounts
<1>4. (i - 1) % NonceModulus = i - 1 /\ (j - 1) % NonceModulus = j - 1
  BY <1>2, ModSmall
<1> QED BY <1>1, <1>3, <1>4

-----------------------------------------------------------------------------
(* The invariant. *)

\* The genesis state satisfies the invariant.
LEMMA PortalInitInv == PortalInit => PortalInv
<1> SUFFICES ASSUME PortalInit PROVE PortalInv
  OBVIOUS
<1>1. Inv
  BY InitInv DEF PortalInit
<1>2. /\ portalPaused = FALSE /\ portalOwner \in Signer \cup {NoOwner}
      /\ portalPeers = <<>> /\ portalBridgingPaths = <<>>
      /\ portalNonce = 0 /\ archive = {} /\ posted = <<>>
  BY DEF PortalInit, PortalGenesis
<1>3. NonceModulus \in Nat \ {0}
  BY PortalAssumption
<1>4. DOMAIN portalPeers = {} /\ DOMAIN portalBridgingPaths = {}
  BY <1>2
<1>5. posted \in Seq(Message)
  BY <1>2
<1>6. PortalTypeOK
  <2>1. TypeOK
    BY <1>1 DEF Inv
  <2>2. portalNonce \in 0 .. NonceModulus - 1
    BY <1>2, <1>3
  <2>3. portalPaused \in BOOLEAN /\ portalOwner \in Account \cup {NoOwner}
    BY <1>2 DEF Signer
  <2> QED BY <1>2, <1>4, <1>5, <2>1, <2>2, <2>3 DEF PortalTypeOK, Message
<1>7. WireInv
  BY WireStarts DEF PortalInit
<1>8. SupplyAccounted
  <2>1. ledger.supply = 0 /\ ledger.totalYieldAccrued = 0
    BY DEF PortalInit, Init, EmptyLedger
  <2>2. Sent(posted) = 0 /\ Received(archive) = 0
    BY <1>2, NothingSent
  <2> QED BY <2>1, <2>2 DEF SupplyAccounted, Sent, Received
<1> QED BY <1>1, <1>6, <1>7, <1>8 DEF PortalInv

\* Administration and the steps of Token that do not go through the portal keep
\* both logs, the nonce and, for the former, the ledger.
LEMMA AdministrationInv ==
  ASSUME PortalInv, Administration
  PROVE  PortalInv'
<1>1. UNCHANGED <<vars, portalNonce, archive, posted>>
  BY DEF Administration, PortalSetPausedState, SetPeer, SetBridgingPath,
         TransferOwnership
<1>2. Inv'
  BY <1>1, NextInv DEF PortalInv
<1>3. /\ WireInv /\ posted \in Seq(Message)
      /\ ledger.index \in Nat /\ ledger'.index \in Nat /\ ledger'.index >= ledger.index
  BY <1>1, <1>2 DEF PortalInv, PortalTypeOK, Message, vars, Inv, TypeOK, LedgerType
<1>4. SupplyAccounted'
  BY <1>1 DEF PortalInv, SupplyAccounted, vars
<1>5. /\ portalPaused \in BOOLEAN /\ portalOwner \in Account \cup {NoOwner}
      /\ DOMAIN portalPeers \subseteq ChainId
      /\ \A c \in DOMAIN portalPeers : portalPeers[c] \in Peer
      /\ DOMAIN portalBridgingPaths \subseteq ChainId \X RemoteToken
      /\ \A p \in DOMAIN portalBridgingPaths : portalBridgingPaths[p] \in BOOLEAN
      /\ ThisChain \notin DOMAIN portalPeers
  BY DEF PortalInv, PortalTypeOK, WireInv, OwnChainUnpeered
<1> DEFINE Config == /\ portalPaused \in BOOLEAN /\ portalOwner \in Account \cup {NoOwner}
                     /\ DOMAIN portalPeers \subseteq ChainId
                     /\ \A c \in DOMAIN portalPeers : portalPeers[c] \in Peer
                     /\ DOMAIN portalBridgingPaths \subseteq ChainId \X RemoteToken
                     /\ \A p \in DOMAIN portalBridgingPaths : portalBridgingPaths[p] \in BOOLEAN
                     /\ ThisChain \notin DOMAIN portalPeers
<1>6. ASSUME NEW signer \in Signer, NEW pause \in BOOLEAN,
             PortalSetPausedState(signer, pause)
      PROVE  Config'
  BY <1>5, <1>6 DEF PortalSetPausedState
<1>7. ASSUME NEW signer \in Signer, NEW chain \in ChainId,
             NEW transceiver \in Contract \cup {NoContract},
             NEW manager \in Contract \cup {NoContract},
             SetPeer(signer, chain, transceiver, manager)
      PROVE  Config'
  <2> DEFINE peer == [transceiver |-> transceiver, manager |-> manager]
  <2>1. /\ chain # ThisChain
        /\ peer \in Peer
        /\ portalPeers' = [c \in DOMAIN portalPeers \cup {chain} |->
                              IF c = chain THEN peer ELSE portalPeers[c]]
        /\ UNCHANGED <<portalPaused, portalOwner, portalBridgingPaths>>
    BY <1>7 DEF SetPeer, Peer
  <2> HIDE DEF peer
  <2>2. /\ DOMAIN portalPeers' = DOMAIN portalPeers \cup {chain}
        /\ \A c \in DOMAIN portalPeers' :
              portalPeers'[c] = IF c = chain THEN peer ELSE portalPeers[c]
    BY <2>1
  <2> QED BY <1>5, <2>1, <2>2
<1>8. ASSUME NEW signer \in Signer, NEW chain \in ChainId, NEW token \in RemoteToken,
             NEW supported \in BOOLEAN,
             SetBridgingPath(signer, chain, token, supported)
      PROVE  Config'
  <2> DEFINE path == <<chain, token>>
  <2>1. /\ path \in ChainId \X RemoteToken
        /\ portalBridgingPaths' = [p \in DOMAIN portalBridgingPaths \cup {path} |->
                              IF p = path THEN supported ELSE portalBridgingPaths[p]]
        /\ UNCHANGED <<portalPaused, portalOwner, portalPeers>>
    BY <1>8 DEF SetBridgingPath
  <2> HIDE DEF path
  <2>2. /\ DOMAIN portalBridgingPaths' = DOMAIN portalBridgingPaths \cup {path}
        /\ \A p \in DOMAIN portalBridgingPaths' : portalBridgingPaths'[p] =
              IF p = path THEN supported ELSE portalBridgingPaths[p]
    BY <2>1
  <2> QED BY <1>5, <2>1, <2>2
<1>9. ASSUME NEW signer \in Signer, NEW newOwner \in Signer \cup {StakedVault},
             TransferOwnership(signer, newOwner)
      PROVE  Config'
  BY <1>5, <1>9, TokenAssumption DEF TransferOwnership, Signer
<1>10. Config'
  BY <1>6, <1>7, <1>8, <1>9 DEF Administration
<1>11. PortalTypeOK' /\ OwnChainUnpeered'
  BY <1>1, <1>2, <1>10 DEF PortalInv, PortalTypeOK, OwnChainUnpeered, Inv
<1>12. WireInv'
  BY <1>1, <1>3, <1>11, WireKept
<1> QED BY <1>2, <1>4, <1>11, <1>12 DEF PortalInv

\* A delivered VAA comes from the peer of another chain, is recorded, and what
\* it issued is counted, however far the index update inside Mint came.
LEMMA DeliverInv ==
  ASSUME PortalInv, NEW vaa \in Vaa, Deliver(vaa)
  PROVE  PortalInv'
<1>1. /\ vaa \notin archive
      /\ archive' = archive \cup {vaa}
      /\ vaa.emitterChain \in DOMAIN portalPeers
      /\ HandlePayload(vaa.payload)
      /\ UNCHANGED <<portalPaused, portalOwner, portalPeers, portalBridgingPaths,
                     portalNonce, posted>>
  BY DEF Deliver, ParseAndVerifyVAA, FromPeer, config
<1>2. Inv
  BY DEF PortalInv
<1>3. [Next]_vars
  BY PortalStepIsTokenStep DEF PortalNext
<1>4. Inv' /\ ledger'.index >= ledger.index
  BY <1>2, <1>3, NextInv, StepEffect
<1>5. PortalTypeOK'
  BY <1>1, <1>4 DEF PortalInv, PortalTypeOK, Inv
<1>6. WireInv'
  <2>1. /\ WireInv /\ posted \in Seq(Message)
        /\ ledger.index \in Nat /\ ledger'.index \in Nat
    BY <1>2, <1>4 DEF PortalInv, PortalTypeOK, Message, Inv, TypeOK, LedgerType
  <2>2. OwnChainUnpeered'
    BY <1>1, <2>1 DEF WireInv, OwnChainUnpeered
  <2> QED BY <1>1, <1>4, <2>1, <2>2, WireKept
<1>7. SupplyAccounted'
  <2>1. ledger'.supply + ledger.totalYieldAccrued
          = ledger.supply + ledger'.totalYieldAccrued + Issued(vaa)
    <3>1. CASE /\ vaa.payload.type = "token"
               /\ vaa.payload.recipient \in Account \cup {Yield}
               /\ vaa.payload.amount \in Amounts
               /\ vaa.payload.index \in Indices
               /\ Mint(vaa.payload.recipient, vaa.payload.amount, vaa.payload.index)
      BY <1>2, <3>1, MintAccounted DEF Issued
    <3>2. CASE /\ vaa.payload.type # "token"
               /\ vaa.payload.index \in Indices
               /\ UpdateIndex(vaa.payload.index)
      <4>1. ledger'.supply + ledger.totalYieldAccrued
              = ledger.supply + ledger'.totalYieldAccrued
        BY <1>2, <3>2, UpdateIndexAccounted
      <4>2. Issued(vaa) = 0
        BY <3>2 DEF Issued
      <4>3. /\ ledger.supply \in Nat /\ ledger'.totalYieldAccrued \in Nat
        BY <1>2, <1>4 DEF Inv, TypeOK, LedgerType
      <4> QED BY <4>1, <4>2, <4>3
    <3>3. CASE vaa.payload.type # "token" /\ UNCHANGED vars
      <4>1. ledger' = ledger
        BY <3>3 DEF vars
      <4>2. Issued(vaa) = 0
        BY <3>3 DEF Issued
      <4>3. /\ ledger.supply \in Nat /\ ledger.totalYieldAccrued \in Nat
        BY <1>2 DEF Inv, TypeOK, LedgerType
      <4> QED BY <4>1, <4>2, <4>3
    <3> QED BY <1>1, <3>1, <3>2, <3>3, DeliverCases
  <2>2. archive \in SUBSET Vaa
    BY DEF PortalInv, PortalTypeOK
  <2>3. /\ Received(archive) \in Int
        /\ Received(archive \cup {vaa}) = Received(archive) + Issued(vaa)
    BY <1>1, <2>2, ReceivedAccept
  <2>4. ledger.supply + Sent(posted) = ledger.totalYieldAccrued + Received(archive)
    BY DEF PortalInv, SupplyAccounted, Sent, Received
  <2>5. Sent(posted) \in Int
    BY SentType DEF PortalInv, PortalTypeOK, Message
  <2>6. Issued(vaa) \in Int
    BY IssuedType
  <2>7. /\ ledger.supply \in Nat /\ ledger'.supply \in Nat
        /\ ledger.totalYieldAccrued \in Nat /\ ledger'.totalYieldAccrued \in Nat
    BY <1>2, <1>4 DEF Inv, TypeOK, LedgerType
  <2>8. ledger'.supply + Sent(posted)
          = ledger'.totalYieldAccrued + Received(archive \cup {vaa})
    BY <2>1, <2>3, <2>4, <2>5, <2>6, <2>7
  <2> QED BY <1>1, <2>8 DEF SupplyAccounted, Sent, Received
<1> QED BY <1>4, <1>5, <1>6, <1>7 DEF PortalInv

\* A transfer out of Noble posts one message, with the next nonce and the index
\* of the moment, for exactly what it burns.
LEMMA PortalTransferInv ==
  ASSUME PortalInv, NEW sender \in Signer, NEW amount \in Amounts,
         NEW chain \in ChainId, NEW token \in RemoteToken,
         PortalTransfer(sender, amount, chain, token)
  PROVE  PortalInv'
<1> DEFINE x == [ nonce   |-> portalNonce,
                  index   |-> ledger.index,
                  amount  |-> amount,
                  chain   |-> chain,
                  token   |-> token,
                  manager |-> portalPeers[chain].manager ]
<1>1. /\ chain \in DOMAIN portalPeers
      /\ portalNonce' = (portalNonce + 1) % NonceModulus
      /\ Burn(sender, amount)
      /\ posted' = Append(posted, x)
      /\ UNCHANGED <<portalPaused, portalOwner, portalPeers, portalBridgingPaths, archive>>
  BY DEF PortalTransfer, IncrementPortalNonce, config
<1>2. Inv /\ PortalTypeOK /\ posted \in Seq(Message)
  BY DEF PortalInv, PortalTypeOK, Message
<1>3. [Next]_vars
  BY <1>1 DEF Next
<1>4. Inv'
  BY <1>2, <1>3, NextInv
<1>5. /\ ledger'.supply = ledger.supply - amount
      /\ ledger'.totalYieldAccrued = ledger.totalYieldAccrued
      /\ ledger'.index = ledger.index
      /\ ledger'.balance = [ledger.balance EXCEPT ![sender] = @ - amount]
  BY <1>1, <1>2, BurnAccounted
<1>6. /\ ledger.index \in Nat /\ ledger.supply \in Nat
      /\ ledger.totalYieldAccrued \in Nat /\ amount \in Int
  BY <1>2, TokenAssumption DEF Inv, TypeOK, LedgerType
<1>7. x \in Message /\ x.index = ledger.index /\ x.nonce = portalNonce /\ x.amount = amount
  <2>1. portalNonce \in Nat /\ portalPeers[chain].manager \in Contract
    BY <1>1, <1>2 DEF PortalTypeOK, Peer
  <2> QED BY <1>6, <2>1 DEF Message
<1> HIDE DEF x
<1>8. posted' \in Seq(Message)
  BY <1>1, <1>2, <1>7
<1>9. PortalTypeOK'
  <2>1. portalNonce' \in 0 .. NonceModulus - 1
    <3>1. portalNonce + 1 \in Nat /\ NonceModulus \in Nat \ {0}
      BY <1>2, PortalAssumption DEF PortalTypeOK
    <3> QED BY <1>1, <3>1, ModRange
  <2>2. posted' \in Seq([nonce : Nat, index : Nat, amount : Amounts, chain : ChainId,
                         token : RemoteToken, manager : Contract])
    BY <1>8 DEF Message
  <2> QED BY <1>1, <1>2, <1>4, <2>1, <2>2 DEF PortalTypeOK, Inv
<1>10. WireInv'
  BY <1>1, <1>2, <1>5, <1>6, <1>7, WirePosts DEF PortalInv
<1>11. SupplyAccounted'
  <2>1. /\ Sent(posted) \in Int
        /\ Sent(Append(posted, x)) = Sent(posted) + amount
    BY <1>2, <1>7, SentAppend
  <2>2. ledger.supply + Sent(posted) = ledger.totalYieldAccrued + Received(archive)
    BY DEF PortalInv, SupplyAccounted, Sent, Received
  <2>3. ledger'.supply + Sent(Append(posted, x))
          = ledger'.totalYieldAccrued + Received(archive)
    BY <1>5, <1>6, <2>1, <2>2
  <2> QED BY <1>1, <2>3 DEF SupplyAccounted, Sent, Received
<1> QED BY <1>4, <1>9, <1>10, <1>11 DEF PortalInv

\* What does not go through the portal leaves its state alone, and the supply,
\* the index and the accrued yield of the ledger.
LEMMA LocalStepInv ==
  ASSUME PortalInv, LocalStep
  PROVE  PortalInv'
<1>1. UNCHANGED <<portalPaused, portalOwner, portalPeers, portalBridgingPaths,
                  portalNonce, archive, posted>>
  BY DEF LocalStep, portalVars, config
<1>2. [Next]_vars
  BY DEF LocalStep, Next
<1>3. Inv'
  BY <1>2, NextInv DEF PortalInv
<1>4. /\ ledger'.supply = ledger.supply
      /\ ledger'.totalYieldAccrued = ledger.totalYieldAccrued
      /\ ledger'.index = ledger.index
  BY LocalStepEffect DEF PortalInv
<1>5. PortalTypeOK' /\ SupplyAccounted'
  BY <1>1, <1>3, <1>4 DEF PortalInv, PortalTypeOK, SupplyAccounted, Inv
<1>6. WireInv'
  BY <1>1, <1>4 DEF PortalInv, WireInv, OwnChainUnpeered, NonceCounts, NoSelfDelivery,
                    PostedIndicesOrdered
<1> QED BY <1>3, <1>5, <1>6 DEF PortalInv

\* Every step of the portal preserves the invariant.
LEMMA PortalNextInv == PortalInv /\ [PortalNext]_allVars => PortalInv'
<1> SUFFICES ASSUME PortalInv, [PortalNext]_allVars PROVE PortalInv'
  OBVIOUS
<1>1. ASSUME NEW vaa \in Vaa, Deliver(vaa) PROVE PortalInv'
  BY <1>1, DeliverInv
<1>2. ASSUME NEW sender \in Signer, NEW amount \in Amounts,
             NEW chain \in ChainId, NEW token \in RemoteToken,
             PortalTransfer(sender, amount, chain, token)
      PROVE  PortalInv'
  BY <1>2, PortalTransferInv
<1>3. CASE Administration
  BY <1>3, AdministrationInv
<1>4. CASE LocalStep
  BY <1>4, LocalStepInv
<1>5. CASE UNCHANGED allVars
  <2>1. UNCHANGED <<ledger, paused, burns, donated, portalPaused, portalOwner, portalPeers,
                    portalBridgingPaths, portalNonce, archive, posted>>
    BY <1>5 DEF allVars, vars, portalVars, config
  <2>2. Inv'
    BY <2>1, NextInv DEF PortalInv, vars
  <2>3. PortalTypeOK' /\ WireInv' /\ SupplyAccounted'
    BY <2>1, <2>2 DEF PortalInv, PortalTypeOK, WireInv, OwnChainUnpeered, NonceCounts,
                      NoSelfDelivery, PostedIndicesOrdered, SupplyAccounted, Inv
  <2> QED BY <2>2, <2>3 DEF PortalInv
<1> QED BY <1>1, <1>2, <1>3, <1>4, <1>5 DEF PortalNext

\* The invariant holds in every state the portal can reach.
THEOREM PortalInvariance == PortalSpec => []PortalInv
BY PortalInitInv, PortalNextInv, PTL DEF PortalSpec

-----------------------------------------------------------------------------
(* What follows from it. *)

\* The portal is the token with conditions of its own: whatever peers, owners
\* and relayers do, $USDN goes through a behaviour of Token, and every theorem
\* about Token holds of it.
THEOREM PortalImplementsToken == PortalSpec => Spec
<1>1. PortalInit => Init
  BY DEF PortalInit
<1>2. [PortalNext]_allVars => [Next]_vars
  BY PortalStepIsTokenStep
<1> QED BY <1>1, <1>2, PTL DEF PortalSpec, Spec

\* Deliver, Transfer, the administration messages and the steps of Token keep
\* every portal variable within its type.
THEOREM PortalTypeCorrect == PortalSpec => []PortalTypeOK
<1>1. PortalInv => PortalTypeOK
  BY DEF PortalInv
<1> QED BY <1>1, PortalInvariance, PTL

\* Whatever VAAs are delivered, with index updates that succeed, fail or fail
\* halfway inside Mint, and whatever is transferred out of Noble, the supply is
\* what was issued and accrued less what posted messages took.
THEOREM SupplyAccountedAlways == PortalSpec => []SupplyAccounted
<1>1. PortalInv => SupplyAccounted
  BY DEF PortalInv
<1> QED BY <1>1, PortalInvariance, PTL

\* Messages that Transfer posts in order carry indices in order, and never one
\* ahead of the index that is stored.
THEOREM PostedIndicesOrderedAlways == PortalSpec => []PostedIndicesOrdered
<1>1. PortalInv => PostedIndicesOrdered
  BY DEF PortalInv, WireInv
<1> QED BY <1>1, PortalInvariance, PTL

\* Deliver never accepts a VAA that Noble itself emitted, whoever owns the
\* portal and whatever peers it sets.
THEOREM NoSelfDeliveryAlways == PortalSpec => []NoSelfDelivery
<1>1. PortalInv => NoSelfDelivery
  BY DEF PortalInv, WireInv
<1> QED BY <1>1, PortalInvariance, PTL

\* The nonce that Transfer reads and increments is its own for as long as the
\* uint32 has not wrapped around.
THEOREM NoncesFreshAlways == PortalSpec => []NoncesFresh
<1>1. PortalInv => NoncesFresh
  BY NoncesApart DEF PortalInv, PortalTypeOK, Message, WireInv
<1> QED BY <1>1, PortalInvariance, PTL

\* No handler issues or redeems $USDN, or moves the index, while the owner keeps
\* the portal paused: only Deliver and Transfer do, and both check the pause.
THEOREM PauseFreezesSupplyAlways == PortalSpec => PauseFreezesSupply
<1>1. PortalInv /\ [PortalNext]_allVars
        => [portalPaused => /\ ledger'.supply = ledger.supply
                            /\ ledger'.index = ledger.index]_allVars
  <2> SUFFICES ASSUME PortalInv, PortalNext, portalPaused
               PROVE  /\ ledger'.supply = ledger.supply
                      /\ ledger'.index = ledger.index
    OBVIOUS
  <2>1. CASE Administration
    BY <2>1 DEF Administration, PortalSetPausedState, SetPeer, SetBridgingPath,
                TransferOwnership, vars
  <2>2. CASE LocalStep
    BY <2>2, LocalStepEffect DEF PortalInv
  <2> QED BY <2>1, <2>2 DEF PortalNext, Deliver, PortalTransfer
<1> QED BY <1>1, PortalInvariance, PTL DEF PortalSpec, PauseFreezesSupply

\* A supply within the present value of the total principal stays within it at
\* any later index: no coin of a negative amount is built.
LEMMA ShortfallKept ==
  ASSUME NEW supply \in Nat, NEW p \in Int, NEW i \in Nat \ {0}, NEW j \in Nat,
         j >= i, supply * Scale <= p * i
  PROVE  GetPresentAmount(p, j) >= supply
<1>1. Scale \in Nat \ {0} /\ supply * Scale \in Nat /\ p * i \in Int
  BY ScaleAssumption
<1>2. p * i >= 0
  BY <1>1
<1>3. p \in Nat
  <2>1. ASSUME p < 0 PROVE FALSE
    <3>1. i * 0 >= i * p + i
      BY <2>1, ProductStep
    <3> QED BY <1>2, <3>1
  <2> QED BY <2>1
<1>4. p * j >= p * i
  BY <1>3
<1>5. GetPresentAmount(p, j) \in Nat /\ p * j < Scale * GetPresentAmount(p, j) + Scale
  BY <1>3, PresentOfNat
<1> DEFINE q == GetPresentAmount(p, j)
<1> HIDE DEF q
<1>6. q \in Nat /\ p * j < Scale * q + Scale
  BY <1>5 DEF q
<1>7. SUFFICES ASSUME supply > q PROVE FALSE
  BY <1>6 DEF q
<1>8. Scale * supply >= Scale * q + Scale
  BY <1>1, <1>6, <1>7, ProductStep
<1>9. Scale * supply = supply * Scale /\ p * j \in Int /\ Scale * q \in Int
  BY <1>1, <1>3, <1>6
<1> QED BY <1>1, <1>4, <1>6, <1>8, <1>9

\* A welcome deposit that was not accepted yet can be delivered.
WelcomeGetsIn ==
    \A vaa \in Deposits : Welcome(vaa) /\ vaa \notin archive => CanDeliver(vaa)

\* What makes DepositsDelivered true of the code: for late and for new indices, and
\* whatever claims fail inside the index update, Mint never stands in the way of a
\* deposit as long as the present value of the total principal covers the supply.
THEOREM WelcomeGetsInAlways == PortalSpec => []WelcomeGetsIn
<1>1. PortalInv => WelcomeGetsIn
  <2> SUFFICES ASSUME PortalInv, NEW vaa \in Deposits, Welcome(vaa), vaa \notin archive
               PROVE  CanDeliver(vaa)
    BY DEF WelcomeGetsIn
  <2> DEFINE index == vaa.payload.index
  <2>1. index \in Int
    BY VaaTyped, TokenAssumption DEF Deposits
  <2>2. /\ ledger.supply \in Nat /\ ledger.totalPrincipal \in Int
        /\ ledger.index \in Nat \ {0}
    BY DEF PortalInv, Inv, TypeOK, LedgerType
  <2> HIDE DEF index
  <2>3. CASE index <= ledger.index
    <3>1. UpdateIndexResult(ledger, index).status = "error"
      BY <2>3 DEF UpdateIndexResult
    <3> QED BY <3>1 DEF Welcome, CanDeliver, MintSucceeds, index
  <2>4. CASE index > ledger.index
    <3>1. ledger.supply * Scale <= ledger.totalPrincipal * ledger.index
      BY <2>1, <2>2, <2>4 DEF Welcome, index
    <3>2. index \in Nat /\ index >= ledger.index
      BY <2>1, <2>2, <2>4
    <3>3. GetPresentAmount(ledger.totalPrincipal, index) \in Int
      BY <2>2, <3>2, PresentType
    <3>4. GetPresentAmount(ledger.totalPrincipal, index) >= ledger.supply
      BY <2>2, <3>1, <3>2, ShortfallKept
    <3>5. ~(SupplyShortfall(ledger, index) < 0)
      BY <2>2, <3>3, <3>4 DEF SupplyShortfall
    <3>6. UpdateIndexResult(ledger, index).status # "panic"
      BY <3>5 DEF UpdateIndexResult
    <3> QED BY <3>6 DEF Welcome, CanDeliver, MintSucceeds, index
  <2> QED BY <2>1, <2>2, <2>3, <2>4
<1> QED BY <1>1, PortalInvariance, PTL

-----------------------------------------------------------------------------
(* Portal implements IdealDollar, for every value of the constants: the    *)
(* genesis maps to an initial state of the ideal dollar, and every step of *)
(* the portal to one of its steps or to a stutter.  The refinement mapping *)
(* is Portal's own, the instance Ideal, which forgets principals,          *)
(* statistics and configuration.                                           *)

\* The coins and the index that leave with each message.
Outbox(messages) ==
    [i \in DOMAIN messages |-> [amount |-> messages[i].amount,
                                index  |-> messages[i].index]]

\* The instance has the sum of the community modules under a name of its own.
LEMMA IdealSum == \A f : Ideal!SumFunction(f) = SumFunction(f)
BY DEF Ideal!SumFunction, Ideal!SumFunctionOnSet, Ideal!FoldFunctionOnSet,
       Ideal!MapThenFoldSet, SumFunction, SumFunctionOnSet, FoldFunctionOnSet,
       MapThenFoldSet

\* What a VAA deposits is what it issued, all of it with one holder.
LEMMA DepositedTyped ==
  ASSUME NEW vaa \in Vaa
  PROVE  /\ Deposited(vaa) \in [Address -> Int]
         /\ SumFunction(Deposited(vaa)) = Issued(vaa)
         /\ vaa.payload.type # "token" => \A h \in Address : Deposited(vaa)[h] = 0
         /\ vaa.payload.type = "token" =>
                \A h \in Address : Deposited(vaa)[h] =
                    IF h = vaa.payload.recipient THEN vaa.payload.amount ELSE 0
<1> DEFINE d == Deposited(vaa)
           z == [h \in Address |-> 0]
<1>1. vaa.payload.type = "token" =>
        vaa.payload.amount \in Int /\ vaa.payload.recipient \in Address
  <2>1. \A a \in Amounts : a \in Int
    BY TokenAssumption
  <2> QED BY <2>1, VaaTyped DEF Address
<1>2. d \in [Address -> Int]
  BY <1>1 DEF Deposited
<1>3. z \in [Address -> Int] /\ \A h \in Address : z[h] = 0
  OBVIOUS
<1>4. CASE vaa.payload.type = "token"
  <2>1. \A h \in Address : d[h] =
            IF h = vaa.payload.recipient THEN vaa.payload.amount ELSE 0
    BY <1>4 DEF Deposited
  <2> HIDE DEF d, z
  <2>2. SumFunction(z) = 0
    BY <1>3, AddressFinite, SumZero
  <2> DEFINE r == vaa.payload.recipient
             n == vaa.payload.amount
  <2>3. /\ IsFiniteSet(Address)
        /\ d \in [Address -> Int] /\ z \in [Address -> Int]
        /\ r \in Address /\ n \in Int
        /\ d[r] = z[r] + n
        /\ \A h \in Address : h # r => d[h] = z[h]
    BY <1>1, <1>2, <1>3, <1>4, <2>1, AddressFinite
  <2> HIDE DEF r, n
  <2>4. SumFunction(d) = SumFunction(z) + n
    BY <2>3, SumShift
  <2>5. SumFunction(d) = n
    BY <2>2, <2>3, <2>4
  <2>6. Issued(vaa) = n
    BY <1>4 DEF Issued, n
  <2> QED BY <1>2, <1>4, <2>1, <2>5, <2>6 DEF d
<1>5. CASE vaa.payload.type # "token"
  <2>1. \A h \in Address : d[h] = 0
    BY <1>5 DEF Deposited
  <2> HIDE DEF d
  <2>2. SumFunction(d) = 0
    BY <1>2, <2>1, AddressFinite, SumZero
  <2>3. Issued(vaa) = 0
    BY <1>5 DEF Issued
  <2> QED BY <1>2, <1>5, <2>1, <2>2, <2>3 DEF d
<1> QED BY <1>4, <1>5

\* A delivered token payload that does not move the index only adds its amount;
\* one that does pays the collector and the warp account their yield as well.
LEMMA MintDeposits ==
  ASSUME Inv, NEW r \in Account \cup {Yield}, NEW n \in Amounts,
         NEW i \in Indices, Mint(r, n, i)
  PROVE  \/ /\ ledger'.index = ledger.index
            /\ ledger'.totalYieldAccrued = ledger.totalYieldAccrued
            /\ ledger'.balance = [ledger.balance EXCEPT ![r] = @ + n]
         \/ /\ ledger'.index > ledger.index
            /\ ledger'.totalYieldAccrued >= ledger.totalYieldAccrued
            /\ \A h \in Address \ {Collector, Warp, Yield} :
                   ledger'.balance[h] = ledger.balance[h] + IF h = r THEN n ELSE 0
            /\ \A h \in {Collector, Warp} :
                   ledger'.balance[h] >= ledger.balance[h] + IF h = r THEN n ELSE 0
<1> DEFINE k == UpdateIndexResult(ledger, i).ledger
<1>1. /\ Sound(ledger)
      /\ UpdateIndexResult(ledger, i).status # "panic"
      /\ ledger' = MintTo(k, r, n)
      /\ n \in Nat /\ n > 0 /\ i \in Int
  BY TokenAssumption DEF Mint, MintSucceeds, Inv
<1>2. /\ Sound(k)
      /\ k = ledger \/ (k.index > ledger.index /\ k.supply * Scale <= k.totalPrincipal * k.index)
      /\ UpdateIndexResult(ledger, i).status = "ok" => k.index > ledger.index
      /\ PaysYieldOnly(k, ledger)
      /\ k.index = ledger.index => k = ledger
  BY <1>1, UpdateIndexEffect
<1>3. /\ Sound(ledger')
      /\ ledger'.index = k.index /\ ledger'.index >= ledger.index
      /\ ledger'.balance = [k.balance EXCEPT ![r] = @ + n]
      /\ ledger'.supply = k.supply + n
      /\ ledger'.totalYieldAccrued = k.totalYieldAccrued
      /\ \A a \in Account : ledger'.principal[a] >= k.principal[a]
  BY <1>1, MintEffect
<1> HIDE DEF k
<1>4. CASE k = ledger
  BY <1>3, <1>4
<1>5. CASE k.index > ledger.index
  <2>1. k.balance \in [Address -> Nat] /\ ledger.balance \in [Address -> Nat]
    BY <1>1, <1>2 DEF Sound, LedgerType
  <2>2. \A h \in Address :
            ledger'.balance[h] = k.balance[h] + IF h = r THEN n ELSE 0
    BY <1>1, <1>3, <2>1
  <2>3. \A h \in Address \ {Collector, Warp, Yield} : k.balance[h] = ledger.balance[h]
    BY <1>2 DEF PaysYieldOnly, Address
  <2>4. \A h \in {Collector, Warp} : h \in Account /\ k.balance[h] >= ledger.balance[h]
    BY <1>2, TokenAssumption DEF PaysYieldOnly
  <2>5. \A h \in {Collector, Warp} :
            ledger'.balance[h] >= ledger.balance[h] + IF h = r THEN n ELSE 0
    BY <1>1, <2>1, <2>2, <2>4 DEF Address
  <2> QED BY <1>2, <1>3, <1>5, <2>2, <2>3, <2>5 DEF PaysYieldOnly
<1> QED BY <1>2, <1>4, <1>5

\* An index update pays the collector and the warp account, and nobody else.
LEMMA UpdateIndexPays ==
  ASSUME Inv, NEW i \in Indices, UpdateIndex(i)
  PROVE  /\ ledger'.index > ledger.index
         /\ ledger'.totalYieldAccrued >= ledger.totalYieldAccrued
         /\ \A h \in Address \ {Collector, Warp, Yield} :
                ledger'.balance[h] = ledger.balance[h]
         /\ \A h \in {Collector, Warp} : ledger'.balance[h] >= ledger.balance[h]
<1> DEFINE k == UpdateIndexResult(ledger, i).ledger
<1>1. /\ Sound(ledger)
      /\ UpdateIndexResult(ledger, i).status = "ok"
      /\ ledger' = k
      /\ i \in Int
  BY TokenAssumption DEF UpdateIndex, Inv
<1>2. /\ Sound(k)
      /\ k = ledger \/ (k.index > ledger.index /\ k.supply * Scale <= k.totalPrincipal * k.index)
      /\ UpdateIndexResult(ledger, i).status = "ok" => k.index > ledger.index
      /\ PaysYieldOnly(k, ledger)
      /\ k.index = ledger.index => k = ledger
  BY <1>1, UpdateIndexEffect
<1> HIDE DEF k
<1> QED BY <1>1, <1>2, TokenAssumption DEF PaysYieldOnly, Address

-----------------------------------------------------------------------------
(* The initial states and the steps. *)

\* Genesis maps to an empty ideal dollar.
LEMMA GenesisIsIdeal == PortalInit => Ideal!Init
<1> SUFFICES ASSUME PortalInit PROVE Ideal!Init
  OBVIOUS
<1>1. ledger = EmptyLedger /\ archive = {} /\ posted = <<>>
  BY DEF PortalInit, Init, PortalGenesis
<1>2. /\ ledger.balance = [a \in Address |-> 0]
      /\ ledger.totalYieldAccrued = 0
      /\ ledger.index = Scale
  BY <1>1 DEF EmptyLedger
<1>3. Scale > 0
  BY ScaleAssumption
<1>4. Outbox(posted) = <<>>
  BY <1>1 DEF Outbox
<1> QED BY <1>1, <1>2, <1>3, <1>4 DEF Ideal!Init, Outbox

\* Delivering a VAA is accepting its message: what it deposits, and the yield of
\* the index update, are the only new coins.
LEMMA DeliverIsAccept ==
  ASSUME PortalInv, NEW vaa \in Vaa, Deliver(vaa)
  PROVE  Ideal!Next
<1>1. /\ vaa \notin archive
      /\ archive' = archive \cup {vaa}
      /\ HandlePayload(vaa.payload)
      /\ posted' = posted
  BY DEF Deliver, ParseAndVerifyVAA
<1>2. Inv
  BY DEF PortalInv
<1>3. [Next]_vars
  BY PortalStepIsTokenStep DEF PortalNext
<1>4. Inv'
  BY <1>2, <1>3, NextInv
<1>5. /\ ledger.balance \in [Address -> Nat] /\ ledger'.balance \in [Address -> Nat]
      /\ SumFunction(ledger.balance) = ledger.supply
      /\ SumFunction(ledger'.balance) = ledger'.supply
      /\ ledger.supply \in Nat /\ ledger'.supply \in Nat
      /\ ledger.totalYieldAccrued \in Nat /\ ledger'.totalYieldAccrued \in Nat
  BY <1>2, <1>4 DEF Inv, Sound, TypeOK, LedgerType
<1> DEFINE d == Deposited(vaa)
<1>6. /\ d \in [Address -> Int]
      /\ SumFunction(d) = Issued(vaa)
      /\ vaa.payload.type # "token" => \A h \in Address : d[h] = 0
      /\ vaa.payload.type = "token" =>
             \A h \in Address : d[h] =
                 IF h = vaa.payload.recipient THEN vaa.payload.amount ELSE 0
  BY DepositedTyped
<1>7. Issued(vaa) \in Int
  BY IssuedType
<1> HIDE DEF d
<1> DEFINE Still ==
               /\ ledger'.balance = [h \in Address |-> ledger.balance[h] + d[h]]
               /\ ledger'.totalYieldAccrued = ledger.totalYieldAccrued
               /\ ledger'.index = ledger.index
           Accrued ==
               /\ ledger'.index > ledger.index
               /\ ledger'.totalYieldAccrued >= ledger.totalYieldAccrued
               /\ \A h \in Address \ {Collector, Warp, Yield} :
                      ledger'.balance[h] = ledger.balance[h] + d[h]
               /\ \A h \in {Collector, Warp} :
                      ledger'.balance[h] >= ledger.balance[h] + d[h]
               /\ SumFunction(ledger'.balance)
                    = SumFunction(ledger.balance) + SumFunction(d)
                      + (ledger'.totalYieldAccrued - ledger.totalYieldAccrued)
<1>8. Collector \in Address /\ Warp \in Address
  BY TokenAssumption DEF Address
<1>9. Still \/ Accrued
  <2>1. CASE /\ vaa.payload.type = "token"
             /\ vaa.payload.recipient \in Account \cup {Yield}
             /\ vaa.payload.amount \in Amounts
             /\ vaa.payload.index \in Indices
             /\ Mint(vaa.payload.recipient, vaa.payload.amount, vaa.payload.index)
    <3> DEFINE r == vaa.payload.recipient
               n == vaa.payload.amount
    <3>1. /\ r \in Account \cup {Yield} /\ n \in Amounts
          /\ \A h \in Address : d[h] = IF h = r THEN n ELSE 0
          /\ Issued(vaa) = n
      BY <1>6, <2>1 DEF Issued
    <3>2. \/ /\ ledger'.index = ledger.index
             /\ ledger'.totalYieldAccrued = ledger.totalYieldAccrued
             /\ ledger'.balance = [ledger.balance EXCEPT ![r] = @ + n]
          \/ /\ ledger'.index > ledger.index
             /\ ledger'.totalYieldAccrued >= ledger.totalYieldAccrued
             /\ \A h \in Address \ {Collector, Warp, Yield} :
                    ledger'.balance[h] = ledger.balance[h] + IF h = r THEN n ELSE 0
             /\ \A h \in {Collector, Warp} :
                    ledger'.balance[h] >= ledger.balance[h] + IF h = r THEN n ELSE 0
      BY <1>2, <2>1, MintDeposits
    <3>3. ledger'.supply + ledger.totalYieldAccrued
              = ledger.supply + ledger'.totalYieldAccrued + n
      BY <1>2, <2>1, MintAccounted
    <3> HIDE DEF r, n
    <3>4. CASE /\ ledger'.index = ledger.index
               /\ ledger'.totalYieldAccrued = ledger.totalYieldAccrued
               /\ ledger'.balance = [ledger.balance EXCEPT ![r] = @ + n]
      <4>1. n \in Int
        BY <3>1, TokenAssumption
      <4>2. \A h \in Address : ledger'.balance[h] = ledger.balance[h] + d[h]
        BY <1>5, <3>1, <3>4, <4>1
      <4>3. ledger'.balance = [h \in Address |-> ledger.balance[h] + d[h]]
        BY <1>5, <4>2
      <4> QED BY <3>4, <4>3
    <3>5. CASE /\ ledger'.index > ledger.index
               /\ ledger'.totalYieldAccrued >= ledger.totalYieldAccrued
               /\ \A h \in Address \ {Collector, Warp, Yield} :
                      ledger'.balance[h] = ledger.balance[h] + IF h = r THEN n ELSE 0
               /\ \A h \in {Collector, Warp} :
                      ledger'.balance[h] >= ledger.balance[h] + IF h = r THEN n ELSE 0
      <4>1. SumFunction(ledger'.balance)
              = SumFunction(ledger.balance) + SumFunction(d)
                + (ledger'.totalYieldAccrued - ledger.totalYieldAccrued)
        BY <1>5, <1>6, <1>7, <3>1, <3>3
      <4> QED BY <1>8, <3>1, <3>5, <4>1
    <3> QED BY <3>2, <3>4, <3>5
  <2>2. CASE /\ vaa.payload.type # "token"
              /\ vaa.payload.index \in Indices
              /\ UpdateIndex(vaa.payload.index)
    <3>1. /\ ledger'.index > ledger.index
          /\ ledger'.totalYieldAccrued >= ledger.totalYieldAccrued
          /\ \A h \in Address \ {Collector, Warp, Yield} :
                 ledger'.balance[h] = ledger.balance[h]
          /\ \A h \in {Collector, Warp} : ledger'.balance[h] >= ledger.balance[h]
      BY <1>2, <2>2, UpdateIndexPays
    <3>2. ledger'.supply + ledger.totalYieldAccrued
              = ledger.supply + ledger'.totalYieldAccrued
      BY <1>2, <2>2, UpdateIndexAccounted
    <3>3. (\A h \in Address : d[h] = 0) /\ Issued(vaa) = 0
      BY <1>6, <2>2 DEF Issued
    <3>4. SumFunction(ledger'.balance)
            = SumFunction(ledger.balance) + SumFunction(d)
              + (ledger'.totalYieldAccrued - ledger.totalYieldAccrued)
      BY <1>5, <1>6, <3>2, <3>3
    <3>5. \A h \in Address \ {Collector, Warp, Yield} :
              ledger'.balance[h] = ledger.balance[h] + d[h]
      BY <1>5, <3>1, <3>3
    <3>6. \A h \in {Collector, Warp} : ledger'.balance[h] >= ledger.balance[h] + d[h]
      BY <1>5, <1>8, <3>1, <3>3
    <3> QED BY <3>1, <3>4, <3>5, <3>6
  <2>3. CASE vaa.payload.type # "token" /\ UNCHANGED vars
    <3>1. ledger' = ledger
      BY <2>3 DEF vars
    <3>2. \A h \in Address : ledger.balance[h] = ledger.balance[h] + d[h]
      BY <1>5, <1>6, <2>3
    <3>3. ledger.balance = [h \in Address |-> ledger.balance[h] + d[h]]
      BY <1>5, <3>2
    <3> QED BY <3>1, <3>3
  <2> QED BY <1>1, <2>1, <2>2, <2>3, DeliverCases
<1>10. [v \in Vaa |-> Deposited(v)][vaa] = d
  BY DEF d
<1>11. CASE Still
  <2>1. Ideal!Deposit(vaa)
    BY <1>10, <1>11 DEF Ideal!Deposit
  <2>2. Ideal!Accept(vaa)
    BY <1>1, <2>1 DEF Ideal!Accept
  <2> QED BY <2>2 DEF Ideal!Next
<1>12. CASE Accrued
  <2>1. Ideal!DepositAndAccrue(vaa)
    BY <1>10, <1>12, IdealSum DEF Ideal!DepositAndAccrue
  <2>2. Ideal!Accept(vaa)
    BY <1>1, <2>1 DEF Ideal!Accept
  <2> QED BY <2>2 DEF Ideal!Next
<1> QED BY <1>9, <1>11, <1>12

\* A longer outbox is the outbox with one more entry.
LEMMA OutboxAppend ==
  ASSUME NEW messages \in Seq(Message), NEW x \in Message
  PROVE  Outbox(Append(messages, x))
             = Append(Outbox(messages), [amount |-> x.amount, index |-> x.index])
<1> DEFINE n == Len(messages)
           longer == Append(messages, x)
           e == [amount |-> x.amount, index |-> x.index]
           E == [amount : Amounts, index : Nat]
           o == Outbox(messages)
           p == Outbox(longer)
<1>1. /\ n \in Nat /\ DOMAIN messages = 1 .. n
      /\ \A i \in 1 .. n : messages[i].amount \in Amounts /\ messages[i].index \in Nat
  BY MessagesTyped
<1>2. /\ DOMAIN longer = 1 .. n + 1
      /\ \A i \in 1 .. n : longer[i] = messages[i]
      /\ longer[n + 1] = x
  BY <1>1, SMTT(30)
<1>3. e \in E
  BY DEF Message
<1> HIDE DEF n, longer
<1>4. /\ o = [i \in 1 .. n |-> [amount |-> messages[i].amount, index |-> messages[i].index]]
      /\ p = [i \in 1 .. n + 1 |-> [amount |-> longer[i].amount, index |-> longer[i].index]]
  BY <1>1, <1>2 DEF Outbox
<1> HIDE DEF o, p
<1>5. o \in Seq(E) /\ Len(o) = n
  BY <1>1, <1>4
<1>6. DOMAIN p = 1 .. n + 1 /\ p = [i \in 1 .. n + 1 |-> p[i]]
  BY <1>4
<1>7. \A i \in 1 .. n : p[i] = o[i]
  BY <1>1, <1>2, <1>4
<1>8. p[n + 1] = e
  BY <1>1, <1>2, <1>4
<1> HIDE DEF e, E
<1> DEFINE q == Append(o, e)
<1>9. /\ q \in [1 .. n + 1 -> E]
      /\ \A i \in 1 .. n : q[i] = o[i]
      /\ q[n + 1] = e
  <2>1. q \in Seq(E) /\ Len(q) = n + 1
    BY <1>3, <1>5
  <2>2. \A i \in 1 .. n : q[i] = o[i]
    BY <1>3, <1>5
  <2>3. q[n + 1] = e
    BY <1>3, <1>5
  <2>4. q \in [1 .. Len(q) -> E]
    BY <2>1, LenProperties
  <2> QED BY <2>1, <2>2, <2>3, <2>4
<1> HIDE DEF q
<1>10. \A i \in 1 .. n + 1 : p[i] = q[i]
  BY <1>1, <1>7, <1>8, <1>9
<1>11. p = q
  BY <1>6, <1>9, <1>10
<1> QED BY <1>11 DEF p, q, o, e, longer

\* A transfer out of Noble redeems the amount against the message it posts.
LEMMA TransferIsRedeem ==
  ASSUME PortalInv, NEW sender \in Signer, NEW amount \in Amounts,
         NEW chain \in ChainId, NEW token \in RemoteToken,
         PortalTransfer(sender, amount, chain, token)
  PROVE  Ideal!Next
<1> DEFINE x == [ nonce   |-> portalNonce,
                  index   |-> ledger.index,
                  amount  |-> amount,
                  chain   |-> chain,
                  token   |-> token,
                  manager |-> portalPeers[chain].manager ]
<1>1. /\ chain \in DOMAIN portalPeers
      /\ Burn(sender, amount)
      /\ posted' = Append(posted, x)
      /\ archive' = archive
  BY DEF PortalTransfer
<1>2. Inv /\ PortalTypeOK /\ posted \in Seq(Message)
  BY DEF PortalInv, PortalTypeOK, Message
<1>3. /\ ledger'.supply = ledger.supply - amount
      /\ ledger'.totalYieldAccrued = ledger.totalYieldAccrued
      /\ ledger'.index = ledger.index
      /\ ledger'.balance = [ledger.balance EXCEPT ![sender] = @ - amount]
  BY <1>1, <1>2, BurnAccounted
<1>4. /\ sender \in Address \ {Yield}
      /\ amount \in 1 .. ledger.balance[sender]
  <2>1. sender \in Account /\ amount \in Nat /\ amount > 0 /\ ledger.balance[sender] >= amount
    BY <1>1, TokenAssumption DEF Burn, CanSend, Signer
  <2>2. ledger.balance \in [Address -> Nat]
    BY <1>2 DEF Inv, TypeOK, LedgerType
  <2> QED BY <2>1, <2>2, AccountAssumption DEF Address
<1>5. x \in Message /\ x.amount = amount /\ x.index = ledger.index
  <2>1. portalNonce \in Nat /\ portalPeers[chain].manager \in Contract
    BY <1>1, <1>2 DEF PortalTypeOK, Peer
  <2>2. ledger.index \in Nat
    BY <1>2 DEF Inv, TypeOK, LedgerType
  <2> QED BY <2>1, <2>2 DEF Message
<1> HIDE DEF x
<1>6. Outbox(posted') = Append(Outbox(posted), [amount |-> amount, index |-> ledger.index])
  BY <1>1, <1>2, <1>5, OutboxAppend
<1>7. Ideal!Redeem(sender, amount)
  <2>1. amount <= ledger.balance[sender]
    BY <1>4
  <2>2. [i \in DOMAIN posted' |-> [amount |-> posted'[i].amount, index |-> posted'[i].index]]
          = Append([i \in DOMAIN posted |-> [amount |-> posted[i].amount,
                                             index  |-> posted[i].index]],
                   [amount |-> amount, index |-> ledger.index])
    BY <1>6, Zenon DEF Outbox
  <2> QED BY <1>1, <1>3, <2>1, <2>2 DEF Ideal!Redeem
<1> QED BY <1>4, <1>7 DEF Ideal!Next

\* A transfer between accounts, and the payout of a positive yield, move coins.
LEMMA LocalStepIsMove ==
  ASSUME PortalInv, LocalStep
  PROVE  Ideal!Next \/ UNCHANGED Ideal!idealVars
<1>1. /\ Inv /\ Sound(ledger) /\ ledger.balance \in [Address -> Nat]
      /\ archive' = archive /\ posted' = posted
  BY DEF LocalStep, PortalInv, Inv, Sound, LedgerType, portalVars
<1>2. /\ ledger'.totalYieldAccrued = ledger.totalYieldAccrued
      /\ ledger'.index = ledger.index
  <2>1. /\ ledger'.supply = ledger.supply
        /\ ledger'.totalYieldAccrued = ledger.totalYieldAccrued
        /\ ledger'.index = ledger.index
    BY <1>1, LocalStepEffect
  <2> QED BY <2>1
<1>3. ASSUME NEW s \in Address, NEW r \in Account, NEW n \in Nat, n > 0,
             ledger.balance[s] >= n,
             ledger'.balance = [[ledger.balance EXCEPT ![s] = @ - n]
                                    EXCEPT ![r] = @ + n]
      PROVE  Ideal!Next
  <2>1. /\ r \in Address \ {Yield}
        /\ n \in 1 .. ledger.balance[s] /\ n <= ledger.balance[s]
    BY <1>1, <1>3, AccountAssumption DEF Address
  <2>2. ledger'.balance = [h \in Address |-> ledger.balance[h]
                               - (IF h = s THEN n ELSE 0)
                               + (IF h = r THEN n ELSE 0)]
    <3> DEFINE taken == [ledger.balance EXCEPT ![s] = @ - n]
               moved == [h \in Address |-> ledger.balance[h]
                               - (IF h = s THEN n ELSE 0)
                               + (IF h = r THEN n ELSE 0)]
    <3>1. /\ taken \in [Address -> Int]
          /\ \A h \in Address : taken[h] = ledger.balance[h] - (IF h = s THEN n ELSE 0)
      BY <1>1
    <3>2. ledger'.balance = [taken EXCEPT ![r] = @ + n]
      BY <1>3
    <3> HIDE DEF taken
    <3>3. \A h \in Address : ledger'.balance[h] = moved[h]
      BY <1>1, <2>1, <3>1, <3>2
    <3>4. ledger'.balance \in [Address -> Int]
      BY <2>1, <3>1, <3>2
    <3> QED BY <3>3, <3>4
  <2>3. Ideal!Move(s, r, n)
    BY <1>1, <1>2, <2>1, <2>2 DEF Ideal!Move
  <2> QED BY <2>1, <2>3 DEF Ideal!Next
<1>4. ASSUME NEW s \in Account, NEW r \in Account, NEW n \in Amounts,
             Transfer(s, r, n)
      PROVE  Ideal!Next
  <2> DEFINE m  == SendCoins(ledger, s, r, n)
             up == GetPrincipalAmountRoundedUp(n, ledger.index)
  <2>1. /\ n \in Nat /\ n > 0
        /\ ledger.balance[s] >= n
        /\ ledger' = m
    BY <1>4, TokenAssumption DEF Transfer, CanSend
  <2>2. /\ Sound(m)
        /\ SameExcept(m, ledger, {"balance", "principal", "totalHolders"})
        /\ m.balance = [[ledger.balance EXCEPT ![s] = @ - n] EXCEPT ![r] = @ + n]
        /\ m.principal = [[ledger.principal EXCEPT ![s] = @ - up]
                              EXCEPT ![r] = @ + up]
    BY <1>1, <2>1, SendBetweenAccounts
  <2> HIDE DEF m
  <2>3. ledger'.balance = [[ledger.balance EXCEPT ![s] = @ - n] EXCEPT ![r] = @ + n]
    BY <2>1, <2>2
  <2>4. s \in Address
    BY DEF Address
  <2> QED BY <1>3, <2>1, <2>3, <2>4
<1>5. ASSUME NEW a \in Signer, ClaimYield(a)
      PROVE  Ideal!Next \/ UNCHANGED Ideal!idealVars
  <2> DEFINE y == GetYield(ledger, a)
  <2>1. /\ a \in Account
        /\ ledger.balance[Yield] >= y
        /\ ledger' = SendCoins(ledger, Yield, a, y)
    BY <1>5 DEF ClaimYield, CanSend, Signer
  <2>2. Sound(ledger) /\ ledger \in LedgerType
    BY <1>1 DEF Sound
  <2>3. y \in Nat
    BY <2>1, <2>2, YieldType
  <2> HIDE DEF y
  <2>4. /\ Sound(ledger')
        /\ SameExcept(ledger', ledger, {"balance"})
        /\ ledger'.balance = [[ledger.balance EXCEPT ![Yield] = @ - y]
                                 EXCEPT ![a] = @ + y]
    BY <2>1, <2>2, <2>3, SendYield
  <2>5. Yield \in Address /\ a \in Address
    BY <2>1 DEF Address
  <2>6. CASE y = 0
    <3>1. [ledger.balance EXCEPT ![Yield] = @ - y] = ledger.balance
      BY <1>1, <2>5, <2>6
    <3>2. ledger'.balance = [ledger.balance EXCEPT ![a] = @ + y]
      BY <2>4, <3>1
    <3>3. ledger'.balance = ledger.balance
      BY <1>1, <2>5, <2>6, <3>2
    <3> QED BY <1>1, <1>2, <3>3 DEF Ideal!idealVars
  <2>7. CASE y > 0
    BY <1>3, <2>1, <2>3, <2>4, <2>5, <2>7
  <2> QED BY <2>3, <2>6, <2>7
<1>6. ASSUME NEW p \in BOOLEAN, SetPausedState(p)
      PROVE  UNCHANGED Ideal!idealVars
  BY <1>1, <1>6 DEF SetPausedState, Ideal!idealVars
<1> QED BY <1>4, <1>5, <1>6 DEF LocalStep

-----------------------------------------------------------------------------

\* Every step of the portal is a step of the ideal dollar, or none at all.
LEMMA PortalStepIsIdeal ==
  PortalInv /\ [PortalNext]_allVars => [Ideal!Next]_(Ideal!idealVars)
<1> SUFFICES ASSUME PortalInv, [PortalNext]_allVars
             PROVE  Ideal!Next \/ UNCHANGED Ideal!idealVars
  OBVIOUS
<1>1. ASSUME NEW vaa \in Vaa, Deliver(vaa) PROVE Ideal!Next
  BY <1>1, DeliverIsAccept
<1>2. ASSUME NEW sender \in Signer, NEW amount \in Amounts,
             NEW chain \in ChainId, NEW token \in RemoteToken,
             PortalTransfer(sender, amount, chain, token)
      PROVE  Ideal!Next
  BY <1>2, TransferIsRedeem
<1>3. CASE Administration
  <2>1. ledger' = ledger /\ archive' = archive /\ posted' = posted
    BY <1>3 DEF Administration, PortalSetPausedState, SetPeer, SetBridgingPath,
                TransferOwnership, vars
  <2> QED BY <2>1 DEF Ideal!idealVars
<1>4. CASE LocalStep
  BY <1>4, LocalStepIsMove
<1>5. CASE UNCHANGED allVars
  <2>1. ledger' = ledger /\ archive' = archive /\ posted' = posted
    BY <1>5 DEF allVars, vars, portalVars
  <2> QED BY <2>1 DEF Ideal!idealVars
<1> QED BY <1>1, <1>2, <1>3, <1>4, <1>5 DEF PortalNext

\* The portal, with its vault and warp payouts, its roundings, its half-failed
\* index updates and its reconfigurations, implements the ideal dollar.
THEOREM PortalImplementsIdeal == PortalSpec => ImplementsIdeal
BY GenesisIsIdeal, PortalStepIsIdeal, PortalInvariance, PTL
   DEF PortalSpec, ImplementsIdeal, Ideal!Spec

==============================================================================
