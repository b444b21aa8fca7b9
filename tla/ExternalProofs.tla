--------------------------- MODULE ExternalProofs ----------------------------
(***************************************************************************)
(* Theorems about ExternalYield, for every set of channels, routes, users, *)
(* amounts and indices.  The coins held for other chains cover what is     *)
(* owed there, and yield claimed for a channel is accounted for, whatever  *)
(* transfers fail, at once or later, and however index updates stop half-  *)
(* way.  The two loops over recipients are folds: the lemmas on tables     *)
(* show that what every round preserves, the loop preserves.               *)
(***************************************************************************)
EXTENDS ExternalYield, TokenProofs, SequenceTheorems

-----------------------------------------------------------------------------
(* The loops over the recipients. *)

\* One round of the loop over the channels, over the routes.
ChannelRound(done, c, down) ==
    IF done.ok /\ c \in yieldRecipients
    THEN ClaimChannel(done.store, c, down) ELSE done

RouteRound(done, r, portion, down) ==
    IF done.ok /\ r \in yieldRecipients
    THEN ClaimRoute(done.store, r, portion[r], down) ELSE done

\* The table of the outcomes after the rounds of a set of positions.
ChannelTable(s, down) ==
    CHOOSE g : g = [p \in SUBSET DOMAIN ChannelOrder |->
        IF p = {} THEN Ok(s)
        ELSE ChannelRound(g[p \ {Max(p)}], ChannelOrder[Max(p)], down)]

RouteTable(s, portion, down) ==
    CHOOSE g : g = [p \in SUBSET DOMAIN RouteOrder |->
        IF p = {} THEN Ok(s)
        ELSE RouteRound(g[p \ {Max(p)}], RouteOrder[Max(p)], portion, down)]

\* The loop over the channels reads the last entry of its table.
LEMMA ChannelsAreTable ==
  ASSUME NEW s, NEW down
  PROVE  ClaimExternalYieldIBC(s, down) = ChannelTable(s, down)[DOMAIN ChannelOrder]
BY DEF ClaimExternalYieldIBC, ForEachRecipient, FoldLeft, MapThenFoldSet, ChannelTable,
       ChannelRound

\* The loop over the routes likewise.
LEMMA RoutesAreTable ==
  ASSUME NEW s, NEW portion, NEW down
  PROVE  ForEachRecipient(LAMBDA t, r : ClaimRoute(t, r, portion[r], down), s, RouteOrder)
           = RouteTable(s, portion, down)[DOMAIN RouteOrder]
BY DEF ForEachRecipient, FoldLeft, MapThenFoldSet, RouteTable, RouteRound

\* A nonempty set of positions has a last one.
LEMMA LastPosition ==
  ASSUME NEW n \in Nat, NEW p \in SUBSET (1 .. n), p # {}
  PROVE  Max(p) \in p /\ \A i \in p : Max(p) >= i
<1> DEFINE gaps == {n - i : i \in p}
<1>1. gaps \in SUBSET Nat /\ gaps # {}
  <2>1. \A i \in p : i \in 1 .. n
    OBVIOUS
  <2>2. \A i \in p : n - i \in Nat
    BY <2>1
  <2>3. gaps \subseteq Nat
    BY <2>2
  <2>4. PICK i \in p : TRUE
    OBVIOUS
  <2>5. n - i \in gaps
    BY <2>4
  <2> QED BY <2>3, <2>5
<1>2. PICK g \in gaps : \A h \in gaps : g <= h
  BY <1>1, LeastNatural
<1>3. PICK j \in p : g = n - j
  BY <1>2
<1>4. \A i \in p : j >= i
  BY <1>2, <1>3
<1> QED BY <1>4 DEF Max

-----------------------------------------------------------------------------
(* Packets. *)

\* The packets of a channel that escrow still answers for, and those of them
\* that carry yield.
Unsettled(ps, c) == {p \in ps : p.channel = c /\ p.state # "accepted"}

UnsettledYield(ps, c) ==
    {p \in ps : /\ p.channel = c
                /\ p.sender = Escrow[c]
                /\ p.state # "accepted"}

\* What one packet adds to them.
Due(p, c) == IF p.channel = c /\ p.state # "accepted" THEN p.amount ELSE 0

YieldDue(p, c) ==
    IF p.channel = c /\ p.sender = Escrow[c] /\ p.state # "accepted"
    THEN p.amount ELSE 0

\* What a finite set of packets carries is a number.
LEMMA CarriedType ==
  ASSUME NEW ps \in SUBSET PacketType, IsFiniteSet(ps)
  PROVE  Carried(ps) \in Nat
<1> DEFINE f == [p \in ps |-> p.amount]
<1>1. f \in [ps -> Nat]
  BY DEF PacketType
<1> HIDE DEF f
<1>2. SumFunction(f) \in Nat
  BY <1>1, SumOfNat
<1> QED BY <1>2 DEF Carried, f

\* One more packet adds what it carries.
LEMMA CarriedAdd ==
  ASSUME NEW ps \in SUBSET PacketType, IsFiniteSet(ps),
         NEW p \in PacketType, p \notin ps
  PROVE  Carried(ps \cup {p}) = Carried(ps) + p.amount
<1> DEFINE f == [q \in ps |-> q.amount]
           T == ps \cup {p}
           h == [q \in T |-> q.amount]
<1>1. /\ IsFiniteSet(ps) /\ p \notin ps /\ T = ps \cup {p}
      /\ f \in [ps -> Int] /\ h \in [T -> Int]
      /\ \A x \in ps : h[x] = f[x]
  BY DEF PacketType
<1>2. h[p] = p.amount
  OBVIOUS
<1> HIDE DEF f, h, T
<1>3. SumFunction(h) = SumFunction(f) + h[p]
  BY <1>1, SumExtendTo
<1> QED BY <1>2, <1>3 DEF Carried, f, h, T

\* The same for what escrow answers for.
LEMMA UnsettledAdd ==
  ASSUME NEW ps \in SUBSET PacketType, IsFiniteSet(ps),
         NEW p \in PacketType, p \notin ps, NEW c \in Channel
  PROVE  /\ Carried(Unsettled(ps \cup {p}, c)) = Carried(Unsettled(ps, c)) + Due(p, c)
         /\ Carried(UnsettledYield(ps \cup {p}, c))
              = Carried(UnsettledYield(ps, c)) + YieldDue(p, c)
         /\ Carried(Unsettled(ps, c)) \in Nat /\ Carried(UnsettledYield(ps, c)) \in Nat
         /\ Due(p, c) \in Nat /\ YieldDue(p, c) \in Nat
<1> DEFINE A == Unsettled(ps, c)
           B == UnsettledYield(ps, c)
<1>1. A \in SUBSET ps /\ B \in SUBSET ps /\ p \notin A /\ p \notin B
  BY DEF Unsettled, UnsettledYield
<1>2. A \in SUBSET PacketType /\ B \in SUBSET PacketType
  BY <1>1
<1>3. IsFiniteSet(A) /\ IsFiniteSet(B)
  BY <1>1, FS_Subset
<1>4. /\ Unsettled(ps \cup {p}, c)
            = IF p.channel = c /\ p.state # "accepted" THEN A \cup {p} ELSE A
      /\ UnsettledYield(ps \cup {p}, c)
            = IF p.channel = c /\ p.sender = Escrow[c] /\ p.state # "accepted"
              THEN B \cup {p} ELSE B
  BY DEF Unsettled, UnsettledYield
<1> HIDE DEF A, B
<1>5. Carried(A) \in Nat /\ Carried(B) \in Nat
  BY <1>2, <1>3, CarriedType
<1>6. Carried(A \cup {p}) = Carried(A) + p.amount
  BY <1>1, <1>2, <1>3, CarriedAdd
<1>7. Carried(B \cup {p}) = Carried(B) + p.amount
  BY <1>1, <1>2, <1>3, CarriedAdd
<1>8. p.amount \in Nat
  BY DEF PacketType
<1>9. Carried(Unsettled(ps \cup {p}, c)) = Carried(A) + Due(p, c)
  BY <1>4, <1>5, <1>6 DEF Due
<1>10. Carried(UnsettledYield(ps \cup {p}, c)) = Carried(B) + YieldDue(p, c)
  BY <1>4, <1>5, <1>7 DEF YieldDue
<1> QED BY <1>5, <1>8, <1>9, <1>10 DEF A, B, Due, YieldDue

\* There is always an identifier left.
LEMMA NewIdIsNew ==
  ASSUME NEW s, s.packets \in SUBSET PacketType, IsFiniteSet(s.packets)
  PROVE  NewId(s) \in Nat /\ \A p \in s.packets : p.id # NewId(s)
<1> DEFINE ps == s.packets
           n  == Cardinality(ps) + 1
           f  == [i \in 1 .. n |-> CHOOSE p \in ps : p.id = i]
<1>1. Cardinality(ps) \in Nat
  BY FS_CardinalityType
<1>2. ASSUME \A i \in 1 .. n : \E p \in ps : p.id = i
      PROVE  FALSE
  <2>1. \A i \in 1 .. n : f[i] \in ps /\ f[i].id = i
    BY <1>2
  <2>2. f \in [1 .. n -> ps]
    BY <2>1
  <2>3. n \in Int /\ 1 <= n
    BY <1>1
  <2>4. IsFiniteSet(1 .. n) /\ Cardinality(1 .. n) = n
    BY <1>1, <2>3, FS_Interval
  <2>5. Cardinality(ps) < Cardinality(1 .. n)
    BY <1>1, <2>4
  <2> HIDE DEF f, n
  <2>6. \E i, j \in 1 .. n : i # j /\ f[i] = f[j]
    BY <2>2, <2>4, <2>5, FS_PigeonHole
  <2> QED BY <2>1, <2>6
<1>3. \E i \in 1 .. n : \A p \in ps : p.id # i
  BY <1>2
<1>4. NewId(s) \in 1 .. n /\ \A p \in ps : p.id # NewId(s)
  BY <1>3 DEF NewId
<1> QED BY <1>1, <1>4

-----------------------------------------------------------------------------
(* What an index update may be interrupted in the middle of without breaking. *)

ExternalStoreType ==
    [ ledger     : LedgerType,
      retry      : [Destination -> Nat],
      total      : [Destination -> Nat],
      packets    : SUBSET PacketType,
      collateral : [Route -> Nat],
      delivered  : [Destination -> Nat] ]

\* The ledger is sound, and packets are finitely many and told apart by their ids.
GoodExternal(s) ==
    /\ s \in ExternalStoreType
    /\ Sound(s.ledger)
    /\ IsFiniteSet(s.packets)
    /\ \A p, q \in s.packets : p.id = q.id => p = q

\* EscrowBacked and ChannelYieldAccounted for one channel, behind which v
\* circulates.
ChannelKept(s, c, v) ==
    /\ s.ledger.balance[Escrow[c]] >=
           v + s.retry[c] + Carried(Unsettled(s.packets, c))
    /\ s.total[c] =
           s.delivered[c] + s.retry[c] + Carried(UnsettledYield(s.packets, c))

\* RouteYieldNotDuplicated for one route.
RouteKept(s, r) == s.delivered[r] + s.retry[r] <= s.total[r]

\* WarpBacked, with an amount to spare.
WarpKept(s, spare) ==
    s.ledger.balance[Warp] >=
        SumFunction(s.collateral) + SumFunctionOnSet(s.retry, Route) + spare

\* The invariant of the store, while spare of the warp account's yield has been
\* claimed and is still to be shared out.
Kept(s, v, spare) ==
    /\ GoodExternal(s)
    /\ \A c \in Channel : ChannelKept(s, c, v[c])
    /\ \A r \in Route : RouteKept(s, r)
    /\ WarpKept(s, spare)

\* The destinations are finitely many.
LEMMA DestinationFinite == IsFiniteSet(Channel) /\ IsFiniteSet(Route)
<1>1. Channel \in SUBSET Destination /\ Route \in SUBSET Destination
  BY DEF Destination
<1> QED BY <1>1, ExternalAssumption, FS_Subset

\* The accounts that hold coins for other chains are accounts like any other.
LEMMA HoldingAccounts ==
  /\ Warp \in Account /\ Collector \in Account /\ StakedVault \in Account
  /\ StakedVault # Warp
  /\ \A c \in Channel : /\ Escrow[c] \in Account /\ Escrow[c] # Warp
                        /\ Escrow[c] # StakedVault /\ Escrow[c] # Collector
                        /\ Escrow[c] \notin User
  /\ \A c, d \in Channel : Escrow[c] = Escrow[d] => c = d
  /\ \A u \in User : u \in Account /\ u # Warp /\ u # StakedVault
  /\ Channel \subseteq Destination /\ Route \subseteq Destination
  /\ Channel \cap Route = {}
BY ExternalAssumption, TokenAssumption DEF Destination

\* The retry amounts of the routes add up to a number, which follows one entry.
LEMMA RetrySum ==
  ASSUME NEW f \in [Destination -> Nat], NEW h \in [Destination -> Nat],
         NEW r \in Route, \A x \in Route : x # r => h[x] = f[x]
  PROVE  /\ SumFunctionOnSet(f, Route) \in Nat
         /\ SumFunctionOnSet(h, Route) = SumFunctionOnSet(f, Route) + (h[r] - f[r])
<1> DEFINE F == [x \in Route |-> f[x]]
           H == [x \in Route |-> h[x]]
           d == h[r] - f[r]
<1>1. \A x \in Route : f[x] \in Nat /\ h[x] \in Nat
  BY HoldingAccounts
<1>2. /\ IsFiniteSet(Route)
      /\ F \in [Route -> Nat] /\ F \in [Route -> Int] /\ H \in [Route -> Int]
      /\ d \in Int /\ H[r] = F[r] + d
      /\ \A x \in Route : x # r => H[x] = F[x]
      /\ \A x \in Route : f[x] = F[x] /\ h[x] = H[x]
  BY <1>1, DestinationFinite
<1> HIDE DEF F, H, d
<1>3. SumFunction(H) = SumFunction(F) + d
  BY <1>2, SumShift
<1>4. SumFunction(F) \in Nat
  BY <1>2, SumOfNat
<1>5. SumFunctionOnSet(f, Route) = SumFunction(F)
  BY <1>2, SumOnPart
<1>6. SumFunctionOnSet(h, Route) = SumFunction(H)
  BY <1>2, SumOnPart
<1> QED BY <1>3, <1>4, <1>5, <1>6 DEF d

\* Retry amounts of channels do not matter to the warp account.
LEMMA RetrySumSame ==
  ASSUME NEW f \in [Destination -> Nat], NEW h \in [Destination -> Nat],
         \A x \in Route : h[x] = f[x]
  PROVE  SumFunctionOnSet(h, Route) = SumFunctionOnSet(f, Route)
<1> DEFINE F == [x \in Route |-> f[x]]
<1>1. /\ IsFiniteSet(Route) /\ F \in [Route -> Int]
      /\ \A x \in Route : f[x] = F[x] /\ h[x] = F[x]
  BY DestinationFinite, HoldingAccounts
<1> HIDE DEF F
<1>2. SumFunctionOnSet(f, Route) = SumFunction(F)
  BY <1>1, SumOnPart
<1>3. SumFunctionOnSet(h, Route) = SumFunction(F)
  BY <1>1, SumOnPart
<1> QED BY <1>2, <1>3

\* What the invariant compares are numbers.
LEMMA StoreSums ==
  ASSUME NEW s, GoodExternal(s)
  PROVE  /\ \A c \in Channel : /\ Carried(Unsettled(s.packets, c)) \in Nat
                               /\ Carried(UnsettledYield(s.packets, c)) \in Nat
                               /\ s.ledger.balance[Escrow[c]] \in Nat
                               /\ s.retry[c] \in Nat
                               /\ s.total[c] \in Nat /\ s.delivered[c] \in Nat
         /\ s.ledger.balance[Warp] \in Nat
         /\ SumFunction(s.collateral) \in Nat
         /\ SumFunctionOnSet(s.retry, Route) \in Nat
<1>1. /\ s.packets \in SUBSET PacketType /\ IsFiniteSet(s.packets)
      /\ s.ledger \in LedgerType /\ s.collateral \in [Route -> Nat]
      /\ s.retry \in [Destination -> Nat]
      /\ s.total \in [Destination -> Nat] /\ s.delivered \in [Destination -> Nat]
  BY DEF GoodExternal, ExternalStoreType
<1>2. ASSUME NEW c \in Channel
      PROVE  /\ Carried(Unsettled(s.packets, c)) \in Nat
             /\ Carried(UnsettledYield(s.packets, c)) \in Nat
             /\ s.ledger.balance[Escrow[c]] \in Nat
             /\ s.retry[c] \in Nat
             /\ s.total[c] \in Nat /\ s.delivered[c] \in Nat
  <2>1. /\ Unsettled(s.packets, c) \in SUBSET s.packets
        /\ UnsettledYield(s.packets, c) \in SUBSET s.packets
    BY DEF Unsettled, UnsettledYield
  <2>2. /\ Unsettled(s.packets, c) \in SUBSET PacketType
        /\ UnsettledYield(s.packets, c) \in SUBSET PacketType
    BY <1>1, <2>1
  <2>3. IsFiniteSet(Unsettled(s.packets, c)) /\ IsFiniteSet(UnsettledYield(s.packets, c))
    BY <1>1, <2>1, FS_Subset
  <2>4. /\ Carried(Unsettled(s.packets, c)) \in Nat
        /\ Carried(UnsettledYield(s.packets, c)) \in Nat
    BY <2>2, <2>3, CarriedType
  <2>5. c \in Destination /\ Escrow[c] \in Address
    BY HoldingAccounts DEF Address
  <2>6. s.ledger.balance[Escrow[c]] \in Nat
    BY <1>1, <2>5 DEF LedgerType
  <2> QED BY <1>1, <2>4, <2>5, <2>6
<1>3. s.ledger.balance[Warp] \in Nat
  BY <1>1, HoldingAccounts DEF LedgerType, Address
<1>4. SumFunction(s.collateral) \in Nat
  BY <1>1, DestinationFinite, SumOfNat
<1>5. SumFunctionOnSet(s.retry, Route) \in Nat
  <2> DEFINE F == [x \in Route |-> s.retry[x]]
  <2>1. F \in [Route -> Nat] /\ F \in [Route -> Int] /\ \A x \in Route : s.retry[x] = F[x]
    BY <1>1, HoldingAccounts
  <2> HIDE DEF F
  <2>2. SumFunctionOnSet(s.retry, Route) = SumFunction(F)
    BY <2>1, DestinationFinite, SumOnPart
  <2>3. SumFunction(F) \in Nat
    BY <2>1, DestinationFinite, SumOfNat
  <2> QED BY <2>2, <2>3
<1> QED BY <1>2, <1>3, <1>4, <1>5

\* A step over one channel keeps the invariant when it does for that channel.
LEMMA ChannelStep ==
  ASSUME NEW s, NEW t, NEW v \in [Channel -> Nat], NEW w, NEW spare \in Int,
         NEW c \in Channel,
         Kept(s, v, spare), GoodExternal(t), ChannelKept(t, c, w[c]),
         t.collateral = s.collateral,
         \A x \in Destination \ {c} : /\ t.retry[x] = s.retry[x]
                                     /\ t.total[x] = s.total[x]
                                     /\ t.delivered[x] = s.delivered[x],
         \A x \in Channel \ {c} :
             t.ledger.balance[Escrow[x]] >= s.ledger.balance[Escrow[x]],
         t.ledger.balance[Warp] >= s.ledger.balance[Warp],
         \A x \in Channel \ {c} :
             /\ w[x] = v[x]
             /\ Carried(Unsettled(t.packets, x)) = Carried(Unsettled(s.packets, x))
             /\ Carried(UnsettledYield(t.packets, x))
                  = Carried(UnsettledYield(s.packets, x))
  PROVE  Kept(t, w, spare)
<1>1. GoodExternal(s)
  BY DEF Kept
<1>2. \A x \in Channel : ChannelKept(t, x, w[x])
  <2> SUFFICES ASSUME NEW x \in Channel \ {c}
               PROVE  ChannelKept(t, x, w[x])
    OBVIOUS
  <2>1. ChannelKept(s, x, v[x])
    BY DEF Kept
  <2>2. x \in Destination \ {c}
    BY HoldingAccounts
  <2>3. /\ Carried(Unsettled(s.packets, x)) \in Nat /\ s.retry[x] \in Nat
        /\ s.ledger.balance[Escrow[x]] \in Nat /\ t.ledger.balance[Escrow[x]] \in Nat
        /\ v[x] \in Nat
    BY <1>1, StoreSums
  <2>4. t.ledger.balance[Escrow[x]] >= s.ledger.balance[Escrow[x]]
    OBVIOUS
  <2> QED BY <2>1, <2>2, <2>3, <2>4 DEF ChannelKept
<1>3. \A r \in Route : RouteKept(t, r)
  <2>1. \A r \in Route : r \in Destination \ {c}
    BY HoldingAccounts
  <2> QED BY <2>1 DEF Kept, RouteKept
<1>4. WarpKept(t, spare)
  <2>1. SumFunctionOnSet(t.retry, Route) = SumFunctionOnSet(s.retry, Route)
    <3>1. \A r \in Route : t.retry[r] = s.retry[r]
      BY HoldingAccounts
    <3>2. s.retry \in [Destination -> Nat] /\ t.retry \in [Destination -> Nat]
      BY <1>1 DEF GoodExternal, ExternalStoreType
    <3> QED BY <3>1, <3>2, RetrySumSame
  <2>2. /\ s.ledger.balance[Warp] \in Nat /\ t.ledger.balance[Warp] \in Nat
        /\ SumFunction(s.collateral) \in Nat /\ SumFunctionOnSet(s.retry, Route) \in Nat
    BY <1>1, StoreSums
  <2>3. WarpKept(s, spare)
    BY DEF Kept
  <2> QED BY <2>1, <2>2, <2>3 DEF WarpKept
<1> QED BY <1>2, <1>3, <1>4 DEF Kept

\* A step over one route keeps it when it does for that route and when the warp
\* account receives what it is made to answer for.
LEMMA RouteStep ==
  ASSUME NEW s, NEW t, NEW v, NEW spare \in Int, NEW left \in Int, NEW r \in Route,
         Kept(s, v, spare), GoodExternal(t), RouteKept(t, r), t.packets = s.packets,
         \A x \in Destination \ {r} : /\ t.retry[x] = s.retry[x]
                                     /\ t.total[x] = s.total[x]
                                     /\ t.delivered[x] = s.delivered[x],
         \A c \in Channel : t.ledger.balance[Escrow[c]] = s.ledger.balance[Escrow[c]],
         \A x \in Route \ {r} : t.collateral[x] = s.collateral[x],
         (t.ledger.balance[Warp] - s.ledger.balance[Warp]) + spare
             >= (t.collateral[r] - s.collateral[r]) + (t.retry[r] - s.retry[r]) + left
  PROVE  Kept(t, v, left)
<1>1. \A c \in Channel : ChannelKept(t, c, v[c])
  <2>1. \A c \in Channel : c \in Destination \ {r} /\ ChannelKept(s, c, v[c])
    BY HoldingAccounts DEF Kept
  <2> QED BY <2>1 DEF ChannelKept
<1>2. \A x \in Route : RouteKept(t, x)
  <2>1. \A x \in Route \ {r} : x \in Destination \ {r} /\ RouteKept(s, x)
    BY HoldingAccounts DEF Kept
  <2>2. \A x \in Route \ {r} : RouteKept(t, x)
    BY <2>1 DEF RouteKept
  <2> QED BY <2>2
<1>3. WarpKept(t, left)
  <2>1. /\ s.retry \in [Destination -> Nat] /\ t.retry \in [Destination -> Nat]
        /\ s.collateral \in [Route -> Nat] /\ t.collateral \in [Route -> Nat]
        /\ s.ledger \in LedgerType /\ t.ledger \in LedgerType
    BY DEF Kept, GoodExternal, ExternalStoreType
  <2>2. /\ SumFunctionOnSet(s.retry, Route) \in Nat
        /\ SumFunctionOnSet(t.retry, Route)
             = SumFunctionOnSet(s.retry, Route) + (t.retry[r] - s.retry[r])
    <3>1. \A x \in Route : x # r => t.retry[x] = s.retry[x]
      BY HoldingAccounts
    <3> QED BY <2>1, <3>1, RetrySum
  <2> DEFINE f == s.collateral
             h == t.collateral
             d == h[r] - f[r]
  <2>3. /\ IsFiniteSet(Route) /\ f \in [Route -> Int] /\ f \in [Route -> Nat]
        /\ h \in [Route -> Int] /\ d \in Int /\ h[r] = f[r] + d
        /\ \A x \in Route : x # r => h[x] = f[x]
    BY <2>1, DestinationFinite
  <2> HIDE DEF f, h, d
  <2>4. SumFunction(h) = SumFunction(f) + d
    BY <2>3, SumShift
  <2>5. SumFunction(f) \in Nat
    BY <2>3, SumOfNat
  <2>6. /\ s.ledger.balance[Warp] \in Nat /\ t.ledger.balance[Warp] \in Nat
        /\ s.retry[r] \in Nat /\ t.retry[r] \in Nat
    BY <2>1, HoldingAccounts DEF LedgerType, Address
  <2>7. s.ledger.balance[Warp] >=
            SumFunction(s.collateral) + SumFunctionOnSet(s.retry, Route) + spare
    BY DEF Kept, WarpKept
  <2> QED BY <2>2, <2>3, <2>4, <2>5, <2>6, <2>7 DEF WarpKept, f, h, d
<1> QED BY <1>1, <1>2, <1>3 DEF Kept

-----------------------------------------------------------------------------
(* Coins that move between the accounts. *)

\* A claim pays the account its yield, and no one else anything.
LEMMA ClaimEffect ==
  ASSUME NEW l, Sound(l), NEW a \in Account, CanClaim(l, a)
  PROVE  LET m == ClaimModuleYield(l, a)
         IN  /\ Sound(m) /\ GetYield(l, a) \in Nat
             /\ \A x \in Account : m.balance[x] =
                    IF x = a THEN l.balance[x] + GetYield(l, a) ELSE l.balance[x]
<1> DEFINE y == GetYield(l, a)
           m == SendCoins(l, Yield, a, y)
<1>1. l \in LedgerType /\ l.balance \in [Address -> Nat]
  BY DEF Sound, LedgerType
<1>2. y \in Nat /\ l.balance[Yield] >= y
  BY <1>1, YieldType DEF CanClaim, CanSend
<1> HIDE DEF y
<1>3. /\ Sound(m)
      /\ SameExcept(m, l, {"balance"})
      /\ m.balance = [[l.balance EXCEPT ![Yield] = @ - y] EXCEPT ![a] = @ + y]
  BY <1>2, SendYield
<1> HIDE DEF m
<1>4. \A x \in Account : m.balance[x] = IF x = a THEN l.balance[x] + y ELSE l.balance[x]
  BY <1>1, <1>3, AccountAssumption DEF Address
<1> QED BY <1>2, <1>3, <1>4 DEF m, y, ClaimModuleYield

\* An account that sends coins to itself has what it had.
LEMMA SelfSendEffect ==
  ASSUME NEW l, Sound(l), NEW a \in Account, NEW n \in Nat, n > 0, CanSend(l, a, a, n)
  PROVE  LET m == SendCoins(l, a, a, n)
         IN  Sound(m) /\ \A x \in Account : m.balance[x] = l.balance[x]
<1> DEFINE m == SendCoins(l, a, a, n)
           up == GetPrincipalAmountRoundedUp(n, l.index)
<1>1. l.balance \in [Address -> Nat] /\ l.balance[a] >= n
  BY DEF Sound, LedgerType, CanSend
<1>2. /\ Sound(m)
      /\ SameExcept(m, l, {"balance", "principal", "totalHolders"})
      /\ m.balance = [[l.balance EXCEPT ![a] = @ - n] EXCEPT ![a] = @ + n]
      /\ m.principal = [[l.principal EXCEPT ![a] = @ - up] EXCEPT ![a] = @ + up]
  BY <1>1, SendBetweenAccounts
<1> HIDE DEF m
<1>3. \A x \in Account : m.balance[x] = l.balance[x]
  BY <1>1, <1>2 DEF Address
<1> QED BY <1>2, <1>3 DEF m

\* An account that sends coins to another has them no more.
LEMMA SendEffect ==
  ASSUME NEW l, Sound(l), NEW a \in Account, NEW b \in Account, a # b,
         NEW n \in Nat, n > 0, CanSend(l, a, b, n)
  PROVE  LET m == SendCoins(l, a, b, n)
         IN  /\ Sound(m)
             /\ \A x \in Account : m.balance[x] =
                    IF x = a THEN l.balance[x] - n
                    ELSE IF x = b THEN l.balance[x] + n ELSE l.balance[x]
<1> DEFINE m == SendCoins(l, a, b, n)
           up == GetPrincipalAmountRoundedUp(n, l.index)
<1>1. l.balance \in [Address -> Nat] /\ l.balance[a] >= n
  BY DEF Sound, LedgerType, CanSend
<1>2. /\ Sound(m)
      /\ SameExcept(m, l, {"balance", "principal", "totalHolders"})
      /\ m.balance = [[l.balance EXCEPT ![a] = @ - n] EXCEPT ![b] = @ + n]
      /\ m.principal = [[l.principal EXCEPT ![a] = @ - up] EXCEPT ![b] = @ + up]
  BY <1>1, SendBetweenAccounts
<1> HIDE DEF m
<1>3. \A x \in Account : m.balance[x] =
          IF x = a THEN l.balance[x] - n
          ELSE IF x = b THEN l.balance[x] + n ELSE l.balance[x]
  BY <1>1, <1>2 DEF Address
<1> QED BY <1>2, <1>3 DEF m

\* Nor does a claim take coins or principal from any account: what it pays comes
\* from the yield account.
LEMMA ClaimSpares ==
  ASSUME NEW l, Sound(l), NEW a \in Account, CanClaim(l, a)
  PROVE  Spares(ClaimModuleYield(l, a), l, Account)
<1>1. l \in LedgerType
  BY DEF Sound
<1>2. GetYield(l, a) \in Nat /\ l.balance[Yield] >= GetYield(l, a)
  BY <1>1, YieldType DEF CanClaim, CanSend
<1>3. Spares(SendCoins(l, Yield, a, GetYield(l, a)), l, Account)
  BY <1>2, PayoutSpares
<1> QED BY <1>3 DEF ClaimModuleYield

\* Nor does a payment of an account to itself.
LEMMA SelfSendSpares ==
  ASSUME NEW l, Sound(l), NEW a \in Account, NEW n \in Nat, n > 0, CanSend(l, a, a, n)
  PROVE  Spares(SendCoins(l, a, a, n), l, Account)
<1>1. l.balance[a] >= n
  BY DEF CanSend
<1>2. /\ Spares(SendCoins(l, a, a, n), l, Account \ {a})
      /\ a # a => SendCoins(l, a, a, n).balance[a] < l.balance[a]
      /\ a = a => Spares(SendCoins(l, a, a, n), l, Account)
  BY <1>1, PaymentSpares
<1> QED BY <1>2

\* What claims and such payments leave has taken from no account.
LEMMA ClaimAndSendSpares ==
  ASSUME NEW l, Sound(l), NEW a \in Account, CanClaim(l, a), NEW n \in Nat, n > 0,
         CanSend(ClaimModuleYield(l, a), a, a, n)
  PROVE  Spares(SendCoins(ClaimModuleYield(l, a), a, a, n), l, Account)
<1> DEFINE m == ClaimModuleYield(l, a)
<1>1. Spares(m, l, Account)
  BY ClaimSpares
<1> HIDE DEF m
<1>2. Sound(m)
  BY <1>1 DEF Spares
<1>3. Spares(SendCoins(m, a, a, n), m, Account)
  BY <1>2, SelfSendSpares DEF m
<1>4. Spares(SendCoins(m, a, a, n), l, Account)
  BY <1>1, <1>3, SparesTransitive
<1> QED BY <1>4 DEF m

-----------------------------------------------------------------------------
(* One round over a channel. *)

\* A transfer adds one packet, with an id of its own.
LEMMA TransferEffect ==
  ASSUME NEW s, GoodExternal(s), NEW c \in Channel, NEW sender \in Account,
         NEW n \in Nat \ {0}, Sound(SendCoins(s.ledger, sender, Escrow[c], n))
  PROVE  LET t == SendTransfer(s, c, sender, n)
         IN  /\ GoodExternal(t)
             /\ t.ledger = SendCoins(s.ledger, sender, Escrow[c], n)
             /\ t.retry = s.retry /\ t.total = s.total
             /\ t.collateral = s.collateral /\ t.delivered = s.delivered
             /\ \A x \in Channel :
                    /\ Carried(Unsettled(s.packets, x)) \in Nat
                    /\ Carried(UnsettledYield(s.packets, x)) \in Nat
                    /\ Carried(Unsettled(t.packets, x)) =
                           Carried(Unsettled(s.packets, x)) + (IF x = c THEN n ELSE 0)
                    /\ Carried(UnsettledYield(t.packets, x)) =
                           Carried(UnsettledYield(s.packets, x))
                           + (IF x = c /\ sender = Escrow[c] THEN n ELSE 0)
<1> DEFINE t == SendTransfer(s, c, sender, n)
           l == SendCoins(s.ledger, sender, Escrow[c], n)
           p == [id |-> NewId(s), channel |-> c, sender |-> sender,
                 amount |-> n, state |-> "sent"]
<1>1. /\ s \in ExternalStoreType /\ s.packets \in SUBSET PacketType /\ IsFiniteSet(s.packets)
      /\ \A q, u \in s.packets : q.id = u.id => q = u
  BY DEF GoodExternal, ExternalStoreType
<1>2. NewId(s) \in Nat /\ \A q \in s.packets : q.id # NewId(s)
  BY <1>1, NewIdIsNew
<1>3. p \in PacketType /\ p \notin s.packets /\ p.id = NewId(s)
  BY <1>2 DEF PacketType
<1>4. /\ p.channel = c /\ p.sender = sender /\ p.amount = n /\ p.state # "accepted"
  OBVIOUS
<1>5. Sound(l) /\ l \in LedgerType
  BY DEF Sound
<1> DEFINE k == [s EXCEPT !.ledger = l]
           ps == s.packets \cup {p}
<1>6. t = [k EXCEPT !.packets = ps]
  BY <1>1 DEF SendTransfer, ExternalStoreType
<1>7. ps \in SUBSET PacketType
  BY <1>1, <1>3
<1> HIDE DEF p, l, ps
<1>8. /\ k \in ExternalStoreType /\ k.ledger = l /\ k.packets = s.packets
      /\ k.retry = s.retry /\ k.total = s.total
      /\ k.collateral = s.collateral /\ k.delivered = s.delivered
  BY <1>1, <1>5 DEF ExternalStoreType
<1> HIDE DEF t, k
<1>9. /\ t \in ExternalStoreType /\ t.ledger = l /\ t.packets = ps
      /\ t.retry = s.retry /\ t.total = s.total
      /\ t.collateral = s.collateral /\ t.delivered = s.delivered
  BY <1>6, <1>7, <1>8 DEF ExternalStoreType
<1>10. IsFiniteSet(s.packets \cup {p})
  BY <1>1, FS_AddElement
<1>11. GoodExternal(t)
  BY <1>1, <1>2, <1>3, <1>5, <1>9, <1>10 DEF GoodExternal, ps
<1>12. ASSUME NEW x \in Channel
       PROVE  /\ Carried(Unsettled(s.packets, x)) \in Nat
              /\ Carried(UnsettledYield(s.packets, x)) \in Nat
              /\ Carried(Unsettled(t.packets, x)) =
                     Carried(Unsettled(s.packets, x)) + (IF x = c THEN n ELSE 0)
              /\ Carried(UnsettledYield(t.packets, x)) =
                     Carried(UnsettledYield(s.packets, x))
                     + (IF x = c /\ sender = Escrow[c] THEN n ELSE 0)
  <2>1. /\ Carried(Unsettled(s.packets \cup {p}, x))
             = Carried(Unsettled(s.packets, x)) + Due(p, x)
        /\ Carried(UnsettledYield(s.packets \cup {p}, x))
             = Carried(UnsettledYield(s.packets, x)) + YieldDue(p, x)
        /\ Carried(Unsettled(s.packets, x)) \in Nat
        /\ Carried(UnsettledYield(s.packets, x)) \in Nat
        /\ Due(p, x) \in Nat /\ YieldDue(p, x) \in Nat
    BY <1>1, <1>3, UnsettledAdd
  <2>2. /\ Due(p, x) = IF x = c THEN n ELSE 0
        /\ YieldDue(p, x) = IF x = c /\ sender = Escrow[c] THEN n ELSE 0
    BY <1>4 DEF Due, YieldDue
  <2> QED BY <1>9, <2>1, <2>2 DEF ps
<1> QED BY <1>9, <1>11, <1>12 DEF t, l

\* The claim of a channel's yield, and whatever becomes of the transfer, keep
\* the invariant; a claim that fails changes nothing.
LEMMA ClaimChannelKept ==
  ASSUME NEW s, NEW v, NEW c \in Channel, NEW down, Kept(s, v, 0),
         v \in [Channel -> Nat]
  PROVE  /\ Kept(ClaimChannel(s, c, down).store, v, 0)
         /\ ClaimChannel(s, c, down).ok \in BOOLEAN
<1> DEFINE e == Escrow[c]
           y == GetYield(s.ledger, e)
           m == ClaimModuleYield(s.ledger, e)
           n == y + s.retry[c]
           claimed == RemoveRetryAmount([s EXCEPT !.ledger = ClaimModuleYield(@, e)], c)
           works == c \notin down /\ CanSend(claimed.ledger, e, e, n)
           sent  == SendTransfer(claimed, c, e, n)
           noted == IncrementRetryAmount(claimed, c, n)
           result == ClaimChannel(s, c, down)
<1>1. result = IF ~CanClaim(s.ledger, e) THEN Fail(s)
               ELSE IF n <= 0 THEN Ok(claimed)
               ELSE Ok(IncrementTotalExternalYield(IF works THEN sent ELSE noted, c, y))
  BY DEF ClaimChannel
<1> HIDE DEF result
<1>2. CASE ~CanClaim(s.ledger, e)
  BY <1>1, <1>2 DEF Fail, result
<1>3. CASE CanClaim(s.ledger, e)
  <2>1. /\ e \in Account /\ c \in Destination /\ e # Warp
        /\ \A x \in Channel \ {c} : Escrow[x] # e
    BY HoldingAccounts
  <2>2. /\ s \in ExternalStoreType /\ Sound(s.ledger) /\ GoodExternal(s) /\ IsFiniteSet(s.packets)
        /\ \A q, u \in s.packets : q.id = u.id => q = u
        /\ s.retry \in [Destination -> Nat] /\ s.total \in [Destination -> Nat]
        /\ s.delivered \in [Destination -> Nat] /\ s.packets \in SUBSET PacketType
        /\ s.collateral \in [Route -> Nat]
    BY DEF Kept, GoodExternal, ExternalStoreType
  <2>3. /\ Sound(m) /\ y \in Nat
        /\ \A x \in Account : m.balance[x] =
               IF x = e THEN s.ledger.balance[x] + y ELSE s.ledger.balance[x]
    BY <1>3, <2>1, <2>2, ClaimEffect
  <2>4. m \in LedgerType /\ n \in Nat /\ s.retry[c] \in Nat
    BY <2>1, <2>2, <2>3 DEF Sound
  <2> DEFINE k == [s EXCEPT !.ledger = m]
             cleared == [s.retry EXCEPT ![c] = 0]
  <2>5. claimed = [k EXCEPT !.retry = cleared]
    BY <2>2 DEF RemoveRetryAmount, ExternalStoreType
  <2> HIDE DEF claimed, m, y
  <2>6. /\ cleared \in [Destination -> Nat] /\ cleared[c] = 0
        /\ \A x \in Destination \ {c} : cleared[x] = s.retry[x]
    BY <2>1, <2>2
  <2> HIDE DEF cleared
  <2>7. /\ k \in ExternalStoreType /\ k.ledger = m /\ k.packets = s.packets
        /\ k.total = s.total /\ k.collateral = s.collateral
        /\ k.delivered = s.delivered
    BY <2>2, <2>4 DEF ExternalStoreType
  <2> HIDE DEF k
  <2>8. /\ claimed \in ExternalStoreType /\ claimed.ledger = m /\ claimed.total = s.total
        /\ claimed.packets = s.packets /\ claimed.collateral = s.collateral
        /\ claimed.delivered = s.delivered /\ claimed.retry = cleared
    BY <2>5, <2>6, <2>7 DEF ExternalStoreType
  <2>9. GoodExternal(claimed) /\ claimed \in ExternalStoreType
    BY <2>2, <2>3, <2>8 DEF GoodExternal
  <2>10. /\ s.ledger.balance[e] >= v[c] + s.retry[c] + Carried(Unsettled(s.packets, c))
         /\ s.total[c] = s.delivered[c] + s.retry[c] + Carried(UnsettledYield(s.packets, c))
    BY DEF Kept, ChannelKept
  <2>11. /\ v[c] \in Nat /\ s.total[c] \in Nat /\ s.delivered[c] \in Nat
         /\ s.ledger.balance[e] \in Nat /\ m.balance[e] = s.ledger.balance[e] + y
    BY <2>1, <2>2, <2>3 DEF Sound, LedgerType, Address
  <2>12. /\ Carried(Unsettled(s.packets, c)) \in Nat
         /\ Carried(UnsettledYield(s.packets, c)) \in Nat
    BY <2>2, StoreSums
  <2>13. /\ \A x \in Channel \ {c} : m.balance[Escrow[x]] >= s.ledger.balance[Escrow[x]]
         /\ m.balance[Warp] >= s.ledger.balance[Warp]
         /\ 0 \in Int
    <3>1. /\ \A x \in Channel : s.ledger.balance[Escrow[x]] \in Nat
          /\ s.ledger.balance[Warp] \in Nat
      BY <2>2, StoreSums
    <3> QED BY <2>1, <2>3, <3>1, HoldingAccounts
  <2> HIDE DEF m, y, n
  <2>14. CASE n <= 0
    <3>1. result = Ok(claimed) /\ y = 0 /\ s.retry[c] = 0
      BY <1>1, <1>3, <2>3, <2>4, <2>14 DEF n
    <3>2. ChannelKept(claimed, c, v[c])
      BY <2>6, <2>8, <2>10, <2>11, <3>1 DEF ChannelKept, e
    <3>3. Kept(claimed, v, 0)
      BY <2>13, <2>6, <2>9, <2>8, <3>2, ChannelStep
    <3> QED BY <3>1, <3>3 DEF Ok, result
  <2>15. CASE n > 0 /\ works
    <3> DEFINE t == IncrementTotalExternalYield(sent, c, y)
    <3>1. result = Ok(t)
      BY <1>1, <1>3, <2>4, <2>15
    <3>2. /\ Sound(SendCoins(m, e, e, n))
          /\ \A x \in Account : SendCoins(m, e, e, n).balance[x] = m.balance[x]
      BY <2>1, <2>3, <2>4, <2>8, <2>15, SelfSendEffect
    <3>3. /\ GoodExternal(sent)
          /\ sent.ledger = SendCoins(m, e, e, n)
          /\ sent.retry = claimed.retry /\ sent.total = s.total
          /\ sent.collateral = s.collateral /\ sent.delivered = s.delivered
          /\ \A x \in Channel :
                 /\ Carried(Unsettled(s.packets, x)) \in Nat
                 /\ Carried(UnsettledYield(s.packets, x)) \in Nat
                 /\ Carried(Unsettled(sent.packets, x)) =
                        Carried(Unsettled(s.packets, x)) + (IF x = c THEN n ELSE 0)
                 /\ Carried(UnsettledYield(sent.packets, x)) =
                        Carried(UnsettledYield(s.packets, x))
                        + (IF x = c /\ e = Escrow[c] THEN n ELSE 0)
      <4>1. n \in Nat \ {0} /\ Sound(SendCoins(claimed.ledger, e, Escrow[c], n))
        BY <2>4, <2>8, <2>15, <3>2
      <4>2. /\ GoodExternal(sent)
            /\ sent.ledger = SendCoins(claimed.ledger, e, Escrow[c], n)
            /\ sent.retry = claimed.retry /\ sent.total = claimed.total
            /\ sent.collateral = claimed.collateral /\ sent.delivered = claimed.delivered
            /\ \A x \in Channel :
                   /\ Carried(Unsettled(claimed.packets, x)) \in Nat
                   /\ Carried(UnsettledYield(claimed.packets, x)) \in Nat
                   /\ Carried(Unsettled(sent.packets, x)) =
                          Carried(Unsettled(claimed.packets, x)) + (IF x = c THEN n ELSE 0)
                   /\ Carried(UnsettledYield(sent.packets, x)) =
                          Carried(UnsettledYield(claimed.packets, x))
                          + (IF x = c /\ e = Escrow[c] THEN n ELSE 0)
        <5> HIDE DEF e
        <5> QED BY <2>1, <2>9, <4>1, TransferEffect
      <4> QED BY <2>8, <4>2
    <3> HIDE DEF sent
    <3>4. /\ t.ledger = sent.ledger /\ t.retry = sent.retry /\ t.packets = sent.packets
          /\ t.collateral = sent.collateral /\ t.delivered = sent.delivered
          /\ t.total[c] = s.total[c] + y
          /\ \A x \in Destination \ {c} : t.total[x] = s.total[x]
          /\ GoodExternal(t)
      <4>1. sent \in ExternalStoreType /\ sent.total \in [Destination -> Nat]
        BY <3>3 DEF GoodExternal, ExternalStoreType
      <4>2. t = [sent EXCEPT !.total = [s.total EXCEPT ![c] = @ + y]]
        BY <3>3, <4>1 DEF IncrementTotalExternalYield, ExternalStoreType
      <4>3. [s.total EXCEPT ![c] = @ + y] \in [Destination -> Nat]
        BY <2>1, <2>2, <2>3
      <4> HIDE DEF t
      <4>4. /\ t \in ExternalStoreType
            /\ t.ledger = sent.ledger /\ t.retry = sent.retry /\ t.packets = sent.packets
            /\ t.collateral = sent.collateral /\ t.delivered = sent.delivered
            /\ t.total = [s.total EXCEPT ![c] = @ + y]
        BY <4>1, <4>2, <4>3 DEF ExternalStoreType
      <4> QED BY <2>1, <2>2, <3>3, <4>4 DEF GoodExternal
    <3> HIDE DEF t
    <3>5. ChannelKept(t, c, v[c])
      <4>1. /\ Carried(Unsettled(t.packets, c)) = Carried(Unsettled(s.packets, c)) + n
            /\ Carried(UnsettledYield(t.packets, c)) = Carried(UnsettledYield(s.packets, c)) + n
        BY <3>3, <3>4 DEF e
      <4>2. t.ledger.balance[e] = s.ledger.balance[e] + y
        BY <2>1, <2>11, <3>2, <3>3, <3>4
      <4>3. t.retry[c] = 0 /\ t.total[c] = s.total[c] + y /\ t.delivered[c] = s.delivered[c]
        BY <2>6, <2>8, <3>3, <3>4
      <4>4. n = y + s.retry[c] /\ y \in Nat /\ s.retry[c] \in Nat
        BY <2>3, <2>4 DEF n
      <4>5. t.ledger.balance[e] >= v[c] + t.retry[c] + Carried(Unsettled(t.packets, c))
        BY <2>10, <2>11, <2>12, <4>1, <4>2, <4>3, <4>4
      <4>6. t.total[c] = t.delivered[c] + t.retry[c] + Carried(UnsettledYield(t.packets, c))
        BY <2>10, <2>11, <2>12, <4>1, <4>3, <4>4
      <4> QED BY <4>5, <4>6 DEF ChannelKept, e
    <3>6. Kept(t, v, 0)
      <4>1. /\ \A x \in Channel \ {c} :
                   t.ledger.balance[Escrow[x]] >= s.ledger.balance[Escrow[x]]
            /\ t.ledger.balance[Warp] >= s.ledger.balance[Warp]
        BY <2>13, <3>2, <3>3, <3>4, HoldingAccounts
      <4>2. \A x \in Destination \ {c} : /\ t.retry[x] = s.retry[x]
                                        /\ t.total[x] = s.total[x]
                                        /\ t.delivered[x] = s.delivered[x]
        BY <2>6, <2>8, <3>3, <3>4
      <4>3. \A x \in Channel \ {c} :
                /\ v[x] = v[x]
                /\ Carried(Unsettled(t.packets, x)) = Carried(Unsettled(s.packets, x))
                /\ Carried(UnsettledYield(t.packets, x))
                     = Carried(UnsettledYield(s.packets, x))
        BY <3>3, <3>4
      <4>4. t.collateral = s.collateral /\ GoodExternal(t)
        BY <3>3, <3>4
      <4> QED BY <2>13, <3>5, <4>1, <4>2, <4>3, <4>4, ChannelStep
    <3> QED BY <3>1, <3>6 DEF Ok, result
  <2>16. CASE n > 0 /\ ~works
    <3> DEFINE t == IncrementTotalExternalYield(noted, c, y)
    <3>1. result = Ok(t)
      BY <1>1, <1>3, <2>4, <2>16
    <3> DEFINE R == [claimed.retry EXCEPT ![c] = @ + n]
               U == [s.total EXCEPT ![c] = @ + y]
    <3>2. noted = [claimed EXCEPT !.retry = R]
      BY <2>8 DEF IncrementRetryAmount, ExternalStoreType
    <3>3. /\ R \in [Destination -> Nat] /\ R[c] = n
          /\ \A x \in Destination \ {c} : R[x] = s.retry[x]
          /\ U \in [Destination -> Nat] /\ U[c] = s.total[c] + y
          /\ \A x \in Destination \ {c} : U[x] = s.total[x]
      BY <2>1, <2>2, <2>3, <2>4, <2>6, <2>8
    <3> HIDE DEF R
    <3>4. /\ noted \in ExternalStoreType /\ noted.ledger = m /\ noted.total = s.total
          /\ noted.packets = s.packets /\ noted.collateral = s.collateral
          /\ noted.delivered = s.delivered /\ noted.retry = R
      <4> HIDE DEF noted
      <4> QED BY <2>8, <3>2, <3>3 DEF ExternalStoreType
    <3> HIDE DEF noted
    <3>5. t = [noted EXCEPT !.total = U]
      BY <3>4 DEF IncrementTotalExternalYield, ExternalStoreType
    <3> HIDE DEF t, U
    <3>6. /\ t \in ExternalStoreType /\ t.ledger = m /\ t.packets = s.packets
          /\ t.collateral = s.collateral /\ t.delivered = s.delivered
          /\ t.retry = R /\ t.total = U
      BY <3>3, <3>4, <3>5 DEF ExternalStoreType
    <3>7. /\ t.ledger = m /\ t.packets = s.packets
          /\ t.collateral = s.collateral /\ t.delivered = s.delivered
          /\ t.retry[c] = n /\ t.total[c] = s.total[c] + y
          /\ \A x \in Destination \ {c} : t.retry[x] = s.retry[x] /\ t.total[x] = s.total[x]
      BY <3>3, <3>6
    <3>8. GoodExternal(t)
      BY <2>2, <2>3, <3>6 DEF GoodExternal
    <3>9. ChannelKept(t, c, v[c])
      <4>1. n = y + s.retry[c] /\ y \in Nat /\ s.retry[c] \in Nat
        BY <2>3, <2>4 DEF n
      <4>2. t.ledger.balance[e] >= v[c] + t.retry[c] + Carried(Unsettled(t.packets, c))
        BY <2>10, <2>11, <2>12, <3>7, <4>1
      <4>3. t.total[c] = t.delivered[c] + t.retry[c] + Carried(UnsettledYield(t.packets, c))
        BY <2>10, <2>11, <2>12, <3>7, <4>1
      <4> QED BY <4>2, <4>3 DEF ChannelKept, e
    <3>10. Kept(t, v, 0)
      <4>1. /\ \A x \in Channel \ {c} :
                   t.ledger.balance[Escrow[x]] >= s.ledger.balance[Escrow[x]]
            /\ t.ledger.balance[Warp] >= s.ledger.balance[Warp]
        BY <2>13, <3>7
      <4> QED BY <2>13, <3>7, <3>8, <3>9, <4>1, ChannelStep
    <3> QED BY <3>1, <3>10 DEF Ok, result
  <2> QED BY <2>4, <2>14, <2>15, <2>16
<1> QED BY <1>2, <1>3

\* Whatever becomes of a claim and its transfer, it took from no account.
LEMMA ClaimChannelSpares ==
  ASSUME NEW s, NEW c \in Channel, NEW down, GoodExternal(s)
  PROVE  Spares(ClaimChannel(s, c, down).store.ledger, s.ledger, Account)
<1> DEFINE e == Escrow[c]
           y == GetYield(s.ledger, e)
           m == ClaimModuleYield(s.ledger, e)
           n == y + s.retry[c]
           claimed == RemoveRetryAmount([s EXCEPT !.ledger = ClaimModuleYield(@, e)], c)
           works == c \notin down /\ CanSend(claimed.ledger, e, e, n)
           sent  == SendTransfer(claimed, c, e, n)
           noted == IncrementRetryAmount(claimed, c, n)
           result == ClaimChannel(s, c, down)
<1>1. result = IF ~CanClaim(s.ledger, e) THEN Fail(s)
               ELSE IF n <= 0 THEN Ok(claimed)
               ELSE Ok(IncrementTotalExternalYield(IF works THEN sent ELSE noted, c, y))
  BY DEF ClaimChannel
<1>2. /\ s \in ExternalStoreType /\ Sound(s.ledger) /\ s.ledger \in LedgerType
      /\ e \in Account /\ s.retry[c] \in Nat
  BY HoldingAccounts DEF GoodExternal, ExternalStoreType, Sound
<1>3. /\ claimed.ledger = m /\ noted.ledger = claimed.ledger
      /\ sent.ledger = SendCoins(claimed.ledger, e, e, n)
  BY <1>2 DEF RemoveRetryAmount, IncrementRetryAmount, SendTransfer, ExternalStoreType
<1>4. \A t : IncrementTotalExternalYield(t, c, y).ledger = t.ledger
  BY <1>2 DEF IncrementTotalExternalYield, ExternalStoreType
<1> HIDE DEF result, claimed, sent, noted, m
<1>5. CASE ~CanClaim(s.ledger, e)
  <2>1. result.store = s
    BY <1>1, <1>5 DEF Fail
  <2> QED BY <1>2, <2>1, SparesReflexive DEF result
<1>6. CASE CanClaim(s.ledger, e)
  <2>1. Spares(m, s.ledger, Account)
    BY <1>2, <1>6, ClaimSpares DEF m
  <2>2. y \in Nat /\ n \in Nat
    BY <1>2, <1>6, ClaimEffect
  <2> HIDE DEF y, n, e
  <2>3. CASE n <= 0
    BY <1>1, <1>3, <1>6, <2>1, <2>3 DEF Ok, result
  <2>4. CASE n > 0 /\ ~works
    <3>1. result.store.ledger = m
      <4> HIDE DEF works
      <4> QED BY <1>1, <1>3, <1>4, <1>6, <2>2, <2>4 DEF Ok
    <3> QED BY <2>1, <3>1 DEF result
  <2>5. CASE n > 0 /\ works
    <3>1. result.store.ledger = SendCoins(m, e, e, n)
      <4> HIDE DEF works
      <4> QED BY <1>1, <1>3, <1>4, <1>6, <2>2, <2>5 DEF Ok
    <3>2. CanSend(m, e, e, n)
      BY <1>3, <2>5
    <3>3. Spares(SendCoins(m, e, e, n), s.ledger, Account)
      BY <1>2, <1>6, <2>2, <2>5, <3>2, ClaimAndSendSpares DEF m
    <3> QED BY <3>1, <3>3 DEF result
  <2> QED BY <2>2, <2>3, <2>4, <2>5
<1> QED BY <1>5, <1>6

\* The loop over the channels keeps the invariant.
LEMMA ChannelsKept ==
  ASSUME NEW s, NEW v \in [Channel -> Nat], NEW down, Kept(s, v, 0)
  PROVE  /\ Kept(ClaimExternalYieldIBC(s, down).store, v, 0)
         /\ Spares(ClaimExternalYieldIBC(s, down).store.ledger, s.ledger, Account)
<1> DEFINE D == DOMAIN ChannelOrder
           R == {x \in [ok : BOOLEAN, store : ExternalStoreType] :
                    Kept(x.store, v, 0) /\ Spares(x.store.ledger, s.ledger, Account)}
           top == [p \in SUBSET D |-> Max(p)]
           I == [p \in SUBSET D |-> R]
           F == [q \in R \X D |-> ChannelRound(q[1], ChannelOrder[q[2]], down)]
           n == Cardinality(Channel)
           T == ChannelTable(s, down)
<1>1. /\ n \in Nat /\ D = 1 .. n /\ IsFiniteSet(D)
      /\ \A i \in D : ChannelOrder[i] \in Channel
  <2>1. n \in Nat
    BY DestinationFinite, FS_CardinalityType
  <2>2. D = 1 .. n /\ \A i \in D : ChannelOrder[i] \in Channel
    BY ExternalAssumption
  <2>3. IsFiniteSet(1 .. n)
    <3> HIDE DEF n
    <3> QED BY <2>1, FS_Interval
  <2> HIDE DEF D, n
  <2> QED BY <2>1, <2>2, <2>3
<1> HIDE DEF n, D
<1>2. \A p \in SUBSET D : p # {} => Max(p) \in p /\ p \ {Max(p)} \in SUBSET D
  BY <1>1, LastPosition
<1>3. Ok(s) \in R
  <2>1. Sound(s.ledger)
    BY DEF Kept, GoodExternal
  <2>2. Spares(s.ledger, s.ledger, Account)
    BY <2>1, SparesReflexive
  <2> QED BY <2>2 DEF Ok, Kept, GoodExternal
<1>4. ASSUME NEW x \in R, NEW i \in D
      PROVE  ChannelRound(x, ChannelOrder[i], down) \in R
  <2> DEFINE c == ChannelOrder[i]
             u == ClaimChannel(x.store, c, down)
  <2>1. c \in Channel /\ Kept(x.store, v, 0)
    BY <1>1
  <2>2. Kept(u.store, v, 0) /\ u.ok \in BOOLEAN
    BY <2>1, ClaimChannelKept
  <2>3. u.store \in ExternalStoreType
    BY <2>2 DEF Kept, GoodExternal
  <2>4. u = [ok |-> u.ok, store |-> u.store]
    BY DEF ClaimChannel, Ok, Fail
  <2>5. Spares(u.store.ledger, s.ledger, Account)
    <3>1. Spares(u.store.ledger, x.store.ledger, Account)
      BY <2>1, ClaimChannelSpares DEF Kept
    <3>2. Spares(x.store.ledger, s.ledger, Account) /\ Sound(s.ledger)
      BY DEF Kept, GoodExternal
    <3> HIDE DEF u, R
    <3> QED BY <3>1, <3>2, SparesTransitive
  <2> HIDE DEF u
  <2>6. u \in R
    BY <2>2, <2>3, <2>4, <2>5
  <2> HIDE DEF R
  <2> QED BY <2>6 DEF ChannelRound, u
<1> HIDE DEF R
<1>5. \A x \in R : \A i \in D : F[<<x, i>>] = ChannelRound(x, ChannelOrder[i], down)
  OBVIOUS
<1>6. T = [p \in SUBSET D |->
             IF p = {} THEN Ok(s)
             ELSE ChannelRound(T[p \ {Max(p)}], ChannelOrder[Max(p)], down)]
  <2> DEFINE base == Ok(s)
  <2>1. RoundsLead(D, base, F, top, I, R)
    <3>1. \A p \in SUBSET D : p # {} =>
              top[p] \in p /\ top[p] \in D /\ p \ {top[p]} \in SUBSET D
      BY <1>2
    <3>2. {} \in SUBSET D /\ \A p \in SUBSET D : I[p] = R
      OBVIOUS
    <3> HIDE DEF I, F, top
    <3>3. \A x \in R : \A i \in D : F[<<x, i>>] \in R
      BY <1>4, <1>5
    <3>4. \A p \in SUBSET D : p # {} =>
              \A x \in I[p \ {top[p]}] : F[<<x, top[p]>>] \in I[p]
      BY <3>1, <3>2, <3>3
    <3> QED BY <1>1, <1>3, <3>1, <3>2, <3>4 DEF RoundsLead
  <2> HIDE DEF base, I, F, top
  <2>2. PICK g \in [SUBSET D -> R] : \A p \in SUBSET D : FoldEntry(g, p, base, F, top, I)
    <3>1. HasFoldTable(D, base, F, top, I, R)
      BY <2>1, FoldTableExists
    <3> QED BY <3>1 DEF HasFoldTable
  <2>3. \A p \in SUBSET D :
            g[p] = IF p = {} THEN Ok(s)
                   ELSE ChannelRound(g[p \ {Max(p)}], ChannelOrder[Max(p)], down)
    <3>1. \A p \in SUBSET D : p # {} => g[p \ {Max(p)}] \in R /\ Max(p) \in D
      BY <1>2
    <3>2. \A p \in SUBSET D : top[p] = Max(p)
      BY DEF top
    <3> QED BY <1>5, <2>2, <3>1, <3>2 DEF base, FoldEntry
  <2>4. g = [p \in SUBSET D |->
               IF p = {} THEN Ok(s)
               ELSE ChannelRound(g[p \ {Max(p)}], ChannelOrder[Max(p)], down)]
    BY <2>3
  <2> QED BY <2>4 DEF ChannelTable, D
<1> HIDE DEF T
<1>7. T[D] \in I[D]
  <2>1. \A p \in SUBSET D : T[p] = IF p = {} THEN Ok(s)
             ELSE ChannelRound(T[p \ {Max(p)}], ChannelOrder[Max(p)], down)
    BY <1>6
  <2>2. \A p \in SUBSET D : I[p] = R /\ top[p] = Max(p)
    OBVIOUS
  <2> HIDE DEF I, top
  <2>3. T[{}] \in I[{}]
    BY <1>3, <2>1, <2>2
  <2>4. \A p \in SUBSET D : p # {} => top[p] \in p
    BY <1>2, <2>2
  <2>5. \A p \in SUBSET D : p # {} =>
            (T[p \ {top[p]}] \in I[p \ {top[p]}] => T[p] \in I[p])
    <3> SUFFICES ASSUME NEW p \in SUBSET D, p # {}, T[p \ {Max(p)}] \in R
                 PROVE  T[p] \in R
      BY <1>2, <2>2
    <3>1. Max(p) \in D
      BY <1>2
    <3>2. T[p] = ChannelRound(T[p \ {Max(p)}], ChannelOrder[Max(p)], down)
      BY <2>1
    <3> QED BY <1>4, <3>1, <3>2
  <2> QED BY <1>1, <2>3, <2>4, <2>5, TableWithin
<1>8. T[D] \in R
  BY <1>7
<1>9. ClaimExternalYieldIBC(s, down) = T[D]
  BY ChannelsAreTable DEF T, D
<1> QED BY <1>8, <1>9 DEF R

-----------------------------------------------------------------------------
(* One round over a route. *)

\* What is to spare may be forgotten.
LEMMA KeptSpare ==
  ASSUME NEW s, NEW v, NEW spare \in Int, NEW less \in Int, Kept(s, v, spare),
         less <= spare
  PROVE  Kept(s, v, less)
<1>1. /\ s.ledger.balance[Warp] \in Int /\ SumFunction(s.collateral) \in Int
      /\ SumFunctionOnSet(s.retry, Route) \in Int
  <2>1. /\ s.ledger \in LedgerType /\ s.collateral \in [Route -> Nat]
        /\ s.retry \in [Destination -> Nat]
    BY DEF Kept, GoodExternal, ExternalStoreType
  <2>2. s.ledger.balance[Warp] \in Nat
    BY <2>1, HoldingAccounts DEF LedgerType, Address
  <2>3. SumFunction(s.collateral) \in Nat
    BY <2>1, DestinationFinite, SumOfNat
  <2> DEFINE F == [x \in Route |-> s.retry[x]]
  <2>4. F \in [Route -> Nat] /\ F \in [Route -> Int] /\ \A x \in Route : s.retry[x] = F[x]
    BY <2>1, HoldingAccounts
  <2> HIDE DEF F
  <2>5. SumFunctionOnSet(s.retry, Route) = SumFunction(F)
    BY <2>4, DestinationFinite, SumOnPart
  <2>6. SumFunction(F) \in Nat
    BY <2>4, DestinationFinite, SumOfNat
  <2> QED BY <2>2, <2>3, <2>5, <2>6
<1> QED BY <1>1 DEF Kept, WarpKept

\* A ledger that is sound and took nothing from the accounts that hold coins for
\* other chains may take the place of the store's.
LEMMA LedgerStep ==
  ASSUME NEW s, NEW v, NEW spare \in Int, NEW more \in Int, NEW m, Kept(s, v, spare),
         v \in [Channel -> Nat], Sound(m),
         \A c \in Channel : m.balance[Escrow[c]] >= s.ledger.balance[Escrow[c]],
         m.balance[Warp] >= s.ledger.balance[Warp] + more
  PROVE  Kept([s EXCEPT !.ledger = m], v, spare + more)
<1> DEFINE t == [s EXCEPT !.ledger = m]
<1>1. /\ s \in ExternalStoreType /\ GoodExternal(s) /\ IsFiniteSet(s.packets) /\ m \in LedgerType
      /\ \A p, q \in s.packets : p.id = q.id => p = q
  BY DEF Kept, GoodExternal, ExternalStoreType, Sound
<1>2. /\ t \in ExternalStoreType /\ t.ledger = m /\ t.packets = s.packets
      /\ t.retry = s.retry /\ t.total = s.total
      /\ t.collateral = s.collateral /\ t.delivered = s.delivered
  BY <1>1 DEF ExternalStoreType
<1> HIDE DEF t
<1>3. GoodExternal(t)
  BY <1>1, <1>2 DEF GoodExternal
<1>4. ASSUME NEW c \in Channel
      PROVE  ChannelKept(t, c, v[c])
  <2>1. ChannelKept(s, c, v[c])
    BY DEF Kept
  <2>2. /\ Carried(Unsettled(s.packets, c)) \in Nat
        /\ v[c] \in Nat /\ s.retry[c] \in Nat
        /\ t.ledger.balance[Escrow[c]] \in Nat /\ s.ledger.balance[Escrow[c]] \in Nat
    BY <1>1, <1>3, StoreSums
  <2>3. m.balance[Escrow[c]] >= s.ledger.balance[Escrow[c]]
    OBVIOUS
  <2> QED BY <1>2, <2>1, <2>2, <2>3 DEF ChannelKept
<1>5. \A r \in Route : RouteKept(t, r)
  BY <1>2 DEF Kept, RouteKept
<1>6. WarpKept(t, spare + more)
  <2>1. /\ t.ledger.balance[Warp] \in Nat /\ s.ledger.balance[Warp] \in Nat
        /\ SumFunction(s.collateral) \in Nat /\ SumFunctionOnSet(s.retry, Route) \in Nat
    BY <1>1, <1>3, StoreSums
  <2>2. WarpKept(s, spare)
    BY DEF Kept
  <2> QED BY <1>2, <2>1, <2>2 DEF WarpKept
<1> QED BY <1>3, <1>4, <1>5, <1>6 DEF Kept, t

\* Nor does a round take anything from an account.
LEMMA ClaimRouteSpares ==
  ASSUME NEW s, NEW r \in Route, NEW down, NEW portion \in Nat, GoodExternal(s)
  PROVE  Spares(ClaimRoute(s, r, portion, down).store.ledger, s.ledger, Account)
<1> DEFINE n == portion + s.retry[r]
           removed == RemoveRetryAmount(s, r)
           works == r \notin down /\ CanSend(s.ledger, Warp, Warp, n)
           sent == [RemoteTransferCollateral(removed, r, Warp, n) EXCEPT !.delivered[r] = @ + n]
           noted == IncrementRetryAmount(removed, r, n)
           result == ClaimRoute(s, r, portion, down)
<1>1. result = IF n <= 0 THEN Ok(removed)
               ELSE IF routers[r] # 1 THEN Fail(removed)
               ELSE Ok(IncrementTotalExternalYield(IF works THEN sent ELSE noted, r, portion))
  BY DEF ClaimRoute
<1>2. /\ s \in ExternalStoreType /\ Sound(s.ledger) /\ Warp \in Account /\ n \in Nat
  BY HoldingAccounts DEF GoodExternal, ExternalStoreType
<1>3. /\ removed.ledger = s.ledger /\ noted.ledger = s.ledger
      /\ sent.ledger = SendCoins(s.ledger, Warp, Warp, n)
  BY <1>2 DEF RemoveRetryAmount, IncrementRetryAmount, RemoteTransferCollateral,
              ExternalStoreType
<1>4. \A t : IncrementTotalExternalYield(t, r, portion).ledger = t.ledger
  BY DEF IncrementTotalExternalYield
<1> HIDE DEF result, removed, sent, noted, n
<1>5. Spares(s.ledger, s.ledger, Account)
  BY <1>2, SparesReflexive
<1>6. CASE n > 0 /\ routers[r] = 1 /\ works
  <2>1. result.store.ledger = SendCoins(s.ledger, Warp, Warp, n)
    <3> HIDE DEF works
    <3> QED BY <1>1, <1>2, <1>3, <1>4, <1>6 DEF Ok
  <2>2. Spares(SendCoins(s.ledger, Warp, Warp, n), s.ledger, Account)
    BY <1>2, <1>6, SelfSendSpares
  <2> QED BY <2>1, <2>2 DEF result
<1>7. CASE ~(n > 0 /\ routers[r] = 1 /\ works)
  <2>1. result.store.ledger = s.ledger
    <3> HIDE DEF works
    <3> QED BY <1>1, <1>2, <1>3, <1>4, <1>7 DEF Ok, Fail
  <2> QED BY <1>5, <2>1 DEF result
<1> QED BY <1>6, <1>7

\* A route's part of the yield, and whatever becomes of the transfer, keep the
\* invariant, and so does a missing router.
LEMMA ClaimRouteKept ==
  ASSUME NEW s, NEW v, NEW r \in Route, NEW down, NEW portion \in Nat, NEW spare \in Nat,
         Kept(s, v, spare + portion)
  PROVE  /\ Kept(ClaimRoute(s, r, portion, down).store, v, spare)
         /\ ClaimRoute(s, r, portion, down).ok \in BOOLEAN
<1> DEFINE n == portion + s.retry[r]
           removed == RemoveRetryAmount(s, r)
           cleared == [s.retry EXCEPT ![r] = 0]
           works == r \notin down /\ CanSend(s.ledger, Warp, Warp, n)
           remote == RemoteTransferCollateral(removed, r, Warp, n)
           sent == [remote EXCEPT !.delivered[r] = @ + n]
           noted == IncrementRetryAmount(removed, r, n)
           U == [s.total EXCEPT ![r] = @ + portion]
           result == ClaimRoute(s, r, portion, down)
<1>1. result = IF n <= 0 THEN Ok(removed)
               ELSE IF routers[r] # 1 THEN Fail(removed)
               ELSE Ok(IncrementTotalExternalYield(IF works THEN sent ELSE noted, r, portion))
  BY DEF ClaimRoute
<1> HIDE DEF result
<1>2. /\ s \in ExternalStoreType /\ Sound(s.ledger) /\ GoodExternal(s) /\ IsFiniteSet(s.packets)
      /\ \A q, u \in s.packets : q.id = u.id => q = u
      /\ s.retry \in [Destination -> Nat] /\ s.total \in [Destination -> Nat]
      /\ s.delivered \in [Destination -> Nat] /\ s.packets \in SUBSET PacketType
      /\ s.collateral \in [Route -> Nat] /\ s.ledger \in LedgerType
  BY DEF Kept, GoodExternal, ExternalStoreType
<1>3. r \in Destination /\ Warp \in Account
  BY HoldingAccounts
<1>4. /\ n \in Nat /\ s.retry[r] \in Nat /\ s.total[r] \in Nat /\ s.delivered[r] \in Nat
      /\ s.collateral[r] \in Nat /\ s.ledger.balance[Warp] \in Nat
      /\ n = portion + s.retry[r]
  BY <1>2, <1>3 DEF LedgerType, Address
<1>5. s.delivered[r] + s.retry[r] <= s.total[r]
  BY DEF Kept, RouteKept
<1>6. removed = [s EXCEPT !.retry = cleared]
  BY <1>2 DEF RemoveRetryAmount, ExternalStoreType
<1>7. /\ cleared \in [Destination -> Nat] /\ cleared[r] = 0
      /\ \A x \in Destination \ {r} : cleared[x] = s.retry[x]
      /\ U \in [Destination -> Nat] /\ U[r] = s.total[r] + portion
      /\ \A x \in Destination \ {r} : U[x] = s.total[x]
  BY <1>2, <1>3
<1> HIDE DEF cleared, removed, n
<1>8. /\ removed \in ExternalStoreType /\ removed.ledger = s.ledger /\ removed.total = s.total
      /\ removed.packets = s.packets /\ removed.collateral = s.collateral
      /\ removed.delivered = s.delivered /\ removed.retry = cleared
      /\ GoodExternal(removed)
  <2>1. /\ removed \in ExternalStoreType /\ removed.ledger = s.ledger /\ removed.total = s.total
        /\ removed.packets = s.packets /\ removed.collateral = s.collateral
        /\ removed.delivered = s.delivered /\ removed.retry = cleared
    BY <1>2, <1>6, <1>7 DEF ExternalStoreType
  <2> QED BY <1>2, <2>1 DEF GoodExternal
<1>9. spare + portion \in Int /\ spare \in Int /\ Kept(s, v, spare + portion)
  OBVIOUS
<1>10. Kept(removed, v, spare)
  <2>1. RouteKept(removed, r)
    BY <1>4, <1>5, <1>7, <1>8 DEF RouteKept
  <2>2. /\ \A x \in Destination \ {r} : /\ removed.retry[x] = s.retry[x]
                                       /\ removed.total[x] = s.total[x]
                                       /\ removed.delivered[x] = s.delivered[x]
        /\ \A c \in Channel : removed.ledger.balance[Escrow[c]] = s.ledger.balance[Escrow[c]]
        /\ \A x \in Route \ {r} : removed.collateral[x] = s.collateral[x]
        /\ removed.packets = s.packets
    BY <1>7, <1>8
  <2>3. (removed.ledger.balance[Warp] - s.ledger.balance[Warp]) + (spare + portion)
            >= (removed.collateral[r] - s.collateral[r]) + (removed.retry[r] - s.retry[r]) + spare
    BY <1>4, <1>7, <1>8
  <2> QED BY <1>8, <1>9, <2>1, <2>2, <2>3, RouteStep
<1>11. CASE n <= 0 \/ routers[r] # 1
  BY <1>1, <1>10, <1>11 DEF Ok, Fail, result
<1>12. CASE ~(n <= 0 \/ routers[r] # 1) /\ works
  <2> DEFINE t == IncrementTotalExternalYield(sent, r, portion)
             m == SendCoins(s.ledger, Warp, Warp, n)
             C == [s.collateral EXCEPT ![r] = @ + n]
             G == [s.delivered EXCEPT ![r] = @ + n]
  <2>1. result = Ok(t)
    BY <1>1, <1>12
  <2>2. n > 0 /\ n \in Nat /\ CanSend(s.ledger, Warp, Warp, n)
    BY <1>4, <1>12
  <2>3. Sound(m) /\ \A x \in Account : m.balance[x] = s.ledger.balance[x]
    BY <1>2, <1>3, <2>2, SelfSendEffect
  <2>4. m \in LedgerType
    BY <2>3 DEF Sound
  <2>5. /\ C \in [Route -> Nat] /\ C[r] = s.collateral[r] + n
        /\ \A x \in Route \ {r} : C[x] = s.collateral[x]
        /\ G \in [Destination -> Nat] /\ G[r] = s.delivered[r] + n
        /\ \A x \in Destination \ {r} : G[x] = s.delivered[x]
    BY <1>2, <1>3, <2>2
  <2> DEFINE k == [removed EXCEPT !.ledger = m]
  <2>6. remote = [k EXCEPT !.collateral = C]
    BY <1>8 DEF RemoteTransferCollateral, ExternalStoreType
  <2> HIDE DEF m, C
  <2>7. /\ k \in ExternalStoreType /\ k.ledger = m /\ k.total = s.total
        /\ k.packets = s.packets /\ k.delivered = s.delivered /\ k.retry = cleared
    BY <1>8, <2>4 DEF ExternalStoreType
  <2> HIDE DEF remote, k
  <2>8. /\ remote \in ExternalStoreType /\ remote.ledger = m /\ remote.total = s.total
        /\ remote.packets = s.packets /\ remote.delivered = s.delivered
        /\ remote.retry = cleared /\ remote.collateral = C
    BY <2>5, <2>6, <2>7 DEF ExternalStoreType
  <2>9. sent = [remote EXCEPT !.delivered = G]
    BY <2>8 DEF ExternalStoreType
  <2> HIDE DEF sent, G
  <2>10. /\ sent \in ExternalStoreType /\ sent.ledger = m /\ sent.total = s.total
         /\ sent.packets = s.packets /\ sent.delivered = G
         /\ sent.retry = cleared /\ sent.collateral = C
    BY <2>5, <2>8, <2>9 DEF ExternalStoreType
  <2>11. t = [sent EXCEPT !.total = U]
    BY <2>10 DEF IncrementTotalExternalYield, ExternalStoreType
  <2> HIDE DEF t, U
  <2>12. /\ t \in ExternalStoreType /\ t.ledger = m /\ t.total = U
         /\ t.packets = s.packets /\ t.delivered = G
         /\ t.retry = cleared /\ t.collateral = C
    BY <1>7, <2>10, <2>11 DEF ExternalStoreType
  <2>13. GoodExternal(t)
    BY <1>2, <2>3, <2>12 DEF GoodExternal
  <2>14. RouteKept(t, r)
    BY <1>4, <1>5, <1>7, <2>5, <2>12 DEF RouteKept
  <2>15. /\ \A x \in Destination \ {r} : /\ t.retry[x] = s.retry[x]
                                        /\ t.total[x] = s.total[x]
                                        /\ t.delivered[x] = s.delivered[x]
         /\ \A c \in Channel : t.ledger.balance[Escrow[c]] = s.ledger.balance[Escrow[c]]
         /\ \A x \in Route \ {r} : t.collateral[x] = s.collateral[x]
         /\ t.packets = s.packets
    BY <1>7, <2>3, <2>5, <2>12, HoldingAccounts
  <2>16. (t.ledger.balance[Warp] - s.ledger.balance[Warp]) + (spare + portion)
             >= (t.collateral[r] - s.collateral[r]) + (t.retry[r] - s.retry[r]) + spare
    BY <1>3, <1>4, <1>7, <2>3, <2>5, <2>12
  <2>17. Kept(t, v, spare)
    BY <1>9, <2>13, <2>14, <2>15, <2>16, RouteStep
  <2> QED BY <2>1, <2>17 DEF Ok, result
<1>13. CASE ~(n <= 0 \/ routers[r] # 1) /\ ~works
  <2> DEFINE t == IncrementTotalExternalYield(noted, r, portion)
             R == [cleared EXCEPT ![r] = @ + n]
  <2>1. result = Ok(t)
    BY <1>1, <1>13
  <2>2. noted = [removed EXCEPT !.retry = R]
    BY <1>8 DEF IncrementRetryAmount, ExternalStoreType
  <2>3. /\ R \in [Destination -> Nat] /\ R[r] = n
        /\ \A x \in Destination \ {r} : R[x] = s.retry[x]
    BY <1>3, <1>4, <1>7
  <2> HIDE DEF noted, R
  <2>4. /\ noted \in ExternalStoreType /\ noted.ledger = s.ledger /\ noted.total = s.total
        /\ noted.packets = s.packets /\ noted.delivered = s.delivered
        /\ noted.retry = R /\ noted.collateral = s.collateral
    BY <1>8, <2>2, <2>3 DEF ExternalStoreType
  <2>5. t = [noted EXCEPT !.total = U]
    BY <2>4 DEF IncrementTotalExternalYield, ExternalStoreType
  <2> HIDE DEF t, U
  <2>6. /\ t \in ExternalStoreType /\ t.ledger = s.ledger /\ t.total = U
        /\ t.packets = s.packets /\ t.delivered = s.delivered
        /\ t.retry = R /\ t.collateral = s.collateral
    BY <1>7, <2>4, <2>5 DEF ExternalStoreType
  <2>7. GoodExternal(t)
    BY <1>2, <2>6 DEF GoodExternal
  <2>8. RouteKept(t, r)
    BY <1>4, <1>5, <1>7, <2>3, <2>6 DEF RouteKept
  <2>9. /\ \A x \in Destination \ {r} : /\ t.retry[x] = s.retry[x]
                                       /\ t.total[x] = s.total[x]
                                       /\ t.delivered[x] = s.delivered[x]
        /\ \A c \in Channel : t.ledger.balance[Escrow[c]] = s.ledger.balance[Escrow[c]]
        /\ \A x \in Route \ {r} : t.collateral[x] = s.collateral[x]
        /\ t.packets = s.packets
    BY <1>7, <2>3, <2>6
  <2>10. (t.ledger.balance[Warp] - s.ledger.balance[Warp]) + (spare + portion)
             >= (t.collateral[r] - s.collateral[r]) + (t.retry[r] - s.retry[r]) + spare
    BY <1>4, <2>3, <2>6
  <2>11. Kept(t, v, spare)
    BY <1>9, <2>7, <2>8, <2>9, <2>10, RouteStep
  <2> QED BY <2>1, <2>11 DEF Ok, result
<1> QED BY <1>11, <1>12, <1>13

-----------------------------------------------------------------------------
(* The portions. *)

\* A portion is a truncated product of a truncated fraction.
LEMMA PortionBounds ==
  ASSUME NEW share \in Nat, NEW total \in Nat \ {0}, NEW yield \in Nat
  PROVE  LET fraction == (share * Precision) \div total
         IN  /\ fraction \in Nat
             /\ fraction * total <= share * Precision
             /\ YieldPortion(share, total, yield) \in Nat
             /\ YieldPortion(share, total, yield) * Precision <= fraction * yield
<1> DEFINE fraction == (share * Precision) \div total
<1>1. Precision \in Nat \ {0} /\ share * Precision \in Nat
  BY ExternalAssumption
<1>2. fraction \in Nat /\ total * fraction <= share * Precision
  BY <1>1, DivBounds
<1>3. YieldPortion(share, total, yield) = (fraction * yield) \div Precision
  BY DEF YieldPortion
<1> HIDE DEF fraction
<1>4. fraction * yield \in Nat
  BY <1>2
<1>5. /\ (fraction * yield) \div Precision \in Nat
      /\ Precision * ((fraction * yield) \div Precision) <= fraction * yield
  BY <1>1, <1>4, DivBounds
<1>6. total * fraction = fraction * total
  BY <1>2
<1>7. \A q \in Nat : Precision * q = q * Precision
  BY <1>1
<1> QED BY <1>2, <1>3, <1>5, <1>6, <1>7 DEF fraction

\* The portions of the routes of a set, when the total is the collateral of the
\* set, add up to no more than the yield: both truncations favour the account.
LEMMA PortionsWithinYield ==
  ASSUME NEW Q \in SUBSET Route, NEW share \in [Route -> Nat],
         NEW yield \in Nat, NEW portion, SumFunctionOnSet(share, Q) > 0,
         portion = [r \in Route |-> YieldPortion(share[r], SumFunctionOnSet(share, Q), yield)]
  PROVE  /\ portion \in [Route -> Nat]
         /\ SumFunctionOnSet(portion, Q) <= yield
<1> DEFINE total == SumFunctionOnSet(share, Q)
           S == [r \in Q |-> share[r]]
           F == [r \in Q |-> (share[r] * Precision) \div total]
           P == [r \in Q |-> portion[r]]
<1>1. IsFiniteSet(Q) /\ Precision \in Nat \ {0}
  BY DestinationFinite, FS_Subset, ExternalAssumption
<1>2. /\ S \in [Q -> Nat] /\ S \in [Q -> Int]
      /\ \A r \in Q : share[r] = S[r] /\ portion[r] = P[r]
  OBVIOUS
<1> HIDE DEF S
<1>3. total = SumFunction(S)
  BY <1>1, <1>2, SumOnPart
<1>4. SumFunction(S) \in Nat
  BY <1>1, <1>2, SumOfNat
<1>5. total \in Nat \ {0}
  BY <1>3, <1>4
<1> HIDE DEF total
<1>6. ASSUME NEW r \in Route
      PROVE  LET fraction == (share[r] * Precision) \div total
             IN  /\ fraction \in Nat
                 /\ fraction * total <= share[r] * Precision
                 /\ portion[r] \in Nat
                 /\ portion[r] * Precision <= fraction * yield
  <2>1. portion[r] = YieldPortion(share[r], total, yield)
    BY DEF total
  <2>2. share[r] \in Nat
    OBVIOUS
  <2> QED BY <1>5, <2>1, <2>2, PortionBounds
<1>7. portion \in [Route -> Nat]
  BY <1>6
<1>8. /\ F \in [Q -> Nat] /\ F \in [Q -> Int] /\ P \in [Q -> Nat] /\ P \in [Q -> Int]
      /\ \A r \in Q : F[r] * total <= S[r] * Precision
      /\ \A r \in Q : P[r] * Precision <= F[r] * yield
  BY <1>2, <1>6
<1> HIDE DEF F, P
<1>9. total \in Int /\ Precision \in Int /\ yield \in Int
  BY <1>1, <1>5
<1>10. SumFunction(F) * total <= SumFunction(S) * Precision
  BY <1>1, <1>2, <1>8, <1>9, SumRatio
<1>11. SumFunction(P) * Precision <= SumFunction(F) * yield
  BY <1>1, <1>8, <1>9, SumRatio
<1>12. SumFunction(F) \in Nat /\ SumFunction(P) \in Nat
  BY <1>1, <1>8, SumOfNat
<1>13. SumFunction(F) <= Precision
  <2> DEFINE f == SumFunction(F)
  <2>1. f \in Nat /\ f * total <= total * Precision
    BY <1>3, <1>10, <1>12
  <2> HIDE DEF f
  <2>2. f > Precision => (f - Precision) * total > 0
    BY <1>1, <1>5, <2>1
  <2>3. (f - Precision) * total = f * total - total * Precision
    BY <1>1, <1>5, <2>1
  <2>4. f * total \in Int /\ total * Precision \in Int
    BY <1>1, <1>5, <2>1
  <2>5. f <= Precision
    BY <1>1, <2>1, <2>2, <2>3, <2>4
  <2> QED BY <2>5 DEF f
<1>14. SumFunction(P) <= yield
  <2> DEFINE f == SumFunction(F)
             q == SumFunction(P)
  <2>1. f \in Nat /\ q \in Nat /\ f <= Precision /\ q * Precision <= f * yield
    BY <1>11, <1>12, <1>13
  <2> HIDE DEF f, q
  <2>2. f * yield <= Precision * yield
    <3>1. (Precision - f) * yield >= 0
      BY <1>1, <2>1
    <3>2. (Precision - f) * yield = Precision * yield - f * yield
      BY <1>1, <2>1
    <3>3. Precision * yield \in Int /\ f * yield \in Int
      BY <1>1, <2>1
    <3> QED BY <3>1, <3>2, <3>3
  <2>3. q > yield => (q - yield) * Precision > 0
    BY <1>1, <2>1
  <2>4. (q - yield) * Precision = q * Precision - Precision * yield
    BY <1>1, <2>1
  <2>5. /\ q * Precision \in Int /\ Precision * yield \in Int /\ f * yield \in Int
    BY <1>1, <2>1
  <2>6. q <= yield
    BY <2>1, <2>2, <2>3, <2>4, <2>5
  <2> QED BY <2>6 DEF q
<1>15. SumFunctionOnSet(portion, Q) = SumFunction(P)
  <2>1. IsFiniteSet(Q) /\ P \in [Q -> Int] /\ \A r \in Q : portion[r] = P[r]
    BY <1>1, <1>2, <1>8
  <2>2. \A f : (\A r \in Q : f[r] = P[r]) => SumFunctionOnSet(f, Q) = SumFunction(P)
    BY <2>1, SumOnPart
  <2> QED BY <2>1, <2>2
<1> QED BY <1>7, <1>14, <1>15

\* What is left to hand out shrinks by one portion with each route.
LEMMA LeftSum ==
  ASSUME NEW portion \in [Route -> Nat], NEW A \in SUBSET Route
  PROVE  /\ SumFunctionOnSet(portion, A) \in Nat
         /\ \A r \in A : SumFunctionOnSet(portion, A)
                           = SumFunctionOnSet(portion, A \ {r}) + portion[r]
<1> DEFINE H == [x \in A |-> portion[x]]
<1>1. /\ IsFiniteSet(A) /\ H \in [A -> Nat] /\ H \in [A -> Int]
      /\ \A x \in A : portion[x] = H[x]
  BY DestinationFinite, FS_Subset
<1> HIDE DEF H
<1>2. SumFunctionOnSet(portion, A) = SumFunction(H)
  BY <1>1, SumOnPart
<1>3. SumFunction(H) \in Nat
  BY <1>1, SumOfNat
<1>4. ASSUME NEW r \in A
      PROVE  SumFunctionOnSet(portion, A) = SumFunctionOnSet(portion, A \ {r}) + portion[r]
  <2> DEFINE B == A \ {r}
             F == [x \in B |-> portion[x]]
  <2>1. /\ IsFiniteSet(B) /\ r \notin B /\ A = B \cup {r}
        /\ F \in [B -> Int] /\ H \in [A -> Int]
        /\ \A x \in B : H[x] = F[x]
        /\ \A x \in B : portion[x] = F[x]
    <3>1. IsFiniteSet(B)
      BY <1>1, FS_RemoveElement
    <3> QED BY <1>1, <3>1
  <2> HIDE DEF B, F
  <2>2. SumFunction(H) = SumFunction(F) + H[r]
    BY <2>1, SumExtendTo
  <2>3. SumFunctionOnSet(portion, B) = SumFunction(F)
    BY <2>1, SumOnPart
  <2> QED BY <1>1, <1>2, <2>2, <2>3 DEF B
<1> QED BY <1>2, <1>3, <1>4

-----------------------------------------------------------------------------
(* The loop over the routes. *)

\* No route comes twice in the order.
LEMMA RouteOnce ==
  /\ Cardinality(Route) \in Nat
  /\ DOMAIN RouteOrder = 1 .. Cardinality(Route) /\ IsFiniteSet(DOMAIN RouteOrder)
  /\ \A i \in DOMAIN RouteOrder : RouteOrder[i] \in Route
  /\ \A i, j \in DOMAIN RouteOrder : RouteOrder[i] = RouteOrder[j] => i = j
<1> DEFINE n == Cardinality(Route)
           D == 1 .. n
<1>1. n \in Nat
  BY DestinationFinite, FS_CardinalityType
<1>2. RouteOrder \in [D -> Route] /\ Range(RouteOrder) = Route
  BY ExternalAssumption
<1>3. IsFiniteSet(D) /\ Cardinality(D) = n
  <2> HIDE DEF n
  <2>1. /\ IsFiniteSet(1 .. n)
        /\ Cardinality(1 .. n) = IF 1 > n THEN 0 ELSE n - 1 + 1
    BY <1>1, FS_Interval
  <2> QED BY <1>1, <2>1
<1>4. RouteOrder \in Surjection(D, Route)
  BY <1>2 DEF Surjection, Range
<1> HIDE DEF D
<1>5. RouteOrder \in Injection(D, Route)
  <2>1. Cardinality(D) = Cardinality(Route)
    BY <1>3
  <2> QED BY <1>3, <1>4, <2>1, FS_SurjSameCardinalityImpliesInj
<1>6. \A i, j \in D : RouteOrder[i] = RouteOrder[j] => i = j
  BY <1>5 DEF Injection, IsInjective
<1>7. DOMAIN RouteOrder = D /\ \A i \in D : RouteOrder[i] \in Route
  BY <1>2
<1> QED BY <1>1, <1>3, <1>6, <1>7 DEF D

\* The loop over the routes keeps the invariant, when the warp account received
\* the portions of the routes with a recipient before it.
LEMMA RouteLoopKept ==
  ASSUME NEW s, NEW v, NEW down, NEW portion \in [Route -> Nat],
         Kept(s, v, SumFunctionOnSet(portion, Route \cap yieldRecipients))
  PROVE  LET t == RouteTable(s, portion, down)[DOMAIN RouteOrder].store
         IN  Kept(t, v, 0) /\ Spares(t.ledger, s.ledger, Account)
<1> DEFINE D == DOMAIN RouteOrder
           Q == Route \cap yieldRecipients
           seen(p) == {RouteOrder[i] : i \in p}
           left(p) == SumFunctionOnSet(portion, Q \ seen(p))
           R == {x \in [ok : BOOLEAN, store : ExternalStoreType] :
                    Spares(x.store.ledger, s.ledger, Account)}
           top == [p \in SUBSET D |-> Max(p)]
           I == [p \in SUBSET D |-> {x \in R : Kept(x.store, v, left(p))}]
           F == [q \in R \X D |-> RouteRound(q[1], RouteOrder[q[2]], portion, down)]
           T == RouteTable(s, portion, down)
           base == Ok(s)
<1>1. /\ Cardinality(Route) \in Nat /\ D = 1 .. Cardinality(Route) /\ IsFiniteSet(D)
      /\ \A i \in D : RouteOrder[i] \in Route
      /\ \A i, j \in D : RouteOrder[i] = RouteOrder[j] => i = j
  BY RouteOnce
<1> HIDE DEF D
<1>2. \A p \in SUBSET D : p # {} =>
          Max(p) \in p /\ Max(p) \in D /\ p \ {Max(p)} \in SUBSET D
  <2>1. ASSUME NEW p \in SUBSET D, p # {}
        PROVE  Max(p) \in p
    <3>1. p \in SUBSET (1 .. Cardinality(Route))
      BY <1>1
    <3> QED BY <1>1, <2>1, <3>1, LastPosition
  <2> QED BY <2>1
<1>3. base \in I[{}]
  <2>1. Q \ seen({}) = Q
    OBVIOUS
  <2>2. Kept(s, v, left({}))
    BY <2>1
  <2>3. Sound(s.ledger)
    BY DEF Kept, GoodExternal
  <2>4. Spares(s.ledger, s.ledger, Account)
    BY <2>3, SparesReflexive
  <2>5. Ok(s) \in R /\ Ok(s).store = s
    BY <2>4 DEF Ok, Kept, GoodExternal
  <2> HIDE DEF left, R
  <2> QED BY <2>2, <2>5
<1>4. ASSUME NEW p \in SUBSET D, p # {}, NEW x \in I[p \ {Max(p)}]
      PROVE  RouteRound(x, RouteOrder[Max(p)], portion, down) \in I[p]
  <2> DEFINE i == Max(p)
             r == RouteOrder[i]
             rest == p \ {i}
             u == ClaimRoute(x.store, r, portion[r], down)
  <2>1. i \in p /\ i \in D /\ rest \in SUBSET D /\ r \in Route
    BY <1>1, <1>2, <1>4
  <2>2. x \in R /\ Kept(x.store, v, left(rest))
    BY <2>1
  <2>3. Q \ seen(p) = (Q \ seen(rest)) \ {r} /\ Q \ seen(rest) \in SUBSET Route
    BY <2>1
  <2>4. r \notin seen(rest)
    BY <1>1, <2>1
  <2>5. left(p) \in Nat /\ left(rest) \in Nat
    BY <2>3, LeftSum
  <2>6. portion[r] \in Nat
    BY <2>1
  <2>7. CASE x.ok /\ r \in yieldRecipients
    <3>1. left(rest) = left(p) + portion[r]
      <4>1. r \in Q \ seen(rest)
        BY <2>1, <2>4, <2>7
      <4> DEFINE A == Q \ seen(rest)
      <4>2. A \in SUBSET Route /\ r \in A /\ Q \ seen(p) = A \ {r}
        BY <2>3, <4>1
      <4> HIDE DEF A, r, seen, Q
      <4>3. SumFunctionOnSet(portion, A) = SumFunctionOnSet(portion, A \ {r}) + portion[r]
        BY <4>2, LeftSum
      <4> QED BY <4>2, <4>3 DEF A
    <3> HIDE DEF left, r
    <3>2. Kept(u.store, v, left(p)) /\ u.ok \in BOOLEAN
      BY <2>1, <2>2, <2>5, <2>6, <3>1, ClaimRouteKept
    <3>3. u.store \in ExternalStoreType
      BY <3>2 DEF Kept, GoodExternal
    <3>4. u = [ok |-> u.ok, store |-> u.store]
      BY DEF ClaimRoute, Ok, Fail
    <3>5. RouteRound(x, r, portion, down) = u
      BY <2>7 DEF RouteRound
    <3>6. Spares(u.store.ledger, s.ledger, Account)
      <4>1. Spares(u.store.ledger, x.store.ledger, Account)
        BY <2>1, <2>2, <2>6, ClaimRouteSpares DEF Kept
      <4>2. Spares(x.store.ledger, s.ledger, Account) /\ Sound(s.ledger)
        BY <2>2 DEF Kept, GoodExternal
      <4> HIDE DEF u, R
      <4> QED BY <4>1, <4>2, SparesTransitive
    <3> HIDE DEF u
    <3>7. u \in R
      BY <3>2, <3>3, <3>4, <3>6
    <3> HIDE DEF R
    <3> QED BY <3>2, <3>5, <3>7 DEF r
  <2>8. CASE ~(x.ok /\ r \in yieldRecipients)
    <3>1. RouteRound(x, r, portion, down) = x
      BY <2>8 DEF RouteRound
    <3>2. left(p) <= left(rest)
      <4> DEFINE A == Q \ seen(rest)
      <4>1. A \in SUBSET Route /\ Q \ seen(p) = A \ {r}
        BY <2>3
      <4>2. CASE r \in A
        <5> HIDE DEF A, r, seen, Q
        <5>1. SumFunctionOnSet(portion, A) = SumFunctionOnSet(portion, A \ {r}) + portion[r]
          BY <4>1, <4>2, LeftSum
        <5>2. left(rest) = left(p) + portion[r]
          BY <4>1, <5>1 DEF A
        <5> HIDE DEF left
        <5> QED BY <2>5, <2>6, <5>2
      <4>3. CASE r \notin A
        <5>1. A \ {r} = A
          BY <4>3
        <5>2. left(rest) = left(p)
          BY <4>1, <5>1
        <5> HIDE DEF left
        <5> QED BY <2>5, <5>2
      <4> QED BY <4>2, <4>3
    <3> HIDE DEF left
    <3>3. Kept(x.store, v, left(p))
      <4>1. left(p) \in Int /\ left(rest) \in Int
        BY <2>5
      <4> QED BY <2>2, <3>2, <4>1, KeptSpare
    <3> HIDE DEF R
    <3> QED BY <2>2, <3>1, <3>3
  <2> QED BY <2>7, <2>8
<1>5. \A p \in SUBSET D : I[p] \subseteq R
  OBVIOUS
<1> HIDE DEF I, R
<1>6. \A x \in R : \A i \in D : F[<<x, i>>] = RouteRound(x, RouteOrder[i], portion, down)
  OBVIOUS
<1>7. \A p \in SUBSET D : top[p] = Max(p)
  OBVIOUS
<1> HIDE DEF F, top
<1>8. T = [p \in SUBSET D |->
             IF p = {} THEN Ok(s)
             ELSE RouteRound(T[p \ {Max(p)}], RouteOrder[Max(p)], portion, down)]
  <2>1. RoundsLead(D, base, F, top, I, R)
    <3>1. \A p \in SUBSET D : p # {} => top[p] \in p
      BY <1>2, <1>7
    <3>2. ASSUME NEW p \in SUBSET D, p # {}, NEW x \in I[p \ {top[p]}]
          PROVE  F[<<x, top[p]>>] \in I[p]
      <4>1. top[p] = Max(p) /\ Max(p) \in D /\ p \ {Max(p)} \in SUBSET D
        BY <1>2, <1>7, <3>2
      <4>2. x \in I[p \ {Max(p)}] /\ x \in R
        BY <1>5, <3>2, <4>1
      <4>3. RouteRound(x, RouteOrder[Max(p)], portion, down) \in I[p]
        BY <1>4, <3>2, <4>2
      <4> QED BY <1>6, <4>1, <4>2, <4>3
    <3> HIDE DEF base
    <3> QED BY <1>1, <1>3, <1>5, <3>1, <3>2 DEF RoundsLead
  <2> HIDE DEF base
  <2>2. PICK g \in [SUBSET D -> R] : \A p \in SUBSET D : FoldEntry(g, p, base, F, top, I)
    <3>1. HasFoldTable(D, base, F, top, I, R)
      BY <2>1, FoldTableExists
    <3> QED BY <3>1 DEF HasFoldTable
  <2>3. \A p \in SUBSET D :
            g[p] = IF p = {} THEN Ok(s)
                   ELSE RouteRound(g[p \ {Max(p)}], RouteOrder[Max(p)], portion, down)
    <3>1. \A p \in SUBSET D : p # {} => g[p \ {Max(p)}] \in R /\ Max(p) \in D
      BY <1>2
    <3> QED BY <1>6, <1>7, <2>2, <3>1 DEF base, FoldEntry
  <2>4. g = [p \in SUBSET D |->
               IF p = {} THEN Ok(s)
               ELSE RouteRound(g[p \ {Max(p)}], RouteOrder[Max(p)], portion, down)]
    BY <2>3
  <2> QED BY <2>4 DEF RouteTable, D
<1> HIDE DEF T
<1>9. T[D] \in I[D]
  <2>1. \A p \in SUBSET D : T[p] = IF p = {} THEN Ok(s)
             ELSE RouteRound(T[p \ {Max(p)}], RouteOrder[Max(p)], portion, down)
    BY <1>8
  <2>2. T[{}] \in I[{}]
    BY <1>3, <2>1
  <2>3. \A p \in SUBSET D : p # {} => top[p] \in p
    BY <1>2, <1>7
  <2>4. \A p \in SUBSET D : p # {} =>
            (T[p \ {top[p]}] \in I[p \ {top[p]}] => T[p] \in I[p])
    <3> SUFFICES ASSUME NEW p \in SUBSET D, p # {}, T[p \ {Max(p)}] \in I[p \ {Max(p)}]
                 PROVE  T[p] \in I[p]
      BY <1>7
    <3>1. T[p] = RouteRound(T[p \ {Max(p)}], RouteOrder[Max(p)], portion, down)
      BY <2>1
    <3> QED BY <1>4, <3>1
  <2> QED BY <1>1, <2>2, <2>3, <2>4, TableWithin
<1>10. Kept(T[D].store, v, left(D))
  BY <1>9 DEF I
<1>11. left(D) \in Nat
  <2>1. Q \ seen(D) \in SUBSET Route
    OBVIOUS
  <2> HIDE DEF Q, seen
  <2> QED BY <2>1, LeftSum
<1>12. Kept(T[D].store, v, 0)
  <2> HIDE DEF left
  <2>1. left(D) \in Int /\ 0 <= left(D)
    BY <1>11
  <2> QED BY <1>10, <2>1, KeptSpare
<1>13. Spares(T[D].store.ledger, s.ledger, Account)
  BY <1>9 DEF I, R
<1> QED BY <1>12, <1>13 DEF T, D

-----------------------------------------------------------------------------
(* Index updates. *)

\* The claim of the warp account's yield and its distribution keep the invariant,
\* wherever they stop.
LEMMA RoutesKept ==
  ASSUME NEW s, NEW v \in [Channel -> Nat], NEW down, Kept(s, v, 0)
  PROVE  /\ Kept(ClaimExternalYieldRoutes(s, down).store, v, 0)
         /\ Spares(ClaimExternalYieldRoutes(s, down).store.ledger, s.ledger, Account)
<1> DEFINE yield   == GetYield(s.ledger, Warp)
           m       == ClaimModuleYield(s.ledger, Warp)
           claimed == [s EXCEPT !.ledger = m]
           Q       == Route \cap yieldRecipients
           total   == SumFunctionOnSet(s.collateral, Q)
           portion == [r \in Route |-> YieldPortion(s.collateral[r], total, yield)]
           loop    == ForEachRecipient(LAMBDA t, r : ClaimRoute(t, r, portion[r], down),
                                       claimed, RouteOrder)
           result  == ClaimExternalYieldRoutes(s, down)
<1>1. result = IF ~CanClaim(s.ledger, Warp) THEN Fail(s)
               ELSE IF yield <= 0 \/ total <= 0 THEN Ok(claimed) ELSE loop
  BY DEF ClaimExternalYieldRoutes, GetYieldRecipientsByProvider
<1>2. CASE ~CanClaim(s.ledger, Warp)
  <2>1. result.store = s /\ Sound(s.ledger)
    BY <1>1, <1>2 DEF Fail, Kept, GoodExternal
  <2> HIDE DEF result
  <2>2. Spares(s.ledger, s.ledger, Account)
    BY <2>1, SparesReflexive
  <2> QED BY <2>1, <2>2 DEF result
<1>3. CASE CanClaim(s.ledger, Warp)
  <2>1. /\ Sound(s.ledger) /\ s.collateral \in [Route -> Nat] /\ Warp \in Account
        /\ s.ledger \in LedgerType
    BY HoldingAccounts DEF Kept, GoodExternal, ExternalStoreType
  <2>2. /\ Sound(m) /\ yield \in Nat
        /\ \A x \in Account : m.balance[x] =
               IF x = Warp THEN s.ledger.balance[x] + yield ELSE s.ledger.balance[x]
    BY <1>3, <2>1, ClaimEffect
  <2>3. /\ \A c \in Channel : /\ s.ledger.balance[Escrow[c]] \in Nat
                              /\ m.balance[Escrow[c]] = s.ledger.balance[Escrow[c]]
        /\ s.ledger.balance[Warp] \in Nat
        /\ m.balance[Warp] = s.ledger.balance[Warp] + yield
    BY <2>1, <2>2, HoldingAccounts DEF LedgerType, Address
  <2>4. Spares(m, s.ledger, Account)
    BY <1>3, <2>1, ClaimSpares
  <2>5. claimed.ledger = m
    BY DEF Kept, GoodExternal, ExternalStoreType
  <2> HIDE DEF m, yield
  <2>6. Kept(claimed, v, 0 + yield)
    <3>1. /\ \A c \in Channel : m.balance[Escrow[c]] >= s.ledger.balance[Escrow[c]]
          /\ m.balance[Warp] >= s.ledger.balance[Warp] + yield
          /\ 0 \in Int /\ yield \in Int
      BY <2>2, <2>3
    <3> QED BY <2>2, <3>1, LedgerStep
  <2>7. Kept(claimed, v, yield)
    BY <2>2, <2>6
  <2>8. CASE yield <= 0 \/ total <= 0
    <3>1. Kept(claimed, v, 0)
      <4> HIDE DEF claimed
      <4>1. yield \in Int /\ 0 <= yield /\ 0 \in Int
        BY <2>2
      <4> QED BY <2>7, <4>1, KeptSpare
    <3> HIDE DEF claimed, total, loop, result
    <3>2. result.store = claimed
      BY <1>1, <1>3, <2>8 DEF Ok
    <3> QED BY <2>4, <2>5, <3>1, <3>2 DEF result
  <2>9. CASE ~(yield <= 0 \/ total <= 0)
    <3>1. total \in Nat /\ Q \in SUBSET Route
      BY <2>1, LeftSum
    <3>2. total > 0
      <4> HIDE DEF total
      <4> QED BY <2>9, <3>1
    <3>3. portion \in [Route -> Nat] /\ SumFunctionOnSet(portion, Q) <= yield
      <4> HIDE DEF Q, claimed
      <4> DEFINE P == portion
      <4>1. P = [r \in Route |-> YieldPortion(s.collateral[r], SumFunctionOnSet(s.collateral, Q), yield)]
        OBVIOUS
      <4>2. SumFunctionOnSet(s.collateral, Q) > 0
        BY <3>2
      <4> HIDE DEF P
      <4>3. P \in [Route -> Nat] /\ SumFunctionOnSet(P, Q) <= yield
        BY <2>1, <2>2, <3>1, <4>1, <4>2, PortionsWithinYield
      <4> QED BY <4>3 DEF P
    <3>4. loop = RouteTable(claimed, portion, down)[DOMAIN RouteOrder]
      BY RoutesAreTable
    <3> HIDE DEF portion, claimed, total
    <3>5. SumFunctionOnSet(portion, Q) \in Nat
      BY <3>1, <3>3, LeftSum
    <3>6. Kept(claimed, v, SumFunctionOnSet(portion, Q))
      BY <2>2, <2>7, <3>3, <3>5, KeptSpare
    <3> DEFINE last == RouteTable(claimed, portion, down)[DOMAIN RouteOrder].store
    <3>7. Kept(last, v, 0) /\ Spares(last.ledger, claimed.ledger, Account)
      BY <3>3, <3>6, RouteLoopKept
    <3>8. result.store = last
      <4> HIDE DEF loop
      <4> QED BY <1>1, <1>3, <2>9, <3>4
    <3> HIDE DEF last, result
    <3>9. Spares(last.ledger, s.ledger, Account)
      BY <2>1, <2>4, <2>5, <3>7, SparesTransitive
    <3> QED BY <3>7, <3>8, <3>9 DEF result
  <2> QED BY <2>8, <2>9
<1> QED BY <1>2, <1>3

\* What the two loops do for recipients on other chains, one after the other.
LEMMA ClaimExternalYieldKept ==
  ASSUME NEW s, NEW v \in [Channel -> Nat], NEW down, Kept(s, v, 0)
  PROVE  LET t == ClaimExternalYield(s, down).store
         IN  Kept(t, v, 0) /\ Spares(t.ledger, s.ledger, Account)
<1> DEFINE ibc == ClaimExternalYieldIBC(s, down)
           both == ClaimExternalYieldRoutes(ibc.store, down)
<1>1. Kept(ibc.store, v, 0) /\ Spares(ibc.store.ledger, s.ledger, Account)
  BY ChannelsKept
<1>2. ClaimExternalYield(s, down) = IF ibc.ok THEN both ELSE ibc
  BY DEF ClaimExternalYield
<1> HIDE DEF ibc
<1>3. Kept(both.store, v, 0) /\ Spares(both.store.ledger, ibc.store.ledger, Account)
  BY <1>1, RoutesKept
<1> HIDE DEF both
<1>4. Spares(both.store.ledger, s.ledger, Account)
  <2>1. Sound(s.ledger)
    BY DEF Kept, GoodExternal
  <2> QED BY <1>1, <1>3, <2>1, SparesTransitive
<1> QED BY <1>1, <1>2, <1>3, <1>4

\* Whatever an index update leaves behind, error or not, keeps the invariant.
LEMMA UpdateKept ==
  ASSUME NEW s, NEW v \in [Channel -> Nat], NEW down, NEW index \in Int, Kept(s, v, 0),
         index > s.ledger.index => SupplyShortfall(s.ledger, index) >= 0
  PROVE  Kept(ExternalUpdateIndexStore(s, index, down).store, v, 0)
<1> DEFINE a == AccrueYield(s.ledger, index)
           accrued == [s EXCEPT !.ledger = a]
           h == HandleVaultsYieldSeasonTwo(a)
           vaulted == [accrued EXCEPT !.ledger = h]
           result == ExternalUpdateIndexStore(s, index, down)
<1>1. /\ Sound(s.ledger) /\ s.ledger \in LedgerType /\ s \in ExternalStoreType
      /\ s.ledger.index \in Int
  BY DEF Kept, GoodExternal, ExternalStoreType, LedgerType
<1>2. CASE index <= s.ledger.index
  BY <1>2 DEF ExternalUpdateIndexStore, Fail
<1>3. CASE ~(index <= s.ledger.index)
  <2>1. index > s.ledger.index /\ SupplyShortfall(s.ledger, index) >= 0
    BY <1>1, <1>3
  <2>2. /\ Sound(a)
        /\ a.supply >= s.ledger.supply
        /\ a.balance = [s.ledger.balance EXCEPT ![Yield] = @ + (a.supply - s.ledger.supply)]
    <3> HIDE DEF a
    <3> QED BY <1>1, <2>1, Accrual DEF a
  <2> HIDE DEF a
  <2>3. /\ \A c \in Channel : a.balance[Escrow[c]] >= s.ledger.balance[Escrow[c]]
        /\ a.balance[Warp] >= s.ledger.balance[Warp] + 0
    <3>1. \A x \in Account : a.balance[x] = s.ledger.balance[x] /\ s.ledger.balance[x] \in Nat
      BY <1>1, <2>2, AccountAssumption DEF LedgerType, Address
    <3> QED BY <3>1, HoldingAccounts
  <2>4. Kept(accrued, v, 0 + 0)
    <3>1. /\ \A c \in Channel : a.balance[Escrow[c]] >= s.ledger.balance[Escrow[c]]
          /\ a.balance[Warp] >= s.ledger.balance[Warp] + 0
          /\ 0 \in Int /\ Sound(a)
      BY <2>2, <2>3
    <3> QED BY <3>1, LedgerStep
  <2>5. Kept(accrued, v, 0) /\ accrued.ledger = a
    <3>1. accrued.ledger = a
      BY <1>1 DEF ExternalStoreType
    <3> HIDE DEF accrued
    <3> QED BY <2>4, <3>1
  <2>6. result = IF ~CanClaim(a, StakedVault) THEN Fail(accrued)
                 ELSE ClaimExternalYield(vaulted, down)
    <3> DEFINE before == [s EXCEPT !.ledger = AccrueYield(@, index)]
               after  == [before EXCEPT !.ledger = HandleVaultsYieldSeasonTwo(@)]
    <3>1. result = IF index <= s.ledger.index THEN Fail(s)
                   ELSE IF ~CanClaim(before.ledger, StakedVault) THEN Fail(before)
                   ELSE ClaimExternalYield(after, down)
      BY DEF ExternalUpdateIndexStore, result
    <3>2. before = accrued
      BY <1>1 DEF ExternalStoreType, a
    <3> HIDE DEF before
    <3>3. after = vaulted
      <4> HIDE DEF accrued
      <4> QED BY <2>5, <3>2
    <3> HIDE DEF after, accrued, vaulted, result
    <3> QED BY <1>3, <2>5, <3>1, <3>2, <3>3
  <2> HIDE DEF accrued
  <2>7. CASE ~CanClaim(a, StakedVault)
    BY <2>5, <2>6, <2>7 DEF Fail
  <2>8. CASE CanClaim(a, StakedVault)
    <3>1. Sound(h) /\ PaysYieldOnly(h, a)
      BY <2>2, <2>8, SeasonTwoEffect
    <3> HIDE DEF h
    <3>2. /\ \A c \in Channel : h.balance[Escrow[c]] >= accrued.ledger.balance[Escrow[c]]
          /\ h.balance[Warp] >= accrued.ledger.balance[Warp] + 0
      <4>1. accrued.ledger.balance[Warp] \in Nat
        BY <2>2, <2>5, HoldingAccounts DEF Sound, LedgerType, Address
      <4> QED BY <2>5, <3>1, <4>1, HoldingAccounts DEF PaysYieldOnly
    <3>3. Kept(vaulted, v, 0 + 0)
      BY <2>5, <3>1, <3>2, LedgerStep
    <3> HIDE DEF vaulted
    <3>4. Kept(vaulted, v, 0)
      BY <3>3
    <3>5. Kept(ClaimExternalYield(vaulted, down).store, v, 0)
      BY <3>4, ClaimExternalYieldKept
    <3> QED BY <2>6, <2>8, <3>5
  <2> QED BY <2>7, <2>8
<1> QED BY <1>2, <1>3

-----------------------------------------------------------------------------
(* Packets on their way. *)

\* A packet that is dealt with takes with it what it carries.
LEMMA PacketGone ==
  ASSUME NEW ps \in SUBSET PacketType, IsFiniteSet(ps),
         \A p, q \in ps : p.id = q.id => p = q,
         NEW p \in ps
  PROVE  LET rest == ps \ {p}
         IN  /\ rest \in SUBSET PacketType /\ IsFiniteSet(rest) /\ p \in PacketType
             /\ \A q, u \in rest : q.id = u.id => q = u
             /\ \A q \in rest : q.id # p.id
             /\ \A c \in Channel :
                    /\ Carried(Unsettled(rest, c)) \in Nat
                    /\ Carried(UnsettledYield(rest, c)) \in Nat
                    /\ Due(p, c) \in Nat /\ YieldDue(p, c) \in Nat
                    /\ Carried(Unsettled(ps, c)) = Carried(Unsettled(rest, c)) + Due(p, c)
                    /\ Carried(UnsettledYield(ps, c))
                         = Carried(UnsettledYield(rest, c)) + YieldDue(p, c)
<1> DEFINE rest == ps \ {p}
<1>1. /\ rest \in SUBSET PacketType /\ p \in PacketType /\ p \notin rest
      /\ \A q, u \in rest : q.id = u.id => q = u
      /\ \A q \in rest : q.id # p.id
      /\ rest \cup {p} = ps /\ rest \in SUBSET ps
  OBVIOUS
<1>2. IsFiniteSet(rest)
  BY <1>1, FS_Subset
<1> HIDE DEF rest
<1>3. ASSUME NEW c \in Channel
      PROVE  /\ Carried(Unsettled(rest \cup {p}, c)) = Carried(Unsettled(rest, c)) + Due(p, c)
             /\ Carried(UnsettledYield(rest \cup {p}, c))
                  = Carried(UnsettledYield(rest, c)) + YieldDue(p, c)
             /\ Carried(Unsettled(rest, c)) \in Nat /\ Carried(UnsettledYield(rest, c)) \in Nat
             /\ Due(p, c) \in Nat /\ YieldDue(p, c) \in Nat
  BY <1>1, <1>2, UnsettledAdd
<1> QED BY <1>1, <1>2, <1>3 DEF rest

\* A packet that takes the place of another carries what it carries instead.
LEMMA PacketMoved ==
  ASSUME NEW ps \in SUBSET PacketType, IsFiniteSet(ps),
         \A p, q \in ps : p.id = q.id => p = q,
         NEW p \in ps, NEW q \in PacketType, q.id = p.id
  PROVE  LET moved == (ps \ {p}) \cup {q}
         IN  /\ moved \in SUBSET PacketType /\ IsFiniteSet(moved)
             /\ \A x, y \in moved : x.id = y.id => x = y
             /\ \A c \in Channel :
                    /\ Carried(Unsettled(moved, c)) + Due(p, c)
                         = Carried(Unsettled(ps, c)) + Due(q, c)
                    /\ Carried(UnsettledYield(moved, c)) + YieldDue(p, c)
                         = Carried(UnsettledYield(ps, c)) + YieldDue(q, c)
                    /\ Due(p, c) \in Nat /\ YieldDue(p, c) \in Nat
                    /\ Due(q, c) \in Nat /\ YieldDue(q, c) \in Nat
                    /\ Carried(Unsettled(moved, c)) \in Nat
                    /\ Carried(UnsettledYield(moved, c)) \in Nat
<1> DEFINE rest == ps \ {p}
<1>1. /\ rest \in SUBSET PacketType /\ IsFiniteSet(rest)
      /\ \A x, y \in rest : x.id = y.id => x = y
      /\ \A x \in rest : x.id # p.id
      /\ \A c \in Channel :
             /\ Carried(Unsettled(rest, c)) \in Nat
             /\ Carried(UnsettledYield(rest, c)) \in Nat
             /\ Due(p, c) \in Nat /\ YieldDue(p, c) \in Nat
             /\ Carried(Unsettled(ps, c)) = Carried(Unsettled(rest, c)) + Due(p, c)
             /\ Carried(UnsettledYield(ps, c))
                  = Carried(UnsettledYield(rest, c)) + YieldDue(p, c)
  BY PacketGone
<1> HIDE DEF rest
<1>2. q \notin rest
  BY <1>1
<1>3. IsFiniteSet(rest \cup {q})
  BY <1>1, FS_AddElement
<1>4. ASSUME NEW c \in Channel
      PROVE  /\ Carried(Unsettled(rest \cup {q}, c)) = Carried(Unsettled(rest, c)) + Due(q, c)
             /\ Carried(UnsettledYield(rest \cup {q}, c))
                  = Carried(UnsettledYield(rest, c)) + YieldDue(q, c)
             /\ Due(q, c) \in Nat /\ YieldDue(q, c) \in Nat
  BY <1>1, <1>2, UnsettledAdd
<1>5. ASSUME NEW c \in Channel
      PROVE  /\ Carried(Unsettled(rest \cup {q}, c)) + Due(p, c)
                  = Carried(Unsettled(ps, c)) + Due(q, c)
             /\ Carried(UnsettledYield(rest \cup {q}, c)) + YieldDue(p, c)
                  = Carried(UnsettledYield(ps, c)) + YieldDue(q, c)
             /\ Due(p, c) \in Nat /\ YieldDue(p, c) \in Nat
             /\ Due(q, c) \in Nat /\ YieldDue(q, c) \in Nat
             /\ Carried(Unsettled(rest \cup {q}, c)) \in Nat
             /\ Carried(UnsettledYield(rest \cup {q}, c)) \in Nat
  <2> DEFINE A == Carried(Unsettled(rest \cup {q}, c))
             B == Carried(UnsettledYield(rest \cup {q}, c))
  <2>1. /\ Carried(Unsettled(rest, c)) \in Nat
        /\ Carried(UnsettledYield(rest, c)) \in Nat
        /\ Due(p, c) \in Nat /\ YieldDue(p, c) \in Nat
        /\ Carried(Unsettled(ps, c)) = Carried(Unsettled(rest, c)) + Due(p, c)
        /\ Carried(UnsettledYield(ps, c)) = Carried(UnsettledYield(rest, c)) + YieldDue(p, c)
    BY <1>1
  <2>2. /\ A = Carried(Unsettled(rest, c)) + Due(q, c)
        /\ B = Carried(UnsettledYield(rest, c)) + YieldDue(q, c)
        /\ Due(q, c) \in Nat /\ YieldDue(q, c) \in Nat
    BY <1>4
  <2> HIDE DEF A, B
  <2>3. /\ A + Due(p, c) = Carried(Unsettled(ps, c)) + Due(q, c)
        /\ B + YieldDue(p, c) = Carried(UnsettledYield(ps, c)) + YieldDue(q, c)
        /\ A \in Nat /\ B \in Nat
    BY <2>1, <2>2
  <2> QED BY <2>1, <2>2, <2>3 DEF A, B
<1>6. /\ rest \cup {q} \in SUBSET PacketType
      /\ \A x, y \in rest \cup {q} : x.id = y.id => x = y
  BY <1>1
<1> QED BY <1>3, <1>5, <1>6 DEF rest

\* A transfer of a user moves coins into escrow for the packet it adds.
LEMMA SentKept ==
  ASSUME NEW s, NEW v \in [Channel -> Nat], Kept(s, v, 0), NEW user \in User,
         NEW c \in Channel, NEW n \in Nat \ {0}, CanSend(s.ledger, user, Escrow[c], n)
  PROVE  Kept(SendTransfer(s, c, user, n), v, 0)
<1> DEFINE t == SendTransfer(s, c, user, n)
           m == SendCoins(s.ledger, user, Escrow[c], n)
<1>1. GoodExternal(s) /\ Sound(s.ledger) /\ ChannelKept(s, c, v[c])
  BY DEF Kept, GoodExternal
<1>2. /\ user \in Account /\ Escrow[c] \in Account /\ user # Escrow[c] /\ user # Warp
      /\ Escrow[c] # Warp /\ Warp \in Account
      /\ n \in Nat /\ n > 0
      /\ \A x \in Channel : Escrow[x] \in Account /\ Escrow[x] # user
      /\ \A x \in Channel \ {c} : Escrow[x] # Escrow[c]
  BY HoldingAccounts
<1>3. /\ Sound(m)
      /\ \A x \in Account : m.balance[x] =
             IF x = user THEN s.ledger.balance[x] - n
             ELSE IF x = Escrow[c] THEN s.ledger.balance[x] + n ELSE s.ledger.balance[x]
  BY <1>1, <1>2, SendEffect
<1>4. /\ GoodExternal(t)
      /\ t.ledger = SendCoins(s.ledger, user, Escrow[c], n)
      /\ t.retry = s.retry /\ t.total = s.total
      /\ t.collateral = s.collateral /\ t.delivered = s.delivered
      /\ \A x \in Channel :
             /\ Carried(Unsettled(s.packets, x)) \in Nat
             /\ Carried(UnsettledYield(s.packets, x)) \in Nat
             /\ Carried(Unsettled(t.packets, x)) =
                    Carried(Unsettled(s.packets, x)) + (IF x = c THEN n ELSE 0)
             /\ Carried(UnsettledYield(t.packets, x)) =
                    Carried(UnsettledYield(s.packets, x))
                    + (IF x = c /\ user = Escrow[c] THEN n ELSE 0)
  BY <1>1, <1>2, <1>3, TransferEffect
<1>5. /\ \A x \in Channel : /\ s.ledger.balance[Escrow[x]] \in Nat
                            /\ s.retry[x] \in Nat /\ v[x] \in Nat
      /\ s.ledger.balance[Warp] \in Nat
  BY <1>1, StoreSums
<1> HIDE DEF t, m
<1>6. t.ledger = m
  BY <1>4 DEF m
<1>7. /\ t.ledger.balance[Escrow[c]] = s.ledger.balance[Escrow[c]] + n
      /\ \A x \in Channel \ {c} :
             t.ledger.balance[Escrow[x]] >= s.ledger.balance[Escrow[x]]
      /\ t.ledger.balance[Warp] >= s.ledger.balance[Warp]
  BY <1>2, <1>3, <1>5, <1>6
<1>8. /\ Carried(Unsettled(t.packets, c)) = Carried(Unsettled(s.packets, c)) + n
      /\ Carried(UnsettledYield(t.packets, c)) = Carried(UnsettledYield(s.packets, c))
      /\ Carried(Unsettled(s.packets, c)) \in Nat
      /\ \A x \in Channel \ {c} :
             /\ v[x] = v[x]
             /\ Carried(Unsettled(t.packets, x)) = Carried(Unsettled(s.packets, x))
             /\ Carried(UnsettledYield(t.packets, x))
                  = Carried(UnsettledYield(s.packets, x))
  BY <1>2, <1>4
<1>9. ChannelKept(t, c, v[c])
  BY <1>1, <1>2, <1>4, <1>5, <1>7, <1>8 DEF ChannelKept
<1>10. \A x \in Destination \ {c} : /\ t.retry[x] = s.retry[x]
                                   /\ t.total[x] = s.total[x]
                                   /\ t.delivered[x] = s.delivered[x]
  BY <1>4
<1>11. Kept(t, v, 0)
  <2>1. 0 \in Int /\ GoodExternal(t) /\ t.collateral = s.collateral
    BY <1>4
  <2> QED BY <1>7, <1>8, <1>9, <1>10, <2>1, ChannelStep
<1> QED BY <1>11 DEF t

\* A refund pays back what the packet carried; what escrow sent itself stays
\* there and is noted to be retried.
LEMMA RefundKept ==
  ASSUME NEW s, NEW v \in [Channel -> Nat], Kept(s, v, 0), NEW p \in s.packets,
         p.state # "accepted", CanSend(s.ledger, Escrow[p.channel], p.sender, p.amount)
  PROVE  LET t == [AddAmountToRetry(s, p) EXCEPT
                      !.ledger  = SendCoins(@, Escrow[p.channel], p.sender, p.amount),
                      !.packets = @ \ {p}]
         IN  t \in ExternalStoreType /\ Kept(t, v, 0)
<1> DEFINE c == p.channel
           e == Escrow[c]
           n == p.amount
           m == SendCoins(s.ledger, e, p.sender, n)
           own == p.sender = e
           R == IF own THEN [s.retry EXCEPT ![c] = @ + n] ELSE s.retry
           rest == s.packets \ {p}
           t == [AddAmountToRetry(s, p) EXCEPT
                      !.ledger  = SendCoins(@, Escrow[p.channel], p.sender, p.amount),
                      !.packets = @ \ {p}]
<1>1. /\ GoodExternal(s) /\ Sound(s.ledger) /\ s \in ExternalStoreType /\ IsFiniteSet(s.packets)
      /\ \A x, y \in s.packets : x.id = y.id => x = y
      /\ s.packets \in SUBSET PacketType /\ s.retry \in [Destination -> Nat]
  BY DEF Kept, GoodExternal, ExternalStoreType
<1>2. /\ c \in Channel /\ p.sender \in Account /\ n \in Nat /\ n > 0
  BY <1>1 DEF PacketType
<1>3. /\ e \in Account /\ e # Warp /\ Warp \in Account /\ c \in Destination
      /\ \A x \in Channel : Escrow[x] \in Account
      /\ \A x \in Channel \ {c} : Escrow[x] # e
      /\ ChannelKept(s, c, v[c])
  BY <1>2, HoldingAccounts DEF Kept
<1>4. /\ rest \in SUBSET PacketType /\ IsFiniteSet(rest) /\ p \in PacketType
      /\ \A q, u \in rest : q.id = u.id => q = u
      /\ \A q \in rest : q.id # p.id
      /\ \A x \in Channel :
             /\ Carried(Unsettled(rest, x)) \in Nat
             /\ Carried(UnsettledYield(rest, x)) \in Nat
             /\ Due(p, x) \in Nat /\ YieldDue(p, x) \in Nat
             /\ Carried(Unsettled(s.packets, x)) = Carried(Unsettled(rest, x)) + Due(p, x)
             /\ Carried(UnsettledYield(s.packets, x))
                  = Carried(UnsettledYield(rest, x)) + YieldDue(p, x)
  <2> DEFINE ps == s.packets
  <2>1. /\ ps \in SUBSET PacketType /\ IsFiniteSet(ps) /\ p \in ps
        /\ \A x, y \in ps : x.id = y.id => x = y
    BY <1>1
  <2> HIDE DEF ps, c, e, n, m, own, R, t
  <2>2. /\ ps \ {p} \in SUBSET PacketType /\ IsFiniteSet(ps \ {p}) /\ p \in PacketType
        /\ \A q, u \in ps \ {p} : q.id = u.id => q = u
        /\ \A q \in ps \ {p} : q.id # p.id
        /\ \A x \in Channel :
               /\ Carried(Unsettled(ps \ {p}, x)) \in Nat
               /\ Carried(UnsettledYield(ps \ {p}, x)) \in Nat
               /\ Due(p, x) \in Nat /\ YieldDue(p, x) \in Nat
               /\ Carried(Unsettled(ps, x)) = Carried(Unsettled(ps \ {p}, x)) + Due(p, x)
               /\ Carried(UnsettledYield(ps, x))
                    = Carried(UnsettledYield(ps \ {p}, x)) + YieldDue(p, x)
    BY <2>1, PacketGone, ZenonT(60)
  <2> QED BY <2>2 DEF ps
<1>5. /\ Due(p, c) = n /\ YieldDue(p, c) = IF own THEN n ELSE 0
      /\ \A x \in Channel \ {c} : Due(p, x) = 0 /\ YieldDue(p, x) = 0
  BY DEF Due, YieldDue
<1>6. /\ Sound(m)
      /\ m.balance[e] = IF own THEN s.ledger.balance[e] ELSE s.ledger.balance[e] - n
      /\ \A x \in Account \ {e} : m.balance[x] >= s.ledger.balance[x]
  <2>1. \A x \in Account : s.ledger.balance[x] \in Nat
    BY <1>1 DEF Sound, LedgerType, Address
  <2>2. CASE own
    <3>1. Sound(m) /\ \A x \in Account : m.balance[x] = s.ledger.balance[x]
      BY <1>1, <1>2, <1>3, <2>2, SelfSendEffect
    <3> QED BY <1>3, <2>1, <2>2, <3>1
  <2>3. CASE ~own
    <3>1. /\ Sound(m)
          /\ \A x \in Account : m.balance[x] =
                 IF x = e THEN s.ledger.balance[x] - n
                 ELSE IF x = p.sender THEN s.ledger.balance[x] + n ELSE s.ledger.balance[x]
      BY <1>1, <1>2, <1>3, <2>3, SendEffect
    <3> QED BY <1>2, <1>3, <2>1, <2>3, <3>1
  <2> QED BY <2>2, <2>3
<1>7. /\ R \in [Destination -> Nat]
      /\ R[c] = IF own THEN s.retry[c] + n ELSE s.retry[c]
      /\ \A x \in Destination \ {c} : R[x] = s.retry[x]
  BY <1>1, <1>2, <1>3
<1> DEFINE a == [s EXCEPT !.retry = R]
           b == [a EXCEPT !.ledger = m]
<1>8. /\ a \in ExternalStoreType /\ a.ledger = s.ledger /\ a.packets = s.packets /\ a.retry = R
      /\ a.total = s.total /\ a.collateral = s.collateral /\ a.delivered = s.delivered
  <2> HIDE DEF R
  <2> QED BY <1>1, <1>7 DEF ExternalStoreType
<1>9. AddAmountToRetry(s, p) = a
  BY <1>1 DEF AddAmountToRetry, IncrementRetryAmount, ExternalStoreType
<1>10. t = [b EXCEPT !.packets = rest]
  <2> HIDE DEF a
  <2> QED BY <1>8, <1>9 DEF ExternalStoreType
<1> HIDE DEF a, m, rest, t
<1>11. /\ b \in ExternalStoreType /\ b.ledger = m /\ b.retry = R
       /\ b.total = s.total /\ b.collateral = s.collateral /\ b.delivered = s.delivered
  BY <1>6, <1>8 DEF ExternalStoreType, Sound
<1> HIDE DEF b
<1>12. /\ t \in ExternalStoreType /\ t.ledger = m /\ t.retry = R /\ t.packets = rest
       /\ t.total = s.total /\ t.collateral = s.collateral /\ t.delivered = s.delivered
  BY <1>4, <1>10, <1>11 DEF ExternalStoreType
<1> HIDE DEF R
<1>13. GoodExternal(t)
  BY <1>4, <1>6, <1>12 DEF GoodExternal
<1>14. /\ \A x \in Channel : /\ s.ledger.balance[Escrow[x]] \in Nat
                             /\ s.retry[x] \in Nat /\ v[x] \in Nat
                             /\ s.total[x] \in Nat /\ s.delivered[x] \in Nat
       /\ s.ledger.balance[Warp] \in Nat
  BY <1>1, StoreSums
<1>15. ChannelKept(t, c, v[c])
  <2>1. /\ s.ledger.balance[e] >= v[c] + s.retry[c] + Carried(Unsettled(s.packets, c))
        /\ s.total[c] = s.delivered[c] + s.retry[c] + Carried(UnsettledYield(s.packets, c))
    BY <1>3 DEF ChannelKept
  <2>2. /\ Carried(Unsettled(rest, c)) \in Nat /\ Carried(UnsettledYield(rest, c)) \in Nat
        /\ Carried(Unsettled(s.packets, c)) = Carried(Unsettled(rest, c)) + n
        /\ Carried(UnsettledYield(s.packets, c))
             = Carried(UnsettledYield(rest, c)) + (IF own THEN n ELSE 0)
    BY <1>2, <1>4, <1>5
  <2>3. /\ s.ledger.balance[e] \in Nat /\ s.retry[c] \in Nat /\ v[c] \in Nat
        /\ s.total[c] \in Nat /\ s.delivered[c] \in Nat
    BY <1>2, <1>14
  <2> HIDE DEF c, e, n, own
  <2>4. /\ m.balance[e] >= v[c] + R[c] + Carried(Unsettled(rest, c))
        /\ s.total[c] = s.delivered[c] + R[c] + Carried(UnsettledYield(rest, c))
    BY <1>2, <1>6, <1>7, <2>1, <2>2, <2>3
  <2> QED BY <1>12, <2>4 DEF ChannelKept, e
<1>16. /\ \A x \in Channel \ {c} :
              t.ledger.balance[Escrow[x]] >= s.ledger.balance[Escrow[x]]
       /\ t.ledger.balance[Warp] >= s.ledger.balance[Warp]
  BY <1>3, <1>6, <1>12
<1>17. \A x \in Channel \ {c} :
              /\ v[x] = v[x]
              /\ Carried(Unsettled(t.packets, x)) = Carried(Unsettled(s.packets, x))
              /\ Carried(UnsettledYield(t.packets, x))
                   = Carried(UnsettledYield(s.packets, x))
  BY <1>4, <1>5, <1>12
<1>18. \A x \in Destination \ {c} : /\ t.retry[x] = s.retry[x]
                                   /\ t.total[x] = s.total[x]
                                   /\ t.delivered[x] = s.delivered[x]
  BY <1>7, <1>12
<1>19. Kept(t, v, 0)
  <2>1. 0 \in Int /\ t.collateral = s.collateral
    BY <1>12
  <2> HIDE DEF c
  <2> QED BY <1>2, <1>13, <1>15, <1>16, <1>17, <1>18, <2>1, ChannelStep
<1> QED BY <1>12, <1>19 DEF t

-----------------------------------------------------------------------------
(* The invariant. *)

\* What holds of the state after every step.
ExternalInv ==
    /\ paused \in BOOLEAN /\ burns \in Nat /\ donated \in Nat
    /\ yieldRecipients \subseteq Destination
    /\ vouchers \in [Channel -> Nat]
    /\ routers \in [Route -> 0 .. 2]
    /\ Kept(ExternalStore, vouchers, 0)

\* A store that is committed is the next one.
LEMMA ExternalCommitted ==
  ASSUME NEW t \in ExternalStoreType, CommitExternal(t)
  PROVE  ExternalStore' = t
BY DEF CommitExternal, ExternalStore, ExternalStoreType

\* The store before and after a step, field by field.
LEMMA StoreFields ==
  /\ ExternalStore.ledger = ledger /\ ExternalStore.retry = retryAmounts /\ ExternalStore.total = totalExternal
  /\ ExternalStore.packets = packets /\ ExternalStore.collateral = collateral
  /\ ExternalStore.delivered = delivered
BY DEF ExternalStore

LEMMA NextStoreFields ==
  /\ ExternalStore'.ledger = ledger' /\ ExternalStore'.retry = retryAmounts'
  /\ ExternalStore'.total = totalExternal' /\ ExternalStore'.packets = packets'
  /\ ExternalStore'.collateral = collateral' /\ ExternalStore'.delivered = delivered'
BY DEF ExternalStore

\* The next store has its type when its fields have theirs.
LEMMA NextStoreType ==
  ASSUME ledger' \in LedgerType, retryAmounts' \in [Destination -> Nat],
         totalExternal' \in [Destination -> Nat], packets' \in SUBSET PacketType,
         collateral' \in [Route -> Nat], delivered' \in [Destination -> Nat]
  PROVE  ExternalStore' \in ExternalStoreType
BY DEF ExternalStore, ExternalStoreType

\* A packet that arrives turns what was on its way into what circulates or into
\* what is on its way back, and what it delivers is yield delivered.
LEMMA ReceivePacketKept ==
  ASSUME ExternalInv, NEW p, NEW accept \in BOOLEAN, ReceivePacket(p, accept)
  PROVE  vouchers' \in [Channel -> Nat] /\ Kept(ExternalStore', vouchers', 0)
<1> DEFINE s == ExternalStore
           t == ExternalStore'
           c == p.channel
           n == p.amount
           own == p.sender = Escrow[c]
           q == [p EXCEPT !.state = IF accept THEN "accepted" ELSE "refused"]
           moved == (s.packets \ {p}) \cup {q}
           w == vouchers'
<1>1. /\ GoodExternal(s) /\ s \in ExternalStoreType /\ Sound(s.ledger) /\ IsFiniteSet(s.packets)
      /\ \A x, y \in s.packets : x.id = y.id => x = y
      /\ s.packets \in SUBSET PacketType /\ vouchers \in [Channel -> Nat]
      /\ s.delivered \in [Destination -> Nat] /\ Kept(s, vouchers, 0)
  BY DEF ExternalInv, Kept, GoodExternal, ExternalStoreType
<1>2. p \in s.packets /\ p \in PacketType /\ p.state = "sent"
  BY <1>1, StoreFields DEF ReceivePacket
<1>3. /\ c \in Channel /\ c \in Destination /\ n \in Nat /\ p.sender \in Account
      /\ ChannelKept(s, c, vouchers[c])
  BY <1>1, <1>2, HoldingAccounts DEF PacketType, Kept
<1>4. /\ q \in PacketType /\ q.id = p.id /\ q.channel = c /\ q.amount = n
      /\ q.sender = p.sender
      /\ q.state = IF accept THEN "accepted" ELSE "refused"
  BY <1>2 DEF PacketType
<1> HIDE DEF q
<1>5. /\ moved \in SUBSET PacketType /\ IsFiniteSet(moved)
      /\ \A x, y \in moved : x.id = y.id => x = y
      /\ \A x \in Channel :
             /\ Carried(Unsettled(moved, x)) + Due(p, x)
                  = Carried(Unsettled(s.packets, x)) + Due(q, x)
             /\ Carried(UnsettledYield(moved, x)) + YieldDue(p, x)
                  = Carried(UnsettledYield(s.packets, x)) + YieldDue(q, x)
             /\ Due(p, x) \in Nat /\ YieldDue(p, x) \in Nat
             /\ Due(q, x) \in Nat /\ YieldDue(q, x) \in Nat
             /\ Carried(Unsettled(moved, x)) \in Nat
             /\ Carried(UnsettledYield(moved, x)) \in Nat
  BY <1>1, <1>2, <1>4, PacketMoved
<1>6. /\ Due(p, c) = n /\ YieldDue(p, c) = IF own THEN n ELSE 0
      /\ Due(q, c) = IF accept THEN 0 ELSE n
      /\ YieldDue(q, c) = IF own /\ ~accept THEN n ELSE 0
      /\ \A x \in Channel \ {c} : /\ Due(p, x) = 0 /\ YieldDue(p, x) = 0
                                  /\ Due(q, x) = 0 /\ YieldDue(q, x) = 0
  BY <1>2, <1>4 DEF Due, YieldDue
<1>7. /\ t.ledger = s.ledger /\ t.retry = s.retry /\ t.total = s.total
      /\ t.collateral = s.collateral /\ t.packets = moved
      /\ t.delivered = [s.delivered EXCEPT ![c] = IF accept /\ own THEN @ + n ELSE @]
      /\ w = [vouchers EXCEPT ![c] = IF accept THEN @ + n ELSE @]
  BY StoreFields, NextStoreFields DEF ReceivePacket, vars, q
<1>8. w \in [Channel -> Nat] /\ t.delivered \in [Destination -> Nat]
  BY <1>1, <1>3, <1>7
<1>9. t \in ExternalStoreType
  <2>1. /\ s.ledger \in LedgerType /\ s.retry \in [Destination -> Nat]
        /\ s.total \in [Destination -> Nat] /\ s.collateral \in [Route -> Nat]
    BY <1>1 DEF ExternalStoreType
  <2> QED BY <1>5, <1>7, <1>8, <2>1, StoreFields, NextStoreFields, NextStoreType
<1>10. /\ w[c] = IF accept THEN vouchers[c] + n ELSE vouchers[c]
       /\ t.delivered[c] = IF accept /\ own THEN s.delivered[c] + n ELSE s.delivered[c]
       /\ \A x \in Channel \ {c} : w[x] = vouchers[x]
       /\ \A x \in Destination \ {c} : t.delivered[x] = s.delivered[x]
       /\ vouchers[c] \in Nat
  BY <1>1, <1>3, <1>7
<1> HIDE DEF s, t, w, moved
<1>11. GoodExternal(t)
  BY <1>1, <1>5, <1>7, <1>9 DEF GoodExternal
<1>12. /\ \A x \in Channel : /\ Carried(Unsettled(s.packets, x)) \in Nat
                             /\ Carried(UnsettledYield(s.packets, x)) \in Nat
                             /\ s.ledger.balance[Escrow[x]] \in Nat
                             /\ s.retry[x] \in Nat
                             /\ s.total[x] \in Nat /\ s.delivered[x] \in Nat
       /\ s.ledger.balance[Warp] \in Nat
  BY <1>1, StoreSums
<1>13. ChannelKept(t, c, w[c])
  <2> DEFINE A == Carried(Unsettled(moved, c))
             B == Carried(UnsettledYield(moved, c))
  <2>1. /\ s.ledger.balance[Escrow[c]]
             >= vouchers[c] + s.retry[c] + Carried(Unsettled(s.packets, c))
        /\ s.total[c] = s.delivered[c] + s.retry[c] + Carried(UnsettledYield(s.packets, c))
    BY <1>3 DEF ChannelKept
  <2>2. /\ A + n = Carried(Unsettled(s.packets, c)) + (IF accept THEN 0 ELSE n)
        /\ B + (IF own THEN n ELSE 0)
             = Carried(UnsettledYield(s.packets, c)) + (IF own /\ ~accept THEN n ELSE 0)
        /\ A \in Nat /\ B \in Nat
    BY <1>3, <1>5, <1>6
  <2>3. /\ s.ledger.balance[Escrow[c]] \in Nat /\ s.retry[c] \in Nat /\ vouchers[c] \in Nat
        /\ s.total[c] \in Nat /\ s.delivered[c] \in Nat
        /\ Carried(Unsettled(s.packets, c)) \in Nat
        /\ Carried(UnsettledYield(s.packets, c)) \in Nat
    BY <1>3, <1>10, <1>12
  <2> HIDE DEF A, B, c, n
  <2>4. /\ s.ledger.balance[Escrow[c]] >= w[c] + s.retry[c] + A
        /\ s.total[c] = t.delivered[c] + s.retry[c] + B
    <3>1. CASE accept /\ own
      BY <1>3, <1>10, <2>1, <2>2, <2>3, <3>1
    <3>2. CASE accept /\ ~own
      BY <1>3, <1>10, <2>1, <2>2, <2>3, <3>2
    <3>3. CASE ~accept
      BY <1>3, <1>10, <2>1, <2>2, <2>3, <3>3
    <3> QED BY <3>1, <3>2, <3>3
  <2> QED BY <1>7, <2>4 DEF ChannelKept, A, B
<1>14. \A x \in Channel \ {c} :
             /\ w[x] = vouchers[x]
             /\ Carried(Unsettled(t.packets, x)) = Carried(Unsettled(s.packets, x))
             /\ Carried(UnsettledYield(t.packets, x))
                  = Carried(UnsettledYield(s.packets, x))
  <2> SUFFICES ASSUME NEW x \in Channel \ {c}
               PROVE  /\ Carried(Unsettled(moved, x)) = Carried(Unsettled(s.packets, x))
                      /\ Carried(UnsettledYield(moved, x))
                           = Carried(UnsettledYield(s.packets, x))
    BY <1>7, <1>10
  <2>1. /\ Carried(Unsettled(moved, x)) + 0 = Carried(Unsettled(s.packets, x)) + 0
        /\ Carried(UnsettledYield(moved, x)) + 0
             = Carried(UnsettledYield(s.packets, x)) + 0
        /\ Carried(Unsettled(moved, x)) \in Nat
        /\ Carried(UnsettledYield(moved, x)) \in Nat
    BY <1>5, <1>6
  <2>2. /\ Carried(Unsettled(s.packets, x)) \in Nat
        /\ Carried(UnsettledYield(s.packets, x)) \in Nat
    BY <1>12
  <2> QED BY <2>1, <2>2
<1>15. Kept(t, w, 0)
  <2>1. /\ 0 \in Int /\ t.collateral = s.collateral
        /\ \A x \in Destination \ {c} : /\ t.retry[x] = s.retry[x]
                                       /\ t.total[x] = s.total[x]
                                       /\ t.delivered[x] = s.delivered[x]
        /\ \A x \in Channel \ {c} :
               t.ledger.balance[Escrow[x]] >= s.ledger.balance[Escrow[x]]
        /\ t.ledger.balance[Warp] >= s.ledger.balance[Warp]
    BY <1>7, <1>10, <1>12
  <2> HIDE DEF c
  <2> QED BY <1>1, <1>3, <1>11, <1>13, <1>14, <2>1, ChannelStep
<1> QED BY <1>8, <1>15 DEF t, w

\* A packet that was accepted is not answered for any more when its
\* acknowledgement comes.
LEMMA AcceptedGone ==
  ASSUME ExternalInv, NEW p \in packets, p.state = "accepted",
         packets' = packets \ {p}, vouchers' = vouchers,
         ExternalStore' = [ExternalStore EXCEPT !.packets = @ \ {p}]
  PROVE  Kept(ExternalStore', vouchers', 0)
<1> DEFINE s == ExternalStore
           t == ExternalStore'
           c == p.channel
           ps == s.packets
<1>1. /\ GoodExternal(s) /\ s \in ExternalStoreType /\ Sound(s.ledger) /\ IsFiniteSet(ps)
      /\ \A x, y \in ps : x.id = y.id => x = y
      /\ ps \in SUBSET PacketType /\ vouchers \in [Channel -> Nat]
      /\ Kept(s, vouchers, 0) /\ p \in ps
  BY StoreFields DEF ExternalInv, Kept, GoodExternal, ExternalStoreType
<1> HIDE DEF ps
<1>2. /\ ps \ {p} \in SUBSET PacketType /\ IsFiniteSet(ps \ {p}) /\ p \in PacketType
      /\ \A q, u \in ps \ {p} : q.id = u.id => q = u
      /\ \A q \in ps \ {p} : q.id # p.id
      /\ \A x \in Channel :
             /\ Carried(Unsettled(ps \ {p}, x)) \in Nat
             /\ Carried(UnsettledYield(ps \ {p}, x)) \in Nat
             /\ Due(p, x) \in Nat /\ YieldDue(p, x) \in Nat
             /\ Carried(Unsettled(ps, x)) = Carried(Unsettled(ps \ {p}, x)) + Due(p, x)
             /\ Carried(UnsettledYield(ps, x))
                  = Carried(UnsettledYield(ps \ {p}, x)) + YieldDue(p, x)
  BY <1>1, PacketGone
<1>3. \A x \in Channel : Due(p, x) = 0 /\ YieldDue(p, x) = 0
  BY DEF Due, YieldDue
<1>4. \A x \in Channel : /\ Carried(Unsettled(ps, x)) = Carried(Unsettled(ps \ {p}, x))
                         /\ Carried(UnsettledYield(ps, x))
                              = Carried(UnsettledYield(ps \ {p}, x))
  <2> SUFFICES ASSUME NEW x \in Channel
               PROVE  /\ Carried(Unsettled(ps, x)) = Carried(Unsettled(ps \ {p}, x))
                      /\ Carried(UnsettledYield(ps, x))
                           = Carried(UnsettledYield(ps \ {p}, x))
    OBVIOUS
  <2> DEFINE A == Carried(Unsettled(ps \ {p}, x))
             B == Carried(UnsettledYield(ps \ {p}, x))
  <2>1. /\ A \in Nat /\ B \in Nat
        /\ Carried(Unsettled(ps, x)) = A + Due(p, x)
        /\ Carried(UnsettledYield(ps, x)) = B + YieldDue(p, x)
        /\ Due(p, x) = 0 /\ YieldDue(p, x) = 0
    BY <1>2, <1>3
  <2> HIDE DEF A, B
  <2>2. Carried(Unsettled(ps, x)) = A /\ Carried(UnsettledYield(ps, x)) = B
    BY <2>1
  <2> QED BY <2>2 DEF A, B
<1>5. /\ t \in ExternalStoreType
      /\ t.ledger = s.ledger /\ t.retry = s.retry /\ t.total = s.total
      /\ t.collateral = s.collateral /\ t.packets = ps \ {p} /\ t.delivered = s.delivered
  BY <1>1, <1>2 DEF ExternalStoreType, ps
<1>6. c \in Channel /\ ChannelKept(s, c, vouchers[c])
  BY <1>1, <1>2 DEF PacketType, Kept
<1> HIDE DEF s, t, c
<1>7. GoodExternal(t)
  BY <1>1, <1>2, <1>5 DEF GoodExternal
<1>8. /\ ChannelKept(t, c, vouchers[c])
      /\ \A x \in Channel \ {c} :
             /\ vouchers[x] = vouchers[x]
             /\ Carried(Unsettled(t.packets, x)) = Carried(Unsettled(s.packets, x))
             /\ Carried(UnsettledYield(t.packets, x))
                  = Carried(UnsettledYield(s.packets, x))
  BY <1>4, <1>5, <1>6 DEF ChannelKept, ps
<1>9. /\ \A x \in Channel : s.ledger.balance[Escrow[x]] \in Nat
      /\ s.ledger.balance[Warp] \in Nat
  BY <1>1, StoreSums
<1>10. /\ 0 \in Int /\ t.collateral = s.collateral
       /\ \A x \in Destination \ {c} : /\ t.retry[x] = s.retry[x]
                                      /\ t.total[x] = s.total[x]
                                      /\ t.delivered[x] = s.delivered[x]
       /\ \A x \in Channel \ {c} :
              t.ledger.balance[Escrow[x]] >= s.ledger.balance[Escrow[x]]
       /\ t.ledger.balance[Warp] >= s.ledger.balance[Warp]
  BY <1>5, <1>9
<1>11. Kept(t, vouchers, 0)
  BY <1>1, <1>6, <1>7, <1>8, <1>10, ChannelStep
<1> QED BY <1>11 DEF t

\* Vouchers that come back are paid out of escrow.
LEMMA OnRecvPacketKept ==
  ASSUME ExternalInv, NEW c \in Channel, NEW user \in User, NEW n \in Amounts,
         OnRecvPacket(c, user, n)
  PROVE  vouchers' \in [Channel -> Nat] /\ Kept(ExternalStore', vouchers', 0)
<1> DEFINE s == ExternalStore
           t == ExternalStore'
           w == vouchers'
           m == SendCoins(s.ledger, Escrow[c], user, n)
<1>1. /\ GoodExternal(s) /\ s \in ExternalStoreType /\ Sound(s.ledger) /\ IsFiniteSet(s.packets)
      /\ \A x, y \in s.packets : x.id = y.id => x = y
      /\ Kept(s, vouchers, 0) /\ vouchers \in [Channel -> Nat]
      /\ ChannelKept(s, c, vouchers[c])
  BY DEF ExternalInv, Kept, GoodExternal
<1>2. /\ user \in Account /\ Escrow[c] \in Account /\ user # Escrow[c] /\ user # Warp
      /\ Escrow[c] # Warp /\ Warp \in Account /\ n \in Nat /\ n > 0
      /\ \A x \in Channel : Escrow[x] \in Account /\ Escrow[x] # user
      /\ \A x \in Channel \ {c} : Escrow[x] # Escrow[c]
  BY HoldingAccounts, TokenAssumption
<1>3. CanSend(s.ledger, Escrow[c], user, n) /\ vouchers[c] >= n
  BY StoreFields DEF OnRecvPacket
<1>4. /\ Sound(m)
      /\ \A x \in Account : m.balance[x] =
             IF x = Escrow[c] THEN s.ledger.balance[x] - n
             ELSE IF x = user THEN s.ledger.balance[x] + n ELSE s.ledger.balance[x]
  BY <1>1, <1>2, <1>3, SendEffect
<1>5. /\ t.ledger = m /\ t.retry = s.retry /\ t.total = s.total
      /\ t.collateral = s.collateral /\ t.packets = s.packets /\ t.delivered = s.delivered
      /\ w = [vouchers EXCEPT ![c] = @ - n]
  BY StoreFields, NextStoreFields DEF OnRecvPacket, externalBooks
<1>6. t \in ExternalStoreType
  <2>1. /\ m \in LedgerType /\ s.retry \in [Destination -> Nat]
        /\ s.total \in [Destination -> Nat] /\ s.collateral \in [Route -> Nat]
        /\ s.packets \in SUBSET PacketType /\ s.delivered \in [Destination -> Nat]
    BY <1>1, <1>4 DEF ExternalStoreType, Sound
  <2> QED BY <1>5, <2>1, NextStoreFields, NextStoreType
<1>7. /\ w \in [Channel -> Nat] /\ w[c] = vouchers[c] - n /\ w[c] \in Nat
      /\ \A x \in Channel \ {c} : w[x] = vouchers[x]
  BY <1>1, <1>2, <1>3, <1>5
<1> HIDE DEF s, t, w, m
<1>8. GoodExternal(t)
  BY <1>1, <1>4, <1>5, <1>6 DEF GoodExternal
<1>9. /\ \A x \in Channel : /\ Carried(Unsettled(s.packets, x)) \in Nat
                            /\ s.ledger.balance[Escrow[x]] \in Nat
                            /\ s.retry[x] \in Nat
      /\ s.ledger.balance[Warp] \in Nat
  BY <1>1, StoreSums
<1>10. ChannelKept(t, c, w[c])
  <2>1. t.ledger.balance[Escrow[c]] = s.ledger.balance[Escrow[c]] - n
    BY <1>2, <1>4, <1>5
  <2>2. vouchers[c] \in Nat
    BY <1>1
  <2> QED BY <1>1, <1>2, <1>5, <1>7, <1>9, <2>1, <2>2 DEF ChannelKept
<1>11. /\ 0 \in Int /\ t.collateral = s.collateral
       /\ \A x \in Destination \ {c} : /\ t.retry[x] = s.retry[x]
                                      /\ t.total[x] = s.total[x]
                                      /\ t.delivered[x] = s.delivered[x]
       /\ \A x \in Channel \ {c} :
              t.ledger.balance[Escrow[x]] >= s.ledger.balance[Escrow[x]]
       /\ t.ledger.balance[Warp] >= s.ledger.balance[Warp]
       /\ \A x \in Channel \ {c} :
              /\ w[x] = vouchers[x]
              /\ Carried(Unsettled(t.packets, x)) = Carried(Unsettled(s.packets, x))
              /\ Carried(UnsettledYield(t.packets, x))
                   = Carried(UnsettledYield(s.packets, x))
  BY <1>2, <1>4, <1>5, <1>7, <1>9
<1>12. Kept(t, w, 0)
  BY <1>1, <1>8, <1>10, <1>11, ChannelStep
<1> QED BY <1>7, <1>12 DEF t, w

\* A user's transfer over a route is backed by the collateral it pays.
LEMMA RemoteTransferKept ==
  ASSUME NEW s, NEW v \in [Channel -> Nat], Kept(s, v, 0), NEW user \in User,
         NEW r \in Route, NEW n \in Nat \ {0}, CanSend(s.ledger, user, Warp, n)
  PROVE  /\ RemoteTransferCollateral(s, r, user, n) \in ExternalStoreType
         /\ Kept(RemoteTransferCollateral(s, r, user, n), v, 0)
<1> DEFINE t == RemoteTransferCollateral(s, r, user, n)
           m == SendCoins(s.ledger, user, Warp, n)
           C == [s.collateral EXCEPT ![r] = @ + n]
           k == [s EXCEPT !.ledger = m]
<1>1. /\ GoodExternal(s) /\ s \in ExternalStoreType /\ Sound(s.ledger) /\ IsFiniteSet(s.packets)
      /\ \A x, y \in s.packets : x.id = y.id => x = y
      /\ s.collateral \in [Route -> Nat] /\ s.retry \in [Destination -> Nat]
      /\ RouteKept(s, r)
  BY DEF Kept, GoodExternal, ExternalStoreType
<1>2. /\ user \in Account /\ user # Warp /\ Warp \in Account /\ n \in Nat /\ n > 0
      /\ \A c \in Channel : Escrow[c] \in Account /\ Escrow[c] # user /\ Escrow[c] # Warp
      /\ r \in Destination
  BY HoldingAccounts
<1>3. /\ Sound(m)
      /\ \A x \in Account : m.balance[x] =
             IF x = user THEN s.ledger.balance[x] - n
             ELSE IF x = Warp THEN s.ledger.balance[x] + n ELSE s.ledger.balance[x]
  BY <1>1, <1>2, SendEffect
<1>4. m \in LedgerType
  BY <1>3 DEF Sound
<1>5. t = [k EXCEPT !.collateral = C]
  BY <1>1 DEF RemoteTransferCollateral, ExternalStoreType
<1>6. /\ C \in [Route -> Nat] /\ C[r] = s.collateral[r] + n
      /\ \A x \in Route \ {r} : C[x] = s.collateral[x]
      /\ s.collateral[r] \in Nat
  BY <1>1
<1> HIDE DEF m, C, t
<1>7. /\ k \in ExternalStoreType /\ k.ledger = m /\ k.retry = s.retry /\ k.total = s.total
      /\ k.packets = s.packets /\ k.delivered = s.delivered
  BY <1>1, <1>4 DEF ExternalStoreType
<1> HIDE DEF k
<1>8. /\ t \in ExternalStoreType /\ t.ledger = m /\ t.retry = s.retry /\ t.total = s.total
      /\ t.packets = s.packets /\ t.collateral = C /\ t.delivered = s.delivered
  BY <1>5, <1>6, <1>7 DEF ExternalStoreType
<1>9. GoodExternal(t)
  BY <1>1, <1>3, <1>8 DEF GoodExternal
<1>10. s.ledger.balance[Warp] \in Nat /\ s.retry[r] \in Nat
  BY <1>1, <1>2, StoreSums
<1>11. /\ t.ledger.balance[Warp] = s.ledger.balance[Warp] + n
       /\ t.collateral[r] = s.collateral[r] + n /\ t.retry[r] = s.retry[r]
  BY <1>2, <1>3, <1>6, <1>8
<1>12. (t.ledger.balance[Warp] - s.ledger.balance[Warp]) + 0
           >= (t.collateral[r] - s.collateral[r]) + (t.retry[r] - s.retry[r]) + 0
  BY <1>2, <1>6, <1>10, <1>11
<1>13. /\ 0 \in Int /\ RouteKept(t, r) /\ t.packets = s.packets
       /\ \A x \in Destination \ {r} : /\ t.retry[x] = s.retry[x]
                                      /\ t.total[x] = s.total[x]
                                      /\ t.delivered[x] = s.delivered[x]
       /\ \A c \in Channel : t.ledger.balance[Escrow[c]] = s.ledger.balance[Escrow[c]]
       /\ \A x \in Route \ {r} : t.collateral[x] = s.collateral[x]
  BY <1>1, <1>2, <1>3, <1>6, <1>8 DEF RouteKept
<1>14. Kept(t, v, 0)
  BY <1>9, <1>12, <1>13, RouteStep
<1> QED BY <1>8, <1>14 DEF t

\* What comes back over a route is paid out of its collateral.
LEMMA RemoteReceiveKept ==
  ASSUME ExternalInv, NEW r \in Route, NEW user \in User, NEW n \in Amounts,
         RemoteReceive(r, user, n)
  PROVE  Kept(ExternalStore', vouchers', 0)
<1> DEFINE s == ExternalStore
           t == ExternalStore'
           m == SendCoins(s.ledger, Warp, user, n)
           C == [s.collateral EXCEPT ![r] = @ - n]
<1>1. /\ GoodExternal(s) /\ s \in ExternalStoreType /\ Sound(s.ledger) /\ IsFiniteSet(s.packets)
      /\ \A x, y \in s.packets : x.id = y.id => x = y
      /\ s.collateral \in [Route -> Nat] /\ s.retry \in [Destination -> Nat]
      /\ Kept(s, vouchers, 0) /\ RouteKept(s, r)
  BY DEF ExternalInv, Kept, GoodExternal, ExternalStoreType
<1>2. /\ user \in Account /\ user # Warp /\ Warp \in Account /\ n \in Nat /\ n > 0
      /\ \A c \in Channel : Escrow[c] \in Account /\ Escrow[c] # user /\ Escrow[c] # Warp
      /\ r \in Destination
  BY HoldingAccounts, TokenAssumption
<1>3. CanSend(s.ledger, Warp, user, n) /\ s.collateral[r] >= n
  BY StoreFields DEF RemoteReceive
<1>4. /\ Sound(m)
      /\ \A x \in Account : m.balance[x] =
             IF x = Warp THEN s.ledger.balance[x] - n
             ELSE IF x = user THEN s.ledger.balance[x] + n ELSE s.ledger.balance[x]
  BY <1>1, <1>2, <1>3, SendEffect
<1>5. /\ t.ledger = m /\ t.retry = s.retry /\ t.total = s.total
      /\ t.packets = s.packets /\ t.collateral = C /\ t.delivered = s.delivered
      /\ vouchers' = vouchers
  BY StoreFields, NextStoreFields DEF RemoteReceive
<1>6. /\ C \in [Route -> Nat] /\ C[r] = s.collateral[r] - n
      /\ \A x \in Route \ {r} : C[x] = s.collateral[x]
      /\ s.collateral[r] \in Nat
  BY <1>1, <1>2, <1>3
<1> HIDE DEF C
<1>7. t \in ExternalStoreType
  <2>1. /\ m \in LedgerType /\ s.retry \in [Destination -> Nat]
        /\ s.total \in [Destination -> Nat] /\ s.packets \in SUBSET PacketType
        /\ s.delivered \in [Destination -> Nat]
    BY <1>1, <1>4 DEF ExternalStoreType, Sound
  <2> QED BY <1>5, <1>6, <2>1, NextStoreFields, NextStoreType
<1> HIDE DEF s, t, m
<1>8. GoodExternal(t)
  BY <1>1, <1>4, <1>5, <1>7 DEF GoodExternal
<1>9. s.ledger.balance[Warp] \in Nat /\ s.retry[r] \in Nat
  BY <1>1, <1>2, StoreSums
<1>10. /\ t.ledger.balance[Warp] = s.ledger.balance[Warp] - n
       /\ t.collateral[r] = s.collateral[r] - n /\ t.retry[r] = s.retry[r]
  BY <1>2, <1>4, <1>5, <1>6
<1>11. (t.ledger.balance[Warp] - s.ledger.balance[Warp]) + 0
           >= (t.collateral[r] - s.collateral[r]) + (t.retry[r] - s.retry[r]) + 0
  BY <1>2, <1>6, <1>9, <1>10
<1>12. /\ 0 \in Int /\ RouteKept(t, r) /\ t.packets = s.packets
       /\ \A x \in Destination \ {r} : /\ t.retry[x] = s.retry[x]
                                      /\ t.total[x] = s.total[x]
                                      /\ t.delivered[x] = s.delivered[x]
       /\ \A c \in Channel : t.ledger.balance[Escrow[c]] = s.ledger.balance[Escrow[c]]
       /\ \A x \in Route \ {r} : t.collateral[x] = s.collateral[x]
  BY <1>1, <1>2, <1>4, <1>5, <1>6 DEF RouteKept
<1>13. Kept(t, vouchers, 0)
  BY <1>1, <1>8, <1>11, <1>12, RouteStep
<1> QED BY <1>5, <1>13 DEF t

\* A token payload: what its index update leaves behind keeps the invariant, and
\* so does the issuance to a user.
LEMMA MintKept ==
  ASSUME NEW s, NEW v \in [Channel -> Nat], Kept(s, v, 0), NEW user \in User,
         NEW n \in Nat \ {0}
  PROVE  LET t == [s EXCEPT !.ledger = MintTo(@, user, n)]
         IN  t \in ExternalStoreType /\ Kept(t, v, 0)
<1> DEFINE l == s.ledger
           m == MintTo(l, user, n)
           t == [s EXCEPT !.ledger = MintTo(@, user, n)]
<1>1. GoodExternal(s) /\ Sound(l) /\ s \in ExternalStoreType
  BY DEF Kept, GoodExternal
<1>2. /\ user \in Account /\ Warp \in Account /\ user # Warp /\ n \in Nat /\ n > 0
      /\ \A c \in Channel : Escrow[c] \in Account /\ Escrow[c] # user
  BY HoldingAccounts
<1>3. Sound(m) /\ m.balance = [l.balance EXCEPT ![user] = @ + n]
  <2> DEFINE up   == GetPrincipalAmountRoundedUp(n, l.index)
             down == GetPrincipalAmountRoundedDown(n, l.index)
  <2>1. /\ Sound(m)
        /\ SameExcept(m, l, {"balance", "principal", "supply",
                             "totalPrincipal", "totalHolders"})
        /\ m.supply = l.supply + n
        /\ m.totalPrincipal = l.totalPrincipal + up
        /\ m.balance = [l.balance EXCEPT ![user] = @ + n]
        /\ m.principal = [l.principal EXCEPT ![user] = @ + down]
    <3> HIDE DEF l
    <3> QED BY <1>1, <1>2, IssueToAccount
  <2> QED BY <2>1
<1>4. t = [s EXCEPT !.ledger = m]
  BY <1>1 DEF ExternalStoreType
<1> HIDE DEF m, t
<1>5. /\ \A c \in Channel : l.balance[Escrow[c]] \in Nat /\ l.balance[Warp] \in Nat
      /\ l.balance[Warp] \in Nat
  BY <1>1, StoreSums
<1>6. /\ \A c \in Channel : m.balance[Escrow[c]] >= s.ledger.balance[Escrow[c]]
      /\ m.balance[Warp] >= s.ledger.balance[Warp] + 0
      /\ 0 \in Int
  <2>1. \A x \in Account : x # user => m.balance[x] = l.balance[x]
    BY <1>1, <1>3 DEF Sound, LedgerType, Address
  <2> QED BY <1>2, <1>5, <2>1
<1> HIDE DEF l
<1>7. Kept([s EXCEPT !.ledger = m], v, 0 + 0)
  BY <1>3, <1>6, LedgerStep
<1>8. Kept(t, v, 0)
  BY <1>4, <1>7
<1> QED BY <1>8 DEF Kept, GoodExternal, t

\* At genesis nothing is owed to other chains, whatever ledger it starts from.
LEMMA ExternalGenesisInv ==
  ASSUME ExternalGenesis, Sound(ledger), paused \in BOOLEAN, burns \in Nat, donated \in Nat
  PROVE  ExternalInv
<1> DEFINE s == ExternalStore
<1>1. /\ yieldRecipients = {} /\ packets = {}
      /\ retryAmounts = [d \in Destination |-> 0]
      /\ totalExternal = [d \in Destination |-> 0]
      /\ vouchers = [c \in Channel |-> 0] /\ collateral = [r \in Route |-> 0]
      /\ routers = [r \in Route |-> 0] /\ delivered = [d \in Destination |-> 0]
  BY DEF ExternalGenesis
<1>2. Sound(s.ledger) /\ s.ledger \in LedgerType
  BY StoreFields DEF Sound
<1>3. s \in ExternalStoreType
  <2>1. ledger \in LedgerType
    BY <1>2, StoreFields
  <2> QED BY <1>1, <2>1 DEF ExternalStore, ExternalStoreType
<1>4. /\ \A d \in Destination : s.retry[d] = 0 /\ s.total[d] = 0 /\ s.delivered[d] = 0
      /\ s.retry \in [Destination -> Nat]
      /\ s.collateral \in [Route -> Int] /\ \A r \in Route : s.collateral[r] = 0
      /\ s.packets = {} /\ \A c \in Channel : vouchers[c] = 0
  BY <1>1, StoreFields
<1> HIDE DEF s
<1>5. GoodExternal(s)
  BY <1>2, <1>3, <1>4, FS_EmptySet DEF GoodExternal
<1>6. Carried({}) = 0
  <2> DEFINE f == [p \in {} |-> p.amount]
  <2>1. f \in [{} -> Int] /\ \A x \in {} : f[x] = 0
    OBVIOUS
  <2> HIDE DEF f
  <2>2. SumFunction(f) = 0
    BY <2>1, FS_EmptySet, SumZero
  <2> QED BY <2>2 DEF Carried, f
<1>7. \A c \in Channel : ChannelKept(s, c, vouchers[c])
  <2> SUFFICES ASSUME NEW c \in Channel PROVE ChannelKept(s, c, vouchers[c])
    OBVIOUS
  <2>1. Unsettled(s.packets, c) = {} /\ UnsettledYield(s.packets, c) = {}
    BY <1>4 DEF Unsettled, UnsettledYield
  <2>2. s.ledger.balance[Escrow[c]] \in Nat
    BY <1>5, StoreSums
  <2>3. /\ s.retry[c] = 0 /\ s.total[c] = 0 /\ s.delivered[c] = 0 /\ vouchers[c] = 0
    BY <1>4, HoldingAccounts
  <2> QED BY <1>6, <2>1, <2>2, <2>3 DEF ChannelKept
<1>8. \A r \in Route : RouteKept(s, r)
  BY <1>4, HoldingAccounts DEF RouteKept
<1>9. WarpKept(s, 0)
  <2>1. SumFunction(s.collateral) = 0
    BY <1>4, DestinationFinite, SumZero
  <2> DEFINE F == [x \in Route |-> 0]
  <2>2. F \in [Route -> Int] /\ \A x \in Route : F[x] = 0
    OBVIOUS
  <2>3. \A x \in Route : s.retry[x] = F[x]
    BY <1>4, HoldingAccounts
  <2> HIDE DEF F
  <2>4. SumFunctionOnSet(s.retry, Route) = SumFunction(F)
    BY <2>2, <2>3, DestinationFinite, SumOnPart
  <2>5. SumFunction(F) = 0
    BY <2>2, DestinationFinite, SumZero
  <2>6. s.ledger.balance[Warp] \in Nat
    BY <1>5, StoreSums
  <2> QED BY <2>1, <2>4, <2>5, <2>6 DEF WarpKept
<1>10. Kept(s, vouchers, 0)
  BY <1>5, <1>7, <1>8, <1>9 DEF Kept
<1>11. /\ paused \in BOOLEAN /\ burns \in Nat /\ donated \in Nat
       /\ yieldRecipients \subseteq Destination
       /\ vouchers \in [Channel -> Nat]
       /\ routers \in [Route -> 0 .. 2]
  <2>1. yieldRecipients \subseteq Destination
    BY <1>1
  <2>2. vouchers \in [Channel -> Nat]
    BY <1>1
  <2>3. routers \in [Route -> 0 .. 2]
    BY <1>1
  <2> QED BY <2>1, <2>2, <2>3
<1>12. Kept(ExternalStore, vouchers, 0)
  BY <1>10 DEF s
<1> QED BY <1>11, <1>12 DEF ExternalInv

\* The genesis state satisfies the invariant.
LEMMA ExternalInitInv == ExternalInit => ExternalInv
<1> SUFFICES ASSUME ExternalInit PROVE ExternalInv
  OBVIOUS
<1>1. ledger = EmptyLedger /\ paused = FALSE /\ burns = 0 /\ donated = 0 /\ ExternalGenesis
  BY DEF ExternalInit, Init
<1>2. Sound(ledger) /\ paused \in BOOLEAN /\ burns \in Nat /\ donated \in Nat
  BY <1>1, EmptySound
<1> QED BY <1>1, <1>2, ExternalGenesisInv

-----------------------------------------------------------------------------
(* Every step preserves the invariant. *)

LEMMA ExternalNextInv == ExternalInv /\ [ExternalNext]_externalVars => ExternalInv'
<1> SUFFICES ASSUME ExternalInv, [ExternalNext]_externalVars PROVE ExternalInv'
  OBVIOUS
<1>1. /\ paused \in BOOLEAN /\ burns \in Nat /\ donated \in Nat
      /\ yieldRecipients \subseteq Destination
      /\ vouchers \in [Channel -> Nat] /\ routers \in [Route -> 0 .. 2]
      /\ Kept(ExternalStore, vouchers, 0)
  BY DEF ExternalInv
<1>2. /\ \A n \in Amounts : n \in Nat \ {0}
      /\ \A i \in Indices : i \in Int
  BY TokenAssumption
<1>3. ASSUME UNCHANGED <<paused, burns, donated, yieldRecipients, routers>>,
             vouchers' \in [Channel -> Nat], Kept(ExternalStore', vouchers', 0)
      PROVE  ExternalInv'
  BY <1>1, <1>3 DEF ExternalInv
<1>4. ASSUME NEW t \in ExternalStoreType, CommitExternal(t), Kept(t, vouchers, 0),
             UNCHANGED <<paused, burns, donated, yieldRecipients, vouchers, routers>>
      PROVE  ExternalInv'
  <2>1. ExternalStore' = t /\ vouchers' = vouchers
    BY <1>4, ExternalCommitted
  <2>2. Kept(ExternalStore', vouchers', 0) /\ vouchers' \in [Channel -> Nat]
    BY <1>1, <1>4, <2>1
  <2> QED BY <1>3, <1>4, <2>2
<1>5. ASSUME NEW user \in User, NEW c \in Channel, NEW n \in Amounts,
             IBCTransfer(user, c, n)
      PROVE  ExternalInv'
  <2> DEFINE t == SendTransfer(ExternalStore, c, user, n)
  <2>1. /\ CanSend(ExternalStore.ledger, user, Escrow[c], n) /\ CommitExternal(t)
        /\ UNCHANGED <<paused, burns, donated, yieldRecipients, vouchers, routers>>
    BY <1>5, StoreFields DEF IBCTransfer
  <2>2. Kept(t, vouchers, 0)
    BY <1>1, <1>2, <2>1, SentKept
  <2>3. t \in ExternalStoreType
    BY <2>2 DEF Kept, GoodExternal
  <2> HIDE DEF t
  <2> QED BY <1>4, <2>1, <2>2, <2>3
<1>6. ASSUME NEW user \in User, NEW c \in Channel, NEW n \in Amounts,
             OnRecvPacket(c, user, n)
      PROVE  ExternalInv'
  <2>1. vouchers' \in [Channel -> Nat] /\ Kept(ExternalStore', vouchers', 0)
    BY <1>6, OnRecvPacketKept
  <2>2. UNCHANGED <<paused, burns, donated, yieldRecipients, routers>>
    BY <1>6 DEF OnRecvPacket
  <2> QED BY <1>3, <2>1, <2>2
<1>7. ASSUME NEW p \in packets, NEW accept \in BOOLEAN, ReceivePacket(p, accept)
      PROVE  ExternalInv'
  <2>1. vouchers' \in [Channel -> Nat] /\ Kept(ExternalStore', vouchers', 0)
    BY <1>7, ReceivePacketKept
  <2>2. UNCHANGED <<paused, burns, donated, yieldRecipients, routers>>
    BY <1>7 DEF ReceivePacket, vars
  <2> QED BY <1>3, <2>1, <2>2
<1>8. ASSUME NEW p \in packets, p.state # "accepted", Refund(p)
      PROVE  ExternalInv'
  <2> DEFINE t == [AddAmountToRetry(ExternalStore, p) EXCEPT
                      !.ledger  = SendCoins(@, Escrow[p.channel], p.sender, p.amount),
                      !.packets = @ \ {p}]
  <2>1. /\ CanSend(ExternalStore.ledger, Escrow[p.channel], p.sender, p.amount) /\ CommitExternal(t)
        /\ UNCHANGED <<paused, burns, donated, yieldRecipients, vouchers, routers>>
    BY <1>8, StoreFields DEF Refund
  <2>2. p \in ExternalStore.packets
    BY StoreFields
  <2>3. t \in ExternalStoreType /\ Kept(t, vouchers, 0)
    BY <1>1, <1>8, <2>1, <2>2, RefundKept
  <2> HIDE DEF t
  <2> QED BY <1>4, <2>1, <2>3
<1>9. ASSUME NEW p \in packets, OnAcknowledgementPacket(p)
      PROVE  ExternalInv'
  <2>1. CASE p.state = "accepted" /\ packets' = packets \ {p}
             /\ UNCHANGED <<vars, yieldRecipients, retryAmounts, totalExternal, vouchers,
                            collateral, routers, delivered>>
    <3>1. ExternalStore' = [ExternalStore EXCEPT !.packets = @ \ {p}] /\ vouchers' = vouchers
      BY <2>1 DEF ExternalStore, vars
    <3>2. Kept(ExternalStore', vouchers', 0)
      BY <2>1, <3>1, AcceptedGone
    <3>3. UNCHANGED <<paused, burns, donated, yieldRecipients, routers>>
      BY <2>1 DEF vars
    <3> QED BY <1>1, <1>3, <3>1, <3>2, <3>3
  <2>2. CASE p.state = "refused" /\ Refund(p)
    BY <1>8, <2>2
  <2> QED BY <1>9, <2>1, <2>2 DEF OnAcknowledgementPacket
<1>10. ASSUME NEW p \in packets, OnTimeoutPacket(p)
       PROVE  ExternalInv'
  BY <1>8, <1>10 DEF OnTimeoutPacket
<1>11. ASSUME NEW user \in User, NEW r \in Route, NEW n \in Amounts,
              RemoteTransfer(user, r, n)
       PROVE  ExternalInv'
  <2> DEFINE t == RemoteTransferCollateral(ExternalStore, r, user, n)
  <2>1. /\ CanSend(ExternalStore.ledger, user, Warp, n) /\ CommitExternal(t)
        /\ UNCHANGED <<paused, burns, donated, yieldRecipients, vouchers, routers>>
    BY <1>11, StoreFields DEF RemoteTransfer
  <2>2. t \in ExternalStoreType /\ Kept(t, vouchers, 0)
    BY <1>1, <1>2, <2>1, RemoteTransferKept
  <2> HIDE DEF t
  <2> QED BY <1>4, <2>1, <2>2
<1>12. ASSUME NEW user \in User, NEW r \in Route, NEW n \in Amounts,
              RemoteReceive(r, user, n)
       PROVE  ExternalInv'
  <2>1. Kept(ExternalStore', vouchers', 0)
    BY <1>12, RemoteReceiveKept
  <2>2. UNCHANGED <<paused, burns, donated, yieldRecipients, vouchers, routers>>
    BY <1>12 DEF RemoteReceive
  <2> QED BY <1>1, <1>3, <2>1, <2>2
<1>13. ASSUME NEW r \in Route, NEW n \in 0 .. 2, SetRouters(r, n)
       PROVE  ExternalInv'
  <2>1. /\ ExternalStore' = ExternalStore
        /\ UNCHANGED <<paused, burns, donated, yieldRecipients, vouchers>>
        /\ routers' = [routers EXCEPT ![r] = n]
    BY <1>13 DEF SetRouters, vars, externalBooks, ExternalStore
  <2>2. routers' \in [Route -> 0 .. 2]
    BY <1>1, <2>1
  <2> QED BY <1>1, <2>1, <2>2 DEF ExternalInv
<1>14. ASSUME NEW d \in Destination, SetYieldRecipient(d)
       PROVE  ExternalInv'
  <2>1. /\ ExternalStore' = ExternalStore
        /\ UNCHANGED <<paused, burns, donated, vouchers, routers>>
        /\ yieldRecipients' = yieldRecipients \cup {d}
    BY <1>14 DEF SetYieldRecipient, vars, externalBooks, ExternalStore
  <2> QED BY <1>1, <2>1 DEF ExternalInv
<1>15. ASSUME NEW i \in Indices, NEW down, ExternalUpdateIndex(i, down)
       PROVE  ExternalInv'
  <2> DEFINE result == ExternalUpdateIndexStore(ExternalStore, i, down)
  <2>1. /\ SupplyShortfall(ExternalStore.ledger, i) >= 0 /\ CommitExternal(result.store)
        /\ UNCHANGED <<paused, burns, donated, yieldRecipients, vouchers, routers>>
    BY <1>15, StoreFields DEF ExternalUpdateIndex
  <2>2. Kept(result.store, vouchers, 0)
    BY <1>1, <1>2, <2>1, UpdateKept
  <2>3. result.store \in ExternalStoreType
    BY <2>2 DEF Kept, GoodExternal
  <2> HIDE DEF result
  <2> QED BY <1>4, <2>1, <2>2, <2>3
<1>16. ASSUME NEW user \in User, NEW n \in Amounts, NEW i \in Indices, NEW down,
              ExternalMint(user, n, i, down)
       PROVE  ExternalInv'
  <2> DEFINE updated == ExternalUpdateIndexStore(ExternalStore, i, down).store
             t == [updated EXCEPT !.ledger = MintTo(@, user, n)]
  <2>1. /\ i > ExternalStore.ledger.index => SupplyShortfall(ExternalStore.ledger, i) >= 0
        /\ CommitExternal(t)
        /\ UNCHANGED <<paused, burns, donated, yieldRecipients, vouchers, routers>>
    BY <1>16, StoreFields DEF ExternalMint
  <2>2. Kept(updated, vouchers, 0)
    BY <1>1, <1>2, <2>1, UpdateKept
  <2> HIDE DEF updated
  <2>3. t \in ExternalStoreType /\ Kept(t, vouchers, 0)
    BY <1>1, <1>2, <2>2, MintKept
  <2> HIDE DEF t
  <2> QED BY <1>4, <2>1, <2>3
<1>17. CASE ExternalTraffic
  <2>1. ASSUME NEW p \in packets, Relay(p.id)
        PROVE  ExternalInv'
    BY <1>7, <1>9, <1>10, <2>1 DEF Relay
  <2> QED BY <1>5, <1>6, <1>11, <1>12, <1>13, <1>14, <1>17, <2>1 DEF ExternalTraffic
<1>18. CASE UNCHANGED externalVars
  <2>1. ExternalStore' = ExternalStore /\ UNCHANGED <<paused, burns, donated, yieldRecipients, vouchers, routers>>
    BY <1>18 DEF externalVars, vars, externalBooks, ExternalStore
  <2> QED BY <1>1, <2>1 DEF ExternalInv
<1> QED BY <1>15, <1>16, <1>17, <1>18 DEF ExternalNext

-----------------------------------------------------------------------------
(* With the other components. *)

\* The accounts that hold coins for other chains.
Holding == {Escrow[c] : c \in Channel} \cup {Warp}

\* They are accounts, and none of them is a user's.
LEMMA UsersHoldNothing ==
  /\ Holding \in SUBSET Account
  /\ User \in SUBSET Account /\ User \in SUBSET (Account \ Holding)
BY HoldingAccounts DEF Holding

\* What happens on the way to other chains moves coins between the users and these
\* accounts: it is at most one payment by one of them.
LEMMA TrafficPays ==
  ASSUME ExternalInv, ExternalTraffic
  PROVE  \/ ledger' = ledger
         \/ \E s \in User \cup Holding, r \in Account, n \in Nat :
                /\ n > 0 /\ ledger.balance[s] >= n
                /\ ledger' = SendCoins(ledger, s, r, n)
<1> DEFINE Paid == \E s \in User \cup Holding, r \in Account, n \in Nat :
                       /\ n > 0 /\ ledger.balance[s] >= n
                       /\ ledger' = SendCoins(ledger, s, r, n)
<1>1. \A n \in Amounts : n \in Nat /\ n > 0
  BY TokenAssumption
<1>2. \A u \in User : u \in Account /\ u \in User \cup Holding
  BY UsersHoldNothing
<1>3. /\ Warp \in Account /\ Warp \in User \cup Holding
      /\ \A c \in Channel : Escrow[c] \in Account /\ Escrow[c] \in User \cup Holding
  BY HoldingAccounts DEF Holding
<1>4. ASSUME NEW s \in User \cup Holding, NEW r \in Account, NEW n \in Nat, n > 0,
             CanSend(ledger, s, r, n), ledger' = SendCoins(ledger, s, r, n)
      PROVE  Paid
  BY <1>4 DEF CanSend
<1>5. packets \in SUBSET PacketType
  BY StoreFields DEF ExternalInv, Kept, GoodExternal, ExternalStoreType
<1>6. \A p \in packets : /\ p.channel \in Channel /\ p.sender \in Account
                         /\ p.amount \in Nat /\ p.amount > 0
  BY <1>5 DEF PacketType
<1> HIDE DEF Paid
<1>7. ASSUME NEW u \in User, NEW c \in Channel, NEW n \in Amounts, IBCTransfer(u, c, n)
      PROVE  Paid
  <2>1. CanSend(ledger, u, Escrow[c], n) /\ ledger' = SendCoins(ledger, u, Escrow[c], n)
    BY <1>7 DEF IBCTransfer, CommitExternal, SendTransfer, ExternalStore
  <2> QED BY <1>1, <1>2, <1>3, <1>4, <2>1
<1>8. ASSUME NEW u \in User, NEW c \in Channel, NEW n \in Amounts, OnRecvPacket(c, u, n)
      PROVE  Paid
  <2>1. CanSend(ledger, Escrow[c], u, n) /\ ledger' = SendCoins(ledger, Escrow[c], u, n)
    BY <1>8 DEF OnRecvPacket
  <2> QED BY <1>1, <1>2, <1>3, <1>4, <2>1
<1>9. ASSUME NEW u \in User, NEW r \in Route, NEW n \in Amounts, RemoteTransfer(u, r, n)
      PROVE  Paid
  <2>1. CanSend(ledger, u, Warp, n) /\ ledger' = SendCoins(ledger, u, Warp, n)
    BY <1>9 DEF RemoteTransfer, CommitExternal, RemoteTransferCollateral, ExternalStore
  <2> QED BY <1>1, <1>2, <1>3, <1>4, <2>1
<1>10. ASSUME NEW u \in User, NEW r \in Route, NEW n \in Amounts, RemoteReceive(r, u, n)
       PROVE  Paid
  <2>1. CanSend(ledger, Warp, u, n) /\ ledger' = SendCoins(ledger, Warp, u, n)
    BY <1>10 DEF RemoteReceive
  <2> QED BY <1>1, <1>2, <1>3, <1>4, <2>1
<1>11. ASSUME NEW p \in packets, Refund(p)
       PROVE  Paid
  <2> DEFINE e == Escrow[p.channel]
  <2>1. CanSend(ledger, e, p.sender, p.amount)
    BY <1>11 DEF Refund
  <2>2. ledger' = SendCoins(ledger, e, p.sender, p.amount)
    <3>1. AddAmountToRetry(ExternalStore, p).ledger = ledger
      BY DEF AddAmountToRetry, IncrementRetryAmount, ExternalStore
    <3>2. DOMAIN AddAmountToRetry(ExternalStore, p) = DOMAIN ExternalStore
      BY DEF AddAmountToRetry, IncrementRetryAmount
    <3>3. "ledger" \in DOMAIN ExternalStore
      BY DEF ExternalStore
    <3> DEFINE a == AddAmountToRetry(ExternalStore, p)
    <3>4. ledger' = [a EXCEPT !.ledger = SendCoins(@, e, p.sender, p.amount),
                              !.packets = @ \ {p}].ledger
      BY <1>11 DEF Refund, CommitExternal
    <3> HIDE DEF a
    <3> QED BY <3>1, <3>2, <3>3, <3>4 DEF a
  <2>3. e \in User \cup Holding /\ p.sender \in Account /\ p.amount \in Nat /\ p.amount > 0
    BY <1>3, <1>6
  <2> QED BY <1>4, <2>1, <2>2, <2>3
<1>12. ASSUME NEW p \in packets, Relay(p.id)
       PROVE  ledger' = ledger \/ Paid
  <2>1. PICK q \in packets : \/ \E accept \in BOOLEAN : ReceivePacket(q, accept)
                             \/ OnAcknowledgementPacket(q)
                             \/ OnTimeoutPacket(q)
    BY <1>12 DEF Relay
  <2>2. CASE \E accept \in BOOLEAN : ReceivePacket(q, accept)
    BY <2>2 DEF ReceivePacket, vars
  <2>3. CASE OnAcknowledgementPacket(q)
    BY <1>11, <2>3 DEF OnAcknowledgementPacket, vars
  <2>4. CASE OnTimeoutPacket(q)
    BY <1>11, <2>4 DEF OnTimeoutPacket
  <2> QED BY <2>1, <2>2, <2>3, <2>4
<1>13. ASSUME NEW r \in Route, NEW n \in 0 .. 2, SetRouters(r, n)
       PROVE  ledger' = ledger
  BY <1>13 DEF SetRouters, vars
<1>14. ASSUME NEW d \in Destination, SetYieldRecipient(d)
       PROVE  ledger' = ledger
  BY <1>14 DEF SetYieldRecipient, vars
<1>15. ledger' = ledger \/ Paid
  BY <1>7, <1>8, <1>9, <1>10, <1>12, <1>13, <1>14 DEF ExternalTraffic
<1> QED BY <1>15 DEF Paid

\* So it spares everyone else, and a user who is not spared has paid.
LEMMA TrafficMoves ==
  ASSUME ExternalInv, ExternalTraffic
  PROVE  ExternalInv' /\ Moves(ledger', ledger, User, Holding)
<1>1. ExternalInv'
  BY ExternalNextInv DEF ExternalNext
<1>2. Sound(ledger)
  BY StoreFields DEF ExternalInv, Kept, GoodExternal
<1>3. /\ Holding \in SUBSET Account
      /\ User \in SUBSET Account /\ User \in SUBSET (Account \ Holding)
  BY UsersHoldNothing
<1>4. CASE ledger' = ledger
  <2>1. Account \ Holding \in SUBSET Account
    OBVIOUS
  <2>2. Spares(ledger', ledger, Account \ Holding)
    BY <1>2, <1>4, <2>1, SparesReflexive
  <2> QED BY <1>1, <1>3, <2>2, SparesMoves
<1>5. CASE \E s \in User \cup Holding, r \in Account, n \in Nat :
               /\ n > 0 /\ ledger.balance[s] >= n
               /\ ledger' = SendCoins(ledger, s, r, n)
  <2>1. PICK s \in User \cup Holding, r \in Account, n \in Nat :
            /\ n > 0 /\ ledger.balance[s] >= n
            /\ ledger' = SendCoins(ledger, s, r, n)
    BY <1>5
  <2>2. CASE s \in User
    BY <1>1, <1>2, <1>3, <2>1, <2>2, PaymentMoves
  <2>3. CASE s \in Holding
    <3> DEFINE m == SendCoins(ledger, s, r, n)
    <3>1. /\ Spares(m, ledger, Account \ {s})
          /\ s # r => m.balance[s] < ledger.balance[s]
          /\ s = r => Spares(m, ledger, Account)
      BY <1>2, <1>3, <2>1, <2>3, PaymentSpares
    <3> HIDE DEF m
    <3>2. Spares(m, ledger, Account \ Holding)
      BY <2>3, <3>1, SparesFewer
    <3>3. Spares(ledger', ledger, Account \ Holding)
      BY <2>1, <3>2 DEF m
    <3> QED BY <1>1, <1>3, <3>3, SparesMoves
  <2> QED BY <2>2, <2>3
<1> QED BY <1>4, <1>5, TrafficPays

\* A step of another component that takes nothing from these accounts keeps the
\* invariant.
LEMMA ExternalSpared ==
  ASSUME ExternalInv, Sound(ledger'),
         \A a \in Holding : ledger'.balance[a] >= ledger.balance[a],
         paused' \in BOOLEAN /\ burns' \in Nat /\ donated' \in Nat,
         UNCHANGED <<externalBooks, yieldRecipients, vouchers, routers>>
  PROVE  ExternalInv'
<1>1. vouchers \in [Channel -> Nat] /\ Kept(ExternalStore, vouchers, 0)
  BY DEF ExternalInv
<1>2. ExternalStore.ledger.balance[Warp] \in Nat
  BY <1>1, StoreSums DEF Kept
<1>3. /\ \A c \in Channel :
             ledger'.balance[Escrow[c]] >= ExternalStore.ledger.balance[Escrow[c]]
      /\ ledger'.balance[Warp] >= ExternalStore.ledger.balance[Warp] + 0
      /\ 0 \in Int
  BY <1>2, StoreFields DEF Holding
<1>4. Kept([ExternalStore EXCEPT !.ledger = ledger'], vouchers, 0 + 0)
  BY <1>1, <1>3, LedgerStep
<1>5. ExternalStore' = [ExternalStore EXCEPT !.ledger = ledger']
  BY DEF ExternalStore, externalBooks
<1>6. Kept(ExternalStore', vouchers, 0)
  BY <1>4, <1>5
<1> QED BY <1>6 DEF ExternalInv

-----------------------------------------------------------------------------
(* Theorems. *)

\* The inductive invariant.
THEOREM ExternalInvariance == ExternalSpec => []ExternalInv
<1> QED BY ExternalInitInv, ExternalNextInv, PTL DEF ExternalSpec

\* What the invariant says of the properties.
LEMMA ExternalImplications ==
  /\ ExternalInv => ExternalTypeOK /\ EscrowBacked /\ WarpBacked
  /\ ExternalInv => ChannelYieldAccounted /\ RouteYieldNotDuplicated
<1> SUFFICES ASSUME ExternalInv
             PROVE  /\ ExternalTypeOK /\ EscrowBacked /\ WarpBacked
                    /\ ChannelYieldAccounted /\ RouteYieldNotDuplicated
  OBVIOUS
<1>1. ExternalTypeOK
  BY StoreFields DEF ExternalInv, Kept, GoodExternal, ExternalStoreType, ExternalTypeOK, TypeOK
<1>2. EscrowBacked
  BY StoreFields DEF ExternalInv, Kept, ChannelKept, Unsettled, EscrowBacked
<1>3. WarpBacked
  <2>1. WarpKept(ExternalStore, 0) /\ GoodExternal(ExternalStore)
    BY DEF ExternalInv, Kept
  <2>2. /\ ExternalStore.ledger.balance[Warp] \in Nat
        /\ SumFunction(ExternalStore.collateral) \in Nat
        /\ SumFunctionOnSet(ExternalStore.retry, Route) \in Nat
    BY <2>1, StoreSums
  <2> QED BY <2>1, <2>2, StoreFields DEF WarpKept, WarpBacked
<1>4. ChannelYieldAccounted
  BY StoreFields
     DEF ExternalInv, Kept, ChannelKept, UnsettledYield, ChannelYieldAccounted
<1>5. RouteYieldNotDuplicated
  BY StoreFields DEF ExternalInv, Kept, RouteKept, RouteYieldNotDuplicated
<1> QED BY <1>1, <1>2, <1>3, <1>4, <1>5

\* Every variable has its type and packets keep distinct ids: whatever of an
\* index update was done before it stopped, what it leaves behind is well formed.
THEOREM ExternalTypeCorrect == ExternalSpec => []ExternalTypeOK
<1> QED BY ExternalImplications, ExternalInvariance, PTL

\* An escrow account always covers the vouchers, the refunds and the retries of
\* its channel, whatever packets fail or time out, in any order with transfers,
\* claims and index updates.
THEOREM EscrowBackedAlways == ExternalSpec => []EscrowBacked
<1> QED BY ExternalImplications, ExternalInvariance, PTL

\* The warp account always covers the collateral of every route and every amount
\* to be retried: shares and portions are both truncated, so what is handed out
\* over all routes is never more than what was claimed.
THEOREM WarpBackedAlways == ExternalSpec => []WarpBacked
<1> QED BY ExternalImplications, ExternalInvariance, PTL

\* Yield claimed for a channel is delivered, on its way or to be retried, each
\* coin of it exactly once.
THEOREM ChannelYieldAccountedAlways == ExternalSpec => []ChannelYieldAccounted
<1> QED BY ExternalImplications, ExternalInvariance, PTL

\* Yield claimed for a route is never both delivered and retried, even when the
\* distribution stops at a missing router after the retry amount was removed.
THEOREM RouteYieldNotDuplicatedAlways == ExternalSpec => []RouteYieldNotDuplicated
<1> QED BY ExternalImplications, ExternalInvariance, PTL

=============================================================================
