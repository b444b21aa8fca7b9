---------------------------- MODULE VaultsProofs ----------------------------
(***************************************************************************)
(* Theorems about Vaults, for every set of users, amounts, indices and     *)
(* times.  A handler is a function on stores: the lemmas say what each     *)
(* leaves of a store, the theorems what every behaviour keeps.             *)
(***************************************************************************)
EXTENDS Vaults, TokenProofs

-----------------------------------------------------------------------------
(* Positions and what they hold. *)

\* The keys a position can have.
Keys == {k \in User \X Vault \X Time : k[2] = "flexible" => k[3] <= SeasonEnd}

\* The principal that unlocking a whole position removes.
Worth(p) == GetPrincipalAmountRoundedDown(p.amount, p.index)

\* What the given positions hold, and the principal that goes with it.
Held(ps, K) == SumFunctionOnSet([k \in DOMAIN ps |-> ps[k].amount], K)
WorthOf(ps, K) == SumFunctionOnSet([k \in DOMAIN ps |-> Worth(ps[k])], K)

\* Finitely many positions.
Book(ps) ==
    /\ IsFiniteSet(DOMAIN ps)
    /\ DOMAIN ps \subseteq Keys
    /\ ps \in [DOMAIN ps -> Position]

\* The principal of a position is a natural number, and so are the sums.
LEMMA BookSums ==
  ASSUME NEW ps, Book(ps), NEW K \in SUBSET DOMAIN ps
  PROVE  /\ IsFiniteSet(K)
         /\ \A k \in K : ps[k].amount \in Nat /\ Worth(ps[k]) \in Nat
         /\ Held(ps, K) \in Nat /\ WorthOf(ps, K) \in Nat
<1>1. IsFiniteSet(K)
  BY FS_Subset DEF Book
<1>2. ASSUME NEW k \in DOMAIN ps
      PROVE  ps[k].amount \in Nat /\ Worth(ps[k]) \in Nat
  <2>1. ps[k].amount \in Nat /\ ps[k].index \in Nat \ {0}
    BY DEF Book, Position
  <2> QED BY <2>1, RoundedDownBounds DEF Worth
<1> DEFINE f == [k \in DOMAIN ps |-> ps[k].amount]
           h == [k \in DOMAIN ps |-> Worth(ps[k])]
<1>3. \A k \in K : f[k] \in Nat /\ h[k] \in Nat
  BY <1>2
<1> HIDE DEF f, h
<1>4. SumFunctionOnSet(f, K) \in Nat /\ SumFunctionOnSet(h, K) \in Nat
  BY <1>1, <1>3, PartType
<1> QED BY <1>1, <1>2, <1>4 DEF Held, WorthOf, f, h

\* Principal rounded down is superadditive: in two parts it is never worth more.
LEMMA RoundedDownParts ==
  ASSUME NEW a \in Nat, NEW b \in Nat, b <= a, NEW i \in Nat \ {0}
  PROVE  GetPrincipalAmountRoundedDown(a - b, i)
           <= GetPrincipalAmountRoundedDown(a, i) - GetPrincipalAmountRoundedDown(b, i)
<1> DEFINE x == GetPrincipalAmountRoundedDown(a, i)
           y == GetPrincipalAmountRoundedDown(b, i)
           z == GetPrincipalAmountRoundedDown(a - b, i)
           s == a * Scale
           r == b * Scale
<1>1. a - b \in Nat /\ s \in Nat /\ r \in Nat /\ (a - b) * Scale = s - r
  BY ScaleAssumption
<1>2. x \in Nat /\ i * x <= s /\ s < i * x + i
  BY RoundedDownBounds
<1>3. y \in Nat /\ i * y <= r /\ r < i * y + i
  BY RoundedDownBounds
<1>4. z \in Nat /\ i * z <= s - r
  BY <1>1, RoundedDownBounds
<1> HIDE DEF x, y, z, s, r
<1>5. i * (y + z) = i * y + i * z /\ i * (x + 1) = i * x + i
  BY <1>2, <1>3, <1>4
<1>6. i * (y + z) < i * (x + 1)
  <2>1. i * x \in Int /\ i * y \in Int /\ i * z \in Int
    BY <1>2, <1>3, <1>4
  <2> QED BY <1>1, <1>2, <1>3, <1>4, <1>5, <2>1
<1>7. y + z < x + 1
  BY <1>2, <1>3, <1>4, <1>6
<1>8. z <= x - y
  BY <1>2, <1>3, <1>4, <1>7
<1> QED BY <1>8 DEF x, y, z

\* The book after an amount was taken from a position: the others are as they
\* were, and every sum is lower by what was taken, or more for the principal.
Taken(qs, ps, key, amount, principal) ==
    /\ DOMAIN qs \subseteq DOMAIN ps /\ DOMAIN ps \ {key} \subseteq DOMAIN qs
    /\ \A k \in DOMAIN qs : qs[k].index = ps[k].index
    /\ \A k \in DOMAIN qs \ {key} : qs[k] = ps[k]
    /\ key \in DOMAIN qs => qs[key].amount = ps[key].amount - amount
    /\ \A K \in SUBSET DOMAIN ps :
          /\ key \in K =>
               /\ Held(qs, K \cap DOMAIN qs) = Held(ps, K) - amount
               /\ WorthOf(qs, K \cap DOMAIN qs) <= WorthOf(ps, K) - principal
          /\ key \notin K =>
               /\ Held(qs, K \cap DOMAIN qs) = Held(ps, K)
               /\ WorthOf(qs, K \cap DOMAIN qs) = WorthOf(ps, K)

\* What unlocking some or all of a position leaves.
LEMMA Removal ==
  ASSUME NEW ps, Book(ps), NEW key \in DOMAIN ps,
         NEW amount \in Nat, amount > 0, amount <= ps[key].amount
  PROVE  LET principal == PrincipalToRemove(ps[key], amount)
             qs == RemoveFromPosition(ps, key, amount, principal)
         IN  Book(qs) /\ principal \in Nat /\ Taken(qs, ps, key, amount, principal)
<1> DEFINE principal == PrincipalToRemove(ps[key], amount)
           qs == RemoveFromPosition(ps, key, amount, principal)
           f == [k \in DOMAIN ps |-> ps[k].amount]
           h == [k \in DOMAIN ps |-> Worth(ps[k])]
           ff == [k \in DOMAIN qs |-> qs[k].amount]
           hh == [k \in DOMAIN qs |-> Worth(qs[k])]
<1>1. /\ ps[key].index \in Nat \ {0} /\ ps[key].amount \in Nat /\ ps[key].principal \in Int
      /\ ps[key] = [index |-> ps[key].index, principal |-> ps[key].principal,
                    amount |-> ps[key].amount]
      /\ IsFiniteSet(DOMAIN ps) /\ DOMAIN ps \subseteq Keys /\ ps \in [DOMAIN ps -> Position]
  BY DEF Book, Position
<1>2. principal \in Nat
  BY <1>1, RoundedDownBounds DEF PrincipalToRemove
<1>3. \A k \in DOMAIN ps : f[k] \in Nat /\ h[k] \in Nat
  BY BookSums
<1>4. h[key] = GetPrincipalAmountRoundedDown(ps[key].amount, ps[key].index)
  BY DEF Worth
<1> HIDE DEF f, h
<1>5. CASE amount >= ps[key].amount
  <2>1. qs = [k \in DOMAIN ps \ {key} |-> ps[k]]
    BY <1>5 DEF RemoveFromPosition
  <2> HIDE DEF qs
  <2>2. DOMAIN qs = DOMAIN ps \ {key} /\ \A k \in DOMAIN qs : qs[k] = ps[k]
    BY <2>1
  <2>3. Book(qs)
    BY <1>1, <2>1, <2>2, FS_RemoveElement DEF Book
  <2>4. amount = f[key] /\ principal = h[key]
    BY <1>1, <1>4, <1>5 DEF f, PrincipalToRemove
  <2>5. ASSUME NEW K \in SUBSET DOMAIN ps
        PROVE  /\ key \in K =>
                    /\ Held(qs, K \cap DOMAIN qs) = Held(ps, K) - amount
                    /\ WorthOf(qs, K \cap DOMAIN qs) = WorthOf(ps, K) - principal
               /\ key \notin K =>
                    /\ Held(qs, K \cap DOMAIN qs) = Held(ps, K)
                    /\ WorthOf(qs, K \cap DOMAIN qs) = WorthOf(ps, K)
    <3>1. IsFiniteSet(K)
      BY BookSums
    <3>2. K \cap DOMAIN qs = K \ {key}
      BY <2>2
    <3>3. /\ \A k \in K : f[k] \in Int /\ h[k] \in Int
          /\ \A k \in K \ {key} : ff[k] = f[k] /\ hh[k] = h[k]
      BY <1>3, <2>2 DEF f, h
    <3> HIDE DEF ff, hh
    <3>4. CASE key \in K
      <4>1. /\ SumFunctionOnSet(ff, K \ {key}) = SumFunctionOnSet(f, K) - f[key]
            /\ SumFunctionOnSet(hh, K \ {key}) = SumFunctionOnSet(h, K) - h[key]
        BY <3>1, <3>3, <3>4, PartRemove
      <4> QED BY <2>4, <3>2, <3>4, <4>1 DEF Held, WorthOf, f, h, ff, hh
    <3>5. CASE key \notin K
      <4>1. K \ {key} = K
        BY <3>5
      <4>2. /\ SumFunctionOnSet(ff, K) = SumFunctionOnSet(f, K)
            /\ SumFunctionOnSet(hh, K) = SumFunctionOnSet(h, K)
        BY <3>1, <3>3, <4>1, PartSame
      <4> QED BY <3>2, <3>5, <4>1, <4>2 DEF Held, WorthOf, f, h, ff, hh
    <3> QED BY <3>4, <3>5
  <2>6. ASSUME NEW K \in SUBSET DOMAIN ps
        PROVE WorthOf(ps, K) \in Nat
    BY BookSums
  <2>7. \A K \in SUBSET DOMAIN ps : key \in K =>
            WorthOf(qs, K \cap DOMAIN qs) <= WorthOf(ps, K) - principal
    BY <1>2, <2>5, <2>6
  <2> QED BY <1>2, <2>2, <2>3, <2>5, <2>7 DEF qs, Taken
<1>6. CASE ~(amount >= ps[key].amount)
  <2> DEFINE rest == ps[key].amount - amount
             left == [index     |-> ps[key].index,
                      principal |-> ps[key].principal - principal,
                      amount    |-> rest]
  <2>1. qs = [ps EXCEPT ![key] = left]
    BY <1>6 DEF RemoveFromPosition
  <2>2. /\ left \in Position /\ left.index = ps[key].index /\ left.amount = rest
        /\ rest \in Nat
    <3>1. rest \in Nat /\ rest # 0
      BY <1>1, <1>6
    <3> HIDE DEF rest, principal
    <3>2. ps[key].principal - principal \in Int
      BY <1>1, <1>2
    <3> QED BY <1>1, <3>1, <3>2 DEF Position
  <2>3. Worth(left) <= h[key] - principal /\ Worth(left) \in Int
    <3>1. Worth(left) = GetPrincipalAmountRoundedDown(rest, ps[key].index)
      BY <2>2 DEF Worth
    <3> QED BY <1>1, <1>4, <2>2, <3>1, RoundedDownParts, RoundedDownBounds DEF PrincipalToRemove
  <2> HIDE DEF qs, left
  <2>4. /\ DOMAIN qs = DOMAIN ps /\ qs[key] = left
        /\ \A k \in DOMAIN qs \ {key} : qs[k] = ps[k]
    BY <2>1
  <2>5. Book(qs)
    BY <1>1, <2>1, <2>2, <2>4 DEF Book
  <2>6. ASSUME NEW K \in SUBSET DOMAIN ps
        PROVE  /\ key \in K =>
                    /\ Held(qs, K \cap DOMAIN qs) = Held(ps, K) - amount
                    /\ WorthOf(qs, K \cap DOMAIN qs) <= WorthOf(ps, K) - principal
               /\ key \notin K =>
                    /\ Held(qs, K \cap DOMAIN qs) = Held(ps, K)
                    /\ WorthOf(qs, K \cap DOMAIN qs) = WorthOf(ps, K)
    <3>1. IsFiniteSet(K) /\ Held(ps, K) \in Nat /\ WorthOf(ps, K) \in Nat
      BY BookSums
    <3>2. K \cap DOMAIN qs = K
      BY <2>4
    <3>3. /\ \A k \in K : f[k] \in Int /\ h[k] \in Int
          /\ \A k \in K \ {key} : ff[k] = f[k] /\ hh[k] = h[k]
          /\ ff[key] = rest /\ hh[key] = Worth(left)
      BY <1>3, <2>2, <2>4 DEF f, h
    <3> HIDE DEF ff, hh, rest
    <3>4. CASE key \in K
      <4>1. /\ SumFunctionOnSet(ff, K) = SumFunctionOnSet(f, K) - f[key] + ff[key]
            /\ SumFunctionOnSet(hh, K) = SumFunctionOnSet(h, K) - h[key] + hh[key]
        <5>1. ff[key] \in Int /\ hh[key] \in Int
          BY <2>2, <2>3, <3>3
        <5> QED BY <3>1, <3>3, <3>4, <5>1, PartChange
      <4>2. /\ Held(qs, K) = Held(ps, K) - f[key] + ff[key]
            /\ WorthOf(qs, K) = WorthOf(ps, K) - h[key] + hh[key]
        BY <4>1 DEF Held, WorthOf, f, h, ff, hh
      <4>3. f[key] = rest + amount /\ h[key] \in Int
        BY <1>1, <1>3 DEF f, rest
      <4> DEFINE H == Held(ps, K)
                 W == WorthOf(ps, K)
                 G == Held(qs, K)
                 V == WorthOf(qs, K)
                 w == Worth(left)
                 x == h[key]
      <4>4. /\ G = H - f[key] + ff[key] /\ V = W - x + w
            /\ ff[key] = rest /\ f[key] = rest + amount /\ rest \in Nat
            /\ x \in Int /\ w \in Int /\ w <= x - principal /\ H \in Int /\ W \in Int
        BY <2>2, <2>3, <3>1, <3>3, <4>2, <4>3
      <4> HIDE DEF H, W, G, V, w, x
      <4>5. G = H - amount /\ V <= W - principal
        BY <1>2, <4>4
      <4> QED BY <3>2, <3>4, <4>5 DEF H, W, G, V
    <3>5. CASE key \notin K
      <4>1. K \ {key} = K
        BY <3>5
      <4>2. /\ SumFunctionOnSet(ff, K) = SumFunctionOnSet(f, K)
            /\ SumFunctionOnSet(hh, K) = SumFunctionOnSet(h, K)
        BY <3>1, <3>3, <4>1, PartSame
      <4> QED BY <3>2, <3>5, <4>1, <4>2 DEF Held, WorthOf, f, h, ff, hh
    <3> QED BY <3>4, <3>5
  <2>7. key \in DOMAIN qs => qs[key].amount = ps[key].amount - amount
    BY <2>2, <2>4 DEF rest
  <2>8. DOMAIN ps \ {key} \subseteq DOMAIN qs /\ \A k \in DOMAIN qs : qs[k].index = ps[k].index
    BY <2>2, <2>4
  <2> QED BY <1>2, <2>4, <2>5, <2>6, <2>7, <2>8 DEF qs, Taken
<1> QED BY <1>1, <1>5, <1>6

\* Positions with one more.
Joined(qs, ps, key, p) ==
    /\ DOMAIN qs = DOMAIN ps \cup {key} /\ qs[key] = p
    /\ \A k \in DOMAIN ps : qs[k] = ps[k]
    /\ \A K \in SUBSET DOMAIN ps :
          /\ Held(qs, K) = Held(ps, K)
          /\ WorthOf(qs, K) = WorthOf(ps, K)
          /\ Held(qs, K \cup {key}) = Held(ps, K) + p.amount
          /\ WorthOf(qs, K \cup {key}) = WorthOf(ps, K) + Worth(p)

\* A position more adds to every sum it is in.
LEMMA SumsOfJoined ==
  ASSUME NEW ps, Book(ps), NEW key, key \notin DOMAIN ps, NEW qs, Book(qs),
         DOMAIN qs = DOMAIN ps \cup {key}, \A k \in DOMAIN ps : qs[k] = ps[k],
         NEW K \in SUBSET DOMAIN ps
  PROVE  /\ Held(qs, K) = Held(ps, K)
         /\ WorthOf(qs, K) = WorthOf(ps, K)
         /\ Held(qs, K \cup {key}) = Held(ps, K) + qs[key].amount
         /\ WorthOf(qs, K \cup {key}) = WorthOf(ps, K) + Worth(qs[key])
<1> DEFINE f == [k \in DOMAIN ps |-> ps[k].amount]
           h == [k \in DOMAIN ps |-> Worth(ps[k])]
           ff == [k \in DOMAIN qs |-> qs[k].amount]
           hh == [k \in DOMAIN qs |-> Worth(qs[k])]
<1>1. IsFiniteSet(K) /\ key \notin K
  BY BookSums
<1>2. \A k \in K : ps[k].amount \in Nat /\ Worth(ps[k]) \in Nat
  BY BookSums
<1>3. qs[key].amount \in Nat /\ Worth(qs[key]) \in Nat
  <2>1. {key} \in SUBSET DOMAIN qs
    OBVIOUS
  <2> QED BY <2>1, BookSums
<1>4. (\A k \in K : f[k] \in Int) /\ (\A k \in K : ff[k] = f[k]) /\ ff[key] \in Int
  BY <1>2, <1>3
<1>5. (\A k \in K : h[k] \in Int) /\ (\A k \in K : hh[k] = h[k]) /\ hh[key] \in Int
  BY <1>2, <1>3
<1>6. ff[key] = qs[key].amount /\ hh[key] = Worth(qs[key])
  OBVIOUS
<1> HIDE DEF f, h, ff, hh
<1>7. SumFunctionOnSet(ff, K) = SumFunctionOnSet(f, K)
  BY <1>1, <1>4, PartSame
<1>8. SumFunctionOnSet(hh, K) = SumFunctionOnSet(h, K)
  BY <1>1, <1>5, PartSame
<1>9. SumFunctionOnSet(ff, K \cup {key}) = SumFunctionOnSet(f, K) + ff[key]
  BY <1>1, <1>4, PartAdd
<1>10. SumFunctionOnSet(hh, K \cup {key}) = SumFunctionOnSet(h, K) + hh[key]
  BY <1>1, <1>5, PartAdd
<1> QED BY <1>6, <1>7, <1>8, <1>9, <1>10 DEF Held, WorthOf, f, h, ff, hh

\* A new position leaves the others as they were.
LEMMA Addition ==
  ASSUME NEW ps, Book(ps), NEW key \in Keys, key \notin DOMAIN ps, NEW p \in Position,
         NEW qs, qs = [k \in DOMAIN ps \cup {key} |-> IF k = key THEN p ELSE ps[k]]
  PROVE  Book(qs) /\ Joined(qs, ps, key, p)
<1>1. /\ DOMAIN qs = DOMAIN ps \cup {key} /\ qs[key] = p
      /\ \A k \in DOMAIN ps : qs[k] = ps[k]
      /\ qs \in [DOMAIN qs -> Position]
  BY DEF Book
<1>2. IsFiniteSet(DOMAIN ps \cup {key}) /\ DOMAIN ps \cup {key} \subseteq Keys
  BY FS_AddElement DEF Book
<1>3. Book(qs)
  BY <1>1, <1>2 DEF Book
<1>4. \A K \in SUBSET DOMAIN ps :
          /\ Held(qs, K) = Held(ps, K)
          /\ WorthOf(qs, K) = WorthOf(ps, K)
          /\ Held(qs, K \cup {key}) = Held(ps, K) + qs[key].amount
          /\ WorthOf(qs, K \cup {key}) = WorthOf(ps, K) + Worth(qs[key])
  BY <1>1, <1>3, SumsOfJoined
<1> QED BY <1>1, <1>3, <1>4 DEF Joined

-----------------------------------------------------------------------------
(* Decimals. *)

\* Division of natural numbers, with its remainder.
LEMMA DivMod ==
  ASSUME NEW a \in Nat, NEW b \in Nat \ {0}
  PROVE  /\ a \div b \in Nat /\ a % b \in 0 .. b - 1
         /\ a = b * (a \div b) + (a % b)
OBVIOUS

\* A quotient is a natural number at most half a unit above the exact one.
LEMMA DecQuoBounds ==
  ASSUME NEW a \in Nat, NEW b \in Nat \ {0}
  PROVE  LET q == (a * Precision * Precision) \div b
         IN  /\ DecQuo(a, b) \in Nat /\ q \in Nat
             /\ 2 * (DecQuo(a, b) * Precision) <= 2 * q + Precision
<1> DEFINE n == a * Precision * Precision
           q == n \div b
           w == q \div Precision
           r == q % Precision
<1>1. Precision \in Nat \ {0}
  BY VaultsAssumption
<1>2. n \in Nat
  BY <1>1
<1>3. DecQuo(a, b) = IF 2 * r > Precision \/ (2 * r = Precision /\ w % 2 = 1)
                     THEN w + 1 ELSE w
  BY DEF DecQuo
<1> HIDE DEF n
<1>4. q \in Nat
  BY <1>2, DivMod
<1> HIDE DEF q
<1>5. w \in Nat /\ r \in 0 .. Precision - 1 /\ q = Precision * w + r
  BY <1>1, <1>4, DivMod
<1> HIDE DEF w, r
<1>6. CASE DecQuo(a, b) = w
  <2>1. w * Precision = Precision * w /\ Precision * w \in Int
    BY <1>1, <1>5
  <2> QED BY <1>1, <1>4, <1>5, <1>6, <2>1 DEF q, n
<1>7. CASE DecQuo(a, b) = w + 1 /\ 2 * r >= Precision
  <2>1. (w + 1) * Precision = Precision * w + Precision /\ Precision * w \in Int
    BY <1>1, <1>5
  <2> QED BY <1>1, <1>4, <1>5, <1>7, <2>1 DEF q, n
<1>8. 2 * r > Precision => 2 * r >= Precision
  BY <1>1, <1>5
<1> QED BY <1>1, <1>3, <1>5, <1>6, <1>7, <1>8

\* Truncation returns a natural number.
LEMMA TruncateType ==
  ASSUME NEW d \in Nat
  PROVE  TruncateInt(d) \in Nat
BY DivMod, VaultsAssumption DEF TruncateInt

\* The share of a record that some of its principal earns, and the records it
\* may earn it from.
LEMMA ShareType ==
  ASSUME NEW r \in Nat, NEW t \in Nat \ {0}, NEW p \in Nat
  PROVE  /\ DecQuo(r * Precision, t * Precision) \in Nat
         /\ TruncateInt(DecQuo(r * Precision, t * Precision) * p) \in Nat
<1>1. Precision \in Nat \ {0}
  BY VaultsAssumption
<1>2. r * Precision \in Nat /\ t * Precision \in Nat \ {0}
  BY <1>1
<1>3. DecQuo(r * Precision, t * Precision) \in Nat
  BY <1>2, DecQuoBounds
<1> DEFINE d == DecQuo(r * Precision, t * Precision)
<1> HIDE DEF d
<1>4. d * p \in Nat
  BY <1>3 DEF d
<1>5. TruncateInt(d * p) \in Nat
  BY <1>4, TruncateType
<1> QED BY <1>3, <1>5 DEF d

\* Rounding half up never makes a share larger than its record, as long as the
\* record is shared over less than two whole units of LegacyDec.
LEMMA ShareWithin ==
  ASSUME NEW r \in Nat, NEW t \in Nat \ {0}, NEW p \in Nat,
         p <= t, t < 2 * Precision
  PROVE  TruncateInt(DecQuo(r * Precision, t * Precision) * p) <= r
<1> DEFINE P == Precision
           a == r * P
           b == t * P
           d == DecQuo(a, b)
           n == a * P * P
           q == n \div b
<1>1. P \in Nat \ {0}
  BY VaultsAssumption
<1>2. a \in Nat /\ b \in Nat \ {0} /\ n \in Nat
  BY <1>1
<1>3. d \in Nat /\ q \in Nat /\ 2 * (d * P) <= 2 * q + P
  <2> HIDE DEF a, b
  <2> QED BY <1>2, DecQuoBounds
<1>4. b * q <= n
  BY <1>2, DivBounds
<1> HIDE DEF d, q
<1> HIDE DEF P
<1>5. t * q <= r * P * P
  <2>1. b * q = P * (t * q) /\ n = P * (r * P * P)
    BY <1>1, <1>3
  <2>2. t * q \in Int /\ r * P * P \in Int
    BY <1>1, <1>3
  <2>3. P * (t * q) <= P * (r * P * P)
    BY <1>4, <2>1
  <2> HIDE DEF a, b, n
  <2> DEFINE u == t * q
             v == r * P * P
  <2>4. u \in Int /\ v \in Int /\ P * u <= P * v
    BY <2>2, <2>3
  <2> HIDE DEF u, v
  <2>5. u <= v
    BY <1>1, <2>4
  <2> QED BY <2>5 DEF u, v
<1> HIDE DEF a, b, n
<1>6. d * p < (r + 1) * P
  <2>1. SUFFICES ASSUME d * p >= (r + 1) * P PROVE FALSE
    BY <1>1, <1>3
  <2>2. d * t >= d * p
    BY <1>3
  <2> DEFINE e == d * t
             f == r * P
  <2>3. e \in Int /\ f \in Int /\ e >= f + P
    <3>1. (r + 1) * P = f + P /\ f \in Int /\ e \in Int /\ d * p \in Int
      BY <1>1, <1>3
    <3> QED BY <1>1, <2>1, <2>2, <3>1
  <2>4. 2 * (e * P) <= 2 * (f * P) + P * t
    <3>1. t * (2 * (d * P)) <= t * (2 * q + P)
      <4> DEFINE x == 2 * (d * P)
                 y == 2 * q + P
      <4>1. x \in Int /\ y \in Int /\ x <= y
        BY <1>1, <1>3
      <4> HIDE DEF x, y
      <4>2. t * x <= t * y
        BY <4>1
      <4> QED BY <4>2 DEF x, y
    <3>2. t * (2 * (d * P)) = 2 * (e * P)
      BY <1>1, <1>3
    <3>3. t * (2 * q + P) = 2 * (t * q) + P * t
      BY <1>1, <1>3
    <3>4. r * P * P = f * P
      OBVIOUS
    <3> DEFINE A == e * P
               B == f * P
               C == P * t
               D == t * q
    <3>5. A \in Int /\ B \in Int /\ C \in Int /\ D \in Int
      BY <1>1, <1>3, <2>3
    <3>6. 2 * A <= 2 * D + C /\ D <= B
      BY <1>5, <3>1, <3>2, <3>3, <3>4
    <3> HIDE DEF A, B, C, D
    <3>7. 2 * A <= 2 * B + C
      BY <3>5, <3>6
    <3> QED BY <3>7 DEF A, B, C
  <2> HIDE DEF e, f
  <2>5. P * (2 * e) <= P * (2 * f + t)
    <3>1. P * (2 * e) = 2 * (e * P) /\ P * (2 * f + t) = 2 * (f * P) + P * t
      BY <1>1, <2>3
    <3> QED BY <2>4, <3>1
  <2>6. 2 * e <= 2 * f + t
    <3> DEFINE x == 2 * e
               y == 2 * f + t
    <3>1. x \in Int /\ y \in Int /\ P * x <= P * y
      BY <2>3, <2>5
    <3> HIDE DEF x, y
    <3>2. x <= y
      BY <1>1, <3>1
    <3> QED BY <3>2 DEF x, y
  <2>7. t < 2 * P
    BY DEF P
  <2> QED BY <1>1, <2>3, <2>6, <2>7
<1>7. TruncateInt(d * p) <= r
  <2> DEFINE m == d * p
             k == m \div P
  <2>1. m \in Nat /\ m < (r + 1) * P
    BY <1>3, <1>6
  <2> HIDE DEF m
  <2>2. k \in Nat /\ P * k <= m
    BY <1>1, <2>1, DivBounds
  <2> HIDE DEF k
  <2>3. P * k < P * (r + 1)
    <3>1. (r + 1) * P = P * (r + 1) /\ P * k \in Int /\ P * (r + 1) \in Int
      BY <1>1, <2>2
    <3> QED BY <2>1, <2>2, <3>1
  <2>4. k < r + 1
    BY <1>1, <2>2, <2>3
  <2>5. TruncateInt(m) = k
    BY DEF TruncateInt, k, P
  <2> QED BY <2>2, <2>4, <2>5 DEF m
<1> QED BY <1>7 DEF d, a, b, P

-----------------------------------------------------------------------------
(* Payments. *)

\* Sending nothing changes nothing.
LEMMA SendNothing ==
  ASSUME NEW l \in LedgerType, NEW s \in Address, NEW r \in Address
  PROVE  SendCoins(l, s, r, 0) = l
<1>1. [l.balance EXCEPT ![s] = @ - 0] = l.balance /\ [l.balance EXCEPT ![r] = @ + 0] = l.balance
  BY DEF LedgerType
<1>2. SubUnlockedCoins(l, s, 0) = l /\ AddCoins(l, r, 0) = l
  BY <1>1 DEF SubUnlockedCoins, AddCoins, LedgerType
<1> QED BY <1>2 DEF SendCoins, SendRestrictionFn

\* A payment from one account to another, of nothing at all perhaps.
LEMMA Payment ==
  ASSUME NEW l, Sound(l), NEW s \in Account, NEW r \in Account, s # r,
         NEW amount \in Nat, l.balance[s] >= amount
  PROVE  LET m == SendCoins(l, s, r, amount)
         IN  /\ Sound(m)
             /\ m.index = l.index
             /\ m.balance[s] = l.balance[s] - amount
             /\ m.balance[r] = l.balance[r] + amount
             /\ \A a \in Account \ {s, r} : /\ m.balance[a] = l.balance[a]
                                           /\ m.principal[a] = l.principal[a]
             /\ Spares(m, l, Account \ {s})
<1> DEFINE m == SendCoins(l, s, r, amount)
<1>1. /\ l \in LedgerType /\ l.balance \in [Address -> Nat] /\ l.principal \in [Account -> Int]
      /\ Account \subseteq Address
  BY DEF Sound, LedgerType, Address
<1>2. CASE amount = 0
  <2>1. m = l
    BY <1>1, <1>2, SendNothing
  <2> HIDE DEF m
  <2>2. l.balance[s] \in Nat /\ l.balance[r] \in Nat
    BY <1>1
  <2>3. Spares(m, l, Account \ {s})
    BY <2>1, SparesReflexive
  <2> QED BY <1>2, <2>1, <2>2, <2>3 DEF m
<1>3. CASE amount > 0
  <2> DEFINE up == GetPrincipalAmountRoundedUp(amount, l.index)
  <2>1. /\ Sound(m)
        /\ SameExcept(m, l, {"balance", "principal", "totalHolders"})
        /\ m.balance = [[l.balance EXCEPT ![s] = @ - amount]
                           EXCEPT ![r] = @ + amount]
        /\ m.principal = [[l.principal EXCEPT ![s] = @ - up]
                             EXCEPT ![r] = @ + up]
    BY <1>3, SendBetweenAccounts
  <2>2. Spares(m, l, Account \ {s})
    BY <1>3, PaymentSpares
  <2> HIDE DEF m, up
  <2>3. m.index = l.index
    BY <2>1 DEF SameExcept
  <2>4. /\ m.balance[s] = l.balance[s] - amount
        /\ m.balance[r] = l.balance[r] + amount
        /\ \A a \in Account \ {s, r} : m.balance[a] = l.balance[a]
    BY <1>1, <2>1
  <2>5. \A a \in Account \ {s, r} : m.principal[a] = l.principal[a]
    BY <1>1, <2>1
  <2> QED BY <2>1, <2>3, <2>4, <2>5, <2>2 DEF m
<1> QED BY <1>2, <1>3

\* A claim of yield pays the account and touches no other.
LEMMA Claim ==
  ASSUME NEW l, Sound(l), NEW c \in Account, CanClaim(l, c)
  PROVE  LET m == ClaimModuleYield(l, c)
         IN  /\ Sound(m)
             /\ SameExcept(m, l, {"balance"})
             /\ GetYield(l, c) \in Nat
             /\ m.balance[c] = l.balance[c] + GetYield(l, c)
             /\ \A a \in Account \ {c} : m.balance[a] = l.balance[a]
             /\ Spares(m, l, Account)
<1> DEFINE y == GetYield(l, c)
           m == SendCoins(l, Yield, c, y)
<1>1. l \in LedgerType /\ l.balance \in [Address -> Nat]
      /\ Account \subseteq Address /\ Yield \in Address /\ Yield \notin Account
  BY AccountAssumption DEF Sound, LedgerType, Address
<1>2. y \in Nat /\ l.balance[Yield] >= y
  BY <1>1, YieldType DEF CanClaim, CanSend
<1>3. ClaimModuleYield(l, c) = m
  BY DEF ClaimModuleYield
<1> HIDE DEF y
<1>4. /\ Sound(m)
      /\ SameExcept(m, l, {"balance"})
      /\ m.balance = [[l.balance EXCEPT ![Yield] = @ - y] EXCEPT ![c] = @ + y]
  BY <1>2, SendYield
<1>5. Spares(m, l, Account)
  BY <1>2, PayoutSpares
<1> HIDE DEF m
<1>6. /\ m.balance[c] = l.balance[c] + y
      /\ \A a \in Account \ {c} : m.balance[a] = l.balance[a]
  BY <1>1, <1>2, <1>4
<1> QED BY <1>2, <1>3, <1>4, <1>6, <1>5 DEF y

-----------------------------------------------------------------------------
(* Stores. *)

RecordType == [total : Int, rewards : Int]
StatsType == [users : [Vault -> Int], principal : [Vault -> Int], distributed : Nat]

StoreType ==
    [ ledger        : LedgerType,
      positions     : UNION {[D -> Position] : D \in SUBSET Keys},
      totalFlexible : Int,
      rewards       : UNION {[D -> RecordType] : D \in SUBSET Nat},
      stats         : StatsType ]

\* Finitely many records, none of an index yet to come.
Records(rs, index) ==
    /\ IsFiniteSet(DOMAIN rs)
    /\ DOMAIN rs \subseteq Nat
    /\ rs \in [DOMAIN rs -> RecordType]
    /\ \A i \in DOMAIN rs : i <= index

GoodStore(s) ==
    /\ s \in StoreType
    /\ Sound(s.ledger)
    /\ Book(s.positions)
    /\ Records(s.rewards, s.ledger.index)

\* A store with good parts is a good store.
LEMMA MakeStore ==
  ASSUME NEW l, Sound(l), NEW ps, Book(ps), NEW n \in Int,
         NEW rs, Records(rs, l.index), NEW st \in StatsType
  PROVE  GoodStore([ledger |-> l, positions |-> ps, totalFlexible |-> n,
                    rewards |-> rs, stats |-> st])
<1> DEFINE s == [ledger |-> l, positions |-> ps, totalFlexible |-> n,
                 rewards |-> rs, stats |-> st]
<1>1. l \in LedgerType
  BY DEF Sound
<1>2. ps \in UNION {[D -> Position] : D \in SUBSET Keys}
  BY DEF Book
<1>3. rs \in UNION {[D -> RecordType] : D \in SUBSET Nat}
  BY DEF Records
<1>4. s \in StoreType
  BY <1>1, <1>2, <1>3 DEF StoreType
<1> QED BY <1>4 DEF GoodStore

\* A good store is the record of its fields.
LEMMA StoreParts ==
  ASSUME NEW s, GoodStore(s)
  PROVE  /\ s = [ledger |-> s.ledger, positions |-> s.positions,
                totalFlexible |-> s.totalFlexible, rewards |-> s.rewards,
                stats |-> s.stats]
         /\ Sound(s.ledger) /\ Book(s.positions) /\ s.totalFlexible \in Int
         /\ Records(s.rewards, s.ledger.index) /\ s.stats \in StatsType
BY DEF GoodStore, StoreType

\* How the updates of single fields read on the record of the fields.
LEMMA TwoUpdates ==
  ASSUME NEW x, NEW p, NEW n
  PROVE  [x EXCEPT !.ledger = p, !.stats.distributed = @ + n]
           = [[x EXCEPT !.ledger = p] EXCEPT !.stats.distributed = @ + n]
OBVIOUS

\* How an update of the ledger reads on the fields of a store.
LEMMA SetLedger ==
  ASSUME NEW a, NEW b, NEW c, NEW d, NEW e, NEW p
  PROVE  LET x == [ledger |-> a, positions |-> b, totalFlexible |-> c,
                   rewards |-> d, stats |-> e]
         IN  [x EXCEPT !.ledger = p]
               = [ledger |-> p, positions |-> b, totalFlexible |-> c,
                  rewards |-> d, stats |-> e]
OBVIOUS

\* The same, of the rewards that were distributed.
LEMMA AddDistributed ==
  ASSUME NEW a, NEW b, NEW c, NEW d, NEW e, NEW n
  PROVE  LET x == [ledger |-> a, positions |-> b, totalFlexible |-> c,
                   rewards |-> d, stats |-> e]
         IN  [x EXCEPT !.stats.distributed = @ + n]
               = [ledger |-> a, positions |-> b, totalFlexible |-> c,
                  rewards |-> d, stats |-> [e EXCEPT !.distributed = @ + n]]
OBVIOUS

\* The same, of what leaves the Flexible principal.
LEMMA SetTotalFlexible ==
  ASSUME NEW a, NEW b, NEW c, NEW d, NEW e, NEW n
  PROVE  LET x == [ledger |-> a, positions |-> b, totalFlexible |-> c,
                   rewards |-> d, stats |-> e]
         IN  [x EXCEPT !.totalFlexible = @ - n]
               = [ledger |-> a, positions |-> b, totalFlexible |-> c - n,
                  rewards |-> d, stats |-> e]
OBVIOUS

\* A payout as two updates of one field each.
LEMMA PaidUpdates ==
  ASSUME NEW x, NEW p, NEW q
  PROVE  [x EXCEPT !.ledger = p, !.positions = q]
           = [[x EXCEPT !.ledger = p] EXCEPT !.positions = q]
OBVIOUS

\* How an update of the positions reads on the fields of a store.
LEMMA SetPositions ==
  ASSUME NEW a, NEW b, NEW c, NEW d, NEW e, NEW q
  PROVE  LET x == [ledger |-> a, positions |-> b, totalFlexible |-> c,
                   rewards |-> d, stats |-> e]
         IN  [x EXCEPT !.positions = q]
               = [ledger |-> a, positions |-> q, totalFlexible |-> c,
                  rewards |-> d, stats |-> e]
OBVIOUS

-----------------------------------------------------------------------------
(* Claiming rewards. *)

RewardsOf(s) == SumFunction([i \in DOMAIN s.rewards |-> s.rewards[i].rewards])

\* The records promise no more than the Flexible vault's account holds, and are
\* shared over few enough units of principal for the rounding of LegacyDec.
RewardsSafe(s) ==
    /\ \A i \in DOMAIN s.rewards : /\ s.rewards[i].rewards \in Nat
                                  /\ s.rewards[i].total < 2 * Precision
    /\ s.ledger.balance[FlexibleVault] >= RewardsOf(s)

\* At most the principal was taken from the totals, of later records only.
Charges(t, s, position, principal) ==
    /\ DOMAIN t.rewards = DOMAIN s.rewards
    /\ \A i \in DOMAIN s.rewards :
          /\ t.rewards[i].total <= s.rewards[i].total
          /\ t.rewards[i].total >= s.rewards[i].total - principal
          /\ i <= position.index => t.rewards[i].total = s.rewards[i].total

\* The positions, the totals and the statistics of the two stores are the same.
SameBooks(t, s) ==
    /\ t.positions = s.positions
    /\ t.stats.users = s.stats.users
    /\ t.stats.principal = s.stats.principal
    /\ t.ledger.index = s.ledger.index

\* The accounts that take no part in the unlock of a user are as they were.
Bystanders(t, s, A) ==
    \A a \in Account \ A : /\ t.ledger.balance[a] = s.ledger.balance[a]
                          /\ t.ledger.principal[a] = s.ledger.principal[a]

\* Shares are natural numbers, and so is their sum.
LEMMA SharesType ==
  ASSUME NEW s, GoodStore(s), NEW position \in Position, NEW principal \in Nat
  PROVE  LET open  == OpenRecords(s, position)
             share == [i \in open |-> Share(s, i, principal)]
         IN  /\ open \in SUBSET DOMAIN s.rewards /\ IsFiniteSet(open)
             /\ share \in [open -> Nat]
             /\ SumFunction(share) \in Nat
             /\ \A i \in open : /\ s.rewards[i].rewards \in Nat
                               /\ principal <= s.rewards[i].total
                                    /\ s.rewards[i].total < 2 * Precision
                                       => share[i] <= s.rewards[i].rewards
<1> DEFINE open  == OpenRecords(s, position)
           share == [i \in open |-> Share(s, i, principal)]
<1>1. /\ IsFiniteSet(DOMAIN s.rewards)
      /\ \A i \in DOMAIN s.rewards : s.rewards[i].total \in Int /\ s.rewards[i].rewards \in Int
  BY DEF GoodStore, Records, RecordType
<1>2. open \in SUBSET DOMAIN s.rewards /\ IsFiniteSet(open)
  <2>1. open \subseteq DOMAIN s.rewards
    BY DEF OpenRecords
  <2> QED BY <1>1, <2>1, FS_Subset
<1>3. ASSUME NEW i \in open
      PROVE  /\ Share(s, i, principal) \in Nat
             /\ s.rewards[i].rewards \in Nat
             /\ principal <= s.rewards[i].total /\ s.rewards[i].total < 2 * Precision
                  => Share(s, i, principal) <= s.rewards[i].rewards
  <2> DEFINE r == s.rewards[i].rewards
             n == s.rewards[i].total
             part == DecQuo(r * Precision, n * Precision)
  <2>1. r \in Nat /\ n \in Nat \ {0}
    BY <1>1 DEF OpenRecords
  <2>2. Share(s, i, principal) = IF i = s.ledger.index THEN 0 ELSE TruncateInt(part * principal)
    BY DEF Share
  <2> HIDE DEF r, n
  <2>3. TruncateInt(part * principal) \in Nat
    BY <2>1, ShareType
  <2>4. principal <= n /\ n < 2 * Precision => TruncateInt(part * principal) <= r
    BY <2>1, ShareWithin
  <2> HIDE DEF part
  <2>5. 0 <= r
    BY <2>1
  <2> QED BY <2>1, <2>2, <2>3, <2>4, <2>5 DEF r, n
<1> HIDE DEF open
<1>4. share \in [open -> Nat]
  BY <1>3
<1>5. SumFunction(share) \in Nat
  <2> HIDE DEF share
  <2> QED BY <1>2, <1>4, SumOfNat
<1> QED BY <1>2, <1>3, <1>4, <1>5 DEF open

\* Claiming rewards pays the user from the Flexible vault what it takes from the
\* records; when the vault cannot pay, only the records are left changed.
LEMMA ClaimRewardsEffect ==
  ASSUME NEW s, GoodStore(s), NEW user \in User,
         NEW position \in Position, NEW principal \in Nat
  PROVE  LET result == ClaimRewards(s, user, position, principal)
             t == result.store
         IN  /\ result.ok \in BOOLEAN /\ result = [ok |-> result.ok, store |-> t]
             /\ GoodStore(t)
             /\ SameBooks(t, s) /\ t.totalFlexible = s.totalFlexible
             /\ Charges(t, s, position, principal)
             /\ Bystanders(t, s, {FlexibleVault, user})
             /\ t.ledger.balance[user] >= s.ledger.balance[user]
             /\ Spares(t.ledger, s.ledger, Account \ {FlexibleVault})
             /\ /\ RewardsSafe(s)
                /\ \A i \in DOMAIN s.rewards :
                       i > position.index => principal <= s.rewards[i].total
                => RewardsSafe(t)
<1> DEFINE open   == OpenRecords(s, position)
           share  == [i \in open |-> Share(s, i, principal)]
           amount == SumFunction(share)
           rs == [i \in DOMAIN s.rewards |-> IF i \in open
                                            THEN Charge(s.rewards[i], principal, share[i])
                                            ELSE s.rewards[i]]
           paid == SendCoins(s.ledger, FlexibleVault, user, amount)
           st == [s.stats EXCEPT !.distributed = @ + amount]
           charged == [ledger |-> s.ledger, positions |-> s.positions,
                       totalFlexible |-> s.totalFlexible, rewards |-> rs, stats |-> s.stats]
           settled == [ledger |-> paid, positions |-> s.positions,
                       totalFlexible |-> s.totalFlexible, rewards |-> rs, stats |-> st]
           result == ClaimRewards(s, user, position, principal)
           Fits == /\ RewardsSafe(s)
                   /\ \A i \in DOMAIN s.rewards :
                         i > position.index => principal <= s.rewards[i].total
<1>1. /\ s = [ledger |-> s.ledger, positions |-> s.positions,
              totalFlexible |-> s.totalFlexible, rewards |-> s.rewards,
              stats |-> s.stats]
      /\ Sound(s.ledger) /\ Book(s.positions) /\ s.totalFlexible \in Int
      /\ Records(s.rewards, s.ledger.index) /\ s.stats \in StatsType
  BY StoreParts
<1>2. /\ open \in SUBSET DOMAIN s.rewards /\ IsFiniteSet(open)
      /\ share \in [open -> Nat]
      /\ amount \in Nat
      /\ \A i \in open : /\ s.rewards[i].rewards \in Nat
                        /\ principal <= s.rewards[i].total
                             /\ s.rewards[i].total < 2 * Precision
                                => share[i] <= s.rewards[i].rewards
  BY SharesType
<1>3. \A i \in open : i > position.index
  BY DEF OpenRecords
<1>4. result = IF s.ledger.principal[FlexibleVault] <= 0 THEN Ok(s)
               ELSE IF ~CanSend(s.ledger, FlexibleVault, user, amount) THEN Fail(charged)
               ELSE Ok(settled)
  <2>1. charged = [s EXCEPT !.rewards = rs]
    BY <1>1
  <2>2. settled = [charged EXCEPT !.ledger = paid, !.stats.distributed = @ + amount]
    <3> DEFINE sent == [charged EXCEPT !.ledger = paid]
    <3>1. [charged EXCEPT !.ledger = paid, !.stats.distributed = @ + amount]
            = [sent EXCEPT !.stats.distributed = @ + amount]
      BY TwoUpdates
    <3> HIDE DEF paid, rs, amount
    <3>2. sent = [ledger |-> paid, positions |-> s.positions,
                  totalFlexible |-> s.totalFlexible, rewards |-> rs, stats |-> s.stats]
      BY SetLedger
    <3> HIDE DEF sent
    <3>3. [sent EXCEPT !.stats.distributed = @ + amount] = settled
      BY <3>2, AddDistributed
    <3> QED BY <3>1, <3>3
  <2> QED BY <2>1, <2>2 DEF ClaimRewards
<1> HIDE DEF open, share, amount, result
<1>5. /\ DOMAIN rs = DOMAIN s.rewards
      /\ \A i \in DOMAIN rs :
            /\ rs[i] \in RecordType
            /\ i \in open => rs[i].total = s.rewards[i].total - principal
                            /\ rs[i].rewards = s.rewards[i].rewards - share[i]
            /\ i \notin open => rs[i] = s.rewards[i]
  BY <1>1, <1>2 DEF Records, RecordType, Charge
<1>6. rs \in [DOMAIN rs -> RecordType]
  BY <1>5
<1> HIDE DEF rs
<1>7. Records(rs, s.ledger.index)
  BY <1>1, <1>5, <1>6 DEF Records
<1>8. ASSUME NEW t, t.rewards = rs PROVE Charges(t, s, position, principal)
  <2>1. \A i \in DOMAIN s.rewards : s.rewards[i].total \in Int
    BY <1>1 DEF Records, RecordType
  <2>2. \A i \in DOMAIN s.rewards : i \in Int
    BY <1>1 DEF Records
  <2>3. position.index \in Int
    BY DEF Position
  <2> QED BY <1>3, <1>5, <1>8, <2>1, <2>2, <2>3 DEF Charges
<1>9. /\ SumFunction([i \in DOMAIN rs |-> rs[i].rewards]) = RewardsOf(s) - amount
      /\ RewardsOf(s) \in Int
  <2> DEFINE f == [i \in DOMAIN s.rewards |-> s.rewards[i].rewards]
             h == [i \in DOMAIN rs |-> rs[i].rewards]
             D == DOMAIN s.rewards
  <2>1. /\ IsFiniteSet(D) /\ open \in SUBSET D
        /\ f \in [D -> Int] /\ h \in [D -> Int] /\ share \in [open -> Int]
    BY <1>1, <1>2, <1>5 DEF Records, RecordType
  <2>2. \A i \in D : h[i] = IF i \in open THEN f[i] - share[i] ELSE f[i]
    BY <1>5
  <2> HIDE DEF f, h, D
  <2>3. SumFunction(h) = SumFunction(f) - SumFunction(share)
    BY <2>1, <2>2, SumLess
  <2>4. SumFunction(f) \in Int
    BY <2>1, SumType
  <2> QED BY <2>3, <2>4 DEF RewardsOf, amount, f, h
<1>10. Fits => \A i \in DOMAIN rs : rs[i].rewards \in Nat /\ rs[i].total < 2 * Precision
  <2> SUFFICES ASSUME Fits, NEW i \in DOMAIN rs
               PROVE  rs[i].rewards \in Nat /\ rs[i].total < 2 * Precision
    OBVIOUS
  <2>1. /\ s.rewards[i].rewards \in Nat /\ s.rewards[i].total < 2 * Precision
        /\ s.rewards[i].total \in Int /\ 2 * Precision \in Int
    BY <1>1, <1>5, VaultsAssumption DEF Records, RecordType, RewardsSafe
  <2>2. CASE i \in open
    <3>1. principal <= s.rewards[i].total
      BY <1>2, <1>3, <2>2
    <3>2. share[i] <= s.rewards[i].rewards /\ share[i] \in Nat
      BY <1>2, <2>1, <2>2, <3>1
    <3>3. rs[i].total = s.rewards[i].total - principal
          /\ rs[i].rewards = s.rewards[i].rewards - share[i]
      BY <1>5, <2>2
    <3> QED BY <2>1, <3>2, <3>3
  <2>3. CASE i \notin open
    BY <1>5, <2>1, <2>3
  <2> QED BY <2>2, <2>3
<1>11. /\ user \in Account /\ FlexibleVault \in Account /\ user # FlexibleVault
       /\ s.ledger.balance \in [Address -> Nat] /\ Account \subseteq Address
  BY <1>1, VaultsAssumption DEF Sound, LedgerType, Address
<1>12. CASE s.ledger.principal[FlexibleVault] <= 0
  <2>1. result = Ok(s)
    BY <1>4, <1>12
  <2>2. Charges(s, s, position, principal)
    BY <1>1 DEF Charges, Records, RecordType
  <2>3. Ok(s).store = s /\ Ok(s).ok = TRUE /\ Ok(s) = [ok |-> TRUE, store |-> s]
    BY DEF Ok
  <2>4. Spares(s.ledger, s.ledger, Account \ {FlexibleVault})
    BY <1>1, SparesReflexive
  <2> QED BY <1>11, <2>1, <2>2, <2>3, <2>4 DEF SameBooks, Bystanders, result
<1>13. CASE ~(s.ledger.principal[FlexibleVault] <= 0)
            /\ ~CanSend(s.ledger, FlexibleVault, user, amount)
  <2>1. result = Fail(charged)
    BY <1>4, <1>13
  <2>2. GoodStore(charged)
    BY <1>1, <1>7, MakeStore
  <2>3. Charges(charged, s, position, principal)
    BY <1>8
  <2>4. Fits => RewardsSafe(charged)
    <3> SUFFICES ASSUME Fits PROVE RewardsSafe(charged)
      OBVIOUS
    <3>1. s.ledger.balance[FlexibleVault] >= RewardsOf(s)
      BY DEF RewardsSafe
    <3>2. RewardsOf(charged) = RewardsOf(s) - amount
      BY <1>9 DEF RewardsOf
    <3>3. s.ledger.balance[FlexibleVault] >= RewardsOf(charged)
      BY <1>2, <1>9, <1>11, <3>1, <3>2
    <3> HIDE DEF Fits
    <3> QED BY <1>10, <3>3 DEF RewardsSafe
  <2>5. SameBooks(charged, s) /\ Bystanders(charged, s, {FlexibleVault, user})
    BY DEF SameBooks, Bystanders
  <2>6. /\ Fail(charged).store = charged /\ Fail(charged).ok = FALSE
        /\ Fail(charged) = [ok |-> FALSE, store |-> charged]
    BY DEF Fail
  <2>7. charged.totalFlexible = s.totalFlexible /\ charged.ledger = s.ledger
    OBVIOUS
  <2>8. Spares(s.ledger, s.ledger, Account \ {FlexibleVault})
    BY <1>1, SparesReflexive
  <2> HIDE DEF charged
  <2> QED BY <1>11, <2>1, <2>2, <2>3, <2>4, <2>5, <2>6, <2>7, <2>8 DEF result
<1>14. CASE ~(s.ledger.principal[FlexibleVault] <= 0)
            /\ CanSend(s.ledger, FlexibleVault, user, amount)
  <2>1. result = Ok(settled)
    BY <1>4, <1>14
  <2>2. /\ Sound(paid)
        /\ paid.index = s.ledger.index
        /\ paid.balance[FlexibleVault] = s.ledger.balance[FlexibleVault] - amount
        /\ paid.balance[user] = s.ledger.balance[user] + amount
        /\ \A a \in Account \ {FlexibleVault, user} :
              /\ paid.balance[a] = s.ledger.balance[a]
              /\ paid.principal[a] = s.ledger.principal[a]
        /\ Spares(paid, s.ledger, Account \ {FlexibleVault})
    <3>1. s.ledger.balance[FlexibleVault] >= amount
      BY <1>14 DEF CanSend
    <3> QED BY <1>1, <1>2, <1>11, <3>1, Payment
  <2>3. st \in StatsType /\ st.users = s.stats.users /\ st.principal = s.stats.principal
    BY <1>1, <1>2 DEF StatsType
  <2> HIDE DEF paid, st
  <2>4. GoodStore(settled)
    BY <1>1, <1>7, <2>2, <2>3, MakeStore
  <2>5. Charges(settled, s, position, principal)
    BY <1>8
  <2>6. Fits => RewardsSafe(settled)
    <3> SUFFICES ASSUME Fits PROVE RewardsSafe(settled)
      OBVIOUS
    <3>1. s.ledger.balance[FlexibleVault] >= RewardsOf(s)
      BY DEF RewardsSafe
    <3>2. RewardsOf(settled) = RewardsOf(s) - amount
      BY <1>9 DEF RewardsOf
    <3>3. paid.balance[FlexibleVault] >= RewardsOf(settled)
      BY <1>2, <1>9, <1>11, <2>2, <3>1, <3>2
    <3> HIDE DEF Fits
    <3> QED BY <1>10, <3>3 DEF RewardsSafe
  <2>7. SameBooks(settled, s) /\ Bystanders(settled, s, {FlexibleVault, user})
    BY <2>2, <2>3 DEF SameBooks, Bystanders
  <2>8. /\ Ok(settled).store = settled /\ Ok(settled).ok = TRUE
        /\ Ok(settled) = [ok |-> TRUE, store |-> settled]
    BY DEF Ok
  <2>9. settled.totalFlexible = s.totalFlexible /\ settled.ledger = paid
    OBVIOUS
  <2>10. paid.balance[user] >= s.ledger.balance[user]
    BY <1>2, <1>11, <2>2
  <2> HIDE DEF settled
  <2> QED BY <2>1, <2>2, <2>4, <2>5, <2>6, <2>7, <2>8, <2>9, <2>10 DEF result
<1> QED BY <1>12, <1>13, <1>14 DEF result

-----------------------------------------------------------------------------
(* Unlocking one position. *)

\* The accounts of positions are no one else's, and one position's each.
LEMMA PositionAccounts ==
  ASSUME NEW user \in User, NEW time \in Time, time <= SeasonEnd
  PROVE  LET account == PositionAccount(user, time)
         IN  /\ account \in Account
             /\ account # StakedVault /\ account # FlexibleVault /\ account # Warp
             /\ account \notin User
             /\ \A u, x : PositionAccount(u, x) = account => u = user /\ x = time
BY VaultsAssumption DEF PositionAccount

\* The account that holds a position is neither its user's nor the Flexible vault's.
LEMMA CustodianApart ==
  ASSUME NEW user \in User, NEW vault, NEW time,
         vault = "flexible" => time \in Time /\ time <= SeasonEnd
  PROVE  LET account == Custodian(user, vault, time)
         IN  /\ account \in Account /\ account # user /\ account # FlexibleVault
             /\ user \in Account /\ user # FlexibleVault /\ FlexibleVault \in Account
<1> DEFINE account == Custodian(user, vault, time)
<1>1. /\ user \in Account /\ user # FlexibleVault /\ user # StakedVault
      /\ FlexibleVault \in Account /\ StakedVault # FlexibleVault
  BY VaultsAssumption
<1>2. StakedVault \in Account
  BY TokenAssumption
<1>3. CASE vault = "flexible"
  <2>1. account = PositionAccount(user, time)
    BY <1>3 DEF Custodian
  <2>2. /\ PositionAccount(user, time) \in Account /\ PositionAccount(user, time) \notin User
        /\ PositionAccount(user, time) # FlexibleVault
    BY <1>3, PositionAccounts
  <2> QED BY <1>1, <2>1, <2>2
<1>4. CASE vault # "flexible"
  <2>1. account = StakedVault
    BY <1>4 DEF Custodian
  <2> QED BY <1>1, <1>2, <2>1
<1> QED BY <1>3, <1>4

\* Settling a Flexible position takes its principal off the total, claims its
\* rewards and claims its yield; when it stops halfway, the yield is unclaimed.
LEMMA SettleEffect ==
  ASSUME NEW s, GoodStore(s), NEW user \in User, NEW time \in Time, time <= SeasonEnd,
         NEW position \in Position, NEW principal \in Nat
  PROVE  LET result  == SettleFlexible(s, user, time, position, principal)
             t       == result.store
             account == PositionAccount(user, time)
             yield   == GetYield(s.ledger, account)
         IN  /\ result.ok \in BOOLEAN
             /\ GoodStore(t)
             /\ SameBooks(t, s) /\ t.totalFlexible = s.totalFlexible - principal
             /\ Charges(t, s, position, principal)
             /\ Bystanders(t, s, {FlexibleVault, user, account})
             /\ t.ledger.balance[user] >= s.ledger.balance[user]
             /\ Spares(t.ledger, s.ledger, Account \ {FlexibleVault})
             /\ yield \in Nat
             /\ result.ok => t.ledger.balance[account] = s.ledger.balance[account] + yield
             /\ ~result.ok => t.ledger.balance[account] = s.ledger.balance[account]
             /\ /\ RewardsSafe(s)
                /\ \A i \in DOMAIN s.rewards :
                       i > position.index => principal <= s.rewards[i].total
                => RewardsSafe(t)
<1> DEFINE result  == SettleFlexible(s, user, time, position, principal)
           account == PositionAccount(user, time)
           yield   == GetYield(s.ledger, account)
           u == [s EXCEPT !.totalFlexible = @ - principal]
           claimed == ClaimRewards(u, user, position, principal)
           c == claimed.store
           m == ClaimModuleYield(c.ledger, account)
           t == [c EXCEPT !.ledger = m]
           Fits == /\ RewardsSafe(s)
                   /\ \A i \in DOMAIN s.rewards :
                         i > position.index => principal <= s.rewards[i].total
<1>1. /\ s = [ledger |-> s.ledger, positions |-> s.positions,
              totalFlexible |-> s.totalFlexible, rewards |-> s.rewards,
              stats |-> s.stats]
      /\ Sound(s.ledger) /\ Book(s.positions) /\ s.totalFlexible \in Int
      /\ Records(s.rewards, s.ledger.index) /\ s.stats \in StatsType
  BY StoreParts
<1>2. /\ account \in Account /\ account # FlexibleVault /\ account # user
      /\ user \in Account
  BY PositionAccounts, VaultsAssumption
<1>3. u = [ledger |-> s.ledger, positions |-> s.positions,
           totalFlexible |-> s.totalFlexible - principal, rewards |-> s.rewards,
           stats |-> s.stats]
  BY <1>1, SetTotalFlexible
<1>4. GoodStore(u)
  <2>1. s.totalFlexible - principal \in Int
    BY <1>1
  <2> HIDE DEF u
  <2> QED BY <1>1, <1>3, <2>1, MakeStore
<1>5. /\ u.ledger = s.ledger /\ u.positions = s.positions /\ u.rewards = s.rewards
      /\ u.stats = s.stats /\ u.totalFlexible = s.totalFlexible - principal
  BY <1>3
<1>6. result = IF ~claimed.ok THEN claimed
               ELSE IF ~CanClaim(c.ledger, account) THEN Fail(c) ELSE Ok(t)
  BY DEF SettleFlexible
<1> HIDE DEF u, account, result
<1>7. /\ claimed.ok \in BOOLEAN
      /\ GoodStore(c)
      /\ SameBooks(c, u) /\ c.totalFlexible = u.totalFlexible
      /\ Charges(c, u, position, principal)
      /\ Bystanders(c, u, {FlexibleVault, user})
      /\ c.ledger.balance[user] >= u.ledger.balance[user]
      /\ Spares(c.ledger, u.ledger, Account \ {FlexibleVault})
      /\ /\ RewardsSafe(u)
         /\ \A i \in DOMAIN u.rewards :
                i > position.index => principal <= u.rewards[i].total
         => RewardsSafe(c)
  BY <1>4, ClaimRewardsEffect
<1> HIDE DEF claimed, c
<1>8. /\ SameBooks(c, s) /\ c.totalFlexible = s.totalFlexible - principal
      /\ Charges(c, s, position, principal)
      /\ Bystanders(c, s, {FlexibleVault, user})
      /\ c.ledger.balance[user] >= s.ledger.balance[user]
      /\ Spares(c.ledger, s.ledger, Account \ {FlexibleVault})
  BY <1>5, <1>7 DEF SameBooks, Charges, Bystanders
<1>9. Fits => RewardsSafe(c)
  BY <1>5, <1>7 DEF RewardsSafe, RewardsOf
<1>10. /\ c.ledger.balance[account] = s.ledger.balance[account]
       /\ GetYield(c.ledger, account) = yield
  <2>1. /\ c.ledger.balance[account] = s.ledger.balance[account]
        /\ c.ledger.principal[account] = s.ledger.principal[account]
        /\ c.ledger.index = s.ledger.index
    BY <1>2, <1>8 DEF Bystanders, SameBooks
  <2> QED BY <2>1 DEF GetYield
<1>11. yield \in Nat
  BY <1>1, <1>2, YieldType DEF Sound
<1>12. Bystanders(c, s, {FlexibleVault, user, account})
  BY <1>8 DEF Bystanders
<1>13. CASE ~claimed.ok \/ ~CanClaim(c.ledger, account)
  <2>1. result.store = c /\ result.ok = FALSE
    BY <1>6, <1>7, <1>13 DEF Fail, c
  <2> QED BY <1>7, <1>8, <1>9, <1>10, <1>11, <1>12, <2>1 DEF result, account
<1>14. CASE claimed.ok /\ CanClaim(c.ledger, account)
  <2>1. result.store = t /\ result.ok = TRUE
    BY <1>6, <1>14 DEF Ok
  <2>2. /\ Sound(c.ledger) /\ Book(c.positions) /\ c.totalFlexible \in Int
        /\ Records(c.rewards, c.ledger.index) /\ c.stats \in StatsType
        /\ c = [ledger |-> c.ledger, positions |-> c.positions,
                totalFlexible |-> c.totalFlexible, rewards |-> c.rewards,
                stats |-> c.stats]
    BY <1>7, StoreParts
  <2>3. /\ Sound(m)
        /\ SameExcept(m, c.ledger, {"balance"})
        /\ m.balance[account] = c.ledger.balance[account] + yield
        /\ \A a \in Account \ {account} : m.balance[a] = c.ledger.balance[a]
        /\ Spares(m, c.ledger, Account)
    BY <1>2, <1>10, <1>14, <2>2, Claim
  <2> HIDE DEF m
  <2>4. m.index = c.ledger.index /\ m.principal = c.ledger.principal
    BY <2>3 DEF SameExcept
  <2>5. t = [ledger |-> m, positions |-> c.positions, totalFlexible |-> c.totalFlexible,
             rewards |-> c.rewards, stats |-> c.stats]
    BY <2>2, SetLedger
  <2> HIDE DEF t
  <2>6. GoodStore(t)
    BY <2>2, <2>3, <2>4, <2>5, MakeStore
  <2>7. /\ t.ledger = m /\ t.positions = c.positions /\ t.rewards = c.rewards
        /\ t.stats = c.stats /\ t.totalFlexible = c.totalFlexible
    BY <2>5
  <2>8. /\ SameBooks(t, s) /\ t.totalFlexible = s.totalFlexible - principal
        /\ Charges(t, s, position, principal)
    BY <1>8, <2>4, <2>7 DEF SameBooks, Charges
  <2>9. /\ Bystanders(t, s, {FlexibleVault, user, account})
        /\ t.ledger.balance[user] >= s.ledger.balance[user]
        /\ t.ledger.balance[account] = s.ledger.balance[account] + yield
    BY <1>2, <1>8, <1>10, <1>12, <2>3, <2>4, <2>7 DEF Bystanders
  <2>10. Fits => RewardsSafe(t)
    <3>1. FlexibleVault \in Account
      BY VaultsAssumption
    <3> QED BY <1>2, <1>9, <2>3, <2>7, <3>1 DEF RewardsSafe, RewardsOf
  <2>11. Spares(t.ledger, s.ledger, Account \ {FlexibleVault})
    <3>1. Spares(m, c.ledger, Account \ {FlexibleVault})
      BY <2>3, SparesFewer
    <3>2. Spares(m, s.ledger, Account \ {FlexibleVault})
      BY <1>1, <1>8, <3>1, SparesTransitive
    <3> QED BY <2>7, <3>2
  <2> QED BY <1>11, <2>1, <2>6, <2>8, <2>9, <2>10, <2>11 DEF result, account
<1> QED BY <1>7, <1>13, <1>14

\* One round of unlock.  A round that succeeds takes the amount off the position,
\* its principal off the totals, and pays it to the user from the account that
\* holds it; one that fails leaves the positions and the accounts of others alone.
LEMMA UnlockPositionEffect ==
  ASSUME NEW s, GoodStore(s), NEW user \in User, NEW vault \in Vault, NEW time,
         <<user, vault, time>> \in DOMAIN s.positions,
         NEW left \in Nat, left > 0, NEW removed \in Int
  PROVE  LET call == [ok |-> TRUE, store |-> s, left |-> left, removed |-> removed]
             result == UnlockPosition(call, user, vault, time)
             t == result.store
             key == <<user, vault, time>>
             position == s.positions[key]
             amount == IF position.amount > left THEN left ELSE position.amount
             principal == PrincipalToRemove(position, amount)
             account == Custodian(user, vault, time)
         IN  /\ amount \in Nat /\ amount > 0 /\ amount <= left /\ amount <= position.amount
             /\ principal \in Nat
             /\ account \in Account /\ account # user /\ account # FlexibleVault
             /\ result = [ok |-> result.ok, store |-> t, left |-> result.left,
                          removed |-> result.removed]
             /\ result.ok \in BOOLEAN
             /\ GoodStore(t)
             /\ t.stats.users = s.stats.users /\ t.stats.principal = s.stats.principal
             /\ t.ledger.index = s.ledger.index
             /\ Bystanders(t, s, {FlexibleVault, user, account})
             /\ Spares(t.ledger, s.ledger, Account \ {FlexibleVault, account})
             /\ Charges(t, s, position, principal)
             /\ result.ok =>
                   /\ t.positions = RemoveFromPosition(s.positions, key, amount, principal)
                   /\ result.left = left - amount /\ result.removed = removed + principal
                   /\ t.ledger.balance[account] = s.ledger.balance[account] - amount
                   /\ t.ledger.balance[user] >= s.ledger.balance[user] + amount
                   /\ vault = "flexible" => t.totalFlexible = s.totalFlexible - principal
             /\ ~result.ok =>
                   /\ t.positions = s.positions
                   /\ result.left = left /\ result.removed = removed
                   /\ t.ledger.balance[account] >= s.ledger.balance[account]
                   /\ t.ledger.balance[user] >= s.ledger.balance[user]
             /\ vault = "staked" =>
                   t.totalFlexible = s.totalFlexible /\ t.rewards = s.rewards
             /\ /\ RewardsSafe(s)
                /\ vault = "flexible" =>
                      \A i \in DOMAIN s.rewards :
                          i > position.index => principal <= s.rewards[i].total
                => RewardsSafe(t)
<1> DEFINE call == [ok |-> TRUE, store |-> s, left |-> left, removed |-> removed]
           result == UnlockPosition(call, user, vault, time)
           key == <<user, vault, time>>
           position == s.positions[key]
           amount == IF position.amount > left THEN left ELSE position.amount
           principal == PrincipalToRemove(position, amount)
           account == Custodian(user, vault, time)
           settled == IF vault = "flexible"
                      THEN SettleFlexible(s, user, time, position, principal)
                      ELSE Ok(s)
           yield == IF vault = "flexible" THEN GetYield(s.ledger, account) ELSE 0
           payout == IF vault = "flexible"
                     THEN AmountToSend(amount, GetYield(s.ledger, account))
                     ELSE amount
           c == settled.store
           m == SendCoins(c.ledger, account, user, payout)
           qs == RemoveFromPosition(c.positions, key, amount, principal)
           paid == [c EXCEPT !.ledger = m, !.positions = qs]
           Fits == /\ RewardsSafe(s)
                   /\ vault = "flexible" =>
                         \A i \in DOMAIN s.rewards :
                             i > position.index => principal <= s.rewards[i].total
<1>1. /\ key \in Keys /\ position \in Position /\ Book(s.positions)
      /\ Sound(s.ledger) /\ Records(s.rewards, s.ledger.index)
  BY DEF GoodStore, Book
<1>2. /\ position.amount \in Nat /\ position.amount > 0 /\ position.index \in Nat \ {0}
      /\ vault = "flexible" => time \in Time /\ time <= SeasonEnd
  BY <1>1 DEF Position, Keys
<1>3. /\ amount \in Nat /\ amount > 0 /\ amount <= left /\ amount <= position.amount
  BY <1>2
<1> HIDE DEF amount
<1>4. principal \in Nat
  BY <1>2, <1>3, RoundedDownBounds DEF PrincipalToRemove
<1>5. account \in Account /\ account # user /\ account # FlexibleVault
      /\ user \in Account /\ user # FlexibleVault /\ FlexibleVault \in Account
  BY <1>2, CustodianApart
<1> HIDE DEF principal
<1>6. /\ settled.ok \in BOOLEAN
      /\ GoodStore(c)
      /\ SameBooks(c, s)
      /\ Charges(c, s, position, principal)
      /\ Bystanders(c, s, {FlexibleVault, user, account})
      /\ c.ledger.balance[user] >= s.ledger.balance[user]
      /\ Spares(c.ledger, s.ledger, Account \ {FlexibleVault})
      /\ yield \in Nat
      /\ settled.ok => c.ledger.balance[account] = s.ledger.balance[account] + yield
      /\ ~settled.ok => c.ledger.balance[account] = s.ledger.balance[account]
      /\ vault = "flexible" => c.totalFlexible = s.totalFlexible - principal
      /\ vault = "staked" => c.totalFlexible = s.totalFlexible /\ c.rewards = s.rewards
      /\ Fits => RewardsSafe(c)
  <2>1. CASE vault = "flexible"
    <3>1. account = PositionAccount(user, time)
      BY <2>1 DEF Custodian
    <3>2. settled = SettleFlexible(s, user, time, position, principal)
          /\ yield = GetYield(s.ledger, account) /\ vault # "staked"
      BY <2>1
    <3> DEFINE r == SettleFlexible(s, user, time, position, principal)
               u == r.store
               acc == PositionAccount(user, time)
               y == GetYield(s.ledger, acc)
    <3>3. /\ r.ok \in BOOLEAN
          /\ GoodStore(u)
          /\ SameBooks(u, s) /\ u.totalFlexible = s.totalFlexible - principal
          /\ Charges(u, s, position, principal)
          /\ Bystanders(u, s, {FlexibleVault, user, acc})
          /\ u.ledger.balance[user] >= s.ledger.balance[user]
          /\ Spares(u.ledger, s.ledger, Account \ {FlexibleVault})
          /\ y \in Nat
          /\ r.ok => u.ledger.balance[acc] = s.ledger.balance[acc] + y
          /\ ~r.ok => u.ledger.balance[acc] = s.ledger.balance[acc]
          /\ /\ RewardsSafe(s)
             /\ \A i \in DOMAIN s.rewards :
                    i > position.index => principal <= s.rewards[i].total
             => RewardsSafe(u)
      <4> HIDE DEF position
      <4> QED BY <1>1, <1>2, <1>4, <2>1, SettleEffect
    <3>4. settled = r /\ c = u /\ account = acc /\ yield = y
      BY <3>1, <3>2
    <3>5. Fits => RewardsSafe(c)
      BY <2>1, <3>3, <3>4
    <3> HIDE DEF account, position, settled, yield, r, u, acc, y, c, Fits
    <3> QED BY <2>1, <3>2, <3>3, <3>4, <3>5
  <2>2. CASE vault = "staked"
    <3>1. settled = Ok(s) /\ c = s /\ settled.ok = TRUE /\ yield = 0 /\ vault # "flexible"
      BY <2>2 DEF Ok
    <3>2. \A a \in Account : s.ledger.balance[a] \in Nat
      BY <1>1 DEF Sound, LedgerType, Address
    <3>3. \A i \in DOMAIN s.rewards : s.rewards[i].total \in Int
      BY <1>1 DEF Records, RecordType
    <3> HIDE DEF settled, yield, c, account
    <3>4. Charges(c, s, position, principal)
      BY <1>4, <3>1, <3>3 DEF Charges
    <3>5. SameBooks(c, s) /\ Bystanders(c, s, {FlexibleVault, user, account})
      BY <3>1 DEF SameBooks, Bystanders
    <3>6. /\ settled.ok \in BOOLEAN /\ GoodStore(c) /\ yield \in Nat
          /\ settled.ok => c.ledger.balance[account] = s.ledger.balance[account] + yield
          /\ ~settled.ok => c.ledger.balance[account] = s.ledger.balance[account]
          /\ c.ledger.balance[user] >= s.ledger.balance[user]
      <4>1. s.ledger.balance[account] \in Nat /\ s.ledger.balance[user] \in Nat
        BY <1>5, <3>2
      <4>2. settled.ok \in BOOLEAN /\ settled.ok
        BY <3>1
      <4>3. /\ c.ledger.balance[account] = s.ledger.balance[account] + yield
            /\ c.ledger.balance[user] >= s.ledger.balance[user]
        BY <3>1, <4>1
      <4>4. GoodStore(c) /\ yield \in Nat
        BY <3>1
      <4> QED BY <4>2, <4>3, <4>4
    <3>7. Fits => RewardsSafe(c)
      BY <3>1
    <3>8. Spares(c.ledger, s.ledger, Account \ {FlexibleVault})
      BY <1>1, <3>1, SparesReflexive
    <3> HIDE DEF Fits
    <3> QED BY <2>2, <3>1, <3>4, <3>5, <3>6, <3>7, <3>8
  <2> QED BY <2>1, <2>2 DEF Vault
<1>7. payout = amount + yield
  BY <1>3, <1>6 DEF AmountToSend
<1>8. result = IF ~settled.ok \/ ~CanSend(c.ledger, account, user, payout)
               THEN [ok |-> FALSE, store |-> c, left |-> left, removed |-> removed]
               ELSE [ok |-> TRUE, store |-> paid, left |-> left - amount,
                     removed |-> removed + principal]
  <2>1. call.ok = TRUE /\ call.store = s /\ call.left = left /\ call.removed = removed
    OBVIOUS
  <2>2. left # 0
    OBVIOUS
  <2> HIDE DEF call
  <2> QED BY <2>1, <2>2 DEF UnlockPosition, amount, principal
<1> HIDE DEF call, result, settled, c, account, position, key, yield, payout
<1>9. CASE ~settled.ok \/ ~CanSend(c.ledger, account, user, payout)
  <2>1. result = [ok |-> FALSE, store |-> c, left |-> left, removed |-> removed]
    BY <1>8, <1>9
  <2>2. c.ledger.balance[account] >= s.ledger.balance[account]
    <3>1. s.ledger.balance[account] \in Nat
      BY <1>1, <1>5 DEF Sound, LedgerType, Address
    <3> QED BY <1>6, <3>1
  <2>3. /\ result.ok = FALSE /\ result.store = c /\ result.left = left
        /\ result.removed = removed
    BY <2>1
  <2>4. /\ c.positions = s.positions /\ c.stats.users = s.stats.users
        /\ c.stats.principal = s.stats.principal /\ c.ledger.index = s.ledger.index
    BY <1>6 DEF SameBooks
  <2>5. Spares(c.ledger, s.ledger, Account \ {FlexibleVault, account})
    BY <1>6, SparesFewer
  <2> QED BY <1>3, <1>4, <1>5, <1>6, <2>1, <2>2, <2>3, <2>4, <2>5
          DEF call, result, key, position, amount, principal, account
<1>10. CASE settled.ok /\ CanSend(c.ledger, account, user, payout)
  <2>1. result = [ok |-> TRUE, store |-> paid, left |-> left - amount,
                  removed |-> removed + principal]
    BY <1>8, <1>10
  <2>2. /\ Sound(c.ledger) /\ Book(c.positions) /\ c.totalFlexible \in Int
        /\ Records(c.rewards, c.ledger.index) /\ c.stats \in StatsType
        /\ c = [ledger |-> c.ledger, positions |-> c.positions,
                totalFlexible |-> c.totalFlexible, rewards |-> c.rewards,
                stats |-> c.stats]
    BY <1>6, StoreParts
  <2>3. /\ Sound(m)
        /\ m.index = c.ledger.index
        /\ m.balance[account] = c.ledger.balance[account] - payout
        /\ m.balance[user] = c.ledger.balance[user] + payout
        /\ \A a \in Account \ {account, user} :
              /\ m.balance[a] = c.ledger.balance[a]
              /\ m.principal[a] = c.ledger.principal[a]
        /\ Spares(m, c.ledger, Account \ {account})
    <3>1. c.ledger.balance[account] >= payout /\ payout \in Nat
      BY <1>3, <1>6, <1>7, <1>10 DEF CanSend
    <3> QED BY <1>5, <2>2, <3>1, Payment
  <2>4. /\ c.positions = s.positions /\ c.stats.users = s.stats.users
        /\ c.stats.principal = s.stats.principal /\ c.ledger.index = s.ledger.index
    BY <1>6 DEF SameBooks
  <2>5. Book(qs)
    <3>1. key \in DOMAIN s.positions /\ amount <= s.positions[key].amount
      BY <1>3 DEF key, position
    <3>2. principal = PrincipalToRemove(s.positions[key], amount)
      BY DEF principal, position
    <3> QED BY <1>1, <1>3, <2>4, <3>1, <3>2, Removal
  <2>6. qs = RemoveFromPosition(s.positions, key, amount, principal)
    BY <2>4
  <2> HIDE DEF m, qs
  <2>7. paid = [ledger |-> m, positions |-> qs, totalFlexible |-> c.totalFlexible,
                rewards |-> c.rewards, stats |-> c.stats]
    <3> DEFINE d == [c EXCEPT !.ledger = m]
    <3>1. paid = [d EXCEPT !.positions = qs]
      BY PaidUpdates
    <3>2. d = [ledger |-> m, positions |-> c.positions, totalFlexible |-> c.totalFlexible,
               rewards |-> c.rewards, stats |-> c.stats]
      BY <2>2, SetLedger
    <3> HIDE DEF d, paid
    <3> QED BY <3>1, <3>2, SetPositions
  <2> HIDE DEF paid
  <2>8. /\ paid.ledger = m /\ paid.positions = qs /\ paid.totalFlexible = c.totalFlexible
        /\ paid.rewards = c.rewards /\ paid.stats = c.stats
    BY <2>7
  <2>9. GoodStore(paid)
    BY <2>2, <2>3, <2>5, <2>7, MakeStore
  <2>10. Charges(paid, s, position, principal)
    BY <1>6, <2>8 DEF Charges
  <2>11. Bystanders(paid, s, {FlexibleVault, user, account})
    BY <1>6, <2>3, <2>8 DEF Bystanders
  <2>12. /\ m.balance[account] = s.ledger.balance[account] - amount
         /\ m.balance[user] >= s.ledger.balance[user] + amount
    <3>1. /\ s.ledger.balance[account] \in Int /\ s.ledger.balance[user] \in Int
          /\ c.ledger.balance[user] \in Int
      BY <1>1, <1>5, <2>2 DEF Sound, LedgerType, Address
    <3> QED BY <1>3, <1>6, <1>7, <1>10, <2>3, <3>1
  <2>13. Fits => RewardsSafe(paid)
    BY <1>5, <1>6, <2>3, <2>8 DEF RewardsSafe, RewardsOf
  <2>14. /\ result.ok = TRUE /\ result.store = paid /\ result.left = left - amount
         /\ result.removed = removed + principal
    BY <2>1
  <2>15. Spares(paid.ledger, s.ledger, Account \ {FlexibleVault, account})
    <3> DEFINE B == Account \ {FlexibleVault, account}
    <3>1. Spares(m, c.ledger, B) /\ Spares(c.ledger, s.ledger, B)
      BY <1>6, <2>3, SparesFewer
    <3>2. Spares(m, s.ledger, B)
      BY <1>1, <3>1, SparesTransitive
    <3> QED BY <2>8, <3>2
  <2> QED BY <1>3, <1>4, <1>5, <1>6, <2>1, <2>3, <2>4, <2>6, <2>8, <2>9, <2>10, <2>11, <2>12,
             <2>13, <2>14, <2>15
          DEF call, result, key, position, amount, principal, account
<1> QED BY <1>6, <1>9, <1>10

-----------------------------------------------------------------------------
(* What unlocking leaves of a store. *)

OfUser(ps, user) == {k \in DOMAIN ps : k[1] = user}
InVault(ps, vault) == {k \in DOMAIN ps : k[2] = vault}

\* The Flexible positions of some users that are older than a record.
Earlier(ps, A, i) ==
    {k \in DOMAIN ps : k[1] \in A /\ k[2] = "flexible" /\ ps[k].index < i}

\* What a user owns in a store.
Owned(s, user) == s.ledger.balance[user] + Held(s.positions, OfUser(s.positions, user))

\* PositionsBacked, of a store.
Backed(s) ==
    /\ s.ledger.balance[StakedVault] >= Held(s.positions, InVault(s.positions, "staked"))
    /\ \A k \in InVault(s.positions, "flexible") :
           s.ledger.balance[PositionAccount(k[1], k[3])] >= s.positions[k].amount

\* RewardsNotOvershared, of a store and the positions of some users.
SharedBy(s, A) ==
    \A i \in DOMAIN s.rewards :
        s.rewards[i].total >= WorthOf(s.positions, Earlier(s.positions, A, i))

\* Nobody owns less than before.
NoLoss(t, s) == \A u \in User : Owned(t, u) >= Owned(s, u)

\* The accounts that hold coins for the vaults.
Custody ==
    {StakedVault, FlexibleVault}
        \cup {PositionAccount(u, x) : u \in User, x \in {y \in Time : y <= SeasonEnd}}

\* Nobody owns less, and only the custody accounts may have paid.
Harmless(t, s) == NoLoss(t, s) /\ Spares(t.ledger, s.ledger, Account \ Custody)

\* The positions of one vault lost at least some principal, the others none.
Lighter(t, s, vault, principal) ==
    \A v \in Vault : WorthOf(t.positions, InVault(t.positions, v))
                         <= WorthOf(s.positions, InVault(s.positions, v))
                            - (IF v = vault THEN principal ELSE 0)

\* Only the positions of some keys changed; none changed its index.
OnlyTouched(t, s, K) ==
    /\ DOMAIN t.positions \subseteq DOMAIN s.positions
    /\ DOMAIN s.positions \ K \subseteq DOMAIN t.positions
    /\ \A k \in DOMAIN t.positions : t.positions[k].index = s.positions[k].index
    /\ \A k \in DOMAIN t.positions \ K : t.positions[k] = s.positions[k]

\* Sums over part of the positions are not larger than over more of them.
LEMMA BookWithin ==
  ASSUME NEW ps, Book(ps), NEW L \in SUBSET DOMAIN ps, NEW K \in SUBSET L
  PROVE  /\ Held(ps, K) <= Held(ps, L) /\ WorthOf(ps, K) <= WorthOf(ps, L)
         /\ \A k \in L \ K : WorthOf(ps, K) + Worth(ps[k]) <= WorthOf(ps, L)
<1> DEFINE f == [k \in DOMAIN ps |-> ps[k].amount]
           h == [k \in DOMAIN ps |-> Worth(ps[k])]
<1>1. IsFiniteSet(L) /\ \A k \in L : f[k] \in Nat /\ h[k] \in Nat
  BY BookSums
<1>2. \A k \in L : h[k] = Worth(ps[k])
  OBVIOUS
<1> HIDE DEF f, h
<1>3. SumFunctionOnSet(f, K) <= SumFunctionOnSet(f, L)
      /\ SumFunctionOnSet(h, K) <= SumFunctionOnSet(h, L)
  BY <1>1, PartWithin
<1>4. ASSUME NEW k \in L \ K
      PROVE  SumFunctionOnSet(h, K) + h[k] <= SumFunctionOnSet(h, L)
  <2> DEFINE R == L \ {k}
  <2>1. K \in SUBSET R /\ IsFiniteSet(R) /\ \A x \in R : h[x] \in Nat
    BY <1>1, <1>4, FS_RemoveElement
  <2>2. SumFunctionOnSet(h, R) = SumFunctionOnSet(h, L) - h[k]
    <3>1. k \in L /\ (\A x \in L : h[x] \in Int) /\ (\A x \in L \ {k} : h[x] = h[x])
      BY <1>1, <1>4
    <3> QED BY <1>1, <3>1, PartRemove
  <2> HIDE DEF R
  <2>3. SumFunctionOnSet(h, K) <= SumFunctionOnSet(h, R)
    BY <2>1, PartWithin
  <2>4. /\ SumFunctionOnSet(h, L) \in Nat /\ SumFunctionOnSet(h, K) \in Nat
        /\ SumFunctionOnSet(h, R) \in Nat /\ h[k] \in Nat
    <3>1. IsFiniteSet(K)
      BY <2>1, FS_Subset
    <3> QED BY <1>1, <2>1, <3>1, PartType
  <2> QED BY <2>2, <2>3, <2>4
<1> QED BY <1>2, <1>3, <1>4 DEF Held, WorthOf, f, h

\* Sums over positions that two books have in common are the same.
LEMMA BookSame ==
  ASSUME NEW ps, Book(ps), NEW qs, NEW K \in SUBSET DOMAIN ps,
         K \subseteq DOMAIN qs, \A k \in K : qs[k] = ps[k]
  PROVE  Held(qs, K) = Held(ps, K) /\ WorthOf(qs, K) = WorthOf(ps, K)
<1> DEFINE f == [k \in DOMAIN ps |-> ps[k].amount]
           h == [k \in DOMAIN ps |-> Worth(ps[k])]
           ff == [k \in DOMAIN qs |-> qs[k].amount]
           hh == [k \in DOMAIN qs |-> Worth(qs[k])]
<1>1. IsFiniteSet(K) /\ \A k \in K : ps[k].amount \in Nat /\ Worth(ps[k]) \in Nat
  BY BookSums
<1>2. \A k \in K : ff[k] = f[k] /\ f[k] \in Int /\ hh[k] = h[k] /\ h[k] \in Int
  BY <1>1
<1> HIDE DEF f, h, ff, hh
<1>3. /\ SumFunctionOnSet(ff, K) = SumFunctionOnSet(f, K)
      /\ SumFunctionOnSet(hh, K) = SumFunctionOnSet(h, K)
  BY <1>1, <1>2, PartSame
<1> QED BY <1>3 DEF Held, WorthOf, f, h, ff, hh

\* The types that arithmetic on a store needs.
LEMMA StoreNumbers ==
  ASSUME NEW s, GoodStore(s)
  PROVE  /\ \A a \in Account : s.ledger.balance[a] \in Nat /\ s.ledger.principal[a] \in Int
         /\ s.ledger.index \in Nat \ {0} /\ s.totalFlexible \in Int
         /\ \A u : Held(s.positions, OfUser(s.positions, u)) \in Nat
         /\ \A v : /\ Held(s.positions, InVault(s.positions, v)) \in Nat
                   /\ WorthOf(s.positions, InVault(s.positions, v)) \in Nat
         /\ \A A, i : WorthOf(s.positions, Earlier(s.positions, A, i)) \in Nat
         /\ \A u \in User : Owned(s, u) \in Nat
         /\ \A i \in DOMAIN s.rewards :
               i \in Nat /\ s.rewards[i].total \in Int /\ s.rewards[i].rewards \in Int
         /\ \A k \in DOMAIN s.positions :
               /\ k \in Keys /\ s.positions[k] \in Position
               /\ s.positions[k].index \in Nat /\ s.positions[k].amount \in Nat
<1>1. /\ \A a \in Account : s.ledger.balance[a] \in Nat /\ s.ledger.principal[a] \in Int
      /\ s.ledger.index \in Nat \ {0} /\ s.totalFlexible \in Int
  BY DEF GoodStore, StoreType, Sound, LedgerType, Address
<1>2. Book(s.positions)
  BY DEF GoodStore
<1>3. \A u : OfUser(s.positions, u) \in SUBSET DOMAIN s.positions
  BY DEF OfUser
<1>4. \A v : InVault(s.positions, v) \in SUBSET DOMAIN s.positions
  BY DEF InVault
<1>5. \A A, i : Earlier(s.positions, A, i) \in SUBSET DOMAIN s.positions
  BY DEF Earlier
<1>6. /\ \A u : Held(s.positions, OfUser(s.positions, u)) \in Nat
      /\ \A v : /\ Held(s.positions, InVault(s.positions, v)) \in Nat
                /\ WorthOf(s.positions, InVault(s.positions, v)) \in Nat
      /\ \A A, i : WorthOf(s.positions, Earlier(s.positions, A, i)) \in Nat
  BY <1>2, <1>3, <1>4, <1>5, BookSums
<1>7. \A u \in User : Owned(s, u) \in Nat
  <2> TAKE u \in User
  <2>1. u \in Account
    BY VaultsAssumption
  <2>2. s.ledger.balance[u] \in Nat /\ Held(s.positions, OfUser(s.positions, u)) \in Nat
    BY <1>1, <1>6, <2>1
  <2> QED BY <2>2 DEF Owned
<1>8. \A i \in DOMAIN s.rewards :
          i \in Nat /\ s.rewards[i].total \in Int /\ s.rewards[i].rewards \in Int
  BY DEF GoodStore, Records, RecordType
<1>9. \A k \in DOMAIN s.positions :
          /\ k \in Keys /\ s.positions[k] \in Position
          /\ s.positions[k].index \in Nat /\ s.positions[k].amount \in Nat
  BY <1>2 DEF Book, Position
<1> QED BY <1>1, <1>6, <1>7, <1>8, <1>9

\* No part of a position is worth more than the whole.
LEMMA PartWorth ==
  ASSUME NEW p \in Position, NEW amount \in Nat, amount <= p.amount
  PROVE  PrincipalToRemove(p, amount) \in Nat /\ PrincipalToRemove(p, amount) <= Worth(p)
<1>1. p.index \in Nat \ {0} /\ p.amount \in Nat
  BY DEF Position
<1> DEFINE x == GetPrincipalAmountRoundedDown(p.amount, p.index)
           y == GetPrincipalAmountRoundedDown(amount, p.index)
           z == GetPrincipalAmountRoundedDown(p.amount - amount, p.index)
<1>2. x \in Nat /\ y \in Nat
  BY <1>1, RoundedDownBounds
<1>3. z \in Nat
  <2>1. p.amount - amount \in Nat
    BY <1>1
  <2> QED BY <1>1, <2>1, RoundedDownBounds
<1>4. z <= x - y
  BY <1>1, RoundedDownParts
<1> HIDE DEF x, y, z
<1>5. y <= x
  BY <1>2, <1>3, <1>4
<1> QED BY <1>2, <1>5 DEF x, y, PrincipalToRemove, Worth

\* What one round of unlock keeps of a store whose positions are backed.
LEMMA RoundKept ==
  ASSUME NEW s, GoodStore(s), Backed(s), NEW user \in User, NEW vault \in Vault, NEW time,
         <<user, vault, time>> \in DOMAIN s.positions,
         NEW left \in Nat, left > 0, NEW removed \in Int, NEW A, user \in A
  PROVE  LET call == [ok |-> TRUE, store |-> s, left |-> left, removed |-> removed]
             result == UnlockPosition(call, user, vault, time)
             t == result.store
             taken == result.removed - removed
         IN  /\ result = [ok |-> result.ok, store |-> t, left |-> result.left,
                          removed |-> result.removed]
             /\ result.ok \in BOOLEAN /\ result.left \in Nat /\ result.removed \in Int
             /\ GoodStore(t) /\ Backed(t) /\ Harmless(t, s)
             /\ OnlyTouched(t, s, {<<user, vault, time>>})
             /\ Lighter(t, s, vault, taken)
             /\ t.stats.users = s.stats.users /\ t.stats.principal = s.stats.principal
             /\ t.ledger.index = s.ledger.index
             /\ vault = "staked" =>
                   t.totalFlexible = s.totalFlexible /\ t.rewards = s.rewards
             /\ vault = "flexible" /\ result.ok =>
                   t.totalFlexible = s.totalFlexible - taken
             /\ (vault = "staked" \/ SharedBy(s, A)) /\ RewardsSafe(s) => RewardsSafe(t)
             /\ SharedBy(s, A) /\ result.ok => SharedBy(t, A)
             /\ SharedBy(s, A) => SharedBy(t, A \ {user})
<1> DEFINE call == [ok |-> TRUE, store |-> s, left |-> left, removed |-> removed]
           result == UnlockPosition(call, user, vault, time)
           t == result.store
           key == <<user, vault, time>>
           position == s.positions[key]
           amount == IF position.amount > left THEN left ELSE position.amount
           principal == PrincipalToRemove(position, amount)
           account == Custodian(user, vault, time)
           taken == result.removed - removed
           E(i) == Earlier(s.positions, A, i)
<1>1. /\ amount \in Nat /\ amount > 0 /\ amount <= left /\ amount <= position.amount
      /\ principal \in Nat
      /\ account \in Account /\ account # user /\ account # FlexibleVault
      /\ result = [ok |-> result.ok, store |-> t, left |-> result.left,
                   removed |-> result.removed]
      /\ result.ok \in BOOLEAN
      /\ GoodStore(t)
      /\ t.stats.users = s.stats.users /\ t.stats.principal = s.stats.principal
      /\ t.ledger.index = s.ledger.index
      /\ Bystanders(t, s, {FlexibleVault, user, account})
      /\ Spares(t.ledger, s.ledger, Account \ {FlexibleVault, account})
      /\ Charges(t, s, position, principal)
      /\ result.ok =>
            /\ t.positions = RemoveFromPosition(s.positions, key, amount, principal)
            /\ result.left = left - amount /\ result.removed = removed + principal
            /\ t.ledger.balance[account] = s.ledger.balance[account] - amount
            /\ t.ledger.balance[user] >= s.ledger.balance[user] + amount
            /\ vault = "flexible" => t.totalFlexible = s.totalFlexible - principal
      /\ ~result.ok =>
            /\ t.positions = s.positions
            /\ result.left = left /\ result.removed = removed
            /\ t.ledger.balance[account] >= s.ledger.balance[account]
            /\ t.ledger.balance[user] >= s.ledger.balance[user]
      /\ vault = "staked" =>
            t.totalFlexible = s.totalFlexible /\ t.rewards = s.rewards
      /\ /\ RewardsSafe(s)
         /\ vault = "flexible" =>
               \A i \in DOMAIN s.rewards :
                   i > position.index => principal <= s.rewards[i].total
         => RewardsSafe(t)
  BY UnlockPositionEffect, ZenonT(40)
<1>2. principal = PrincipalToRemove(s.positions[key], amount)
  OBVIOUS
<1>3. key[1] = user /\ key[2] = vault /\ key[3] = time /\ key \in DOMAIN s.positions
  OBVIOUS
<1>4. /\ vault = "flexible" => account = PositionAccount(user, time)
      /\ vault # "flexible" => account = StakedVault
  BY DEF Custodian
<1>5. vault = "flexible" => time \in Time /\ time <= SeasonEnd
  <2>1. key \in Keys
    BY <1>3, StoreNumbers
  <2> QED BY <2>1 DEF Keys
<1> HIDE DEF result, key, amount, account
<1>6. /\ \A a \in Account : s.ledger.balance[a] \in Nat /\ t.ledger.balance[a] \in Nat
      /\ \A i \in DOMAIN s.rewards :
            i \in Nat /\ s.rewards[i].total \in Int
      /\ position \in Position /\ position.index \in Nat /\ position.amount \in Nat
      /\ Book(s.positions) /\ Book(t.positions)
  BY <1>1, <1>3, StoreNumbers DEF GoodStore
<1>7. \A i \in DOMAIN t.rewards : t.rewards[i].total \in Int
  BY <1>1, StoreNumbers
<1>8. principal <= Worth(position) /\ Worth(position) \in Nat
  <2>1. PrincipalToRemove(position, amount) <= Worth(position)
    BY <1>1, <1>6, PartWorth
  <2>2. Worth(position) \in Nat
    BY <1>3, <1>6, BookSums
  <2> QED BY <1>2, <2>1, <2>2
<1> HIDE DEF principal
<1>9. ASSUME NEW i \in DOMAIN s.rewards
      PROVE  /\ E(i) \in SUBSET DOMAIN s.positions
             /\ WorthOf(s.positions, E(i)) \in Nat
             /\ Earlier(s.positions, A \ {user}, i) \in SUBSET E(i)
             /\ key \notin Earlier(s.positions, A \ {user}, i)
             /\ key \in E(i) <=> vault = "flexible" /\ i > position.index
  <2>1. position.index < i <=> i > position.index
    BY <1>6
  <2> QED BY <1>3, <2>1, StoreNumbers, ZenonT(60) DEF Earlier
<1> HIDE DEF E
<1>10. vault = "flexible" /\ SharedBy(s, A) =>
          \A i \in DOMAIN s.rewards : i > position.index => principal <= s.rewards[i].total
  <2> SUFFICES ASSUME vault = "flexible", SharedBy(s, A), NEW i \in DOMAIN s.rewards,
                      i > position.index
               PROVE  principal <= s.rewards[i].total
    OBVIOUS
  <2>1. key \in E(i) /\ E(i) \in SUBSET DOMAIN s.positions
    BY <1>9
  <2>2. WorthOf(s.positions, {}) + Worth(position) <= WorthOf(s.positions, E(i))
    <3>1. {} \in SUBSET E(i) /\ key \in E(i) \ {}
      BY <2>1
    <3> QED BY <1>6, <2>1, <3>1, BookWithin
  <2>3. WorthOf(s.positions, {}) \in Nat
    BY <1>6, BookSums
  <2>4. s.rewards[i].total >= WorthOf(s.positions, E(i))
    BY DEF SharedBy, E
  <2> HIDE DEF position
  <2> QED BY <1>1, <1>6, <1>8, <1>9, <2>2, <2>3, <2>4
<1>11. (vault = "staked" \/ SharedBy(s, A)) /\ RewardsSafe(s) => RewardsSafe(t)
  <2>1. ASSUME vault = "staked" \/ SharedBy(s, A), RewardsSafe(s) PROVE RewardsSafe(t)
    <3>1. vault = "flexible" =>
               \A i \in DOMAIN s.rewards :
                   i > position.index => principal <= s.rewards[i].total
      BY <1>10, <2>1
    <3> QED BY <1>1, <2>1, <3>1
  <2> QED BY <2>1
<1>12. Spares(t.ledger, s.ledger, Account \ Custody)
  <2>1. {FlexibleVault, account} \subseteq Custody
    BY <1>4, <1>5 DEF Custody, Vault
  <2>2. Account \ Custody \in SUBSET (Account \ {FlexibleVault, account})
    BY <2>1
  <2> QED BY <1>1, <2>2, SparesFewer
<1> HIDE DEF position, t
<1>13. CASE ~result.ok
  <2>1. t.positions = s.positions /\ result.left = left /\ result.removed = removed
    BY <1>1, <1>13
  <2>2. taken = 0
    BY <2>1
  <2>3. \A a \in Account \ {FlexibleVault} : t.ledger.balance[a] >= s.ledger.balance[a]
    BY <1>1, <1>6, <1>13 DEF Bystanders
  <2>4. Backed(t)
    <3>1. StakedVault \in Account /\ StakedVault # FlexibleVault
          /\ \A k \in InVault(s.positions, "flexible") :
                PositionAccount(k[1], k[3]) \in Account \ {FlexibleVault}
      <4>1. \A k \in InVault(s.positions, "flexible") :
               k[1] \in User /\ k[3] \in Time /\ k[3] <= SeasonEnd
        BY <1>6 DEF Book, Keys, InVault
      <4> QED BY <4>1, PositionAccounts, VaultsAssumption, TokenAssumption
    <3>2. /\ Held(s.positions, InVault(s.positions, "staked")) \in Nat
          /\ \A k \in InVault(s.positions, "flexible") : s.positions[k].amount \in Nat
      BY StoreNumbers DEF InVault
    <3>3. t.ledger.balance[StakedVault] >= Held(s.positions, InVault(s.positions, "staked"))
      BY <1>6, <2>3, <3>1, <3>2 DEF Backed
    <3>4. ASSUME NEW k \in InVault(s.positions, "flexible")
          PROVE  t.ledger.balance[PositionAccount(k[1], k[3])] >= s.positions[k].amount
      <4> DEFINE a == PositionAccount(k[1], k[3])
      <4>1. s.ledger.balance[a] >= s.positions[k].amount /\ s.positions[k].amount \in Nat
        BY <3>2 DEF Backed
      <4>2. a \in Account \ {FlexibleVault}
        BY <3>1
      <4> HIDE DEF a
      <4>3. /\ t.ledger.balance[a] >= s.ledger.balance[a]
            /\ t.ledger.balance[a] \in Nat /\ s.ledger.balance[a] \in Nat
        BY <1>6, <2>3, <4>2
      <4>4. t.ledger.balance[a] >= s.positions[k].amount
        BY <4>1, <4>3
      <4> QED BY <4>4 DEF a
    <3> QED BY <2>1, <3>3, <3>4 DEF Backed
  <2>5. Harmless(t, s)
    <3> SUFFICES ASSUME NEW u \in User PROVE Owned(t, u) >= Owned(s, u)
      BY <1>12 DEF Harmless, NoLoss
    <3>1. u \in Account \ {FlexibleVault}
      BY VaultsAssumption
    <3>2. t.ledger.balance[u] >= s.ledger.balance[u]
          /\ t.ledger.balance[u] \in Nat /\ s.ledger.balance[u] \in Nat
      BY <1>6, <2>3, <3>1
    <3>3. Held(s.positions, OfUser(s.positions, u)) \in Nat
      BY StoreNumbers
    <3> QED BY <2>1, <3>2, <3>3 DEF Owned
  <2>6. OnlyTouched(t, s, {key})
    BY <2>1 DEF OnlyTouched
  <2>7. Lighter(t, s, vault, taken)
    <3>1. \A v : WorthOf(s.positions, InVault(s.positions, v)) \in Nat
      BY StoreNumbers
    <3> HIDE DEF taken
    <3> QED BY <2>1, <2>2, <3>1 DEF Lighter
  <2>8. SharedBy(s, A) => SharedBy(t, A \ {user})
    <3> SUFFICES ASSUME SharedBy(s, A), NEW i \in DOMAIN s.rewards
                 PROVE  t.rewards[i].total
                            >= WorthOf(s.positions, Earlier(s.positions, A \ {user}, i))
      BY <1>1, <2>1 DEF SharedBy, Charges
    <3> DEFINE F == Earlier(s.positions, A \ {user}, i)
               x == WorthOf(s.positions, F)
               y == WorthOf(s.positions, E(i))
    <3>1. /\ E(i) \in SUBSET DOMAIN s.positions /\ F \in SUBSET E(i) /\ key \notin F
          /\ key \in E(i) <=> vault = "flexible" /\ i > position.index
      BY <1>9
    <3>2. s.rewards[i].total >= y /\ s.rewards[i].total \in Int /\ t.rewards[i].total \in Int
      BY <1>1, <1>6, <1>7 DEF SharedBy, E, Charges
    <3> HIDE DEF F
    <3>3. /\ x \in Nat /\ y \in Nat /\ x <= y
          /\ key \in E(i) => x + Worth(position) <= y
      <4>1. \A k \in E(i) \ F : x + Worth(s.positions[k]) <= y
        BY <1>6, <3>1, BookWithin
      <4>2. x <= y
        BY <1>6, <3>1, BookWithin
      <4>3. x \in Nat /\ y \in Nat
        <5>1. F \in SUBSET DOMAIN s.positions
          BY <3>1
        <5> QED BY <1>6, <3>1, <5>1, BookSums
      <4> QED BY <3>1, <4>1, <4>2, <4>3 DEF position
    <3> HIDE DEF x, y
    <3>4. CASE vault = "flexible" /\ i > position.index
      <4>1. t.rewards[i].total >= s.rewards[i].total - principal
        BY <1>1 DEF Charges
      <4>2. x + Worth(position) <= y
        BY <3>1, <3>3, <3>4
      <4>3. t.rewards[i].total >= x
        BY <1>1, <1>8, <3>2, <3>3, <4>1, <4>2
      <4> QED BY <4>3 DEF x, F
    <3>5. CASE vault # "flexible"
      <4>1. t.rewards = s.rewards
        BY <1>1, <3>5 DEF Vault
      <4>2. t.rewards[i].total >= x
        BY <3>2, <3>3, <4>1
      <4> QED BY <4>2 DEF x, F
    <3>6. CASE ~ (i > position.index)
      <4>1. t.rewards[i].total = s.rewards[i].total
        <5>1. i <= position.index
          BY <1>6, <3>6
        <5> QED BY <1>1, <5>1 DEF Charges
      <4>2. t.rewards[i].total >= x
        BY <3>2, <3>3, <4>1
      <4> QED BY <4>2 DEF x, F
    <3> QED BY <3>4, <3>5, <3>6
  <2> QED BY <1>1, <1>11, <1>13, <2>1, <2>4, <2>5, <2>6, <2>7, <2>8 DEF t, key, result
<1>14. CASE result.ok
  <2> DEFINE qs == t.positions
  <2>1. /\ t.positions = RemoveFromPosition(s.positions, key, amount, principal)
        /\ result.left = left - amount /\ result.removed = removed + principal
        /\ t.ledger.balance[account] = s.ledger.balance[account] - amount
        /\ t.ledger.balance[user] >= s.ledger.balance[user] + amount
        /\ vault = "flexible" => t.totalFlexible = s.totalFlexible - principal
    BY <1>1, <1>14
  <2>2. taken = principal
    BY <1>1, <2>1
  <2> HIDE DEF taken
  <2>3. /\ DOMAIN qs \subseteq DOMAIN s.positions
        /\ DOMAIN s.positions \ {key} \subseteq DOMAIN qs
        /\ \A k \in DOMAIN qs : qs[k].index = s.positions[k].index
        /\ \A k \in DOMAIN qs \ {key} : qs[k] = s.positions[k]
        /\ key \in DOMAIN qs => qs[key].amount = position.amount - amount
        /\ \A K \in SUBSET DOMAIN s.positions :
              /\ key \in K =>
                   /\ Held(qs, K \cap DOMAIN qs) = Held(s.positions, K) - amount
                   /\ WorthOf(qs, K \cap DOMAIN qs) <= WorthOf(s.positions, K) - principal
              /\ key \notin K =>
                   /\ Held(qs, K \cap DOMAIN qs) = Held(s.positions, K)
                   /\ WorthOf(qs, K \cap DOMAIN qs) = WorthOf(s.positions, K)
    <3> DEFINE pr == PrincipalToRemove(s.positions[key], amount)
               rs == RemoveFromPosition(s.positions, key, amount, pr)
    <3>1. Taken(rs, s.positions, key, amount, pr)
      <4>1. /\ amount \in Nat /\ amount > 0 /\ amount <= s.positions[key].amount
            /\ Book(s.positions) /\ key \in DOMAIN s.positions
        BY <1>1, <1>3, <1>6 DEF position
      <4> QED BY <4>1, Removal
    <3>2. pr = principal
      BY <1>2
    <3> HIDE DEF pr
    <3>3. rs = qs
      BY <2>1, <3>2
    <3> HIDE DEF rs, qs
    <3> QED BY <3>1, <3>2, <3>3 DEF position, Taken
  <2> HIDE DEF qs
  <2>4. /\ OnlyTouched(t, s, {key})
        /\ \A u : OfUser(qs, u) = OfUser(s.positions, u) \cap DOMAIN qs
        /\ \A v : InVault(qs, v) = InVault(s.positions, v) \cap DOMAIN qs
        /\ \A B, i : Earlier(qs, B, i) = Earlier(s.positions, B, i) \cap DOMAIN qs
    BY <2>3 DEF OnlyTouched, OfUser, InVault, Earlier, qs
  <2>5. Backed(t)
    <3>1. t.ledger.balance[StakedVault] >= Held(qs, InVault(qs, "staked"))
      <4> DEFINE K == InVault(s.positions, "staked")
                 x == Held(s.positions, K)
      <4>1. K \in SUBSET DOMAIN s.positions /\ (key \in K <=> vault = "staked")
        BY <1>3 DEF InVault
      <4>2. x \in Nat /\ s.ledger.balance[StakedVault] >= x
        BY StoreNumbers DEF Backed
      <4> HIDE DEF K
      <4>3. /\ vault = "staked" => Held(qs, InVault(qs, "staked")) = x - amount
            /\ vault # "staked" => Held(qs, InVault(qs, "staked")) = x
        BY <2>3, <2>4, <4>1 DEF K
      <4> HIDE DEF x
      <4>4. StakedVault \in Account /\ StakedVault # FlexibleVault /\ StakedVault # user
        BY VaultsAssumption, TokenAssumption
      <4>5. CASE vault = "staked"
        <5>1. account = StakedVault
          BY <1>4, <4>5
        <5>2. t.ledger.balance[StakedVault] = s.ledger.balance[StakedVault] - amount
          BY <2>1, <5>1
        <5> QED BY <1>1, <1>6, <4>2, <4>3, <4>4, <4>5, <5>2
      <4>6. CASE vault # "staked"
        <5>1. account # StakedVault
          BY <1>4, <1>5, <4>6, PositionAccounts DEF Vault
        <5>2. t.ledger.balance[StakedVault] = s.ledger.balance[StakedVault]
          BY <1>1, <4>4, <5>1 DEF Bystanders
        <5> QED BY <4>2, <4>3, <4>6, <5>2
      <4> QED BY <4>5, <4>6
    <3>2. ASSUME NEW k \in InVault(qs, "flexible")
          PROVE  t.ledger.balance[PositionAccount(k[1], k[3])] >= qs[k].amount
      <4> DEFINE a == PositionAccount(k[1], k[3])
      <4>1. k \in DOMAIN qs /\ k \in InVault(s.positions, "flexible") /\ k \in Keys
            /\ k[2] = "flexible"
        BY <1>6, <2>4 DEF InVault, Book, qs
      <4>2. /\ k[1] \in User /\ k[3] \in Time /\ k[3] <= SeasonEnd
            /\ k = <<k[1], k[2], k[3]>>
        BY <4>1 DEF Keys
      <4>3. s.ledger.balance[a] >= s.positions[k].amount /\ s.positions[k].amount \in Nat
        BY <4>1, StoreNumbers DEF Backed, InVault
      <4>4. a \in Account /\ a # FlexibleVault /\ a # StakedVault /\ a \notin User
        BY <4>2, PositionAccounts
      <4>5. CASE k = key
        <5>1. vault = "flexible" /\ account = a
          BY <1>3, <1>4, <4>1, <4>5
        <5>2. t.ledger.balance[a] = s.ledger.balance[a] - amount
          BY <2>1, <5>1
        <5>3. qs[k].amount = s.positions[k].amount - amount
          BY <2>3, <4>1, <4>5 DEF position
        <5> HIDE DEF a
        <5>4. t.ledger.balance[a] >= qs[k].amount
          BY <1>1, <1>6, <4>3, <4>4, <5>2, <5>3
        <5> QED BY <5>4 DEF a
      <4>6. CASE k # key
        <5>1. a # account
          <6>1. CASE vault = "flexible"
            <7>1. account = PositionAccount(user, time) /\ time \in Time /\ time <= SeasonEnd
              BY <1>4, <1>5, <6>1
            <7>2. k[1] # user \/ k[3] # time
              BY <4>1, <4>2, <4>6, <6>1 DEF key
            <7> QED BY <4>2, <7>1, <7>2, PositionAccounts
          <6>2. CASE vault # "flexible"
            BY <1>4, <4>4, <6>2
          <6> QED BY <6>1, <6>2
        <5>2. t.ledger.balance[a] = s.ledger.balance[a]
          BY <1>1, <4>4, <5>1 DEF Bystanders
        <5>3. qs[k] = s.positions[k]
          BY <2>3, <4>1, <4>6
        <5> HIDE DEF a
        <5>4. t.ledger.balance[a] >= qs[k].amount
          BY <4>3, <5>2, <5>3
        <5> QED BY <5>4 DEF a
      <4> QED BY <4>5, <4>6
    <3> QED BY <3>1, <3>2 DEF Backed, qs
  <2>6. Harmless(t, s)
    <3> SUFFICES ASSUME NEW u \in User PROVE Owned(t, u) >= Owned(s, u)
      BY <1>12 DEF Harmless, NoLoss
    <3> DEFINE K == OfUser(s.positions, u)
               x == Held(s.positions, K)
               y == Held(qs, OfUser(qs, u))
    <3>1. K \in SUBSET DOMAIN s.positions /\ (key \in K <=> u = user)
      BY <1>3 DEF OfUser
    <3>2. x \in Nat
      BY StoreNumbers
    <3>3. u \in Account /\ u # FlexibleVault
      BY VaultsAssumption
    <3> HIDE DEF K
    <3>4. /\ u = user => y = x - amount
          /\ u # user => y = x
      BY <2>3, <2>4, <3>1 DEF K
    <3>5. Owned(s, u) = s.ledger.balance[u] + x /\ Owned(t, u) = t.ledger.balance[u] + y
      BY DEF Owned, K, qs
    <3> HIDE DEF x, y
    <3>6. CASE u = user
      BY <1>1, <1>6, <2>1, <3>2, <3>3, <3>4, <3>5, <3>6
    <3>7. CASE u # user
      <4>1. account # u
        BY <1>4, <1>5, PositionAccounts, VaultsAssumption DEF Vault
      <4>2. t.ledger.balance[u] = s.ledger.balance[u]
        BY <1>1, <3>3, <3>7, <4>1 DEF Bystanders
      <4> QED BY <1>6, <3>2, <3>3, <3>4, <3>5, <3>7, <4>2
    <3> QED BY <3>6, <3>7
  <2>7. Lighter(t, s, vault, taken)
    <3> SUFFICES ASSUME NEW v \in Vault
                 PROVE  WorthOf(qs, InVault(qs, v))
                            <= WorthOf(s.positions, InVault(s.positions, v))
                               - (IF v = vault THEN principal ELSE 0)
      BY <2>2 DEF Lighter, qs
    <3> DEFINE K == InVault(s.positions, v)
               x == WorthOf(s.positions, K)
    <3>1. K \in SUBSET DOMAIN s.positions /\ (key \in K <=> v = vault)
      BY <1>3 DEF InVault
    <3>2. x \in Nat
      BY StoreNumbers
    <3> HIDE DEF K
    <3>3. /\ v = vault => WorthOf(qs, InVault(qs, v)) <= x - principal
          /\ v # vault => WorthOf(qs, InVault(qs, v)) = x
      BY <2>3, <2>4, <3>1 DEF K
    <3> HIDE DEF x
    <3>4. WorthOf(qs, InVault(qs, v)) <= x - (IF v = vault THEN principal ELSE 0)
      BY <3>2, <3>3
    <3> QED BY <3>4 DEF x, K
  <2>8. SharedBy(s, A) => SharedBy(t, A)
    <3> SUFFICES ASSUME SharedBy(s, A), NEW i \in DOMAIN s.rewards
                 PROVE  t.rewards[i].total >= WorthOf(qs, Earlier(qs, A, i))
      BY <1>1 DEF SharedBy, Charges, qs
    <3> DEFINE x == WorthOf(s.positions, E(i))
               z == WorthOf(qs, Earlier(qs, A, i))
    <3>1. /\ E(i) \in SUBSET DOMAIN s.positions /\ x \in Nat
          /\ key \in E(i) <=> vault = "flexible" /\ i > position.index
      BY <1>9
    <3>2. s.rewards[i].total >= x /\ s.rewards[i].total \in Int /\ t.rewards[i].total \in Int
      BY <1>1, <1>6, <1>7 DEF SharedBy, E, Charges
    <3>3. /\ key \in E(i) => z <= x - principal
          /\ key \notin E(i) => z = x
      BY <2>3, <2>4, <3>1 DEF E
    <3>4. z \in Nat
      BY <1>1, StoreNumbers DEF qs
    <3> HIDE DEF x, z
    <3>5. CASE vault = "flexible" /\ i > position.index
      <4>1. t.rewards[i].total >= s.rewards[i].total - principal
        BY <1>1 DEF Charges
      <4>2. z <= x - principal
        BY <3>1, <3>3, <3>5
      <4>3. t.rewards[i].total >= z
        BY <1>1, <3>1, <3>2, <3>4, <4>1, <4>2
      <4> QED BY <4>3 DEF z
    <3>6. CASE vault # "flexible"
      <4>1. t.rewards = s.rewards
        BY <1>1, <3>6 DEF Vault
      <4>2. t.rewards[i].total >= z
        BY <3>1, <3>2, <3>3, <3>6, <4>1
      <4> QED BY <4>2 DEF z
    <3>7. CASE ~ (i > position.index)
      <4>1. t.rewards[i].total = s.rewards[i].total
        <5>1. i <= position.index
          BY <1>6, <3>7
        <5> QED BY <1>1, <5>1 DEF Charges
      <4>2. t.rewards[i].total >= z
        BY <3>1, <3>2, <3>3, <3>7, <4>1
      <4> QED BY <4>2 DEF z
    <3> QED BY <3>5, <3>6, <3>7
  <2>9. SharedBy(t, A) => SharedBy(t, A \ {user})
    <3> SUFFICES ASSUME SharedBy(t, A), NEW i \in DOMAIN t.rewards
                 PROVE  t.rewards[i].total >= WorthOf(qs, Earlier(qs, A \ {user}, i))
      BY DEF SharedBy, qs
    <3> DEFINE F == Earlier(qs, A \ {user}, i)
               G == Earlier(qs, A, i)
    <3>1. F \in SUBSET G /\ G \in SUBSET DOMAIN qs
      BY DEF Earlier
    <3>2. WorthOf(qs, F) \in Nat /\ WorthOf(qs, G) \in Nat /\ t.rewards[i].total \in Int
      BY <1>1, StoreNumbers DEF qs
    <3>3. t.rewards[i].total >= WorthOf(qs, G)
      BY DEF SharedBy, qs
    <3> HIDE DEF F, G
    <3>4. WorthOf(qs, F) <= WorthOf(qs, G)
      BY <1>6, <3>1, BookWithin DEF qs
    <3>5. t.rewards[i].total >= WorthOf(qs, F)
      BY <3>2, <3>3, <3>4
    <3> QED BY <3>5 DEF F
  <2>10. result.left \in Nat /\ result.removed \in Int
    BY <1>1, <2>1
  <2>11. vault = "flexible" /\ result.ok => t.totalFlexible = s.totalFlexible - taken
    BY <2>1, <2>2
  <2> QED BY <1>1, <1>11, <1>14, <2>4, <2>5, <2>6, <2>7, <2>8, <2>9, <2>10, <2>11
          DEF t, key, result, taken
<1> QED BY <1>1, <1>13, <1>14

-----------------------------------------------------------------------------
(* Unlocking, position by position. *)

\* What a call returns between two rounds.
CallType == [ok : BOOLEAN, store : StoreType, left : Nat, removed : Int]

\* Where a call stands that has been through the positions of the keys K, of
\* what is in the store s: on success, whoever shared the records still does; on
\* failure, everyone but the user.
Unlocking(x, s, user, vault, K, A) ==
    /\ GoodStore(x.store) /\ Backed(x.store) /\ Harmless(x.store, s)
    /\ OnlyTouched(x.store, s, K)
    /\ Lighter(x.store, s, vault, x.removed)
    /\ x.store.stats.users = s.stats.users
    /\ x.store.stats.principal = s.stats.principal
    /\ x.store.ledger.index = s.ledger.index
    /\ vault = "staked" =>
          x.store.totalFlexible = s.totalFlexible /\ x.store.rewards = s.rewards
    /\ vault = "flexible" /\ x.ok =>
          x.store.totalFlexible = s.totalFlexible - x.removed
    /\ (vault = "staked" \/ SharedBy(s, A)) /\ RewardsSafe(s) => RewardsSafe(x.store)
    /\ SharedBy(s, A) /\ x.ok => SharedBy(x.store, A)
    /\ SharedBy(s, A) => SharedBy(x.store, A \ {user})

\* Fewer users share the records when more do.
LEMMA SharedByFewer ==
  ASSUME NEW s, GoodStore(s), NEW A, SharedBy(s, A), NEW B, B \subseteq A
  PROVE  SharedBy(s, B)
<1> SUFFICES ASSUME NEW i \in DOMAIN s.rewards
             PROVE  s.rewards[i].total >= WorthOf(s.positions, Earlier(s.positions, B, i))
  BY DEF SharedBy
<1> DEFINE F == Earlier(s.positions, B, i)
           G == Earlier(s.positions, A, i)
<1>1. F \in SUBSET G /\ G \in SUBSET DOMAIN s.positions
  BY DEF Earlier
<1>2. WorthOf(s.positions, F) \in Nat /\ WorthOf(s.positions, G) \in Nat
      /\ s.rewards[i].total \in Int
  BY StoreNumbers
<1>3. s.rewards[i].total >= WorthOf(s.positions, G)
  BY DEF SharedBy
<1>4. Book(s.positions)
  BY DEF GoodStore
<1> HIDE DEF F, G
<1>5. WorthOf(s.positions, F) <= WorthOf(s.positions, G)
  BY <1>1, <1>4, BookWithin
<1>6. s.rewards[i].total >= WorthOf(s.positions, F)
  BY <1>2, <1>3, <1>5
<1> QED BY <1>6 DEF F

\* Not losing, and losing principal, from store to store.
LEMMA HarmlessTransitive ==
  ASSUME NEW s, GoodStore(s), NEW t, GoodStore(t), NEW u, GoodStore(u),
         Harmless(t, s), Harmless(u, t)
  PROVE  Harmless(u, s)
<1>1. ASSUME NEW x \in User PROVE Owned(u, x) >= Owned(s, x)
  <2>1. Owned(s, x) \in Nat /\ Owned(t, x) \in Nat /\ Owned(u, x) \in Nat
    BY StoreNumbers
  <2>2. Owned(u, x) >= Owned(t, x) /\ Owned(t, x) >= Owned(s, x)
    BY DEF Harmless, NoLoss
  <2> QED BY <2>1, <2>2
<1>2. Spares(u.ledger, s.ledger, Account \ Custody)
  <2>1. Sound(s.ledger)
    BY DEF GoodStore
  <2> QED BY <2>1, SparesTransitive DEF Harmless
<1> QED BY <1>1, <1>2 DEF Harmless, NoLoss

\* Doing nothing harms nobody.
LEMMA HarmlessReflexive ==
  ASSUME NEW s, GoodStore(s)
  PROVE  Harmless(s, s)
<1>1. \A u \in User : Owned(s, u) \in Nat
  BY StoreNumbers
<1>2. NoLoss(s, s)
  BY <1>1 DEF NoLoss
<1>3. Spares(s.ledger, s.ledger, Account \ Custody)
  BY SparesReflexive DEF GoodStore
<1> QED BY <1>2, <1>3 DEF Harmless

\* Two reductions of principal add up.
LEMMA LighterTransitive ==
  ASSUME NEW s, GoodStore(s), NEW t, GoodStore(t), NEW u, GoodStore(u),
         NEW vault, NEW m \in Int, NEW n \in Int, Lighter(t, s, vault, m),
         Lighter(u, t, vault, n - m)
  PROVE  Lighter(u, s, vault, n)
<1> SUFFICES ASSUME NEW v \in Vault
             PROVE  WorthOf(u.positions, InVault(u.positions, v))
                      <= WorthOf(s.positions, InVault(s.positions, v))
                         - (IF v = vault THEN n ELSE 0)
  BY DEF Lighter
<1> DEFINE a == WorthOf(s.positions, InVault(s.positions, v))
           b == WorthOf(t.positions, InVault(t.positions, v))
           c == WorthOf(u.positions, InVault(u.positions, v))
<1>1. a \in Nat /\ b \in Nat /\ c \in Nat
  BY StoreNumbers
<1>2. /\ c <= b - (IF v = vault THEN n - m ELSE 0)
      /\ b <= a - (IF v = vault THEN m ELSE 0)
  BY DEF Lighter
<1> HIDE DEF a, b, c
<1>3. c <= a - (IF v = vault THEN n ELSE 0)
  BY <1>1, <1>2
<1> QED BY <1>3 DEF a, c

\* What two steps leave untouched is untouched by both.
LEMMA TouchedTransitive ==
  ASSUME NEW s, NEW t, NEW u, NEW K, NEW L, OnlyTouched(t, s, K), OnlyTouched(u, t, L)
  PROVE  OnlyTouched(u, s, K \cup L)
<1>1. DOMAIN u.positions \subseteq DOMAIN t.positions
      /\ DOMAIN t.positions \subseteq DOMAIN s.positions
  BY DEF OnlyTouched
<1>2. DOMAIN s.positions \ (K \cup L) \subseteq DOMAIN u.positions
  BY DEF OnlyTouched
<1>3. \A k \in DOMAIN u.positions : u.positions[k].index = s.positions[k].index
  BY <1>1 DEF OnlyTouched
<1>4. \A k \in DOMAIN u.positions \ (K \cup L) : u.positions[k] = s.positions[k]
  BY <1>1 DEF OnlyTouched
<1> QED BY <1>1, <1>2, <1>3, <1>4 DEF OnlyTouched

\* Nothing has happened before the first round.
LEMMA UnlockingStarts ==
  ASSUME NEW s, GoodStore(s), Backed(s), NEW user \in User, NEW vault \in Vault,
         NEW amount \in Nat, NEW A
  PROVE  LET x == [ok |-> TRUE, store |-> s, left |-> amount, removed |-> 0]
         IN  x \in CallType /\ Unlocking(x, s, user, vault, {}, A)
<1> DEFINE x == [ok |-> TRUE, store |-> s, left |-> amount, removed |-> 0]
<1>1. x.store = s /\ x.removed = 0
  OBVIOUS
<1>2. x \in CallType
  <2>1. s \in StoreType
    BY DEF GoodStore
  <2> QED BY <2>1 DEF CallType
<1> HIDE DEF x
<1>3. Harmless(s, s)
  BY HarmlessReflexive
<1>4. Lighter(s, s, vault, 0)
  <2>1. \A v : WorthOf(s.positions, InVault(s.positions, v)) \in Nat
    BY StoreNumbers
  <2> QED BY <2>1 DEF Lighter
<1>5. OnlyTouched(s, s, {})
  BY DEF OnlyTouched
<1>6. SharedBy(s, A) => SharedBy(s, A \ {user})
  BY SharedByFewer
<1>7. s.totalFlexible = s.totalFlexible - 0
  BY StoreNumbers
<1>8. Unlocking(x, s, user, vault, {}, A)
  BY <1>1, <1>3, <1>4, <1>5, <1>6, <1>7 DEF Unlocking
<1> QED BY <1>2, <1>8 DEF x

\* One round of the call, whether it does something or passes.
LEMMA UnlockingGoesOn ==
  ASSUME NEW s, GoodStore(s), NEW user \in User, NEW vault \in Vault, NEW time,
         <<user, vault, time>> \in DOMAIN s.positions, NEW A, user \in A, NEW K,
         <<user, vault, time>> \notin K,
         NEW x \in CallType, Unlocking(x, s, user, vault, K, A)
  PROVE  LET y == UnlockPosition(x, user, vault, time)
         IN  y \in CallType /\ Unlocking(y, s, user, vault, K \cup {<<user, vault, time>>}, A)
<1> DEFINE key == <<user, vault, time>>
           t == x.store
           y == UnlockPosition(x, user, vault, time)
           u == y.store
           taken == y.removed - x.removed
<1>1. /\ x = [ok |-> x.ok, store |-> t, left |-> x.left, removed |-> x.removed]
      /\ x.ok \in BOOLEAN /\ x.left \in Nat /\ x.removed \in Int
  BY DEF CallType
<1>2. /\ GoodStore(t) /\ Backed(t) /\ Harmless(t, s)
      /\ OnlyTouched(t, s, K)
      /\ Lighter(t, s, vault, x.removed)
      /\ t.stats.users = s.stats.users
      /\ t.stats.principal = s.stats.principal
      /\ t.ledger.index = s.ledger.index
      /\ vault = "staked" => t.totalFlexible = s.totalFlexible /\ t.rewards = s.rewards
      /\ vault = "flexible" /\ x.ok => t.totalFlexible = s.totalFlexible - x.removed
      /\ (vault = "staked" \/ SharedBy(s, A)) /\ RewardsSafe(s) => RewardsSafe(t)
      /\ SharedBy(s, A) /\ x.ok => SharedBy(t, A)
      /\ SharedBy(s, A) => SharedBy(t, A \ {user})
  BY DEF Unlocking
<1>3. CASE ~x.ok \/ x.left = 0
  <2>1. y = x
    BY <1>3 DEF UnlockPosition
  <2>2. OnlyTouched(t, s, K \cup {key})
    BY <1>2 DEF OnlyTouched
  <2>3. Unlocking(x, s, user, vault, K \cup {key}, A)
    BY <1>2, <2>2 DEF Unlocking
  <2> QED BY <2>1, <2>3
<1>4. CASE ~(~x.ok \/ x.left = 0)
  <2>1. x.ok = TRUE /\ x.left > 0
    BY <1>1, <1>4
  <2>2. key \in DOMAIN t.positions
    BY <1>2 DEF OnlyTouched
  <2> DEFINE call == [ok |-> TRUE, store |-> t, left |-> x.left, removed |-> x.removed]
             z == UnlockPosition(call, user, vault, time)
             w == z.store
             less == z.removed - x.removed
  <2>3. x = call
    BY <1>1, <2>1
  <2>4. y = z
    BY <2>3
  <2>5. /\ z = [ok |-> z.ok, store |-> w, left |-> z.left, removed |-> z.removed]
        /\ z.ok \in BOOLEAN /\ z.left \in Nat /\ z.removed \in Int
        /\ GoodStore(w) /\ Backed(w) /\ Harmless(w, t)
        /\ OnlyTouched(w, t, {<<user, vault, time>>})
        /\ Lighter(w, t, vault, less)
        /\ w.stats.users = t.stats.users /\ w.stats.principal = t.stats.principal
        /\ w.ledger.index = t.ledger.index
        /\ vault = "staked" =>
              w.totalFlexible = t.totalFlexible /\ w.rewards = t.rewards
        /\ vault = "flexible" /\ z.ok =>
              w.totalFlexible = t.totalFlexible - less
        /\ (vault = "staked" \/ SharedBy(t, A)) /\ RewardsSafe(t) => RewardsSafe(w)
        /\ SharedBy(t, A) /\ z.ok => SharedBy(w, A)
        /\ SharedBy(t, A) => SharedBy(w, A \ {user})
    <3> HIDE DEF t
    <3> QED BY <1>1, <1>2, <2>1, <2>2, RoundKept
  <2> HIDE DEF y, z, t, call, key
  <2>6. z \in CallType
    <3>1. w \in StoreType
      BY <2>5 DEF GoodStore
    <3> HIDE DEF w
    <3> QED BY <2>5, <3>1 DEF CallType
  <2>7. Harmless(w, s) /\ Lighter(w, s, vault, z.removed) /\ OnlyTouched(w, s, K \cup {key})
    <3>1. Harmless(w, s)
      BY <1>2, <2>5, HarmlessTransitive
    <3>2. Lighter(w, s, vault, z.removed)
      BY <1>1, <1>2, <2>5, LighterTransitive
    <3>3. OnlyTouched(w, s, K \cup {key})
      BY <1>2, <2>5, TouchedTransitive DEF key
    <3> QED BY <3>1, <3>2, <3>3
  <2>8. vault = "flexible" /\ z.ok => w.totalFlexible = s.totalFlexible - z.removed
    <3>1. s.totalFlexible \in Int
      BY StoreNumbers
    <3> QED BY <1>1, <1>2, <2>1, <2>5, <3>1
  <2>9. /\ (vault = "staked" \/ SharedBy(s, A)) /\ RewardsSafe(s) => RewardsSafe(w)
        /\ SharedBy(s, A) /\ z.ok => SharedBy(w, A)
        /\ SharedBy(s, A) => SharedBy(w, A \ {user})
    BY <1>2, <2>1, <2>5
  <2>10. /\ GoodStore(w) /\ Backed(w)
         /\ w.stats.users = s.stats.users /\ w.stats.principal = s.stats.principal
         /\ w.ledger.index = s.ledger.index
         /\ vault = "staked" =>
               w.totalFlexible = s.totalFlexible /\ w.rewards = s.rewards
    BY <1>2, <2>5
  <2>11. Unlocking(z, s, user, vault, K \cup {key}, A)
    BY <2>7, <2>8, <2>9, <2>10 DEF Unlocking
  <2> QED BY <2>4, <2>6, <2>11 DEF y, key
<1> QED BY <1>3, <1>4

\* The rounds of a call: the times of the user's positions, one by one.
UnlockTimes(s, user, vault) == {key[3] : key \in PositionsOf(s, user, vault)}

AfterRounds(s, user, vault, amount) ==
    MapThenFoldSet(LAMBDA time, call : UnlockPosition(call, user, vault, time),
                   [ok |-> TRUE, store |-> s, left |-> amount, removed |-> 0],
                   LAMBDA time : time,
                   LAMBDA upto : Max(upto),
                   UnlockTimes(s, user, vault))

\* The table of the calls after the rounds of a set of times.
UnlockTable(base, user, vault, times) ==
    CHOOSE g : g = [p \in SUBSET times |->
        IF p = {} THEN base ELSE UnlockPosition(g[p \ {Max(p)}], user, vault, Max(p))]

\* The loop reads the last entry of its table.
LEMMA RoundsAreTable ==
  ASSUME NEW s, NEW user, NEW vault, NEW amount
  PROVE  AfterRounds(s, user, vault, amount)
           = UnlockTable([ok |-> TRUE, store |-> s, left |-> amount, removed |-> 0],
                         user, vault, UnlockTimes(s, user, vault))
                 [UnlockTimes(s, user, vault)]
BY DEF AfterRounds, MapThenFoldSet, UnlockTable

\* The greatest of finitely many natural numbers is one of them.
LEMMA MaxIsOne ==
  ASSUME NEW T \in SUBSET Nat, IsFiniteSet(T), T # {}
  PROVE  Max(T) \in T
<1>1. PICK n \in T : \A m \in T : n >= m
  BY GreatestNatural
<1> QED BY <1>1 DEF Max

\* The rounds of a call keep what one round keeps.
LEMMA RoundsKept ==
  ASSUME NEW s, GoodStore(s), Backed(s), NEW user \in User, NEW vault \in Vault,
         NEW amount \in Nat, NEW A, user \in A
  PROVE  /\ AfterRounds(s, user, vault, amount) \in CallType
         /\ Unlocking(AfterRounds(s, user, vault, amount), s, user, vault,
                      PositionsOf(s, user, vault), A)
<1> DEFINE D == UnlockTimes(s, user, vault)
           Ks(p) == {<<user, vault, time>> : time \in p}
           base == [ok |-> TRUE, store |-> s, left |-> amount, removed |-> 0]
           R(p) == {x \in CallType : Unlocking(x, s, user, vault, Ks(p), A)}
           top == [p \in SUBSET D |-> Max(p)]
           I == [p \in SUBSET D |-> R(p)]
           F == [q \in CallType \X D |-> UnlockPosition(q[1], user, vault, q[2])]
           T == UnlockTable(base, user, vault, D)
<1>1. /\ D \subseteq Nat /\ IsFiniteSet(D)
      /\ \A time \in D : <<user, vault, time>> \in DOMAIN s.positions
      /\ Ks(D) = PositionsOf(s, user, vault)
  <2> DEFINE P == PositionsOf(s, user, vault)
  <2>1. P \in SUBSET DOMAIN s.positions /\ DOMAIN s.positions \subseteq Keys
    BY DEF PositionsOf, GoodStore, Book
  <2>2. \A k \in P : k = <<user, vault, k[3]>> /\ k[3] \in Nat
    <3> SUFFICES ASSUME NEW k \in P PROVE k = <<user, vault, k[3]>> /\ k[3] \in Nat
      OBVIOUS
    <3>1. k \in User \X Vault \X Time /\ k[1] = user /\ k[2] = vault
      BY <2>1 DEF PositionsOf, Keys
    <3>2. k[3] \in Nat
      BY <3>1, VaultsAssumption
    <3> HIDE DEF P
    <3> QED BY <3>1, <3>2
  <2>3. IsFiniteSet(P)
    BY <2>1, BookSums DEF GoodStore
  <2> HIDE DEF P
  <2>4. D = {k[3] : k \in P}
    BY DEF UnlockTimes, P
  <2>5. IsFiniteSet(D)
    <3> DEFINE f == [k \in P |-> k[3]]
    <3>1. f \in Surjection(P, D)
      BY <2>4 DEF Surjection
    <3> QED BY <2>3, <3>1, FS_Surjection
  <2>6. /\ D \subseteq Nat
        /\ \A time \in D : <<user, vault, time>> \in P
        /\ P \subseteq Ks(D)
    BY <2>2, <2>4
  <2>7. Ks(D) = P
    BY <2>6
  <2> QED BY <2>1, <2>5, <2>6, <2>7 DEF P
<1> HIDE DEF D
<1>2. \A p \in SUBSET D : p # {} => Max(p) \in p /\ p \ {Max(p)} \in SUBSET D
  <2> SUFFICES ASSUME NEW p \in SUBSET D, p # {} PROVE Max(p) \in p
    OBVIOUS
  <2>1. p \in SUBSET Nat /\ IsFiniteSet(p)
    BY <1>1, FS_Subset
  <2> QED BY <2>1, MaxIsOne
<1>3. base \in R({})
  <2>1. base \in CallType /\ Unlocking(base, s, user, vault, {}, A)
    BY UnlockingStarts
  <2>2. Ks({}) = {}
    OBVIOUS
  <2> HIDE DEF base, Ks
  <2> QED BY <2>1, <2>2
<1> HIDE DEF base
<1>4. ASSUME NEW p \in SUBSET D, p # {}, NEW x \in R(p \ {Max(p)})
      PROVE  UnlockPosition(x, user, vault, Max(p)) \in R(p)
  <2> DEFINE time == Max(p)
             q == p \ {time}
             key == <<user, vault, time>>
  <2>1. time \in p /\ key \in DOMAIN s.positions
    BY <1>1, <1>2, <1>4
  <2>2. key \notin Ks(q) /\ Ks(p) = Ks(q) \cup {key}
    <3>1. time \in p /\ q = p \ {time}
      BY <2>1
    <3> HIDE DEF time, q
    <3> QED BY <3>1
  <2>3. x \in CallType /\ Unlocking(x, s, user, vault, Ks(q), A)
    OBVIOUS
  <2> DEFINE y == UnlockPosition(x, user, vault, time)
  <2>4. y \in CallType /\ Unlocking(y, s, user, vault, Ks(q) \cup {key}, A)
    <3> HIDE DEF Ks, q, time
    <3> QED BY <2>1, <2>2, <2>3, UnlockingGoesOn
  <2> HIDE DEF y, Ks
  <2> QED BY <2>2, <2>4 DEF y
<1> HIDE DEF Ks
<1>5. \A p \in SUBSET D : R(p) \subseteq CallType
  OBVIOUS
<1> HIDE DEF R
<1>6. \A x \in CallType : \A i \in D : F[<<x, i>>] = UnlockPosition(x, user, vault, i)
  OBVIOUS
<1>7. \A p \in SUBSET D : I[p] = R(p) /\ top[p] = Max(p)
  OBVIOUS
<1> HIDE DEF F, I, top
<1>8. T = [p \in SUBSET D |->
             IF p = {} THEN base
             ELSE UnlockPosition(T[p \ {Max(p)}], user, vault, Max(p))]
  <2>1. RoundsLead(D, base, F, top, I, CallType)
    <3>1. \A p \in SUBSET D : p # {} =>
              \A x \in I[p \ {top[p]}] : F[<<x, top[p]>>] \in I[p]
      <4> SUFFICES ASSUME NEW p \in SUBSET D, p # {}, NEW x \in R(p \ {Max(p)})
                   PROVE  F[<<x, Max(p)>>] \in R(p)
        BY <1>2, <1>7
      <4>1. x \in CallType /\ Max(p) \in D
        BY <1>2, <1>5
      <4> QED BY <1>4, <1>6, <4>1
    <3>2. \A p \in SUBSET D : p # {} => top[p] \in p
      BY <1>2, <1>7
    <3>3. {} \in SUBSET D /\ \A p \in SUBSET D : I[p] \subseteq CallType
      BY <1>5, <1>7
    <3>4. base \in I[{}]
      BY <1>3, <1>7, <3>3
    <3> QED BY <1>1, <3>1, <3>2, <3>3, <3>4 DEF RoundsLead
  <2>2. PICK g \in [SUBSET D -> CallType] :
            \A p \in SUBSET D : FoldEntry(g, p, base, F, top, I)
    <3>1. HasFoldTable(D, base, F, top, I, CallType)
      BY <2>1, FoldTableExists
    <3> QED BY <3>1 DEF HasFoldTable
  <2>3. \A p \in SUBSET D :
            g[p] = IF p = {} THEN base
                   ELSE UnlockPosition(g[p \ {Max(p)}], user, vault, Max(p))
    <3>1. \A p \in SUBSET D : p # {} => g[p \ {Max(p)}] \in CallType /\ Max(p) \in D
      BY <1>2
    <3> QED BY <1>6, <1>7, <2>2, <3>1 DEF FoldEntry
  <2>4. g = [p \in SUBSET D |->
               IF p = {} THEN base
               ELSE UnlockPosition(g[p \ {Max(p)}], user, vault, Max(p))]
    BY <2>3
  <2> QED BY <2>4 DEF UnlockTable
<1> HIDE DEF T
<1>9. T[D] \in I[D]
  <2>1. \A p \in SUBSET D : T[p] = IF p = {} THEN base
             ELSE UnlockPosition(T[p \ {Max(p)}], user, vault, Max(p))
    BY <1>8
  <2>2. T[{}] \in I[{}]
    BY <1>3, <1>7, <2>1
  <2>3. \A p \in SUBSET D : p # {} => top[p] \in p
    BY <1>2, <1>7
  <2>4. \A p \in SUBSET D : p # {} =>
            (T[p \ {top[p]}] \in I[p \ {top[p]}] => T[p] \in I[p])
    <3> SUFFICES ASSUME NEW p \in SUBSET D, p # {}, T[p \ {Max(p)}] \in R(p \ {Max(p)})
                 PROVE  T[p] \in R(p)
      BY <1>2, <1>7
    <3>1. T[p] = UnlockPosition(T[p \ {Max(p)}], user, vault, Max(p))
      BY <2>1
    <3> QED BY <1>4, <3>1
  <2> QED BY <1>1, <2>2, <2>3, <2>4, TableWithin
<1>10. T[D] \in R(D)
  BY <1>7, <1>9
<1>11. AfterRounds(s, user, vault, amount) = T[D]
  BY RoundsAreTable DEF T, D, base
<1> QED BY <1>1, <1>10, <1>11 DEF R

-----------------------------------------------------------------------------
(* Statistics. *)

\* The users with a position in a vault.
UsersIn(ps, vault) == {k[1] : k \in InVault(ps, vault)}

\* UsersCounted and what remains of it once a season end skipped a user.
Counted(s, vault) == s.stats.users[vault] = Cardinality(UsersIn(s.positions, vault))
CountedAtLeast(s, vault) ==
    s.stats.users[vault] >= Cardinality(UsersIn(s.positions, vault))

\* PrincipalCovered, of a store: of the Staked vault, and of the Flexible vault.
CoveredStaked(s) ==
    s.stats.principal["staked"] >= WorthOf(s.positions, InVault(s.positions, "staked"))
CoveredFlexible(s) ==
    /\ s.totalFlexible >= WorthOf(s.positions, InVault(s.positions, "flexible"))
    /\ s.stats.principal["flexible"] = s.totalFlexible

\* A store with other statistics, which has the same coins and positions.
OnlyStats(t, s) ==
    /\ GoodStore(t)
    /\ t.ledger = s.ledger /\ t.positions = s.positions
    /\ t.totalFlexible = s.totalFlexible /\ t.rewards = s.rewards

\* How an update of the number of users reads on the fields of a store.
LEMMA SetUsers ==
  ASSUME NEW a, NEW b, NEW c, NEW d, NEW e, NEW v, NEW n
  PROVE  LET x == [ledger |-> a, positions |-> b, totalFlexible |-> c,
                   rewards |-> d, stats |-> e]
         IN  [x EXCEPT !.stats.users[v] = n]
               = [ledger |-> a, positions |-> b, totalFlexible |-> c,
                  rewards |-> d, stats |-> [e EXCEPT !.users[v] = n]]
OBVIOUS

\* The same, of the principal in the statistics.
LEMMA SetPrincipal ==
  ASSUME NEW a, NEW b, NEW c, NEW d, NEW e, NEW v, NEW n
  PROVE  LET x == [ledger |-> a, positions |-> b, totalFlexible |-> c,
                   rewards |-> d, stats |-> e]
         IN  [x EXCEPT !.stats.principal[v] = n]
               = [ledger |-> a, positions |-> b, totalFlexible |-> c,
                  rewards |-> d, stats |-> [e EXCEPT !.principal[v] = n]]
OBVIOUS

\* A number of users put into the statistics.
LEMMA UsersSet ==
  ASSUME NEW e \in StatsType, NEW v \in Vault, NEW n \in Int
  PROVE  LET f == [e EXCEPT !.users[v] = n]
         IN  /\ f \in StatsType
             /\ f.users = [e.users EXCEPT ![v] = n] /\ f.principal = e.principal
BY DEF StatsType

\* A principal put into the statistics.
LEMMA PrincipalSet ==
  ASSUME NEW e \in StatsType, NEW v \in Vault, NEW n \in Int
  PROVE  LET f == [e EXCEPT !.principal[v] = n]
         IN  /\ f \in StatsType
             /\ f.users = e.users /\ f.principal = [e.principal EXCEPT ![v] = n]
BY DEF StatsType

\* A count of users is set, and nothing else.
LEMMA UsersUpdate ==
  ASSUME NEW s, GoodStore(s), NEW v \in Vault, NEW n \in Int
  PROVE  LET t == [s EXCEPT !.stats.users[v] = n]
         IN  /\ OnlyStats(t, s)
             /\ t.stats.users = [s.stats.users EXCEPT ![v] = n]
             /\ t.stats.principal = s.stats.principal
<1> DEFINE t == [s EXCEPT !.stats.users[v] = n]
           f == [s.stats EXCEPT !.users[v] = n]
<1>1. /\ s = [ledger |-> s.ledger, positions |-> s.positions,
              totalFlexible |-> s.totalFlexible, rewards |-> s.rewards,
              stats |-> s.stats]
      /\ Sound(s.ledger) /\ Book(s.positions) /\ s.totalFlexible \in Int
      /\ Records(s.rewards, s.ledger.index) /\ s.stats \in StatsType
  BY StoreParts
<1>2. t = [ledger |-> s.ledger, positions |-> s.positions,
           totalFlexible |-> s.totalFlexible, rewards |-> s.rewards, stats |-> f]
  BY <1>1, SetUsers
<1>3. /\ f \in StatsType
      /\ f.users = [s.stats.users EXCEPT ![v] = n] /\ f.principal = s.stats.principal
  BY <1>1, UsersSet
<1> HIDE DEF t, f
<1>4. GoodStore(t)
  BY <1>1, <1>2, <1>3, MakeStore
<1>5. /\ t.ledger = s.ledger /\ t.positions = s.positions
      /\ t.totalFlexible = s.totalFlexible /\ t.rewards = s.rewards /\ t.stats = f
  BY <1>2
<1> QED BY <1>3, <1>4, <1>5 DEF OnlyStats, t

\* The principal of a vault is set, and nothing else.
LEMMA PrincipalUpdate ==
  ASSUME NEW s, GoodStore(s), NEW v \in Vault, NEW n \in Int
  PROVE  LET t == [s EXCEPT !.stats.principal[v] = n]
         IN  /\ OnlyStats(t, s)
             /\ t.stats.users = s.stats.users
             /\ t.stats.principal = [s.stats.principal EXCEPT ![v] = n]
<1> DEFINE t == [s EXCEPT !.stats.principal[v] = n]
           f == [s.stats EXCEPT !.principal[v] = n]
<1>1. /\ s = [ledger |-> s.ledger, positions |-> s.positions,
              totalFlexible |-> s.totalFlexible, rewards |-> s.rewards,
              stats |-> s.stats]
      /\ Sound(s.ledger) /\ Book(s.positions) /\ s.totalFlexible \in Int
      /\ Records(s.rewards, s.ledger.index) /\ s.stats \in StatsType
  BY StoreParts
<1>2. t = [ledger |-> s.ledger, positions |-> s.positions,
           totalFlexible |-> s.totalFlexible, rewards |-> s.rewards, stats |-> f]
  BY <1>1, SetPrincipal
<1>3. /\ f \in StatsType
      /\ f.users = s.stats.users /\ f.principal = [s.stats.principal EXCEPT ![v] = n]
  BY <1>1, PrincipalSet
<1> HIDE DEF t, f
<1>4. GoodStore(t)
  BY <1>1, <1>2, <1>3, MakeStore
<1>5. /\ t.ledger = s.ledger /\ t.positions = s.positions
      /\ t.totalFlexible = s.totalFlexible /\ t.rewards = s.rewards /\ t.stats = f
  BY <1>2
<1> QED BY <1>3, <1>4, <1>5 DEF OnlyStats, t

\* Whoever has a position in a vault is one of finitely many.
LEMMA UsersFinite ==
  ASSUME NEW ps, Book(ps), NEW vault
  PROVE  IsFiniteSet(UsersIn(ps, vault)) /\ Cardinality(UsersIn(ps, vault)) \in Nat
<1> DEFINE P == InVault(ps, vault)
           f == [k \in P |-> k[1]]
<1>1. IsFiniteSet(P)
  BY BookSums DEF InVault
<1>2. f \in Surjection(P, UsersIn(ps, vault))
  BY DEF UsersIn, Surjection
<1> HIDE DEF P, f
<1>3. IsFiniteSet(UsersIn(ps, vault))
  BY <1>1, <1>2, FS_Surjection
<1> QED BY <1>3, FS_CardinalityType

\* A user is one of them when it has a position there.
LEMMA OneOfUsers ==
  ASSUME NEW s, NEW user, NEW vault
  PROVE  user \in UsersIn(s.positions, vault) <=> PositionsOf(s, user, vault) # {}
BY DEF UsersIn, InVault, PositionsOf

\* The users of a vault after one of them unlocked.
LEMMA UsersAfter ==
  ASSUME NEW s, NEW t, NEW user, NEW vault,
         OnlyTouched(t, s, PositionsOf(s, user, vault)), NEW v
  PROVE  /\ v # vault => UsersIn(t.positions, v) = UsersIn(s.positions, v)
         /\ UsersIn(t.positions, vault) \subseteq UsersIn(s.positions, vault)
         /\ UsersIn(s.positions, vault) \ {user} \subseteq UsersIn(t.positions, vault)
<1>1. \A k \in DOMAIN s.positions : k[1] # user \/ k[2] # vault => k \in DOMAIN t.positions
  BY DEF OnlyTouched, PositionsOf
<1>2. DOMAIN t.positions \subseteq DOMAIN s.positions
  BY DEF OnlyTouched
<1> QED BY <1>1, <1>2 DEF UsersIn, InVault

\* What does not look at the statistics is as it was.
LEMMA SameButStats ==
  ASSUME NEW t, NEW u, OnlyStats(t, u)
  PROVE  /\ Backed(u) => Backed(t)
         /\ RewardsSafe(u) => RewardsSafe(t)
         /\ \A A : SharedBy(u, A) => SharedBy(t, A)
         /\ \A s : Harmless(u, s) => Harmless(t, s)
         /\ \A s, K : OnlyTouched(u, s, K) => OnlyTouched(t, s, K)
<1>1. /\ t.ledger = u.ledger /\ t.positions = u.positions
      /\ t.totalFlexible = u.totalFlexible /\ t.rewards = u.rewards
  BY DEF OnlyStats
<1>2. Backed(u) => Backed(t)
  BY <1>1 DEF Backed
<1>3. RewardsSafe(u) => RewardsSafe(t)
  BY <1>1 DEF RewardsSafe, RewardsOf
<1>4. \A A : SharedBy(u, A) => SharedBy(t, A)
  BY <1>1 DEF SharedBy
<1>5. \A s : Harmless(u, s) => Harmless(t, s)
  BY <1>1 DEF Harmless, NoLoss, Owned
<1>6. \A s, K : OnlyTouched(u, s, K) => OnlyTouched(t, s, K)
  BY <1>1 DEF OnlyTouched
<1> QED BY <1>2, <1>3, <1>4, <1>5, <1>6

-----------------------------------------------------------------------------
(* A whole call. *)

\* What an unlock of a user in a vault, complete or not, keeps for the users in A.
AfterUnlock(t, s, ok, user, vault, A) ==
    /\ GoodStore(t) /\ Backed(t) /\ Harmless(t, s)
    /\ OnlyTouched(t, s, PositionsOf(s, user, vault))
    /\ t.ledger.index = s.ledger.index
    /\ \A v \in Vault : CountedAtLeast(s, v) => CountedAtLeast(t, v)
    /\ \A v \in Vault : ok \/ v # vault => (Counted(s, v) => Counted(t, v))
    /\ ok \/ vault = "flexible" => (CoveredStaked(s) => CoveredStaked(t))
    /\ ok \/ vault = "staked" => (CoveredFlexible(s) => CoveredFlexible(t))
    /\ (vault = "staked" \/ SharedBy(s, A)) /\ RewardsSafe(s) => RewardsSafe(t)
    /\ SharedBy(s, A) /\ ok => SharedBy(t, A)
    /\ SharedBy(s, A) => SharedBy(t, A \ {user})

\* A call that does nothing.
LEMMA NothingUnlocked ==
  ASSUME NEW s, GoodStore(s), Backed(s), NEW ok, NEW user, NEW vault, NEW A
  PROVE  AfterUnlock(s, s, ok, user, vault, A)
<1>1. Harmless(s, s)
  BY HarmlessReflexive
<1>2. OnlyTouched(s, s, PositionsOf(s, user, vault))
  BY DEF OnlyTouched
<1>3. SharedBy(s, A) => SharedBy(s, A \ {user})
  BY SharedByFewer
<1> QED BY <1>1, <1>2, <1>3 DEF AfterUnlock

\* The users of a vault cannot become more by an unlock.
LEMMA UsersNotMore ==
  ASSUME NEW s, GoodStore(s), NEW t, GoodStore(t), NEW user, NEW vault,
         OnlyTouched(t, s, PositionsOf(s, user, vault)), NEW v
  PROVE  Cardinality(UsersIn(t.positions, v)) <= Cardinality(UsersIn(s.positions, v))
<1>1. IsFiniteSet(UsersIn(s.positions, v)) /\ Cardinality(UsersIn(s.positions, v)) \in Nat
  BY UsersFinite DEF GoodStore
<1>2. UsersIn(t.positions, v) \subseteq UsersIn(s.positions, v)
  BY UsersAfter
<1> QED BY <1>1, <1>2, FS_Subset

\* A call that stopped halfway: the statistics are as they were.
LEMMA StoppedHalfway ==
  ASSUME NEW s, GoodStore(s), Backed(s), NEW user \in User, NEW vault \in Vault, NEW A,
         NEW x \in CallType, ~x.ok,
         Unlocking(x, s, user, vault, PositionsOf(s, user, vault), A)
  PROVE  AfterUnlock(x.store, s, FALSE, user, vault, A)
<1> DEFINE t == x.store
<1>1. /\ GoodStore(t) /\ Backed(t) /\ Harmless(t, s)
      /\ OnlyTouched(t, s, PositionsOf(s, user, vault))
      /\ Lighter(t, s, vault, x.removed) /\ x.removed \in Int
      /\ t.stats.users = s.stats.users /\ t.stats.principal = s.stats.principal
      /\ t.ledger.index = s.ledger.index
      /\ vault = "staked" => t.totalFlexible = s.totalFlexible
      /\ (vault = "staked" \/ SharedBy(s, A)) /\ RewardsSafe(s) => RewardsSafe(t)
      /\ SharedBy(s, A) => SharedBy(t, A \ {user})
  BY DEF Unlocking, CallType
<1> HIDE DEF t
<1>2. \A v \in Vault : /\ s.stats.users[v] \in Int /\ s.stats.principal[v] \in Int
                       /\ Cardinality(UsersIn(s.positions, v)) \in Nat
                       /\ Cardinality(UsersIn(t.positions, v)) \in Nat
                       /\ WorthOf(s.positions, InVault(s.positions, v)) \in Nat
                       /\ WorthOf(t.positions, InVault(t.positions, v)) \in Nat
  <2>1. s.stats \in StatsType
    BY StoreParts
  <2>2. Book(s.positions) /\ Book(t.positions)
    BY <1>1 DEF GoodStore
  <2>3. \A v \in Vault : s.stats.users[v] \in Int /\ s.stats.principal[v] \in Int
    BY <2>1 DEF StatsType
  <2>4. \A v \in Vault : /\ Cardinality(UsersIn(s.positions, v)) \in Nat
                         /\ Cardinality(UsersIn(t.positions, v)) \in Nat
    BY <2>2, UsersFinite
  <2>5. \A v \in Vault : /\ WorthOf(s.positions, InVault(s.positions, v)) \in Nat
                         /\ WorthOf(t.positions, InVault(t.positions, v)) \in Nat
    BY <1>1, StoreNumbers
  <2> QED BY <2>3, <2>4, <2>5
<1>3. \A v \in Vault : CountedAtLeast(s, v) => CountedAtLeast(t, v)
  <2> SUFFICES ASSUME NEW v \in Vault, CountedAtLeast(s, v) PROVE CountedAtLeast(t, v)
    OBVIOUS
  <2>1. Cardinality(UsersIn(t.positions, v)) <= Cardinality(UsersIn(s.positions, v))
    BY <1>1, UsersNotMore
  <2> QED BY <1>1, <1>2, <2>1 DEF CountedAtLeast
<1>4. \A v \in Vault : v # vault => (Counted(s, v) => Counted(t, v))
  BY <1>1, UsersAfter DEF Counted
<1>5. vault = "flexible" => (CoveredStaked(s) => CoveredStaked(t))
  <2> SUFFICES ASSUME vault = "flexible", CoveredStaked(s) PROVE CoveredStaked(t)
    OBVIOUS
  <2>1. "staked" \in Vault /\ "staked" # vault
    BY DEF Vault
  <2>2. WorthOf(t.positions, InVault(t.positions, "staked"))
          <= WorthOf(s.positions, InVault(s.positions, "staked")) - 0
    BY <1>1, <2>1 DEF Lighter
  <2> QED BY <1>1, <1>2, <2>1, <2>2 DEF CoveredStaked
<1>6. vault = "staked" => (CoveredFlexible(s) => CoveredFlexible(t))
  <2> SUFFICES ASSUME vault = "staked", CoveredFlexible(s) PROVE CoveredFlexible(t)
    OBVIOUS
  <2>1. "flexible" \in Vault /\ "flexible" # vault
    BY DEF Vault
  <2>2. WorthOf(t.positions, InVault(t.positions, "flexible"))
          <= WorthOf(s.positions, InVault(s.positions, "flexible")) - 0
    BY <1>1, <2>1 DEF Lighter
  <2>3. s.totalFlexible \in Int
    BY StoreNumbers
  <2> QED BY <1>1, <1>2, <2>1, <2>2, <2>3 DEF CoveredFlexible
<1> QED BY <1>1, <1>3, <1>4, <1>5, <1>6 DEF AfterUnlock, t

\* A store whose statistics record an unlock that removed some principal.
Recorded(u, user, vault, removed) ==
    [DecrementVaultUsers(u, user, vault) EXCEPT !.stats.principal[vault] = @ - removed]

\* The statistics after a call that went through: less principal by what the
\* rounds removed, and less users by one when no position is left.
LEMMA StatisticsAfter ==
  ASSUME NEW u, GoodStore(u), NEW user \in User, NEW vault \in Vault, NEW n \in Int
  PROVE  LET t == Recorded(u, user, vault, n)
             left == IF PositionsOf(u, user, vault) = {}
                     THEN u.stats.users[vault] - 1 ELSE u.stats.users[vault]
         IN  /\ OnlyStats(t, u)
             /\ t.stats.users = [u.stats.users EXCEPT ![vault] = left]
             /\ t.stats.principal
                  = [u.stats.principal EXCEPT ![vault] = u.stats.principal[vault] - n]
<1> DEFINE d == DecrementVaultUsers(u, user, vault)
           k == u.stats.users[vault] - 1
           e == [u EXCEPT !.stats.users[vault] = k]
           m == d.stats.principal[vault] - n
           t == [d EXCEPT !.stats.principal[vault] = m]
           left == IF PositionsOf(u, user, vault) = {}
                   THEN u.stats.users[vault] - 1 ELSE u.stats.users[vault]
<1>1. /\ u.stats.users \in [Vault -> Int] /\ u.stats.principal \in [Vault -> Int]
      /\ u.stats.users[vault] \in Int /\ u.stats.principal[vault] \in Int
  BY StoreParts DEF StatsType
<1>2. k \in Int
  BY <1>1
<1>3. d = IF PositionsOf(u, user, vault) = {} THEN e ELSE u
  BY DEF DecrementVaultUsers
<1>4. /\ OnlyStats(e, u)
      /\ e.stats.users = [u.stats.users EXCEPT ![vault] = k]
      /\ e.stats.principal = u.stats.principal
  <2> HIDE DEF k
  <2> QED BY <1>2, UsersUpdate
<1>5. OnlyStats(u, u) /\ u.stats.users = [u.stats.users EXCEPT ![vault] = u.stats.users[vault]]
  BY <1>1 DEF OnlyStats
<1>6. /\ OnlyStats(d, u)
      /\ d.stats.users = [u.stats.users EXCEPT ![vault] = left]
      /\ d.stats.principal = u.stats.principal
  <2> HIDE DEF d, e
  <2>1. CASE PositionsOf(u, user, vault) = {}
    BY <1>3, <1>4, <2>1
  <2>2. CASE PositionsOf(u, user, vault) # {}
    BY <1>3, <1>5, <2>2
  <2> QED BY <2>1, <2>2
<1>7. m \in Int /\ m = u.stats.principal[vault] - n
  <2> HIDE DEF d
  <2> QED BY <1>1, <1>6
<1>8. /\ OnlyStats(t, d)
      /\ t.stats.users = d.stats.users
      /\ t.stats.principal = [d.stats.principal EXCEPT ![vault] = m]
  <2> HIDE DEF d, m
  <2>1. GoodStore(d)
    BY <1>6 DEF OnlyStats
  <2> QED BY <1>7, <2>1, PrincipalUpdate
<1>9. t = Recorded(u, user, vault, n)
  BY DEF Recorded
<1> HIDE DEF d, e, m, t, left
<1>10. OnlyStats(t, u)
  BY <1>6, <1>8 DEF OnlyStats
<1>11. /\ t.stats.users = [u.stats.users EXCEPT ![vault] = left]
       /\ t.stats.principal
            = [u.stats.principal EXCEPT ![vault] = u.stats.principal[vault] - n]
  BY <1>6, <1>7, <1>8
<1> QED BY <1>9, <1>10, <1>11 DEF left

\* A call that went through: the statistics follow.
LEMMA Completed ==
  ASSUME NEW s, GoodStore(s), Backed(s), NEW user \in User, NEW vault \in Vault, NEW A,
         PositionsOf(s, user, vault) # {},
         NEW x \in CallType, x.ok,
         Unlocking(x, s, user, vault, PositionsOf(s, user, vault), A)
  PROVE  AfterUnlock(Recorded(x.store, user, vault, x.removed), s, TRUE, user, vault, A)
<1> DEFINE u == x.store
           n == x.removed
           t == Recorded(u, user, vault, n)
           left == IF PositionsOf(u, user, vault) = {}
                   THEN u.stats.users[vault] - 1 ELSE u.stats.users[vault]
<1>1. /\ GoodStore(u) /\ Backed(u) /\ Harmless(u, s)
      /\ OnlyTouched(u, s, PositionsOf(s, user, vault))
      /\ Lighter(u, s, vault, n) /\ n \in Int
      /\ u.stats.users = s.stats.users /\ u.stats.principal = s.stats.principal
      /\ u.ledger.index = s.ledger.index
      /\ vault = "staked" => u.totalFlexible = s.totalFlexible
      /\ vault = "flexible" => u.totalFlexible = s.totalFlexible - n
      /\ (vault = "staked" \/ SharedBy(s, A)) /\ RewardsSafe(s) => RewardsSafe(u)
      /\ SharedBy(s, A) => SharedBy(u, A)
      /\ SharedBy(s, A) => SharedBy(u, A \ {user})
  BY DEF Unlocking, CallType
<1>2. /\ OnlyStats(t, u)
      /\ t.stats.users = [u.stats.users EXCEPT ![vault] = left]
      /\ t.stats.principal
           = [u.stats.principal EXCEPT ![vault] = u.stats.principal[vault] - n]
  <2> HIDE DEF u, n
  <2> QED BY <1>1, StatisticsAfter
<1> HIDE DEF t, u, n
<1>3. /\ GoodStore(t) /\ Backed(t) /\ Harmless(t, s)
      /\ OnlyTouched(t, s, PositionsOf(s, user, vault))
      /\ (vault = "staked" \/ SharedBy(s, A)) /\ RewardsSafe(s) => RewardsSafe(t)
      /\ SharedBy(s, A) => SharedBy(t, A)
      /\ SharedBy(s, A) => SharedBy(t, A \ {user})
  BY <1>1, <1>2, SameButStats DEF OnlyStats
<1>4. /\ t.positions = u.positions /\ t.totalFlexible = u.totalFlexible
      /\ t.ledger.index = s.ledger.index
  BY <1>1, <1>2 DEF OnlyStats
<1>5. /\ s.stats.users \in [Vault -> Int] /\ s.stats.principal \in [Vault -> Int]
      /\ s.totalFlexible \in Int
  BY StoreParts DEF StatsType
<1>6. \A v \in Vault : /\ IsFiniteSet(UsersIn(s.positions, v))
                       /\ Cardinality(UsersIn(s.positions, v)) \in Nat
                       /\ Cardinality(UsersIn(u.positions, v)) \in Nat
                       /\ WorthOf(s.positions, InVault(s.positions, v)) \in Nat
                       /\ WorthOf(u.positions, InVault(u.positions, v)) \in Nat
  <2>1. Book(s.positions) /\ Book(u.positions)
    BY <1>1 DEF GoodStore
  <2>2. \A v \in Vault : /\ IsFiniteSet(UsersIn(s.positions, v))
                         /\ Cardinality(UsersIn(s.positions, v)) \in Nat
                         /\ Cardinality(UsersIn(u.positions, v)) \in Nat
    BY <2>1, UsersFinite
  <2>3. \A v \in Vault : /\ WorthOf(s.positions, InVault(s.positions, v)) \in Nat
                         /\ WorthOf(u.positions, InVault(u.positions, v)) \in Nat
    BY <1>1, StoreNumbers
  <2> QED BY <2>2, <2>3
<1>7. \A v \in Vault :
          Cardinality(UsersIn(u.positions, v))
            = Cardinality(UsersIn(s.positions, v)) + (t.stats.users[v] - s.stats.users[v])
  <2>1. ASSUME NEW v \in Vault, v # vault
        PROVE  Cardinality(UsersIn(u.positions, v))
                 = Cardinality(UsersIn(s.positions, v)) + (t.stats.users[v] - s.stats.users[v])
    <3>1. UsersIn(u.positions, v) = UsersIn(s.positions, v)
      BY <1>1, <2>1, UsersAfter
    <3>2. t.stats.users[v] = s.stats.users[v] /\ s.stats.users[v] \in Int
      BY <1>1, <1>2, <1>5, <2>1
    <3>3. Cardinality(UsersIn(s.positions, v)) \in Nat
      BY <1>6
    <3> QED BY <3>1, <3>2, <3>3
  <2> DEFINE P == UsersIn(s.positions, vault)
             Q == UsersIn(u.positions, vault)
  <2>2. IsFiniteSet(P) /\ Cardinality(P) \in Nat /\ user \in P
    BY <1>6, OneOfUsers
  <2>3. Q \subseteq P /\ P \ {user} \subseteq Q
    BY <1>1, UsersAfter
  <2>4. user \in Q <=> PositionsOf(u, user, vault) # {}
    BY OneOfUsers
  <2>5. s.stats.users[vault] \in Int
        /\ t.stats.users[vault] = left
    BY <1>1, <1>2, <1>5
  <2> HIDE DEF P, Q
  <2>6. Cardinality(Q) = Cardinality(P) + (t.stats.users[vault] - s.stats.users[vault])
    <3>1. CASE PositionsOf(u, user, vault) = {}
      <4>1. Q = P \ {user}
        BY <2>3, <2>4, <3>1
      <4>2. Cardinality(Q) = Cardinality(P) - 1
        BY <2>2, <4>1, FS_RemoveElement
      <4>3. t.stats.users[vault] = s.stats.users[vault] - 1
        BY <1>1, <2>5, <3>1
      <4> HIDE DEF left
      <4> QED BY <2>2, <2>5, <4>2, <4>3
    <3>2. CASE PositionsOf(u, user, vault) # {}
      <4>1. Q = P
        BY <2>3, <2>4, <3>2
      <4>2. t.stats.users[vault] = s.stats.users[vault]
        BY <1>1, <2>5, <3>2
      <4> HIDE DEF left
      <4> QED BY <2>2, <2>5, <4>1, <4>2
    <3> QED BY <3>1, <3>2
  <2> QED BY <2>1, <2>6 DEF P, Q
<1>8. \A v \in Vault : t.stats.users[v] \in Int /\ s.stats.users[v] \in Int
  <2>1. t.stats.users \in [Vault -> Int]
    BY <1>3, StoreParts DEF StatsType
  <2> QED BY <1>5, <2>1
<1> HIDE DEF left
<1>9. \A v \in Vault : /\ CountedAtLeast(s, v) => CountedAtLeast(t, v)
                       /\ Counted(s, v) => Counted(t, v)
  <2> SUFFICES ASSUME NEW v \in Vault
               PROVE  /\ CountedAtLeast(s, v) => CountedAtLeast(t, v)
                      /\ Counted(s, v) => Counted(t, v)
    OBVIOUS
  <2> DEFINE p == Cardinality(UsersIn(s.positions, v))
             q == Cardinality(UsersIn(t.positions, v))
             a == s.stats.users[v]
             b == t.stats.users[v]
  <2>1. p \in Nat /\ q \in Nat /\ a \in Int /\ b \in Int /\ q = p + (b - a)
    BY <1>4, <1>6, <1>7, <1>8
  <2>2. /\ CountedAtLeast(s, v) <=> a >= p
        /\ CountedAtLeast(t, v) <=> b >= q
        /\ Counted(s, v) <=> a = p
        /\ Counted(t, v) <=> b = q
    BY DEF CountedAtLeast, Counted
  <2> HIDE DEF p, q, a, b
  <2>3. a >= p => b >= q
    BY <2>1
  <2>4. a = p => b = q
    BY <2>1
  <2> QED BY <2>2, <2>3, <2>4
<1>10. CoveredStaked(s) => CoveredStaked(t)
  <2> SUFFICES ASSUME CoveredStaked(s) PROVE CoveredStaked(t)
    OBVIOUS
  <2>1. "staked" \in Vault
    BY DEF Vault
  <2> DEFINE less == IF "staked" = vault THEN n ELSE 0
             p == s.stats.principal["staked"]
             v == WorthOf(s.positions, InVault(s.positions, "staked"))
             w == WorthOf(t.positions, InVault(t.positions, "staked"))
  <2>2. w <= v - less
    BY <1>1, <1>4, <2>1 DEF Lighter
  <2>3. t.stats.principal["staked"] = p - less /\ p \in Int
    <3>1. s.stats.principal["staked"] \in Int
      BY <1>5, <2>1
    <3>2. CASE vault = "staked"
      BY <1>1, <1>2, <1>5, <2>1, <3>1, <3>2
    <3>3. CASE vault # "staked"
      BY <1>1, <1>2, <1>5, <2>1, <3>1, <3>3
    <3> QED BY <3>2, <3>3
  <2>4. v \in Nat /\ w \in Nat /\ less \in Int
    BY <1>1, <1>4, <1>6, <2>1
  <2>5. p >= v
    BY DEF CoveredStaked
  <2> HIDE DEF p, v, w, less
  <2>6. p - less >= w
    BY <2>2, <2>3, <2>4, <2>5
  <2> QED BY <2>3, <2>6 DEF CoveredStaked, w
<1>11. CoveredFlexible(s) => CoveredFlexible(t)
  <2> SUFFICES ASSUME CoveredFlexible(s) PROVE CoveredFlexible(t)
    OBVIOUS
  <2>1. "flexible" \in Vault
    BY DEF Vault
  <2> DEFINE less == IF "flexible" = vault THEN n ELSE 0
             p == s.stats.principal["flexible"]
             v == WorthOf(s.positions, InVault(s.positions, "flexible"))
             w == WorthOf(t.positions, InVault(t.positions, "flexible"))
  <2>2. w <= v - less
    BY <1>1, <1>4, <2>1 DEF Lighter
  <2>3. t.stats.principal["flexible"] = p - less /\ p \in Int
    <3>1. s.stats.principal["flexible"] \in Int
      BY <1>5, <2>1
    <3>2. CASE vault = "flexible"
      BY <1>1, <1>2, <1>5, <2>1, <3>1, <3>2
    <3>3. CASE vault # "flexible"
      BY <1>1, <1>2, <1>5, <2>1, <3>1, <3>3
    <3> QED BY <3>2, <3>3
  <2>4. v \in Nat /\ w \in Nat /\ less \in Int
    BY <1>1, <1>4, <1>6, <2>1
  <2>5. s.totalFlexible >= v /\ p = s.totalFlexible
    BY DEF CoveredFlexible
  <2>6. t.totalFlexible = s.totalFlexible - less
    <3>1. CASE vault = "flexible"
      BY <1>1, <1>4, <3>1
    <3>2. CASE vault # "flexible"
      <4>1. vault = "staked"
        BY <3>2 DEF Vault
      <4>2. t.totalFlexible = s.totalFlexible
        BY <1>1, <1>4, <4>1
      <4> QED BY <1>5, <3>2, <4>2
    <3> QED BY <3>1, <3>2
  <2> HIDE DEF p, v, w, less
  <2>7. t.totalFlexible >= w /\ t.stats.principal["flexible"] = t.totalFlexible
    BY <1>5, <2>2, <2>3, <2>4, <2>5, <2>6
  <2> QED BY <2>7 DEF CoveredFlexible, w
<1>12. AfterUnlock(t, s, TRUE, user, vault, A)
  BY <1>3, <1>4, <1>9, <1>10, <1>11 DEF AfterUnlock
<1> QED BY <1>12 DEF t, u, n

\* Positions that hold something are there.
LEMMA SomethingToUnlock ==
  ASSUME NEW s, GoodStore(s), NEW user, NEW vault, NEW amount \in Int, amount > 0,
         amount <= TotalPositions(s, user, vault)
  PROVE  PositionsOf(s, user, vault) # {}
<1> SUFFICES ASSUME PositionsOf(s, user, vault) = {} PROVE FALSE
  OBVIOUS
<1> DEFINE f == [key \in DOMAIN s.positions |-> s.positions[key].amount]
<1>1. SumFunctionOnSet(f, {}) = 0
  BY PartEmpty
<1>2. TotalPositions(s, user, vault) = 0
  BY <1>1 DEF TotalPositions
<1> QED BY <1>2

\* Keeper.unlock, whatever comes of it.
LEMMA UnlockedKept ==
  ASSUME NEW s, GoodStore(s), Backed(s), NEW user \in User, NEW vault \in Vault,
         NEW amount \in Int, NEW A, user \in A
  PROVE  LET r == Unlocked(s, user, vault, amount)
         IN  r.ok \in BOOLEAN /\ AfterUnlock(r.store, s, r.ok, user, vault, A)
<1> DEFINE r == Unlocked(s, user, vault, amount)
           total == TotalPositions(s, user, vault)
           x == AfterRounds(s, user, vault, amount)
           Refused == amount <= 0 \/ amount > total
                        \/ (amount < MinimumUnlock /\ amount # total)
           t == Recorded(x.store, user, vault, x.removed)
<1>1. r = IF Refused THEN Fail(s) ELSE IF ~x.ok THEN Fail(x.store) ELSE Ok(t)
  BY DEF Unlocked, AfterRounds, UnlockTimes, Recorded
<1> HIDE DEF r
<1>2. CASE Refused
  <2>1. r.ok = FALSE /\ r.store = s
    BY <1>1, <1>2 DEF Fail
  <2> QED BY <2>1, NothingUnlocked DEF r
<1>3. CASE ~Refused
  <2>1. TotalPositions(s, user, vault) \in Nat
    <3>1. Book(s.positions) /\ PositionsOf(s, user, vault) \in SUBSET DOMAIN s.positions
      BY DEF GoodStore, PositionsOf
    <3> QED BY <3>1, BookSums DEF TotalPositions, Held
  <2>2. amount \in Nat /\ amount > 0 /\ amount <= total
    BY <1>3, <2>1
  <2>3. PositionsOf(s, user, vault) # {}
    BY <2>2, SomethingToUnlock
  <2>4. x \in CallType /\ Unlocking(x, s, user, vault, PositionsOf(s, user, vault), A)
    BY <2>2, RoundsKept
  <2> HIDE DEF x, Refused
  <2>5. CASE ~x.ok
    <3>1. r.ok = FALSE /\ r.store = x.store
      BY <1>1, <1>3, <2>5 DEF Fail
    <3>2. AfterUnlock(x.store, s, FALSE, user, vault, A)
      BY <2>4, <2>5, StoppedHalfway
    <3> QED BY <3>1, <3>2 DEF r
  <2>6. CASE x.ok
    <3>1. r.ok = TRUE /\ r.store = t
      BY <1>1, <1>3, <2>6 DEF Ok
    <3>2. AfterUnlock(t, s, TRUE, user, vault, A)
      BY <2>3, <2>4, <2>6, Completed
    <3> QED BY <3>1, <3>2 DEF r
  <2>7. x.ok \in BOOLEAN
    BY <2>4 DEF CallType
  <2> QED BY <2>5, <2>6
<1> QED BY <1>2, <1>3

-----------------------------------------------------------------------------
(* The end of the season. *)

\* The users whose turn comes after that of the given places in UserOrder.
Waiting(p) == {UserOrder[i] : i \in DOMAIN UserOrder \ p}

\* What the season end, halfway or done, keeps; A are the users still to come.
Ending(t, s, A) ==
    /\ GoodStore(t) /\ Backed(t) /\ Harmless(t, s)
    /\ t.ledger.index = s.ledger.index
    /\ \A v \in Vault : CountedAtLeast(s, v) => CountedAtLeast(t, v)
    /\ Counted(s, "staked") => Counted(t, "staked")
    /\ CoveredStaked(s) => CoveredStaked(t)
    /\ SharedBy(s, User) => SharedBy(t, A)
    /\ SharedBy(s, User) /\ RewardsSafe(s) => RewardsSafe(t)

\* One round: a user without Flexible positions is passed over.
EndRound(t, s, user) ==
    IF PositionsOf(s, user, "flexible") = {} THEN t
    ELSE Unlocked(t, user, "flexible", TotalPositions(s, user, "flexible")).store

EndTable(s) ==
    CHOOSE g : g = [p \in SUBSET DOMAIN UserOrder |->
        IF p = {} THEN s ELSE EndRound(g[p \ {Max(p)}], s, UserOrder[Max(p)])]

\* The loop over the users reads the last entry of its table.
LEMMA EndIsTable ==
  ASSUME NEW s
  PROVE  EndVaultsSeasonOne(s) = EndTable(s)[DOMAIN UserOrder]
BY DEF EndVaultsSeasonOne, FoldLeft, MapThenFoldSet, EndTable, EndRound

\* Every user has one place in UserOrder.
LEMMA Places ==
  LET D == DOMAIN UserOrder
  IN  /\ D \subseteq Nat /\ IsFiniteSet(D)
      /\ \A i \in D : UserOrder[i] \in User
      /\ \A i, j \in D : UserOrder[i] = UserOrder[j] => i = j
      /\ Waiting({}) = User /\ Waiting(D) = {}
<1> DEFINE D == DOMAIN UserOrder
           n == Cardinality(User)
<1>1. IsFiniteSet(User) /\ n \in Nat
  <2>1. IsFiniteSet(Account) /\ User \subseteq Account
    BY AddressFinite, VaultsAssumption
  <2> QED BY <2>1, FS_Subset, FS_CardinalityType
<1>2. UserOrder \in [1 .. n -> User] /\ {UserOrder[i] : i \in D} = User
  BY VaultsAssumption DEF Range
<1>3. D = 1 .. n
  BY <1>2
<1> HIDE DEF n, D
<1>4. IsFiniteSet(D) /\ Cardinality(D) = n /\ D \subseteq Nat
  BY <1>1, <1>3, FS_Interval
<1>5. UserOrder \in Surjection(D, User)
  BY <1>2, <1>3 DEF Surjection
<1>6. UserOrder \in Injection(D, User)
  BY <1>4, <1>5, FS_SurjSameCardinalityImpliesInj DEF n
<1>7. \A i, j \in D : UserOrder[i] = UserOrder[j] => i = j
  BY <1>6 DEF Injection, IsInjective
<1>8. Waiting({}) = User /\ Waiting(D) = {}
  BY <1>2 DEF Waiting, D
<1> QED BY <1>2, <1>3, <1>4, <1>7, <1>8 DEF D

\* Nothing has happened yet.
LEMMA EndStarts ==
  ASSUME NEW s, GoodStore(s), Backed(s)
  PROVE  Ending(s, s, User)
<1>1. Harmless(s, s)
  BY HarmlessReflexive
<1> QED BY <1>1 DEF Ending

\* The next user's turn.
LEMMA EndGoesOn ==
  ASSUME NEW s, GoodStore(s), NEW t, NEW A, Ending(t, s, A), NEW user \in User, user \in A,
         NEW B, B \subseteq A \ {user}
  PROVE  Ending(EndRound(t, s, user), s, B)
<1> DEFINE u == EndRound(t, s, user)
           total == TotalPositions(s, user, "flexible")
           r == Unlocked(t, user, "flexible", total)
<1>1. /\ GoodStore(t) /\ Backed(t) /\ Harmless(t, s)
      /\ t.ledger.index = s.ledger.index
      /\ \A v \in Vault : CountedAtLeast(s, v) => CountedAtLeast(t, v)
      /\ Counted(s, "staked") => Counted(t, "staked")
      /\ CoveredStaked(s) => CoveredStaked(t)
      /\ SharedBy(s, User) => SharedBy(t, A)
      /\ SharedBy(s, User) /\ RewardsSafe(s) => RewardsSafe(t)
  BY DEF Ending
<1>2. CASE PositionsOf(s, user, "flexible") = {}
  <2>1. u = t
    BY <1>2 DEF EndRound
  <2>2. SharedBy(t, A) => SharedBy(t, B)
    BY <1>1, SharedByFewer
  <2> HIDE DEF u
  <2>3. Ending(t, s, B)
    BY <1>1, <2>2 DEF Ending
  <2> QED BY <2>1, <2>3 DEF u
<1>3. CASE PositionsOf(s, user, "flexible") # {}
  <2>1. u = r.store
    BY <1>3 DEF EndRound
  <2>2. total \in Int
    <3>1. Book(s.positions) /\ PositionsOf(s, user, "flexible") \in SUBSET DOMAIN s.positions
      BY DEF GoodStore, PositionsOf
    <3> QED BY <3>1, BookSums DEF TotalPositions, Held
  <2>3. "flexible" \in Vault /\ "staked" \in Vault /\ "staked" # "flexible"
    BY DEF Vault
  <2>4. AfterUnlock(r.store, t, r.ok, user, "flexible", A)
    <3> HIDE DEF total
    <3> QED BY <1>1, <2>2, <2>3, UnlockedKept
  <2> HIDE DEF r, u
  <2>5. AfterUnlock(u, t, r.ok, user, "flexible", A)
    BY <2>1, <2>4
  <2>6. /\ GoodStore(u) /\ Backed(u) /\ Harmless(u, t)
        /\ u.ledger.index = t.ledger.index
        /\ \A v \in Vault : CountedAtLeast(t, v) => CountedAtLeast(u, v)
        /\ Counted(t, "staked") => Counted(u, "staked")
        /\ CoveredStaked(t) => CoveredStaked(u)
        /\ SharedBy(t, A) /\ RewardsSafe(t) => RewardsSafe(u)
        /\ SharedBy(t, A) => SharedBy(u, A \ {user})
    BY <2>3, <2>5 DEF AfterUnlock
  <2>7. Harmless(u, s)
    BY <1>1, <2>6, HarmlessTransitive
  <2>8. SharedBy(u, A \ {user}) => SharedBy(u, B)
    BY <2>6, SharedByFewer
  <2>9. Ending(u, s, B)
    BY <1>1, <2>6, <2>7, <2>8 DEF Ending
  <2> QED BY <2>9 DEF u
<1> QED BY <1>2, <1>3

\* endVaultsSeasonOne, whoever it skips.
LEMMA SeasonEndKept ==
  ASSUME NEW s, GoodStore(s), Backed(s)
  PROVE  Ending(EndVaultsSeasonOne(s), s, {})
<1> DEFINE D == DOMAIN UserOrder
           R(p) == {t \in StoreType : Ending(t, s, Waiting(p))}
           top == [p \in SUBSET D |-> Max(p)]
           I == [p \in SUBSET D |-> R(p)]
           F == [q \in StoreType \X D |-> EndRound(q[1], s, UserOrder[q[2]])]
           T == EndTable(s)
<1>1. /\ D \subseteq Nat /\ IsFiniteSet(D)
      /\ \A i \in D : UserOrder[i] \in User
      /\ \A i, j \in D : UserOrder[i] = UserOrder[j] => i = j
      /\ Waiting({}) = User /\ Waiting(D) = {}
  BY Places
<1>2. \A p \in SUBSET D : p # {} => Max(p) \in p /\ p \ {Max(p)} \in SUBSET D
  <2> HIDE DEF D
  <2> SUFFICES ASSUME NEW p \in SUBSET D, p # {} PROVE Max(p) \in p
    OBVIOUS
  <2>1. p \in SUBSET Nat /\ IsFiniteSet(p)
    BY <1>1, FS_Subset
  <2> QED BY <2>1, MaxIsOne
<1>3. s \in R({})
  BY <1>1, EndStarts DEF GoodStore
<1>4. ASSUME NEW p \in SUBSET D, p # {}, NEW t \in R(p \ {Max(p)})
      PROVE  EndRound(t, s, UserOrder[Max(p)]) \in R(p)
  <2> DEFINE i == Max(p)
             q == p \ {i}
             u == EndRound(t, s, UserOrder[i])
  <2>1. i \in p /\ i \in D /\ UserOrder[i] \in User
    BY <1>1, <1>2, <1>4
  <2>2. Ending(t, s, Waiting(q))
    OBVIOUS
  <2>3. UserOrder[i] \in Waiting(q) /\ Waiting(p) \subseteq Waiting(q) \ {UserOrder[i]}
    <3>1. i \in p /\ i \in D /\ q = p \ {i}
      BY <2>1
    <3> HIDE DEF i, q
    <3>2. UserOrder[i] \in Waiting(q)
      BY <3>1 DEF Waiting
    <3>3. Waiting(p) \subseteq Waiting(q)
      BY <3>1 DEF Waiting
    <3>4. UserOrder[i] \notin Waiting(p)
      BY <1>1, <3>1 DEF Waiting
    <3> QED BY <3>2, <3>3, <3>4
  <2>4. Ending(u, s, Waiting(p))
    <3> HIDE DEF i, q
    <3> QED BY <2>1, <2>2, <2>3, EndGoesOn
  <2> HIDE DEF u
  <2>5. u \in StoreType
    BY <2>4 DEF Ending, GoodStore
  <2> QED BY <2>4, <2>5 DEF u
<1>5. \A p \in SUBSET D : R(p) \subseteq StoreType
  OBVIOUS
<1> HIDE DEF R
<1>6. \A t \in StoreType : \A i \in D : F[<<t, i>>] = EndRound(t, s, UserOrder[i])
  OBVIOUS
<1>7. \A p \in SUBSET D : I[p] = R(p) /\ top[p] = Max(p)
  OBVIOUS
<1> HIDE DEF F, I, top
<1>8. T = [p \in SUBSET D |->
             IF p = {} THEN s ELSE EndRound(T[p \ {Max(p)}], s, UserOrder[Max(p)])]
  <2>1. RoundsLead(D, s, F, top, I, StoreType)
    <3>1. \A p \in SUBSET D : p # {} =>
              \A t \in I[p \ {top[p]}] : F[<<t, top[p]>>] \in I[p]
      <4> SUFFICES ASSUME NEW p \in SUBSET D, p # {}, NEW t \in R(p \ {Max(p)})
                   PROVE  F[<<t, Max(p)>>] \in R(p)
        BY <1>2, <1>7
      <4>1. t \in StoreType /\ Max(p) \in D
        BY <1>2, <1>5
      <4> QED BY <1>4, <1>6, <4>1
    <3>2. \A p \in SUBSET D : p # {} => top[p] \in p
      BY <1>2, <1>7
    <3>3. {} \in SUBSET D /\ \A p \in SUBSET D : I[p] \subseteq StoreType
      BY <1>5, <1>7
    <3>4. s \in I[{}]
      BY <1>3, <1>7, <3>3
    <3> QED BY <1>1, <3>1, <3>2, <3>3, <3>4 DEF RoundsLead
  <2>2. PICK g \in [SUBSET D -> StoreType] :
            \A p \in SUBSET D : FoldEntry(g, p, s, F, top, I)
    <3>1. HasFoldTable(D, s, F, top, I, StoreType)
      BY <2>1, FoldTableExists
    <3> QED BY <3>1 DEF HasFoldTable
  <2>3. \A p \in SUBSET D :
            g[p] = IF p = {} THEN s
                   ELSE EndRound(g[p \ {Max(p)}], s, UserOrder[Max(p)])
    <3>1. \A p \in SUBSET D : p # {} => g[p \ {Max(p)}] \in StoreType /\ Max(p) \in D
      BY <1>2
    <3> QED BY <1>6, <1>7, <2>2, <3>1 DEF FoldEntry
  <2>4. g = [p \in SUBSET D |->
               IF p = {} THEN s ELSE EndRound(g[p \ {Max(p)}], s, UserOrder[Max(p)])]
    BY <2>3
  <2> QED BY <2>4 DEF EndTable
<1> HIDE DEF T
<1>9. T[D] \in I[D]
  <2>1. \A p \in SUBSET D : T[p] = IF p = {} THEN s
             ELSE EndRound(T[p \ {Max(p)}], s, UserOrder[Max(p)])
    BY <1>8
  <2>2. T[{}] \in I[{}]
    BY <1>3, <1>7, <2>1
  <2>3. \A p \in SUBSET D : p # {} => top[p] \in p
    BY <1>2, <1>7
  <2>4. \A p \in SUBSET D : p # {} =>
            (T[p \ {top[p]}] \in I[p \ {top[p]}] => T[p] \in I[p])
    <3> SUFFICES ASSUME NEW p \in SUBSET D, p # {}, T[p \ {Max(p)}] \in R(p \ {Max(p)})
                 PROVE  T[p] \in R(p)
      BY <1>2, <1>7
    <3>1. T[p] = EndRound(T[p \ {Max(p)}], s, UserOrder[Max(p)])
      BY <2>1
    <3> QED BY <1>4, <3>1
  <2> QED BY <1>1, <2>2, <2>3, <2>4, TableWithin
<1>10. T[D] \in R(D)
  BY <1>7, <1>9
<1>11. EndVaultsSeasonOne(s) = T[D]
  BY EndIsTable DEF T
<1> QED BY <1>1, <1>10, <1>11 DEF R

-----------------------------------------------------------------------------
(* The initial ledger. *)

\* Issuing nothing changes nothing.
LEMMA MintNothing ==
  ASSUME NEW l \in LedgerType, NEW r \in Account
  PROVE  MintTo(l, r, 0) = l
<1> DEFINE m == MintCoins(l, 0)
<1>1. m = l
  <2>1. [l.balance EXCEPT ![Module] = @ + 0] = l.balance /\ l.supply + 0 = l.supply
    BY DEF LedgerType, Address
  <2>2. m = [[l EXCEPT !.balance = [l.balance EXCEPT ![Module] = @ + 0]]
                EXCEPT !.supply = l.supply + 0]
    BY DEF MintCoins
  <2>3. [l EXCEPT !.balance = l.balance] = l /\ [l EXCEPT !.supply = l.supply] = l
    BY DEF LedgerType
  <2> HIDE DEF m
  <2> QED BY <2>1, <2>2, <2>3
<1>2. SendCoins(l, Module, r, 0) = l
  BY SendNothing DEF Address
<1> QED BY <1>1, <1>2 DEF MintTo

\* A ledger at the initial index.
Fresh(l) == Sound(l) /\ l.index = Scale

EndowTable ==
    CHOOSE g : g = [p \in SUBSET DOMAIN UserOrder |->
        IF p = {} THEN EmptyLedger
        ELSE MintTo(g[p \ {Max(p)}], UserOrder[Max(p)], Endowment[UserOrder[Max(p)]])]

\* The endowment reads the last entry of its table.
LEMMA EndowedIsTable == Endowed = EndowTable[DOMAIN UserOrder]
BY DEF Endowed, FoldLeft, MapThenFoldSet, EndowTable

\* Issuing to a user keeps the ledger sound, and is all that is supplied.
LEMMA Endow ==
  ASSUME NEW l, Fresh(l), NEW u \in User
  PROVE  /\ Fresh(MintTo(l, u, Endowment[u]))
         /\ MintTo(l, u, Endowment[u]).supply = l.supply + Endowment[u]
         /\ MintTo(l, u, Endowment[u]).totalYieldAccrued = l.totalYieldAccrued
<1> DEFINE n == Endowment[u]
           m == MintTo(l, u, n)
<1>1. u \in Account /\ n \in Nat
  BY VaultsAssumption
<1>2. Sound(l) /\ l \in LedgerType /\ l.supply \in Nat
  BY SoundNumbers DEF Fresh, Sound
<1> HIDE DEF n
<1>3. CASE n = 0
  BY <1>1, <1>2, <1>3, MintNothing DEF n
<1>4. CASE n > 0
  <2>1. Sound(m) /\ m.index = l.index /\ m.supply = l.supply + n
        /\ m.totalYieldAccrued = l.totalYieldAccrued
    <3> DEFINE up   == GetPrincipalAmountRoundedUp(n, l.index)
               down == GetPrincipalAmountRoundedDown(n, l.index)
    <3>1. /\ Sound(m)
          /\ SameExcept(m, l, {"balance", "principal", "supply",
                               "totalPrincipal", "totalHolders"})
          /\ m.supply = l.supply + n
          /\ m.totalPrincipal = l.totalPrincipal + up
          /\ m.balance = [l.balance EXCEPT ![u] = @ + n]
          /\ m.principal = [l.principal EXCEPT ![u] = @ + down]
      BY <1>1, <1>2, <1>4, IssueToAccount
    <3> HIDE DEF m, up, down
    <3>2. m.index = l.index /\ m.totalYieldAccrued = l.totalYieldAccrued
      BY <3>1 DEF SameExcept
    <3> QED BY <3>1, <3>2
  <2> QED BY <2>1 DEF Fresh, n
<1> QED BY <1>1, <1>3, <1>4

\* The users are finitely many, and all of them are in the order.
LEMMA UsersListed ==
  IsFiniteSet(User) /\ User = {UserOrder[k] : k \in DOMAIN UserOrder}
<1>1. IsFiniteSet(User)
  BY VaultsAssumption, AccountAssumption, FS_Subset
<1>2. Range(UserOrder) = User
  BY VaultsAssumption
<1> QED BY <1>1, <1>2 DEF Range

\* What some users hold at first, and one more.
LEMMA EndowmentSum ==
  ASSUME NEW A \in SUBSET User, NEW u \in User, u \notin A
  PROVE  /\ SumFunctionOnSet(Endowment, A) \in Nat
         /\ SumFunctionOnSet(Endowment, A \cup {u})
              = SumFunctionOnSet(Endowment, A) + Endowment[u]
<1> DEFINE T == A \cup {u}
           f == [x \in A |-> Endowment[x]]
           h == [x \in T |-> Endowment[x]]
<1>1. \A x \in User : Endowment[x] \in Nat
  BY VaultsAssumption
<1>2. IsFiniteSet(A)
  BY UsersListed, FS_Subset
<1>3. IsFiniteSet(T)
  BY <1>2, FS_AddElement
<1>4. /\ f \in [A -> Nat] /\ f \in [A -> Int] /\ h \in [T -> Int]
      /\ \A x \in A : h[x] = f[x] /\ Endowment[x] = f[x]
      /\ \A x \in T : Endowment[x] = h[x]
      /\ h[u] = Endowment[u]
      /\ u \notin A /\ T = A \cup {u}
  BY <1>1
<1> HIDE DEF f, h, T
<1>5. SumFunction(h) = SumFunction(f) + h[u]
  BY <1>2, <1>4, SumExtendTo
<1>6. SumFunction(f) \in Nat
  BY <1>2, <1>4, SumOfNat
<1>7. SumFunctionOnSet(Endowment, A) = SumFunction(f)
  BY <1>2, <1>4, SumOnPart
<1>8. SumFunctionOnSet(Endowment, T) = SumFunction(h)
  BY <1>3, <1>4, SumOnPart
<1> QED BY <1>4, <1>5, <1>6, <1>7, <1>8

\* Nobody and everybody.
LEMMA EndowmentWhole ==
  /\ SumFunctionOnSet(Endowment, {}) = 0
  /\ SumFunctionOnSet(Endowment, User) = SumFunction(Endowment)
  /\ SumFunction(Endowment) \in Nat
<1>1. IsFiniteSet(User) /\ Endowment \in [User -> Nat] /\ Endowment \in [User -> Int]
  BY UsersListed, VaultsAssumption
<1>2. SumFunctionOnSet(Endowment, User) = SumFunction(Endowment)
  BY <1>1, SumOnPart
<1>3. SumFunction(Endowment) \in Nat
  BY <1>1, SumOfNat
<1> DEFINE f == [x \in {} |-> Endowment[x]]
<1>4. f \in [{} -> Int] /\ \A x \in {} : f[x] = 0 /\ Endowment[x] = f[x]
  OBVIOUS
<1>5. IsFiniteSet({})
  BY FS_EmptySet
<1> HIDE DEF f
<1>6. SumFunction(f) = 0
  BY <1>4, <1>5, SumZero
<1>7. SumFunctionOnSet(Endowment, {}) = SumFunction(f)
  BY <1>4, <1>5, SumOnPart
<1> QED BY <1>2, <1>3, <1>6, <1>7

\* The ledger that users start with is sound, at the initial index, and its supply
\* is what they hold.
LEMMA EndowedFresh ==
  /\ Fresh(Endowed)
  /\ Endowed.supply = SumFunction(Endowment) /\ Endowed.totalYieldAccrued = 0
<1> DEFINE D == DOMAIN UserOrder
           seen(p) == {UserOrder[k] : k \in p}
           given(p) == SumFunctionOnSet(Endowment, seen(p))
           R == {l \in LedgerType : Fresh(l)}
           top == [p \in SUBSET D |-> Max(p)]
           I == [p \in SUBSET D |->
                    {l \in R : l.supply = given(p) /\ l.totalYieldAccrued = 0}]
           F == [q \in R \X D |-> MintTo(q[1], UserOrder[q[2]], Endowment[UserOrder[q[2]]])]
           T == EndowTable
<1>1. D \subseteq Nat /\ IsFiniteSet(D) /\ \A i \in D : UserOrder[i] \in User
  BY Places
<1>2. \A p \in SUBSET D : p # {} => Max(p) \in p /\ p \ {Max(p)} \in SUBSET D
  <2> HIDE DEF D
  <2> SUFFICES ASSUME NEW p \in SUBSET D, p # {} PROVE Max(p) \in p
    OBVIOUS
  <2>1. p \in SUBSET Nat /\ IsFiniteSet(p)
    BY <1>1, FS_Subset
  <2> QED BY <2>1, MaxIsOne
<1>3. EmptyLedger \in I[{}]
  <2>1. /\ EmptyLedger.index = Scale
        /\ EmptyLedger.supply = 0 /\ EmptyLedger.totalYieldAccrued = 0
    BY DEF EmptyLedger
  <2>2. EmptyLedger \in R
    BY <2>1, EmptySound DEF Fresh, Sound
  <2>3. given({}) = 0
    <3>1. seen({}) = {}
      OBVIOUS
    <3> HIDE DEF seen
    <3> QED BY <3>1, EndowmentWhole
  <2> HIDE DEF R, given
  <2> QED BY <2>1, <2>2, <2>3
<1>4. ASSUME NEW p \in SUBSET D, p # {}, NEW l \in I[p \ {Max(p)}]
      PROVE  MintTo(l, UserOrder[Max(p)], Endowment[UserOrder[Max(p)]]) \in I[p]
  <2> DEFINE rest == p \ {Max(p)}
             u == UserOrder[Max(p)]
             m == MintTo(l, u, Endowment[u])
  <2>1. Max(p) \in p /\ Max(p) \in D /\ rest \in SUBSET D /\ u \in User
    BY <1>1, <1>2, <1>4
  <2>2. l \in R /\ Fresh(l) /\ l.supply = given(rest) /\ l.totalYieldAccrued = 0
    BY <2>1
  <2>3. seen(p) = seen(rest) \cup {u} /\ seen(rest) \in SUBSET User
    BY <1>1, <2>1
  <2>4. u \notin seen(rest)
    BY <2>1, Places
  <2>5. given(p) = given(rest) + Endowment[u]
    <3> HIDE DEF seen, u
    <3> QED BY <2>1, <2>3, <2>4, EndowmentSum
  <2> HIDE DEF given, rest, u
  <2>6. Fresh(m) /\ m.supply = l.supply + Endowment[u] /\ m.totalYieldAccrued = 0
    BY <2>1, <2>2, Endow
  <2> HIDE DEF m
  <2>7. m \in LedgerType
    BY <2>6 DEF Fresh, Sound
  <2>8. m \in I[p]
    BY <2>2, <2>5, <2>6, <2>7
  <2> QED BY <2>8 DEF m, u
<1>5. \A p \in SUBSET D : I[p] \subseteq R
  OBVIOUS
<1> HIDE DEF R
<1>6. \A l \in R : \A i \in D :
          F[<<l, i>>] = MintTo(l, UserOrder[i], Endowment[UserOrder[i]])
  OBVIOUS
<1>7. \A p \in SUBSET D : top[p] = Max(p)
  OBVIOUS
<1> HIDE DEF F, I, top
<1>8. T = [p \in SUBSET D |->
             IF p = {} THEN EmptyLedger
             ELSE MintTo(T[p \ {Max(p)}], UserOrder[Max(p)], Endowment[UserOrder[Max(p)]])]
  <2>1. RoundsLead(D, EmptyLedger, F, top, I, R)
    <3>1. \A p \in SUBSET D : p # {} =>
              top[p] \in p /\ top[p] \in D /\ p \ {top[p]} \in SUBSET D
      BY <1>2, <1>7
    <3>2. {} \in SUBSET D
      OBVIOUS
    <3>3. ASSUME NEW p \in SUBSET D, p # {}, NEW l \in I[p \ {top[p]}]
          PROVE  F[<<l, top[p]>>] \in I[p]
      <4>1. top[p] = Max(p) /\ Max(p) \in D /\ p \ {Max(p)} \in SUBSET D
        BY <1>7, <3>1, <3>3
      <4>2. l \in I[p \ {Max(p)}] /\ l \in R
        BY <1>5, <3>3, <4>1
      <4>3. MintTo(l, UserOrder[Max(p)], Endowment[UserOrder[Max(p)]]) \in I[p]
        BY <1>4, <3>3, <4>2
      <4> QED BY <1>6, <4>1, <4>2, <4>3
    <3> QED BY <1>1, <1>3, <1>5, <3>1, <3>2, <3>3 DEF RoundsLead
  <2>2. PICK g \in [SUBSET D -> R] :
            \A p \in SUBSET D : FoldEntry(g, p, EmptyLedger, F, top, I)
    <3>1. HasFoldTable(D, EmptyLedger, F, top, I, R)
      BY <2>1, FoldTableExists
    <3> QED BY <3>1 DEF HasFoldTable
  <2>3. \A p \in SUBSET D :
            g[p] = IF p = {} THEN EmptyLedger
                   ELSE MintTo(g[p \ {Max(p)}], UserOrder[Max(p)], Endowment[UserOrder[Max(p)]])
    <3>1. \A p \in SUBSET D : p # {} => g[p \ {Max(p)}] \in R /\ Max(p) \in D
      BY <1>2
    <3> QED BY <1>6, <1>7, <2>2, <3>1, ZenonT(40) DEF FoldEntry
  <2>4. g = [p \in SUBSET D |->
               IF p = {} THEN EmptyLedger
               ELSE MintTo(g[p \ {Max(p)}], UserOrder[Max(p)], Endowment[UserOrder[Max(p)]])]
    BY <2>3
  <2> QED BY <2>4 DEF EndowTable
<1> HIDE DEF T
<1>9. T[D] \in I[D]
  <2>1. \A p \in SUBSET D : T[p] = IF p = {} THEN EmptyLedger
             ELSE MintTo(T[p \ {Max(p)}], UserOrder[Max(p)], Endowment[UserOrder[Max(p)]])
    BY <1>8
  <2>2. T[{}] \in I[{}]
    BY <1>3, <2>1
  <2>3. \A p \in SUBSET D : p # {} => top[p] \in p
    BY <1>2, <1>7
  <2>4. \A p \in SUBSET D : p # {} =>
            (T[p \ {top[p]}] \in I[p \ {top[p]}] => T[p] \in I[p])
    <3> SUFFICES ASSUME NEW p \in SUBSET D, p # {}, T[p \ {Max(p)}] \in I[p \ {Max(p)}]
                 PROVE  T[p] \in I[p]
      BY <1>7
    <3>1. T[p] = MintTo(T[p \ {Max(p)}], UserOrder[Max(p)], Endowment[UserOrder[Max(p)]])
      BY <2>1
    <3> QED BY <1>4, <3>1
  <2> QED BY <1>1, <2>2, <2>3, <2>4, TableWithin
<1>10. T[D] \in R /\ T[D].supply = given(D) /\ T[D].totalYieldAccrued = 0
  BY <1>9 DEF I
<1>11. Endowed = T[D]
  BY EndowedIsTable DEF T, D
<1>12. given(D) = SumFunction(Endowment)
  <2>1. seen(D) = User
    BY UsersListed
  <2> HIDE DEF seen
  <2> QED BY <2>1, EndowmentWhole
<1> HIDE DEF given
<1> QED BY <1>10, <1>11, <1>12 DEF R

-----------------------------------------------------------------------------
(* The invariant of the books. *)

\* What holds of the books after every handler.  What is said of the Flexible
\* vault is lost when the season end skips a user.
Safe(s, open) ==
    /\ GoodStore(s) /\ Backed(s) /\ CoveredStaked(s)
    /\ \A v \in Vault : CountedAtLeast(s, v)
    /\ Counted(s, "staked")
    /\ open => SharedBy(s, User) /\ CoveredFlexible(s) /\ Counted(s, "flexible")

\* One more record, shared over the principal of the Flexible vault, of coins
\* that its account received.
Added(t, s, i, n) ==
    /\ i > s.ledger.index /\ n \in Nat
    /\ DOMAIN t.rewards = DOMAIN s.rewards \cup {i}
    /\ \A j \in DOMAIN s.rewards : t.rewards[j] = s.rewards[j]
    /\ t.rewards[i] = [total |-> s.totalFlexible, rewards |-> n]
    /\ t.ledger.balance[FlexibleVault] >= s.ledger.balance[FlexibleVault] + n

\* The positions are as they were, and no account lost anything.
Grown(t, s) ==
    /\ GoodStore(t)
    /\ t.positions = s.positions /\ t.totalFlexible = s.totalFlexible /\ t.stats = s.stats
    /\ \A a \in Account : t.ledger.balance[a] >= s.ledger.balance[a]
    /\ t.rewards = s.rewards \/ \E i \in Nat, n \in Nat : Added(t, s, i, n)

\* The accounts that hold what is in the vaults.
LEMMA CustodyAccounts ==
  /\ StakedVault \in Account /\ FlexibleVault \in Account /\ User \subseteq Account
  /\ FlexibleVault # StakedVault
  /\ \A k \in Keys : k[2] = "flexible" => PositionAccount(k[1], k[3]) \in Account
<1>1. /\ StakedVault \in Account /\ FlexibleVault \in Account /\ User \subseteq Account
      /\ FlexibleVault # StakedVault
  BY TokenAssumption, VaultsAssumption
<1>2. ASSUME NEW k \in Keys, k[2] = "flexible"
      PROVE  PositionAccount(k[1], k[3]) \in Account
  <2>1. k[1] \in User /\ k[3] \in Time /\ k[3] <= SeasonEnd
    BY <1>2 DEF Keys
  <2> QED BY <2>1, PositionAccounts
<1> QED BY <1>1, <1>2

\* A store that only grew is as safe as it was.
LEMMA GrownSafe ==
  ASSUME NEW s, NEW open \in BOOLEAN, Safe(s, open), NEW t, Grown(t, s)
  PROVE  Safe(t, open) /\ NoLoss(t, s)
<1>1. /\ GoodStore(s) /\ GoodStore(t)
      /\ t.positions = s.positions /\ t.totalFlexible = s.totalFlexible /\ t.stats = s.stats
      /\ \A a \in Account : t.ledger.balance[a] >= s.ledger.balance[a]
      /\ t.rewards = s.rewards \/ \E i \in Nat, n \in Nat : Added(t, s, i, n)
  BY DEF Safe, Grown
<1>2. \A a \in Account : t.ledger.balance[a] \in Nat /\ s.ledger.balance[a] \in Nat
  BY <1>1, StoreNumbers
<1>3. Backed(t)
  <2>1. Backed(s)
    BY DEF Safe
  <2>2. Held(s.positions, InVault(s.positions, "staked")) \in Nat
    BY <1>1, StoreNumbers
  <2>3. t.ledger.balance[StakedVault] >= Held(s.positions, InVault(s.positions, "staked"))
    BY <1>1, <1>2, <2>1, <2>2, CustodyAccounts DEF Backed
  <2>4. ASSUME NEW k \in InVault(s.positions, "flexible")
        PROVE  t.ledger.balance[PositionAccount(k[1], k[3])] >= s.positions[k].amount
    <3>1. k \in Keys /\ k[2] = "flexible" /\ s.positions[k].amount \in Nat
      BY <1>1, <2>4, StoreNumbers DEF InVault
    <3>2. PositionAccount(k[1], k[3]) \in Account
      BY <3>1, CustodyAccounts
    <3>3. s.ledger.balance[PositionAccount(k[1], k[3])] >= s.positions[k].amount
      BY <2>1, <2>4 DEF Backed
    <3> QED BY <1>1, <1>2, <3>1, <3>2, <3>3
  <2> QED BY <1>1, <2>3, <2>4 DEF Backed
<1>4. NoLoss(t, s)
  <2> SUFFICES ASSUME NEW u \in User PROVE Owned(t, u) >= Owned(s, u)
    BY DEF NoLoss
  <2>1. u \in Account
    BY CustodyAccounts
  <2>2. Held(s.positions, OfUser(s.positions, u)) \in Nat
    BY <1>1, StoreNumbers
  <2> QED BY <1>1, <1>2, <2>1, <2>2 DEF Owned
<1>5. CoveredStaked(t) /\ Counted(t, "staked") /\ \A v \in Vault : CountedAtLeast(t, v)
  BY <1>1 DEF Safe, CoveredStaked, Counted, CountedAtLeast
<1>6. open => CoveredFlexible(t) /\ Counted(t, "flexible")
  BY <1>1 DEF Safe, CoveredFlexible, Counted
<1>7. open => SharedBy(t, User)
  <2> SUFFICES ASSUME open PROVE SharedBy(t, User)
    OBVIOUS
  <2>1. SharedBy(s, User) /\ CoveredFlexible(s)
    BY DEF Safe
  <2>2. CASE t.rewards = s.rewards
    BY <1>1, <2>1, <2>2 DEF SharedBy
  <2>3. CASE \E i \in Nat, n \in Nat : Added(t, s, i, n)
    <3>1. PICK i \in Nat, n \in Nat : Added(t, s, i, n)
      BY <2>3
    <3>2. t.rewards[i].total = s.totalFlexible
      BY <3>1 DEF Added
    <3> DEFINE E == Earlier(s.positions, User, i)
               K == InVault(s.positions, "flexible")
    <3>3. E \in SUBSET K /\ K \in SUBSET DOMAIN s.positions
      BY DEF Earlier, InVault
    <3>4. Book(s.positions)
      BY <1>1 DEF GoodStore
    <3>5. WorthOf(s.positions, E) <= WorthOf(s.positions, K)
      <4> HIDE DEF E, K
      <4> QED BY <3>3, <3>4, BookWithin
    <3>6. WorthOf(s.positions, E) \in Nat /\ WorthOf(s.positions, K) \in Nat
      <4> HIDE DEF E, K
      <4>1. E \in SUBSET DOMAIN s.positions
        BY <3>3
      <4> QED BY <3>3, <3>4, <4>1, BookSums
    <3>7. s.totalFlexible >= WorthOf(s.positions, K) /\ s.totalFlexible \in Int
      BY <1>1, <2>1, StoreNumbers DEF CoveredFlexible
    <3>8. t.rewards[i].total >= WorthOf(s.positions, E)
      <4> HIDE DEF E, K
      <4> QED BY <3>2, <3>5, <3>6, <3>7
    <3>9. \A j \in DOMAIN s.rewards :
              t.rewards[j].total >= WorthOf(s.positions, Earlier(s.positions, User, j))
      BY <2>1, <3>1 DEF SharedBy, Added
    <3>10. DOMAIN t.rewards = DOMAIN s.rewards \cup {i}
      BY <3>1 DEF Added
    <3> QED BY <1>1, <3>8, <3>9, <3>10 DEF SharedBy
  <2> QED BY <1>1, <2>2, <2>3
<1> QED BY <1>1, <1>3, <1>4, <1>5, <1>6, <1>7 DEF Safe

\* Its records still promise no more than is there.
LEMMA GrownRewards ==
  ASSUME NEW s, GoodStore(s), RewardsSafe(s), s.totalFlexible < 2 * Precision,
         NEW t, Grown(t, s)
  PROVE  RewardsSafe(t)
<1>1. /\ GoodStore(t)
      /\ \A a \in Account : t.ledger.balance[a] >= s.ledger.balance[a]
      /\ t.rewards = s.rewards \/ \E i \in Nat, n \in Nat : Added(t, s, i, n)
  BY DEF Grown
<1>2. /\ t.ledger.balance[FlexibleVault] \in Nat /\ s.ledger.balance[FlexibleVault] \in Nat
      /\ t.ledger.balance[FlexibleVault] >= s.ledger.balance[FlexibleVault]
  BY <1>1, StoreNumbers, CustodyAccounts
<1>3. /\ \A i \in DOMAIN s.rewards : /\ s.rewards[i].rewards \in Nat
                                    /\ s.rewards[i].total < 2 * Precision
      /\ s.ledger.balance[FlexibleVault] >= RewardsOf(s)
  BY DEF RewardsSafe
<1> DEFINE f == [i \in DOMAIN s.rewards |-> s.rewards[i].rewards]
           h == [i \in DOMAIN t.rewards |-> t.rewards[i].rewards]
<1>4. IsFiniteSet(DOMAIN s.rewards) /\ f \in [DOMAIN s.rewards -> Nat]
  BY <1>3 DEF GoodStore, Records
<1>5. RewardsOf(s) = SumFunction(f) /\ RewardsOf(t) = SumFunction(h)
  BY DEF RewardsOf
<1>6. SumFunction(f) \in Nat
  <2> HIDE DEF f
  <2> QED BY <1>4, SumOfNat
<1>7. CASE t.rewards = s.rewards
  <2>1. RewardsOf(t) = RewardsOf(s)
    BY <1>7 DEF RewardsOf
  <2>2. t.ledger.balance[FlexibleVault] >= RewardsOf(t)
    BY <1>2, <1>3, <1>5, <1>6, <2>1
  <2> QED BY <1>3, <1>7, <2>2 DEF RewardsSafe
<1>8. CASE \E i \in Nat, n \in Nat : Added(t, s, i, n)
  <2>1. PICK i \in Nat, n \in Nat : Added(t, s, i, n)
    BY <1>8
  <2>2. /\ i > s.ledger.index
        /\ DOMAIN t.rewards = DOMAIN s.rewards \cup {i}
        /\ \A j \in DOMAIN s.rewards : t.rewards[j] = s.rewards[j]
        /\ t.rewards[i].total = s.totalFlexible /\ t.rewards[i].rewards = n
        /\ t.ledger.balance[FlexibleVault] >= s.ledger.balance[FlexibleVault] + n
    BY <2>1 DEF Added
  <2>3. i \notin DOMAIN s.rewards
    <3>1. \A j \in DOMAIN s.rewards : j \in Nat /\ j <= s.ledger.index
      BY DEF GoodStore, Records
    <3>2. s.ledger.index \in Nat
      BY StoreNumbers
    <3> QED BY <2>2, <3>1, <3>2
  <2>4. h \in [DOMAIN t.rewards -> Nat] /\ h[i] = n
    BY <1>3, <2>2
  <2>5. \A j \in DOMAIN s.rewards : h[j] = f[j]
    BY <2>2
  <2>6. SumFunction(h) = SumFunction(f) + h[i]
    <3>1. f \in [DOMAIN s.rewards -> Int] /\ h \in [DOMAIN t.rewards -> Int]
      BY <1>4, <2>4
    <3> HIDE DEF f, h
    <3> QED BY <1>4, <2>2, <2>3, <2>5, <3>1, SumExtendTo
  <2> HIDE DEF f, h
  <2>7. t.ledger.balance[FlexibleVault] >= RewardsOf(t)
    BY <1>2, <1>3, <1>5, <1>6, <2>2, <2>4, <2>6
  <2>8. \A j \in DOMAIN t.rewards : /\ t.rewards[j].rewards \in Nat
                                   /\ t.rewards[j].total < 2 * Precision
    BY <1>3, <2>2
  <2> QED BY <2>7, <2>8 DEF RewardsSafe
<1> QED BY <1>1, <1>7, <1>8

-----------------------------------------------------------------------------
(* Index updates. *)

\* The principal that goes with some yield: the divisor is not zero.
LEMMA YieldPrincipal ==
  ASSUME NEW index \in Nat, index >= Scale, NEW yield \in Nat
  PROVE  TruncateInt(DecQuo(yield * Precision, (index * Precision) \div Scale)) \in Nat
<1> DEFINE b == (index * Precision) \div Scale
           a == yield * Precision
<1>1. Scale \in Nat \ {0} /\ Precision \in Nat \ {0}
  BY ScaleAssumption, VaultsAssumption
<1>2. b \in Nat \ {0}
  <2> DEFINE n == index * Precision
  <2>1. n \in Nat /\ n >= index
    <3>1. n \in Nat
      BY <1>1
    <3>2. PICK m \in Nat : Precision = m + 1
      <4>1. Precision - 1 \in Nat /\ Precision = (Precision - 1) + 1
        BY <1>1
      <4> QED BY <4>1
    <3>3. n = index * m + index /\ index * m \in Nat
      BY <3>2
    <3> QED BY <3>1, <3>3
  <2> HIDE DEF n
  <2>2. b \in Nat /\ n % Scale \in 0 .. Scale - 1 /\ n = Scale * b + (n % Scale)
    BY <1>1, <2>1, DivMod DEF n
  <2> HIDE DEF b
  <2>3. ASSUME b = 0 PROVE FALSE
    <3>1. Scale * b = 0
      BY <1>1, <2>3
    <3> QED BY <1>1, <2>1, <2>2, <3>1
  <2> QED BY <2>2, <2>3
<1>3. a \in Nat
  BY <1>1
<1> HIDE DEF a, b
<1>4. DecQuo(a, b) \in Nat
  BY <1>2, <1>3, DecQuoBounds
<1> QED BY <1>4, TruncateType DEF a, b

\* Two principals are set, and nothing else.
LEMMA TwoPrincipals ==
  ASSUME NEW k, NEW a, NEW b, NEW x, NEW y
  PROVE  [k EXCEPT !.principal[a] = x, !.principal[b] = y]
           = [k EXCEPT !.principal = [k.principal EXCEPT ![a] = x, ![b] = y]]
OBVIOUS

\* claimStakedVaultYield pays the Flexible vault.
LEMMA ClaimStaked ==
  ASSUME NEW l, Sound(l), CanClaim(l, StakedVault)
  PROVE  LET m == ClaimStakedVaultYield(l)
         IN  /\ Sound(m) /\ m.index = l.index
             /\ GetYield(l, StakedVault) \in Nat
             /\ m.balance[FlexibleVault]
                  = l.balance[FlexibleVault] + GetYield(l, StakedVault)
             /\ \A a \in Account \ {FlexibleVault} : m.balance[a] = l.balance[a]
             /\ Spares(m, l, Account \ {StakedVault})
<1> DEFINE yield == GetYield(l, StakedVault)
           principal == TruncateInt(DecQuo(yield * Precision,
                                           (l.index * Precision) \div Scale))
           k == SendCoins(l, Yield, FlexibleVault, yield)
           m == ClaimStakedVaultYield(l)
<1>1. l \in LedgerType /\ l.index \in Nat /\ l.index >= Scale
  BY DEF Sound, LedgerType
<1>2. /\ StakedVault \in Account /\ FlexibleVault \in Account
      /\ FlexibleVault # StakedVault /\ Yield \notin Account
  BY CustodyAccounts, AccountAssumption
<1>3. yield \in Nat /\ l.balance[Yield] >= yield
  BY <1>1, <1>2, YieldType DEF CanClaim, CanSend
<1>4. principal \in Nat
  <2> HIDE DEF yield
  <2> QED BY <1>1, <1>3, YieldPrincipal
<1> HIDE DEF yield, principal
<1>5. /\ Sound(k) /\ SameExcept(k, l, {"balance"})
      /\ k.balance = [[l.balance EXCEPT ![Yield] = @ - yield]
                         EXCEPT ![FlexibleVault] = @ + yield]
  BY <1>2, <1>3, SendYield
<1>6. m = [k EXCEPT !.principal[StakedVault] = @ - principal,
                    !.principal[FlexibleVault] = @ + principal]
  BY DEF ClaimStakedVaultYield, yield, principal
<1> HIDE DEF k, m
<1> DEFINE p == [k.principal EXCEPT ![StakedVault] = @ - principal]
           q == [p EXCEPT ![FlexibleVault] = @ + principal]
<1>7. k \in LedgerType
  BY <1>5 DEF Sound
<1>8. /\ m.index = k.index /\ m.balance = k.balance /\ m.supply = k.supply
      /\ m.totalPrincipal = k.totalPrincipal /\ m.totalHolders = k.totalHolders
      /\ m.totalYieldAccrued = k.totalYieldAccrued
      /\ m.principal = q
  BY <1>2, <1>6, <1>7 DEF LedgerType
<1>9. p \in [Account -> Int] /\ q \in [Account -> Int]
  BY <1>2, <1>4, <1>7 DEF LedgerType
<1>10. m \in LedgerType
  <2>1. m = [k EXCEPT !.principal = q]
    <3> DEFINE x == k.principal[StakedVault] - principal
               y == k.principal[FlexibleVault] + principal
               r == [k.principal EXCEPT ![StakedVault] = x, ![FlexibleVault] = y]
    <3>1. m = [k EXCEPT !.principal[StakedVault] = x, !.principal[FlexibleVault] = y]
      BY <1>6
    <3>2. q = r
      BY <1>2, <1>7 DEF LedgerType
    <3> HIDE DEF q, x, y
    <3>3. m = [k EXCEPT !.principal = r]
      BY <3>1, TwoPrincipals
    <3> HIDE DEF r
    <3> QED BY <3>2, <3>3
  <2> HIDE DEF q
  <2> QED BY <1>7, <1>9, <2>1 DEF LedgerType
<1>11. SumFunction(q) = SumFunction(k.principal)
  <2> DEFINE j == [k EXCEPT !.principal = p]
  <2>1. j \in LedgerType /\ j.principal = p
    <3> HIDE DEF p
    <3> QED BY <1>7, <1>9 DEF LedgerType
  <2>2. SumFunction(j.principal) = SumFunction(k.principal) - principal
    <3> HIDE DEF j
    <3> QED BY <1>2, <1>4, <1>7, <2>1, PrincipalSub DEF p
  <2>3. m.principal = [j.principal EXCEPT ![FlexibleVault] = @ + principal]
    BY <1>8, <2>1
  <2> HIDE DEF j, p, q
  <2>4. SumFunction(m.principal) = SumFunction(j.principal) + principal
    BY <1>2, <1>4, <2>1, <2>3, PrincipalAdd
  <2>5. SumFunction(k.principal) \in Int
    BY <1>7, SumsTyped
  <2> QED BY <1>4, <1>8, <2>2, <2>4, <2>5
<1> HIDE DEF p, q
<1>12. CountsHolders(m)
  <2>1. CountsHolders(k)
    BY <1>5 DEF Sound
  <2>2. \A a \in Account : m.balance[a] >= k.balance[a]
    BY <1>7, <1>8 DEF LedgerType, Address
  <2> QED BY <1>7, <1>8, <1>10, <2>1, <2>2, HoldersGrow
<1>13. Sound(m)
  BY <1>5, <1>8, <1>10, <1>11, <1>12 DEF Sound
<1>14. m.index = l.index
  BY <1>5, <1>8 DEF SameExcept
<1>15. l.balance \in [Address -> Nat] /\ FlexibleVault \in Address /\ Yield \in Address
  BY <1>1, <1>2 DEF LedgerType, Address
<1>16. /\ k.balance[FlexibleVault] = l.balance[FlexibleVault] + yield
       /\ \A a \in Account \ {FlexibleVault} : k.balance[a] = l.balance[a]
  BY <1>2, <1>3, <1>5, <1>15 DEF Address
<1>17. Spares(m, l, Account \ {StakedVault})
  <2>1. m.supply = l.supply /\ m.totalYieldAccrued = l.totalYieldAccrued
    BY <1>5, <1>8 DEF SameExcept
  <2>2. /\ m.index >= l.index
        /\ m.supply - l.supply = m.totalYieldAccrued - l.totalYieldAccrued
    BY <1>1, <1>14, <2>1, SoundNumbers
  <2>3. k.principal = l.principal /\ l.principal \in [Account -> Int]
    BY <1>5, SoundNumbers DEF SameExcept
  <2>4. \A a \in Account \ {StakedVault} : m.principal[a] >= l.principal[a]
    BY <1>2, <1>4, <1>8, <2>3 DEF p, q
  <2>5. \A a \in Account : m.balance[a] >= l.balance[a]
    BY <1>2, <1>3, <1>8, <1>16, SoundNumbers
  <2> QED BY <1>13, <2>2, <2>4, <2>5 DEF Spares
<1> QED BY <1>3, <1>8, <1>13, <1>14, <1>16, <1>17 DEF m, yield

\* How an update of the records reads on the fields of a store.
LEMMA SetRewards ==
  ASSUME NEW a, NEW b, NEW c, NEW d, NEW e, NEW q
  PROVE  LET x == [ledger |-> a, positions |-> b, totalFlexible |-> c,
                   rewards |-> d, stats |-> e]
         IN  [x EXCEPT !.rewards = q]
               = [ledger |-> a, positions |-> b, totalFlexible |-> c,
                  rewards |-> q, stats |-> e]
OBVIOUS

\* An index update's writes as two updates of one field each.
LEMMA RecordUpdates ==
  ASSUME NEW x, NEW p, NEW q
  PROVE  [x EXCEPT !.ledger = p, !.rewards = q]
           = [[x EXCEPT !.ledger = p] EXCEPT !.rewards = q]
OBVIOUS

\* A store is as grown as itself.
LEMMA GrownStarts ==
  ASSUME NEW s, GoodStore(s)
  PROVE  Grown(s, s)
<1>1. \A a \in Account : s.ledger.balance[a] >= s.ledger.balance[a]
  BY StoreNumbers
<1> QED BY <1>1 DEF Grown

\* The accounts of a grown store receive something.
LEMMA LedgerGrows ==
  ASSUME NEW s, GoodStore(s), NEW t, Grown(t, s), NEW m, Sound(m),
         m.index >= t.ledger.index,
         \A a \in Account : m.balance[a] >= t.ledger.balance[a]
  PROVE  /\ Grown([t EXCEPT !.ledger = m], s)
         /\ [t EXCEPT !.ledger = m].ledger = m
         /\ [t EXCEPT !.ledger = m].rewards = t.rewards
         /\ [t EXCEPT !.ledger = m].totalFlexible = t.totalFlexible
<1> DEFINE u == [t EXCEPT !.ledger = m]
<1>1. /\ GoodStore(t)
      /\ t.positions = s.positions /\ t.totalFlexible = s.totalFlexible /\ t.stats = s.stats
      /\ \A a \in Account : t.ledger.balance[a] >= s.ledger.balance[a]
      /\ t.rewards = s.rewards \/ \E i \in Nat, n \in Nat : Added(t, s, i, n)
  BY DEF Grown
<1>2. /\ t = [ledger |-> t.ledger, positions |-> t.positions,
              totalFlexible |-> t.totalFlexible, rewards |-> t.rewards,
              stats |-> t.stats]
      /\ Sound(t.ledger) /\ Book(t.positions) /\ t.totalFlexible \in Int
      /\ Records(t.rewards, t.ledger.index) /\ t.stats \in StatsType
  BY <1>1, StoreParts
<1>3. u = [ledger |-> m, positions |-> t.positions,
           totalFlexible |-> t.totalFlexible, rewards |-> t.rewards, stats |-> t.stats]
  BY <1>2, SetLedger
<1> HIDE DEF u
<1>4. /\ u.ledger = m /\ u.positions = t.positions
      /\ u.totalFlexible = t.totalFlexible /\ u.rewards = t.rewards /\ u.stats = t.stats
  BY <1>3
<1>5. m.index \in Nat /\ t.ledger.index \in Nat
  BY <1>2 DEF Sound, LedgerType
<1>6. Records(t.rewards, m.index)
  <2>1. \A i \in DOMAIN t.rewards : i \in Nat /\ i <= t.ledger.index
    BY <1>2 DEF Records
  <2>2. \A i \in DOMAIN t.rewards : i <= m.index
    BY <1>5, <2>1
  <2> QED BY <1>2, <2>2 DEF Records
<1>7. GoodStore(u)
  BY <1>2, <1>3, <1>6, MakeStore
<1>8. \A a \in Account : /\ m.balance[a] \in Nat /\ t.ledger.balance[a] \in Nat
                        /\ s.ledger.balance[a] \in Nat
  <2>1. \A a \in Account : m.balance[a] \in Nat
    BY <1>4, <1>7, StoreNumbers
  <2>2. \A a \in Account : t.ledger.balance[a] \in Nat /\ s.ledger.balance[a] \in Nat
    BY <1>1, StoreNumbers
  <2> QED BY <2>1, <2>2
<1>9. \A a \in Account : u.ledger.balance[a] >= s.ledger.balance[a]
  <2> SUFFICES ASSUME NEW a \in Account PROVE m.balance[a] >= s.ledger.balance[a]
    BY <1>4
  <2>1. m.balance[a] >= t.ledger.balance[a] /\ t.ledger.balance[a] >= s.ledger.balance[a]
    BY <1>1
  <2> QED BY <1>8, <2>1
<1>10. u.rewards = s.rewards \/ \E i \in Nat, n \in Nat : Added(u, s, i, n)
  <2>1. ASSUME NEW i \in Nat, NEW n \in Nat, Added(t, s, i, n)
        PROVE  Added(u, s, i, n)
    <3>1. /\ t.ledger.balance[FlexibleVault] >= s.ledger.balance[FlexibleVault] + n
          /\ m.balance[FlexibleVault] >= t.ledger.balance[FlexibleVault]
          /\ m.balance[FlexibleVault] \in Nat /\ t.ledger.balance[FlexibleVault] \in Nat
          /\ s.ledger.balance[FlexibleVault] \in Nat
      BY <1>8, <2>1, CustodyAccounts DEF Added
    <3>2. m.balance[FlexibleVault] >= s.ledger.balance[FlexibleVault] + n
      BY <3>1
    <3> QED BY <1>4, <2>1, <3>2 DEF Added
  <2> QED BY <1>1, <1>4, <2>1
<1>11. Grown(u, s)
  BY <1>1, <1>4, <1>7, <1>9, <1>10 DEF Grown
<1> QED BY <1>4, <1>11 DEF u

\* A record is added at an index that is new.
LEMMA RecordAdded ==
  ASSUME NEW s, GoodStore(s), NEW t, Grown(t, s), t.rewards = s.rewards,
         NEW i, i = t.ledger.index, i > s.ledger.index, NEW n \in Nat,
         t.ledger.balance[FlexibleVault] >= s.ledger.balance[FlexibleVault] + n,
         NEW rs, rs = [j \in DOMAIN s.rewards \cup {i} |->
                          IF j = i THEN [total |-> s.totalFlexible, rewards |-> n]
                          ELSE s.rewards[j]]
  PROVE  Grown([t EXCEPT !.rewards = rs], s) /\ [t EXCEPT !.rewards = rs].ledger = t.ledger
<1> DEFINE u == [t EXCEPT !.rewards = rs]
           record == [total |-> s.totalFlexible, rewards |-> n]
<1>1. /\ GoodStore(t)
      /\ t.positions = s.positions /\ t.totalFlexible = s.totalFlexible /\ t.stats = s.stats
      /\ \A a \in Account : t.ledger.balance[a] >= s.ledger.balance[a]
  BY DEF Grown
<1>2. /\ t = [ledger |-> t.ledger, positions |-> t.positions,
              totalFlexible |-> t.totalFlexible, rewards |-> t.rewards,
              stats |-> t.stats]
      /\ Sound(t.ledger) /\ Book(t.positions) /\ t.totalFlexible \in Int
      /\ Records(t.rewards, t.ledger.index) /\ t.stats \in StatsType
  BY <1>1, StoreParts
<1>3. u = [ledger |-> t.ledger, positions |-> t.positions,
           totalFlexible |-> t.totalFlexible, rewards |-> rs, stats |-> t.stats]
  BY <1>2, SetRewards
<1> HIDE DEF u
<1>4. /\ u.ledger = t.ledger /\ u.positions = t.positions
      /\ u.totalFlexible = t.totalFlexible /\ u.rewards = rs /\ u.stats = t.stats
  BY <1>3
<1>5. i \in Nat /\ s.ledger.index \in Nat
  BY <1>2, StoreNumbers DEF Sound, LedgerType
<1>6. i \notin DOMAIN s.rewards /\ \A j \in DOMAIN s.rewards : j \in Nat /\ j <= i
  <2>1. \A j \in DOMAIN s.rewards : j \in Nat /\ j <= s.ledger.index
    BY DEF GoodStore, Records
  <2> QED BY <1>5, <2>1
<1>7. /\ DOMAIN rs = DOMAIN s.rewards \cup {i}
      /\ \A j \in DOMAIN s.rewards : rs[j] = s.rewards[j]
      /\ rs[i] = record
  BY <1>6
<1>8. Records(rs, i)
  <2>1. /\ IsFiniteSet(DOMAIN s.rewards) /\ s.rewards \in [DOMAIN s.rewards -> RecordType]
    BY DEF GoodStore, Records
  <2>2. IsFiniteSet(DOMAIN rs)
    BY <1>7, <2>1, FS_AddElement
  <2>3. record \in RecordType
    BY <1>1, <1>2 DEF RecordType
  <2> HIDE DEF record
  <2>4. DOMAIN rs \subseteq Nat /\ \A j \in DOMAIN rs : j <= i
    BY <1>5, <1>6, <1>7
  <2>5. \A j \in DOMAIN rs : rs[j] \in RecordType
    BY <1>7, <2>1, <2>3
  <2>6. rs \in [DOMAIN rs -> RecordType]
    BY <2>5
  <2> QED BY <2>2, <2>4, <2>6 DEF Records
<1>9. GoodStore(u)
  BY <1>2, <1>3, <1>8, MakeStore
<1>10. Added(u, s, i, n)
  BY <1>4, <1>7 DEF Added
<1>11. Grown(u, s)
  BY <1>1, <1>4, <1>5, <1>9, <1>10 DEF Grown
<1> QED BY <1>4, <1>11 DEF u

\* handleVaultsYield, in either season and whether it fails or not, after the
\* index was set.
LEMMA VaultsYieldEffect ==
  ASSUME NEW s, GoodStore(s), NEW t, Grown(t, s), t.rewards = s.rewards,
         t.ledger.index > s.ledger.index
  PROVE  LET r == HandleVaultsYield(t)
         IN  r.ok \in BOOLEAN /\ Grown(r.store, s)
<1> DEFINE r == HandleVaultsYield(t)
           l == t.ledger
<1>1. /\ GoodStore(t) /\ Sound(l) /\ l \in LedgerType
      /\ t.totalFlexible = s.totalFlexible
      /\ \A a \in Account : l.balance[a] >= s.ledger.balance[a]
  BY DEF Grown, GoodStore, Sound
<1>2. \A a \in Account : l.balance[a] \in Nat /\ s.ledger.balance[a] \in Nat
  BY <1>1, StoreNumbers
<1>3. CASE ended
  <2> DEFINE m == HandleVaultsYieldSeasonTwo(l)
  <2>1. CASE CanClaim(l, StakedVault)
    <3>1. r.ok = TRUE /\ r.store = [t EXCEPT !.ledger = m]
      BY <1>3, <2>1 DEF HandleVaultsYield, Ok
    <3>2. /\ Sound(m) /\ SameExcept(m, l, {"balance", "principal", "totalHolders"})
          /\ PaysYieldOnly(m, l)
      BY <1>1, <2>1, SeasonTwoEffect
    <3> HIDE DEF r, m
    <3>3. m.index = l.index
      BY <3>2 DEF SameExcept
    <3>4. \A a \in Account : m.balance[a] >= l.balance[a]
      BY <3>2 DEF PaysYieldOnly
    <3>5. m.index >= l.index
      BY <1>1, <3>3 DEF LedgerType
    <3>6. Grown([t EXCEPT !.ledger = m], s)
      BY <3>2, <3>4, <3>5, LedgerGrows
    <3> QED BY <3>1, <3>6 DEF r
  <2>2. CASE ~CanClaim(l, StakedVault)
    BY <1>3, <2>2 DEF HandleVaultsYield, Fail
  <2> QED BY <2>1, <2>2
<1>4. CASE ~ended
  <2> DEFINE x == ClaimModuleYield(l, FlexibleVault)
             y == ClaimStakedVaultYield(x)
             v == GetYield(l, FlexibleVault)
             w == GetYield(x, StakedVault)
             n == v + w
             i == l.index
             record == [total |-> t.totalFlexible, rewards |-> n]
             rs == [j \in DOMAIN t.rewards \cup {i} |->
                       IF j = i THEN record ELSE t.rewards[j]]
  <2>1. r = IF ~CanClaim(l, FlexibleVault) THEN Fail(t)
            ELSE IF ~CanClaim(x, StakedVault) THEN Fail([t EXCEPT !.ledger = x])
            ELSE Ok([t EXCEPT !.ledger = y, !.rewards = rs])
    BY <1>4 DEF HandleVaultsYield, HandleVaultsYieldSeasonOne
  <2> HIDE DEF r
  <2>2. CASE ~CanClaim(l, FlexibleVault)
    <3>1. r.ok = FALSE /\ r.store = t
      BY <2>1, <2>2 DEF Fail
    <3> QED BY <3>1 DEF r
  <2>3. CASE CanClaim(l, FlexibleVault)
    <3>1. /\ Sound(x) /\ SameExcept(x, l, {"balance"}) /\ v \in Nat
          /\ x.balance[FlexibleVault] = l.balance[FlexibleVault] + v
          /\ \A a \in Account \ {FlexibleVault} : x.balance[a] = l.balance[a]
          /\ Spares(x, l, Account)
      BY <1>1, <2>3, Claim, CustodyAccounts
    <3> HIDE DEF x, v
    <3>2. x.index = l.index /\ x.index >= l.index
      BY <1>1, <3>1 DEF SameExcept, LedgerType
    <3>3. \A a \in Account : x.balance[a] >= l.balance[a]
      <4> SUFFICES ASSUME NEW a \in Account PROVE x.balance[a] >= l.balance[a]
        OBVIOUS
      <4>1. CASE a = FlexibleVault
        BY <1>2, <3>1, <4>1
      <4>2. CASE a # FlexibleVault
        BY <1>2, <3>1, <4>2
      <4> QED BY <4>1, <4>2
    <3>4. Grown([t EXCEPT !.ledger = x], s)
      BY <3>1, <3>2, <3>3, LedgerGrows
    <3>5. CASE ~CanClaim(x, StakedVault)
      <4>1. r.ok = FALSE /\ r.store = [t EXCEPT !.ledger = x]
        BY <2>1, <2>3, <3>5 DEF Fail
      <4> QED BY <3>4, <4>1 DEF r
    <3>6. CASE CanClaim(x, StakedVault)
      <4>1. r.ok = TRUE /\ r.store = [t EXCEPT !.ledger = y, !.rewards = rs]
        BY <2>1, <2>3, <3>6 DEF Ok
      <4>2. /\ Sound(y) /\ y.index = x.index /\ w \in Nat
            /\ y.balance[FlexibleVault] = x.balance[FlexibleVault] + w
            /\ \A a \in Account \ {FlexibleVault} : y.balance[a] = x.balance[a]
            /\ Spares(y, x, Account \ {StakedVault})
        BY <3>1, <3>6, ClaimStaked
      <4> HIDE DEF y, w
      <4>3. n \in Nat /\ y.balance[FlexibleVault] = l.balance[FlexibleVault] + n
        BY <1>2, <3>1, <4>2, CustodyAccounts
      <4>4. \A a \in Account \ {FlexibleVault} : y.balance[a] = l.balance[a]
        BY <3>1, <4>2
      <4>5. y.index = l.index /\ y.index >= l.index
        BY <3>2, <4>2
      <4> HIDE DEF n
      <4>6. \A a \in Account : y.balance[a] >= l.balance[a]
        <5> SUFFICES ASSUME NEW a \in Account PROVE y.balance[a] >= l.balance[a]
          OBVIOUS
        <5>1. CASE a = FlexibleVault
          BY <1>2, <4>3, <5>1
        <5>2. CASE a # FlexibleVault
          BY <1>2, <4>4, <5>2
        <5> QED BY <5>1, <5>2
      <4> DEFINE u == [t EXCEPT !.ledger = y]
      <4>7. Grown(u, s) /\ u.ledger = y /\ u.rewards = t.rewards
        BY <4>2, <4>5, <4>6, LedgerGrows
      <4> HIDE DEF u
      <4>8. u.ledger.balance[FlexibleVault] >= s.ledger.balance[FlexibleVault] + n
        BY <1>1, <1>2, <4>3, <4>7, CustodyAccounts
      <4>9. i = u.ledger.index /\ i > s.ledger.index /\ u.rewards = s.rewards
        BY <4>5, <4>7
      <4>10. rs = [j \in DOMAIN s.rewards \cup {i} |->
                      IF j = i THEN [total |-> s.totalFlexible, rewards |-> n]
                      ELSE s.rewards[j]]
        BY <1>1
      <4> HIDE DEF rs, i
      <4>11. Grown([u EXCEPT !.rewards = rs], s)
        BY <4>3, <4>7, <4>8, <4>9, <4>10, RecordAdded
      <4>12. [t EXCEPT !.ledger = y, !.rewards = rs] = [u EXCEPT !.rewards = rs]
        BY RecordUpdates DEF u
      <4>13. r.ok = TRUE /\ Grown(r.store, s)
        BY <4>1, <4>11, <4>12
      <4> QED BY <4>13 DEF r
    <3> QED BY <3>5, <3>6
  <2> QED BY <2>2, <2>3
<1>5. ended = TRUE \/ ~ended
  OBVIOUS
<1> QED BY <1>3, <1>4

\* handleVaultsYield takes from no account but the Staked vault's.
LEMMA VaultsYieldSpares ==
  ASSUME NEW t, GoodStore(t)
  PROVE  Spares(HandleVaultsYield(t).store.ledger, t.ledger, Account \ {StakedVault})
<1> DEFINE r == HandleVaultsYield(t)
           l == t.ledger
           A == Account \ {StakedVault}
<1>1. /\ Sound(l)
      /\ t = [ledger |-> t.ledger, positions |-> t.positions,
              totalFlexible |-> t.totalFlexible, rewards |-> t.rewards,
              stats |-> t.stats]
  BY StoreParts
<1>2. \A m : [t EXCEPT !.ledger = m].ledger = m
  BY <1>1
<1>3. Spares(l, l, A)
  BY <1>1, SparesReflexive
<1>4. CASE ended
  <2>1. CASE CanClaim(l, StakedVault)
    <3>1. r.store.ledger = HandleVaultsYieldSeasonTwo(l)
      BY <1>2, <1>4, <2>1 DEF HandleVaultsYield, Ok
    <3> QED BY <1>1, <2>1, <3>1, SeasonTwoSpares
  <2>2. CASE ~CanClaim(l, StakedVault)
    <3>1. r.store.ledger = l
      BY <1>4, <2>2 DEF HandleVaultsYield, Fail
    <3> QED BY <1>3, <3>1
  <2> QED BY <2>1, <2>2
<1>5. CASE ~ended
  <2> DEFINE x == ClaimModuleYield(l, FlexibleVault)
             y == ClaimStakedVaultYield(x)
             n == GetYield(l, FlexibleVault) + GetYield(x, StakedVault)
             rs == [j \in DOMAIN t.rewards \cup {l.index} |->
                       IF j = l.index THEN [total |-> t.totalFlexible, rewards |-> n]
                       ELSE t.rewards[j]]
  <2>1. r = IF ~CanClaim(l, FlexibleVault) THEN Fail(t)
            ELSE IF ~CanClaim(x, StakedVault) THEN Fail([t EXCEPT !.ledger = x])
            ELSE Ok([t EXCEPT !.ledger = y, !.rewards = rs])
    BY <1>5 DEF HandleVaultsYield, HandleVaultsYieldSeasonOne
  <2> HIDE DEF r, rs
  <2>2. CASE ~CanClaim(l, FlexibleVault)
    <3>1. r.store.ledger = l
      BY <2>1, <2>2 DEF Fail
    <3> QED BY <1>3, <3>1 DEF r
  <2>3. CASE CanClaim(l, FlexibleVault)
    <3>1. Sound(x) /\ Spares(x, l, Account)
      <4>1. FlexibleVault \in Account
        BY CustodyAccounts
      <4> QED BY <1>1, <2>3, <4>1, Claim
    <3> HIDE DEF x
    <3>2. Spares(x, l, A)
      BY <3>1, SparesFewer
    <3>3. CASE ~CanClaim(x, StakedVault)
      <4>1. r.store.ledger = x
        BY <1>2, <2>1, <2>3, <3>3 DEF Fail
      <4> QED BY <3>2, <4>1 DEF r
    <3>4. CASE CanClaim(x, StakedVault)
      <4>1. r.store = [t EXCEPT !.ledger = y, !.rewards = rs]
        BY <2>1, <2>3, <3>4 DEF Ok
      <4>2. Spares(y, x, A)
        BY <3>1, <3>4, ClaimStaked
      <4> HIDE DEF y
      <4>3. r.store.ledger = y
        BY <1>1, <4>1
      <4>4. Spares(y, l, A)
        BY <1>1, <3>2, <4>2, SparesTransitive
      <4> QED BY <4>3, <4>4 DEF r
    <3> QED BY <3>3, <3>4
  <2> QED BY <2>2, <2>3
<1> QED BY <1>4, <1>5

\* What other components do to the ledger is no danger to the vaults when the
\* custody accounts lose nothing and the index does not fall.
LEMMA OthersStep ==
  ASSUME NEW s, NEW open \in BOOLEAN, Safe(s, open), NEW m, Sound(m),
         m.index >= s.ledger.index,
         \A a \in Account \cap Custody : m.balance[a] >= s.ledger.balance[a],
         NEW t, t = [ledger |-> m, positions |-> s.positions,
                     totalFlexible |-> s.totalFlexible, rewards |-> s.rewards,
                     stats |-> s.stats]
  PROVE  Safe(t, open) /\ (RewardsSafe(s) => RewardsSafe(t))
<1>1. /\ GoodStore(s) /\ Backed(s)
      /\ Sound(s.ledger) /\ Book(s.positions) /\ s.totalFlexible \in Int
      /\ Records(s.rewards, s.ledger.index) /\ s.stats \in StatsType
  BY StoreParts DEF Safe
<1>2. /\ t.ledger = m /\ t.positions = s.positions /\ t.totalFlexible = s.totalFlexible
      /\ t.rewards = s.rewards /\ t.stats = s.stats
  OBVIOUS
<1>3. m.index \in Nat /\ s.ledger.index \in Nat
  BY <1>1, SoundNumbers
<1>4. GoodStore(t)
  <2>1. \A i \in DOMAIN s.rewards : i \in Nat /\ i <= s.ledger.index
    BY <1>1 DEF Records
  <2>2. \A i \in DOMAIN s.rewards : i <= m.index
    BY <1>3, <2>1
  <2>3. Records(s.rewards, m.index)
    BY <1>1, <2>2 DEF Records
  <2> QED BY <1>1, <2>3, MakeStore
<1>5. \A a \in Account \cap Custody :
          /\ m.balance[a] \in Nat /\ s.ledger.balance[a] \in Nat
          /\ m.balance[a] >= s.ledger.balance[a]
  BY <1>1, SoundNumbers
<1>6. /\ StakedVault \in Account \cap Custody /\ FlexibleVault \in Account \cap Custody
      /\ \A k \in InVault(s.positions, "flexible") :
             PositionAccount(k[1], k[3]) \in Account \cap Custody
  <2>1. \A k \in InVault(s.positions, "flexible") :
            k \in Keys /\ k[2] = "flexible" /\ k[1] \in User /\ k[3] \in Time /\ k[3] <= SeasonEnd
    BY <1>1 DEF InVault, Book, Keys
  <2> QED BY <2>1, CustodyAccounts DEF Custody
<1>7. Backed(t)
  <2>1. Held(s.positions, InVault(s.positions, "staked")) \in Nat
    BY <1>1, StoreNumbers
  <2>2. m.balance[StakedVault] >= Held(s.positions, InVault(s.positions, "staked"))
    BY <1>1, <1>5, <1>6, <2>1 DEF Backed
  <2>3. ASSUME NEW k \in InVault(s.positions, "flexible")
        PROVE  m.balance[PositionAccount(k[1], k[3])] >= s.positions[k].amount
    <3>1. s.positions[k].amount \in Nat
      BY <1>1, <2>3, StoreNumbers DEF InVault
    <3>2. s.ledger.balance[PositionAccount(k[1], k[3])] >= s.positions[k].amount
      BY <1>1, <2>3 DEF Backed
    <3> QED BY <1>5, <1>6, <2>3, <3>1, <3>2
  <2> QED BY <1>2, <2>2, <2>3 DEF Backed
<1>8. RewardsSafe(s) => RewardsSafe(t)
  <2> SUFFICES ASSUME RewardsSafe(s) PROVE RewardsSafe(t)
    OBVIOUS
  <2>1. RewardsOf(t) = RewardsOf(s)
    BY <1>2 DEF RewardsOf
  <2>2. RewardsOf(s) \in Int
    <3> DEFINE f == [i \in DOMAIN s.rewards |-> s.rewards[i].rewards]
    <3>1. IsFiniteSet(DOMAIN s.rewards) /\ f \in [DOMAIN s.rewards -> Int]
      BY <1>1 DEF Records, RecordType
    <3> HIDE DEF f
    <3>2. SumFunction(f) \in Int
      BY <3>1, SumType
    <3> QED BY <3>2 DEF RewardsOf, f
  <2>3. m.balance[FlexibleVault] >= RewardsOf(s)
    BY <1>5, <1>6, <2>2 DEF RewardsSafe
  <2> QED BY <1>2, <2>1, <2>3 DEF RewardsSafe
<1>9. /\ CoveredStaked(t) /\ Counted(t, "staked")
      /\ \A v \in Vault : CountedAtLeast(t, v)
      /\ open => SharedBy(t, User) /\ CoveredFlexible(t) /\ Counted(t, "flexible")
  BY <1>2 DEF Safe, CoveredStaked, CoveredFlexible, Counted, CountedAtLeast, SharedBy
<1> QED BY <1>4, <1>7, <1>8, <1>9 DEF Safe

\* Keeper.UpdateIndex, whether it fails or not.
LEMMA UpdateIndexStoreEffect ==
  ASSUME NEW s, GoodStore(s), NEW index \in Int,
         index > s.ledger.index => SupplyShortfall(s.ledger, index) >= 0
  PROVE  Grown(VaultsUpdateIndexStore(s, index).store, s)
<1> DEFINE r == VaultsUpdateIndexStore(s, index)
           l == AccrueYield(s.ledger, index)
           t == [s EXCEPT !.ledger = l]
           v == HandleVaultsYield(t)
           m == ClaimExternalYieldHyperlane(v.store.ledger)
<1>1. r = IF index <= s.ledger.index THEN Fail(s)
          ELSE IF ~v.ok THEN v
          ELSE IF ~CanClaim(v.store.ledger, Warp) THEN Fail(v.store)
          ELSE Ok([v.store EXCEPT !.ledger = m])
  BY DEF VaultsUpdateIndexStore
<1> HIDE DEF r
<1>2. s.ledger.index \in Nat /\ Sound(s.ledger) /\ s.ledger \in LedgerType
  BY StoreNumbers DEF GoodStore, Sound
<1>3. CASE index <= s.ledger.index
  <2>1. r.store = s
    BY <1>1, <1>3 DEF Fail
  <2> QED BY <2>1, GrownStarts DEF r
<1>4. CASE index > s.ledger.index
  <2>1. /\ Sound(l) /\ l.index = index /\ l.supply >= s.ledger.supply
        /\ l.balance = [s.ledger.balance EXCEPT ![Yield] = @ + (l.supply - s.ledger.supply)]
    BY <1>2, <1>4, Accrual
  <2> HIDE DEF l
  <2>2. \A a \in Account : l.balance[a] >= s.ledger.balance[a]
    <3>1. \A a \in Account : a # Yield /\ a \in Address /\ s.ledger.balance[a] \in Nat
      BY StoreNumbers, AccountAssumption DEF Address
    <3>2. s.ledger.balance \in [Address -> Nat]
      BY <1>2 DEF LedgerType
    <3> QED BY <2>1, <3>1, <3>2
  <2>3. l.index >= s.ledger.index
    BY <1>2, <1>4, <2>1
  <2>4. /\ Grown(t, s) /\ t.ledger = l /\ t.rewards = s.rewards
        /\ t.ledger.index > s.ledger.index
    <3>1. Grown(s, s)
      BY GrownStarts
    <3>2. Sound(l)
      BY <2>1
    <3>3. Grown(t, s) /\ t.ledger = l /\ t.rewards = s.rewards
      BY <2>2, <2>3, <3>1, <3>2, LedgerGrows
    <3> HIDE DEF t
    <3> QED BY <1>4, <2>1, <3>3
  <2> HIDE DEF t
  <2>5. v.ok \in BOOLEAN /\ Grown(v.store, s)
    BY <2>4, VaultsYieldEffect
  <2> HIDE DEF v
  <2>6. CASE ~v.ok
    BY <1>1, <1>2, <1>4, <2>5, <2>6 DEF r
  <2>7. CASE v.ok /\ ~CanClaim(v.store.ledger, Warp)
    <3>1. r.store = v.store
      BY <1>1, <1>2, <1>4, <2>7 DEF Fail
    <3> QED BY <2>5, <3>1 DEF r
  <2>8. CASE v.ok /\ CanClaim(v.store.ledger, Warp)
    <3>1. r.store = [v.store EXCEPT !.ledger = m]
      BY <1>1, <1>2, <1>4, <2>8 DEF Ok
    <3>2. Sound(v.store.ledger) /\ v.store.ledger.index \in Nat
      BY <2>5, StoreNumbers DEF Grown, GoodStore
    <3>3. Sound(m) /\ SameExcept(m, v.store.ledger, {"balance"})
          /\ PaysYieldOnly(m, v.store.ledger)
      BY <2>8, <3>2, HyperlaneEffect
    <3> HIDE DEF m
    <3>4. m.index >= v.store.ledger.index
      BY <3>2, <3>3 DEF SameExcept
    <3>5. \A a \in Account : m.balance[a] >= v.store.ledger.balance[a]
      BY <3>3 DEF PaysYieldOnly
    <3>6. Grown([v.store EXCEPT !.ledger = m], s)
      BY <2>5, <3>3, <3>4, <3>5, LedgerGrows
    <3> QED BY <3>1, <3>6 DEF r
  <2> QED BY <2>5, <2>6, <2>7, <2>8
<1> QED BY <1>2, <1>3, <1>4

-----------------------------------------------------------------------------
(* Locking. *)

\* What Lock asks of the books.
Lockable(s, user, vault, amount) ==
    /\ GoodStore(s) /\ user \in User /\ vault \in Vault
    /\ amount \in Nat /\ amount > 0 /\ s.ledger.balance[user] >= amount
    /\ now \in Time /\ (vault = "flexible" => now <= SeasonEnd)
    /\ <<user, vault, now>> \notin DOMAIN s.positions

\* The store before the user is counted.
Moved(s, user, vault, amount) ==
    LET key       == <<user, vault, now>>
        principal == GetPrincipalAmountRoundedDown(amount, s.ledger.index)
        position  == [index |-> s.ledger.index, principal |-> principal, amount |-> amount]
    IN  [s EXCEPT
            !.ledger    = SendCoins(@, user, Custodian(user, vault, now), amount),
            !.positions = [k \in DOMAIN @ \cup {key} |->
                              IF k = key THEN position ELSE @[k]],
            !.totalFlexible = IF vault = "flexible" THEN @ + principal ELSE @,
            !.stats.principal[vault] = @ + principal]

\* How an update of the Flexible principal reads on the fields of a store.
LEMMA FlexibleSet ==
  ASSUME NEW a, NEW b, NEW c, NEW d, NEW e, NEW n
  PROVE  LET x == [ledger |-> a, positions |-> b, totalFlexible |-> c,
                   rewards |-> d, stats |-> e]
         IN  [x EXCEPT !.totalFlexible = n]
               = [ledger |-> a, positions |-> b, totalFlexible |-> n,
                  rewards |-> d, stats |-> e]
OBVIOUS

\* The position that a lock makes.
LockedPosition(s, amount) ==
    [index     |-> s.ledger.index,
     principal |-> GetPrincipalAmountRoundedDown(amount, s.ledger.index),
     amount    |-> amount]

\* The fields of the store after the move.
MovedTo(t, s, user, vault, amount, p) ==
    /\ p \in Position /\ <<user, vault, now>> \in Keys /\ Worth(p) \in Nat
    /\ t.ledger = SendCoins(s.ledger, user, Custodian(user, vault, now), amount)
    /\ t.positions = [k \in DOMAIN s.positions \cup {<<user, vault, now>>} |->
                         IF k = <<user, vault, now>> THEN p ELSE s.positions[k]]
    /\ t.totalFlexible = s.totalFlexible + (IF vault = "flexible" THEN Worth(p) ELSE 0)
    /\ t.rewards = s.rewards
    /\ t.stats.users = s.stats.users
    /\ t.stats.principal = [s.stats.principal EXCEPT
                               ![vault] = s.stats.principal[vault] + Worth(p)]

\* The store after a lock, field by field.
LEMMA MovedParts ==
  ASSUME NEW s, NEW user, NEW vault, NEW amount, Lockable(s, user, vault, amount)
  PROVE  /\ GoodStore(Moved(s, user, vault, amount))
         /\ MovedTo(Moved(s, user, vault, amount), s, user, vault, amount,
                    LockedPosition(s, amount))
<1> DEFINE t   == Moved(s, user, vault, amount)
           key == <<user, vault, now>>
           w   == GetPrincipalAmountRoundedDown(amount, s.ledger.index)
           p   == [index |-> s.ledger.index, principal |-> w, amount |-> amount]
           c   == Custodian(user, vault, now)
           l   == SendCoins(s.ledger, user, c, amount)
           qs  == [k \in DOMAIN s.positions \cup {key} |->
                      IF k = key THEN p ELSE s.positions[k]]
           n   == IF vault = "flexible" THEN s.totalFlexible + w ELSE s.totalFlexible
           m   == s.stats.principal[vault] + w
           f   == [s.stats EXCEPT !.principal[vault] = m]
<1>1. /\ GoodStore(s) /\ user \in User /\ vault \in Vault
      /\ amount \in Nat /\ amount > 0 /\ s.ledger.balance[user] >= amount
      /\ now \in Time /\ (vault = "flexible" => now <= SeasonEnd)
      /\ key \notin DOMAIN s.positions
  BY DEF Lockable
<1>2. /\ s = [ledger |-> s.ledger, positions |-> s.positions,
              totalFlexible |-> s.totalFlexible, rewards |-> s.rewards,
              stats |-> s.stats]
      /\ Sound(s.ledger) /\ Book(s.positions) /\ s.totalFlexible \in Int
      /\ Records(s.rewards, s.ledger.index) /\ s.stats \in StatsType
  BY <1>1, StoreParts
<1>3. /\ s.ledger.index \in Nat \ {0}
      /\ s.stats.principal \in [Vault -> Int]
  BY <1>1, <1>2, StoreNumbers DEF StatsType
<1>4. w \in Nat
  <2>1. PrincipalToRemove([index |-> s.ledger.index, principal |-> 0, amount |-> amount], amount)
          \in Nat
    <3> DEFINE x == [index |-> s.ledger.index, principal |-> 0, amount |-> amount]
    <3>1. x \in Position /\ x.amount = amount
      BY <1>1, <1>3 DEF Position
    <3> HIDE DEF x
    <3>2. PrincipalToRemove(x, amount) \in Nat
      BY <1>1, <3>1, PartWorth
    <3> QED BY <3>2 DEF x
  <2> QED BY <2>1 DEF PrincipalToRemove
<1>5. t = [s EXCEPT !.ledger = l, !.positions = qs, !.totalFlexible = n,
                    !.stats.principal[vault] = m]
  BY DEF Moved
<1>6. Worth(p) = w
  BY DEF Worth
<1> HIDE DEF w
<1>7. p \in Position
  BY <1>1, <1>3, <1>4 DEF Position
<1>8. key \in Keys
  BY <1>1 DEF Keys
<1>9. c \in Account /\ c # user
  <2>1. CASE vault = "flexible"
    BY <1>1, <2>1, PositionAccounts DEF Custodian
  <2>2. CASE vault # "flexible"
    <3>1. c = StakedVault /\ StakedVault \notin User
      BY <2>2, VaultsAssumption DEF Custodian
    <3> QED BY <1>1, <3>1, CustodyAccounts
  <2> QED BY <2>1, <2>2
<1> HIDE DEF c, p, key, n, m
<1>10. Sound(l) /\ l.index = s.ledger.index
  <2>1. user \in Account
    BY <1>1, CustodyAccounts
  <2>2. /\ Sound(l)
        /\ l.index = s.ledger.index
        /\ l.balance[user] = s.ledger.balance[user] - amount
        /\ l.balance[c] = s.ledger.balance[c] + amount
        /\ \A a \in Account \ {user, c} : /\ l.balance[a] = s.ledger.balance[a]
                                          /\ l.principal[a] = s.ledger.principal[a]
        /\ Spares(l, s.ledger, Account \ {user})
    BY <1>1, <1>2, <1>9, <2>1, Payment
  <2> QED BY <2>2
<1>11. Book(qs)
  BY <1>1, <1>2, <1>7, <1>8, Addition
<1>12. n \in Int /\ m \in Int
  BY <1>1, <1>2, <1>3, <1>4 DEF n, m
<1>13. f \in StatsType /\ f.users = s.stats.users
       /\ f.principal = [s.stats.principal EXCEPT ![vault] = m]
  BY <1>1, <1>2, <1>12, PrincipalSet
<1> HIDE DEF l, qs, f
<1>14. t = [ledger |-> l, positions |-> qs, totalFlexible |-> n,
            rewards |-> s.rewards, stats |-> f]
  <2> DEFINE x == [s EXCEPT !.ledger = l, !.positions = qs, !.totalFlexible = n,
                            !.stats.principal[vault] = m]
             u == [s EXCEPT !.ledger = l]
             v == [u EXCEPT !.positions = qs]
             y == [v EXCEPT !.totalFlexible = n]
             z == [y EXCEPT !.stats.principal[vault] = m]
  <2>1. x = z
    OBVIOUS
  <2>2. u = [ledger |-> l, positions |-> s.positions, totalFlexible |-> s.totalFlexible,
             rewards |-> s.rewards, stats |-> s.stats]
    BY <1>2, SetLedger
  <2> HIDE DEF u
  <2>3. v = [ledger |-> l, positions |-> qs, totalFlexible |-> s.totalFlexible,
             rewards |-> s.rewards, stats |-> s.stats]
    BY <2>2, SetPositions
  <2> HIDE DEF v
  <2>4. y = [ledger |-> l, positions |-> qs, totalFlexible |-> n,
             rewards |-> s.rewards, stats |-> s.stats]
    BY <2>3, FlexibleSet
  <2> HIDE DEF y
  <2>5. z = [ledger |-> l, positions |-> qs, totalFlexible |-> n,
             rewards |-> s.rewards, stats |-> [s.stats EXCEPT !.principal[vault] = m]]
    BY <2>4, SetPrincipal
  <2>6. t = x
    BY <1>5
  <2> HIDE DEF x, z
  <2> QED BY <2>1, <2>5, <2>6 DEF f
<1> HIDE DEF t
<1>15. GoodStore(t)
  BY <1>2, <1>10, <1>11, <1>12, <1>13, <1>14, MakeStore
<1>16. /\ t.ledger = l /\ t.positions = qs /\ t.totalFlexible = n
       /\ t.rewards = s.rewards /\ t.stats = f
  BY <1>14
<1>17. n = s.totalFlexible + (IF vault = "flexible" THEN Worth(p) ELSE 0)
  BY <1>2, <1>6 DEF n
<1>18. m = s.stats.principal[vault] + Worth(p)
  BY <1>6 DEF m
<1>19. Worth(p) \in Nat
  BY <1>4, <1>6
<1>20. p = LockedPosition(s, amount)
  BY DEF LockedPosition, p, w
<1>21. MovedTo(t, s, user, vault, amount, p)
  BY <1>7, <1>8, <1>13, <1>16, <1>17, <1>18, <1>19 DEF MovedTo, l, qs, c, key
<1> QED BY <1>15, <1>20, <1>21 DEF t

\* What the move keeps; the new user is not counted yet.
AfterMove(t, s, user, vault) ==
    /\ GoodStore(t) /\ NoLoss(t, s)
    /\ Backed(s) => Backed(t)
    /\ RewardsSafe(s) => RewardsSafe(t)
    /\ SharedBy(s, User) => SharedBy(t, User)
    /\ CoveredStaked(s) => CoveredStaked(t)
    /\ CoveredFlexible(s) => CoveredFlexible(t)
    /\ t.stats.users = s.stats.users
    /\ DOMAIN t.positions = DOMAIN s.positions \cup {<<user, vault, now>>}
    /\ Moves(t.ledger, s.ledger, User, Custody)

\* The move of the coins into a vault keeps the books backed.
LEMMA MovedKept ==
  ASSUME NEW s, NEW user, NEW vault, NEW amount, Lockable(s, user, vault, amount)
  PROVE  AfterMove(Moved(s, user, vault, amount), s, user, vault)
<1> DEFINE t   == Moved(s, user, vault, amount)
           key == <<user, vault, now>>
           p   == LockedPosition(s, amount)
           c   == Custodian(user, vault, now)
           ps  == s.positions
           qs  == t.positions
<1>1. /\ GoodStore(t)
      /\ p \in Position /\ key \in Keys /\ Worth(p) \in Nat
      /\ t.ledger = SendCoins(s.ledger, user, c, amount)
      /\ qs = [k \in DOMAIN ps \cup {key} |-> IF k = key THEN p ELSE ps[k]]
      /\ t.totalFlexible = s.totalFlexible + (IF vault = "flexible" THEN Worth(p) ELSE 0)
      /\ t.rewards = s.rewards
      /\ t.stats.users = s.stats.users
      /\ t.stats.principal = [s.stats.principal EXCEPT
                                 ![vault] = s.stats.principal[vault] + Worth(p)]
  BY MovedParts DEF MovedTo
<1>2. /\ GoodStore(s) /\ user \in User /\ vault \in Vault
      /\ amount \in Nat /\ amount > 0 /\ s.ledger.balance[user] >= amount
      /\ now \in Time /\ (vault = "flexible" => now <= SeasonEnd)
      /\ key \notin DOMAIN ps
  BY DEF Lockable
<1>3. Sound(s.ledger) /\ Book(ps) /\ s.stats.principal \in [Vault -> Int]
  BY <1>2, StoreParts DEF StatsType
<1>4. /\ p.index = s.ledger.index /\ p.amount = amount
      /\ key[1] = user /\ key[2] = vault /\ key[3] = now
  BY DEF LockedPosition
<1>5. /\ c \in Account /\ c \notin User /\ c # FlexibleVault
      /\ vault = "staked" => c = StakedVault
      /\ vault = "flexible" => c = PositionAccount(user, now) /\ c # StakedVault
  <2>1. CASE vault = "flexible"
    BY <1>2, <2>1, PositionAccounts DEF Custodian
  <2>2. CASE vault = "staked"
    BY <2>2, CustodyAccounts, VaultsAssumption DEF Custodian
  <2> QED BY <1>2, <2>1, <2>2 DEF Vault
<1> HIDE DEF c, p, t, key
<1>6. \A a \in Account : s.ledger.balance[a] \in Nat /\ t.ledger.balance[a] \in Nat
  BY <1>1, <1>2, StoreNumbers
<1>7. /\ t.ledger.index = s.ledger.index
      /\ t.ledger.balance[user] = s.ledger.balance[user] - amount
      /\ t.ledger.balance[c] = s.ledger.balance[c] + amount
      /\ \A a \in Account \ {user, c} : t.ledger.balance[a] = s.ledger.balance[a]
  <2>1. user \in Account /\ user # c
    BY <1>2, <1>5, CustodyAccounts
  <2> DEFINE m == SendCoins(s.ledger, user, c, amount)
  <2>2. /\ Sound(m)
        /\ m.index = s.ledger.index
        /\ m.balance[user] = s.ledger.balance[user] - amount
        /\ m.balance[c] = s.ledger.balance[c] + amount
        /\ \A a \in Account \ {user, c} : /\ m.balance[a] = s.ledger.balance[a]
                                          /\ m.principal[a] = s.ledger.principal[a]
        /\ Spares(m, s.ledger, Account \ {user})
    BY <1>2, <1>3, <1>5, <2>1, Payment
  <2>3. t.ledger = m
    BY <1>1
  <2> HIDE DEF m
  <2> QED BY <2>2, <2>3
<1> HIDE DEF qs, ps
<1>8. /\ DOMAIN qs = DOMAIN ps \cup {key} /\ qs[key] = p
      /\ \A k \in DOMAIN ps : qs[k] = ps[k]
      /\ \A K \in SUBSET DOMAIN ps :
            /\ Held(qs, K) = Held(ps, K)
            /\ WorthOf(qs, K) = WorthOf(ps, K)
            /\ Held(qs, K \cup {key}) = Held(ps, K) + amount
            /\ WorthOf(qs, K \cup {key}) = WorthOf(ps, K) + Worth(p)
  <2>1. Joined(qs, ps, key, p)
    BY <1>1, <1>2, <1>3, Addition
  <2> QED BY <1>4, <2>1 DEF Joined
<1>9. \A v : InVault(qs, v) = IF v = vault THEN InVault(ps, v) \cup {key} ELSE InVault(ps, v)
  BY <1>4, <1>8 DEF InVault
<1>10. \A v : InVault(ps, v) \in SUBSET DOMAIN ps /\ WorthOf(ps, InVault(ps, v)) \in Nat
              /\ Held(ps, InVault(ps, v)) \in Nat
  BY <1>2, StoreNumbers DEF InVault, ps
<1>11. ASSUME Backed(s) PROVE Backed(t)
  <2>1. t.ledger.balance[StakedVault] >= Held(qs, InVault(qs, "staked"))
    <3>1. s.ledger.balance[StakedVault] >= Held(ps, InVault(ps, "staked"))
      BY <1>11 DEF Backed, ps
    <3>2. CASE vault = "staked"
      <4>1. InVault(qs, "staked") = InVault(ps, "staked") \cup {key}
        BY <1>9, <3>2
      <4>2. Held(qs, InVault(qs, "staked")) = Held(ps, InVault(ps, "staked")) + amount
        BY <1>8, <1>10, <4>1
      <4>3. t.ledger.balance[StakedVault] = s.ledger.balance[StakedVault] + amount
        BY <1>5, <1>7, <3>2
      <4>4. Held(ps, InVault(ps, "staked")) \in Nat /\ s.ledger.balance[StakedVault] \in Nat
        BY <1>6, <1>10, CustodyAccounts
      <4> QED BY <1>2, <3>1, <4>2, <4>3, <4>4
    <3>3. CASE vault = "flexible"
      <4>1. InVault(qs, "staked") = InVault(ps, "staked")
        BY <1>9, <3>3
      <4>2. Held(qs, InVault(qs, "staked")) = Held(ps, InVault(ps, "staked"))
        BY <1>8, <1>10, <4>1
      <4>3. StakedVault \in Account \ {user, c}
        BY <1>2, <1>5, <3>3, CustodyAccounts, VaultsAssumption
      <4> QED BY <1>7, <3>1, <4>2, <4>3
    <3> QED BY <1>2, <3>2, <3>3 DEF Vault
  <2>2. ASSUME NEW k \in InVault(qs, "flexible")
        PROVE  t.ledger.balance[PositionAccount(k[1], k[3])] >= qs[k].amount
    <3>1. CASE k = key
      <4>1. vault = "flexible" /\ PositionAccount(k[1], k[3]) = c
        BY <1>4, <1>5, <2>2, <3>1 DEF InVault
      <4>2. qs[k].amount = amount
        BY <1>4, <1>8, <3>1
      <4> QED BY <1>2, <1>5, <1>6, <1>7, <4>1, <4>2
    <3>2. CASE k # key
      <4>1. k \in InVault(ps, "flexible") /\ qs[k] = ps[k]
        BY <1>8, <2>2, <3>2 DEF InVault
      <4>2. s.ledger.balance[PositionAccount(k[1], k[3])] >= ps[k].amount
        BY <1>11, <4>1 DEF Backed, ps
      <4> DEFINE a == PositionAccount(k[1], k[3])
      <4>3. k \in User \X Vault \X Time /\ k[2] = "flexible" /\ k[3] <= SeasonEnd
            /\ k \in DOMAIN ps
        BY <1>3, <4>1 DEF InVault, Book, Keys
      <4>4. k[1] \in User /\ k[3] \in Time /\ k = <<k[1], k[2], k[3]>>
        BY <4>3
      <4>5. /\ a \in Account /\ a # StakedVault /\ a \notin User
            /\ \A u, x : PositionAccount(u, x) = a => u = k[1] /\ x = k[3]
        BY <4>3, <4>4, PositionAccounts
      <4> HIDE DEF a
      <4>6. a # c
        <5>1. CASE vault = "staked"
          BY <1>5, <4>5, <5>1
        <5>2. CASE vault = "flexible"
          <6> SUFFICES ASSUME a = c PROVE FALSE
            OBVIOUS
          <6>1. user = k[1] /\ now = k[3]
            BY <1>5, <4>5, <5>2
          <6>2. k = key
            BY <4>3, <4>4, <5>2, <6>1 DEF key
          <6> QED BY <3>2, <6>2
        <5> QED BY <1>2, <5>1, <5>2 DEF Vault
      <4>7. t.ledger.balance[a] = s.ledger.balance[a]
        BY <1>2, <1>7, <4>5, <4>6
      <4> QED BY <4>1, <4>2, <4>7 DEF a
    <3> QED BY <3>1, <3>2
  <2> QED BY <2>1, <2>2 DEF Backed, qs
<1>12. NoLoss(t, s)
  <2> SUFFICES ASSUME NEW u \in User PROVE Owned(t, u) >= Owned(s, u)
    BY DEF NoLoss
  <2>1. OfUser(ps, u) \in SUBSET DOMAIN ps /\ Held(ps, OfUser(ps, u)) \in Nat
        /\ u \in Account /\ u # c
    BY <1>2, <1>5, StoreNumbers, CustodyAccounts DEF OfUser, ps
  <2>2. CASE u = user
    <3>1. OfUser(qs, u) = OfUser(ps, u) \cup {key}
      BY <1>4, <1>8, <2>2 DEF OfUser
    <3>2. Held(qs, OfUser(qs, u)) = Held(ps, OfUser(ps, u)) + amount
      BY <1>8, <2>1, <3>1
    <3>3. t.ledger.balance[u] = s.ledger.balance[u] - amount /\ s.ledger.balance[u] \in Nat
      BY <1>6, <1>7, <2>1, <2>2
    <3> QED BY <1>2, <2>1, <3>2, <3>3 DEF Owned, ps, qs
  <2>3. CASE u # user
    <3>1. OfUser(qs, u) = OfUser(ps, u)
      BY <1>4, <1>8, <2>3 DEF OfUser
    <3>2. Held(qs, OfUser(qs, u)) = Held(ps, OfUser(ps, u))
      BY <1>8, <2>1, <3>1
    <3>3. t.ledger.balance[u] = s.ledger.balance[u] /\ s.ledger.balance[u] \in Nat
      BY <1>6, <1>7, <2>1, <2>3
    <3> QED BY <2>1, <3>2, <3>3 DEF Owned, ps, qs
  <2> QED BY <2>2, <2>3
<1>13. RewardsSafe(s) => RewardsSafe(t)
  <2>1. t.ledger.balance[FlexibleVault] = s.ledger.balance[FlexibleVault]
    BY <1>2, <1>5, <1>7, CustodyAccounts, VaultsAssumption
  <2> QED BY <1>1, <2>1 DEF RewardsSafe, RewardsOf
<1>14. SharedBy(s, User) => SharedBy(t, User)
  <2> SUFFICES ASSUME SharedBy(s, User), NEW i \in DOMAIN s.rewards
               PROVE  s.rewards[i].total >= WorthOf(qs, Earlier(qs, User, i))
    BY <1>1 DEF SharedBy, qs
  <2>1. i \in Nat /\ i <= s.ledger.index /\ s.ledger.index \in Nat
    BY <1>2, StoreNumbers DEF GoodStore, Records
  <2>2. ~(qs[key].index < i)
    BY <1>4, <1>8, <2>1
  <2>3. Earlier(qs, User, i) = Earlier(ps, User, i)
    BY <1>8, <2>2 DEF Earlier
  <2>4. Earlier(ps, User, i) \in SUBSET DOMAIN ps
    BY DEF Earlier
  <2>5. WorthOf(qs, Earlier(qs, User, i)) = WorthOf(ps, Earlier(ps, User, i))
    BY <1>8, <2>3, <2>4
  <2>6. s.rewards[i].total >= WorthOf(ps, Earlier(ps, User, i))
    BY DEF SharedBy, ps
  <2> QED BY <2>5, <2>6
<1>15. \A v \in Vault :
          /\ WorthOf(qs, InVault(qs, v))
               = WorthOf(ps, InVault(ps, v)) + (IF v = vault THEN Worth(p) ELSE 0)
          /\ t.stats.principal[v]
               = s.stats.principal[v] + (IF v = vault THEN Worth(p) ELSE 0)
          /\ s.stats.principal[v] \in Int
  <2> SUFFICES ASSUME NEW v \in Vault
               PROVE  /\ WorthOf(qs, InVault(qs, v))
                           = WorthOf(ps, InVault(ps, v)) + (IF v = vault THEN Worth(p) ELSE 0)
                      /\ t.stats.principal[v]
                           = s.stats.principal[v] + (IF v = vault THEN Worth(p) ELSE 0)
                      /\ s.stats.principal[v] \in Int
    OBVIOUS
  <2>1. s.stats.principal[v] \in Int /\ WorthOf(ps, InVault(ps, v)) \in Nat
        /\ InVault(ps, v) \in SUBSET DOMAIN ps
    BY <1>3, <1>10
  <2>2. CASE v = vault
    <3>1. WorthOf(qs, InVault(qs, v)) = WorthOf(ps, InVault(ps, v)) + Worth(p)
      BY <1>8, <1>9, <2>1, <2>2
    <3>2. t.stats.principal[v] = s.stats.principal[v] + Worth(p)
      BY <1>1, <1>3, <2>2
    <3> QED BY <2>1, <2>2, <3>1, <3>2
  <2>3. CASE v # vault
    <3>1. WorthOf(qs, InVault(qs, v)) = WorthOf(ps, InVault(ps, v))
      BY <1>8, <1>9, <2>1, <2>3
    <3>2. t.stats.principal[v] = s.stats.principal[v]
      BY <1>1, <1>3, <2>3
    <3> QED BY <2>1, <2>3, <3>1, <3>2
  <2> QED BY <2>2, <2>3
<1>16. CoveredStaked(s) => CoveredStaked(t)
  <2> SUFFICES ASSUME CoveredStaked(s) PROVE CoveredStaked(t)
    OBVIOUS
  <2> DEFINE d == IF "staked" = vault THEN Worth(p) ELSE 0
             x == WorthOf(ps, InVault(ps, "staked"))
             y == s.stats.principal["staked"]
  <2>1. /\ WorthOf(qs, InVault(qs, "staked")) = x + d
        /\ t.stats.principal["staked"] = y + d /\ y \in Int
    BY <1>15 DEF Vault
  <2>2. y >= x
    BY DEF CoveredStaked, ps
  <2>3. d \in Nat /\ x \in Nat
    BY <1>1, <1>10
  <2> HIDE DEF d, x, y
  <2>4. t.stats.principal["staked"] >= WorthOf(qs, InVault(qs, "staked"))
    BY <2>1, <2>2, <2>3
  <2> QED BY <2>4 DEF CoveredStaked, qs
<1>17. CoveredFlexible(s) => CoveredFlexible(t)
  <2> SUFFICES ASSUME CoveredFlexible(s) PROVE CoveredFlexible(t)
    OBVIOUS
  <2> DEFINE d == IF "flexible" = vault THEN Worth(p) ELSE 0
             x == WorthOf(ps, InVault(ps, "flexible"))
             y == s.stats.principal["flexible"]
  <2>1. /\ WorthOf(qs, InVault(qs, "flexible")) = x + d
        /\ t.stats.principal["flexible"] = y + d /\ y \in Int
    BY <1>15 DEF Vault
  <2>2. s.totalFlexible >= x /\ y = s.totalFlexible
    BY DEF CoveredFlexible, ps
  <2>3. d \in Nat /\ x \in Nat
    BY <1>1, <1>10
  <2>4. t.totalFlexible = s.totalFlexible + d
    BY <1>1
  <2> HIDE DEF d, x, y
  <2>5. /\ t.totalFlexible >= WorthOf(qs, InVault(qs, "flexible"))
        /\ t.stats.principal["flexible"] = t.totalFlexible
    BY <2>1, <2>2, <2>3, <2>4
  <2> QED BY <2>5 DEF CoveredFlexible, qs
<1>18. AfterMove(t, s, user, vault)
  <2>1. DOMAIN t.positions = DOMAIN s.positions \cup {<<user, vault, now>>}
    BY <1>8 DEF qs, ps, key
  <2>2. Moves(t.ledger, s.ledger, User, Custody)
    <3>1. User \in SUBSET Account
      BY CustodyAccounts
    <3> QED BY <1>1, <1>2, <1>3, <1>5, <3>1, PaymentMoves
  <2> QED BY <1>1, <1>11, <1>12, <1>13, <1>14, <1>16, <1>17, <2>1, <2>2 DEF AfterMove
<1> QED BY <1>18 DEF t

\* The users of the vaults after a lock.
AfterUsers(t, s, user, vault, v) ==
    /\ PositionsOf(t, user, vault) = PositionsOf(s, user, vault) \cup {<<user, vault, now>>}
    /\ v # vault => UsersIn(t.positions, v) = UsersIn(s.positions, v)
    /\ UsersIn(t.positions, vault) = UsersIn(s.positions, vault) \cup {user}

\* A lock adds its user to those of the vault.
LEMMA UsersAfterMove ==
  ASSUME NEW s, NEW user, NEW vault, NEW amount, Lockable(s, user, vault, amount), NEW v
  PROVE  AfterUsers(Moved(s, user, vault, amount), s, user, vault, v)
<1> DEFINE t == Moved(s, user, vault, amount)
<1>1. DOMAIN t.positions = DOMAIN s.positions \cup {<<user, vault, now>>}
  BY MovedKept DEF AfterMove
<1> HIDE DEF t
<1> DEFINE key == <<user, vault, now>>
<1>2. key[1] = user /\ key[2] = vault
  OBVIOUS
<1>3. DOMAIN t.positions = DOMAIN s.positions \cup {key}
  BY <1>1
<1> HIDE DEF key
<1>4. PositionsOf(t, user, vault) = PositionsOf(s, user, vault) \cup {key}
  BY <1>2, <1>3 DEF PositionsOf
<1>5. v # vault => UsersIn(t.positions, v) = UsersIn(s.positions, v)
  BY <1>2, <1>3 DEF UsersIn, InVault
<1>6. InVault(t.positions, vault) = InVault(s.positions, vault) \cup {key}
  BY <1>2, <1>3 DEF InVault
<1>7. UsersIn(t.positions, vault) = UsersIn(s.positions, vault) \cup {user}
  BY <1>2, <1>6 DEF UsersIn
<1> QED BY <1>4, <1>5, <1>7 DEF AfterUsers, key, t

\* The user is counted when it was not counted yet.
LEMMA UserCounted ==
  ASSUME NEW s, NEW user, NEW vault, NEW amount, Lockable(s, user, vault, amount),
         NEW v \in Vault
  PROVE  LET u == Moved(s, user, vault, amount)
             t == Locked(s, user, vault, amount)
         IN  /\ OnlyStats(t, u)
             /\ t.stats.principal = u.stats.principal
             /\ t.stats.users[v] \in Int /\ s.stats.users[v] \in Int
             /\ Cardinality(UsersIn(t.positions, v))
                  = Cardinality(UsersIn(s.positions, v)) + (t.stats.users[v] - s.stats.users[v])
<1> DEFINE u == Moved(s, user, vault, amount)
           t == Locked(s, user, vault, amount)
           key == <<user, vault, now>>
           n == u.stats.users[vault] + 1
           e == [u EXCEPT !.stats.users[vault] = n]
           P == PositionsOf(s, user, vault)
           U(x) == UsersIn(x.positions, vault)
<1>1. t = IF Cardinality(PositionsOf(u, user, vault)) = 1 THEN e ELSE u
  BY DEF Locked, Moved, IncrementVaultUsers
<1>2. /\ GoodStore(u) /\ u.stats.users = s.stats.users
      /\ DOMAIN u.positions = DOMAIN s.positions \cup {key}
  BY MovedKept DEF AfterMove
<1>3. GoodStore(s) /\ user \in User /\ vault \in Vault /\ key \notin DOMAIN s.positions
  BY DEF Lockable
<1>4. s.stats.users \in [Vault -> Int]
  BY <1>3, StoreParts DEF StatsType
<1> HIDE DEF u, t
<1>5. /\ OnlyStats(e, u) /\ e.stats.users = [u.stats.users EXCEPT ![vault] = n]
      /\ e.stats.principal = u.stats.principal
  <2>1. n \in Int
    BY <1>2, <1>3, <1>4
  <2> HIDE DEF n
  <2> QED BY <1>2, <1>3, <2>1, UsersUpdate
<1>6. OnlyStats(u, u)
  BY <1>2 DEF OnlyStats
<1> HIDE DEF e
<1>7. OnlyStats(t, u) /\ t.stats.principal = u.stats.principal
  <2>1. CASE Cardinality(PositionsOf(u, user, vault)) = 1
    BY <1>1, <1>5, <2>1
  <2>2. CASE Cardinality(PositionsOf(u, user, vault)) # 1
    BY <1>1, <1>6, <2>2
  <2> QED BY <2>1, <2>2
<1>8. IsFiniteSet(P) /\ Cardinality(P) \in Nat /\ key \notin P
  <2>1. P \in SUBSET DOMAIN s.positions /\ Book(s.positions)
    BY <1>3 DEF PositionsOf, GoodStore
  <2> HIDE DEF P
  <2> QED BY <1>3, <2>1, BookSums, FS_CardinalityType
<1>9. /\ PositionsOf(u, user, vault) = P \cup {key}
      /\ v # vault => UsersIn(u.positions, v) = UsersIn(s.positions, v)
      /\ U(u) = U(s) \cup {user}
  <2>1. AfterUsers(u, s, user, vault, v)
    BY UsersAfterMove DEF u
  <2> HIDE DEF P, key, U
  <2> QED BY <2>1 DEF AfterUsers, P, key, U
<1>10. Cardinality(PositionsOf(u, user, vault)) = Cardinality(P) + 1
  <2> HIDE DEF P, key
  <2> QED BY <1>8, <1>9, FS_AddElement
<1>11. user \in U(s) <=> P # {}
  BY OneOfUsers
<1>12. /\ IsFiniteSet(U(s)) /\ Cardinality(U(s)) \in Nat
       /\ Cardinality(UsersIn(s.positions, v)) \in Nat
  BY <1>3, UsersFinite DEF GoodStore
<1>13. t.positions = u.positions
  BY <1>7 DEF OnlyStats
<1> HIDE DEF P, U, key
<1>14. CASE P = {}
  <2>1. Cardinality(P) = 0
    BY <1>14, FS_EmptySet
  <2>2. t = e
    BY <1>1, <1>10, <2>1
  <2>3. t.stats.users = [s.stats.users EXCEPT ![vault] = s.stats.users[vault] + 1]
    BY <1>2, <1>5, <2>2 DEF n
  <2>4. user \notin U(s)
    BY <1>11, <1>14
  <2>5. Cardinality(U(u)) = Cardinality(U(s)) + 1
    BY <1>9, <1>12, <2>4, FS_AddElement
  <2>6. CASE v = vault
    <3>1. t.stats.users[v] = s.stats.users[v] + 1 /\ s.stats.users[v] \in Int
      BY <1>3, <1>4, <2>3, <2>6
    <3>2. Cardinality(UsersIn(t.positions, v)) = Cardinality(UsersIn(s.positions, v)) + 1
      BY <1>13, <2>5, <2>6 DEF U
    <3> QED BY <1>7, <1>12, <3>1, <3>2 DEF t, u
  <2>7. CASE v # vault
    <3>1. t.stats.users[v] = s.stats.users[v] /\ s.stats.users[v] \in Int
      BY <1>4, <2>3, <2>7
    <3>2. Cardinality(UsersIn(t.positions, v)) = Cardinality(UsersIn(s.positions, v))
      BY <1>9, <1>13, <2>7
    <3> QED BY <1>7, <1>12, <3>1, <3>2 DEF t, u
  <2> QED BY <2>6, <2>7
<1>15. CASE P # {}
  <2>1. Cardinality(P) # 0
    BY <1>8, <1>15, FS_EmptySet
  <2>2. t = u
    BY <1>1, <1>8, <1>10, <2>1
  <2>3. t.stats.users[v] = s.stats.users[v] /\ s.stats.users[v] \in Int
    BY <1>2, <1>4, <2>2
  <2>4. U(u) = U(s)
    BY <1>9, <1>11, <1>15
  <2>5. Cardinality(UsersIn(t.positions, v)) = Cardinality(UsersIn(s.positions, v))
    <3>1. CASE v = vault
      BY <1>13, <2>4, <3>1 DEF U
    <3>2. CASE v # vault
      BY <1>9, <1>13, <3>2
    <3> QED BY <3>1, <3>2
  <2> QED BY <1>7, <1>12, <2>3, <2>5 DEF t, u
<1> QED BY <1>14, <1>15

\* Locking keeps the books safe, and nobody loses anything by it.
LEMMA LockedSafe ==
  ASSUME NEW s, NEW user, NEW vault, NEW amount, Lockable(s, user, vault, amount),
         NEW open \in BOOLEAN, Safe(s, open)
  PROVE  LET t == Locked(s, user, vault, amount)
         IN  /\ Safe(t, open) /\ NoLoss(t, s) /\ (RewardsSafe(s) => RewardsSafe(t))
             /\ Moves(t.ledger, s.ledger, User, Custody)
<1> DEFINE u == Moved(s, user, vault, amount)
           t == Locked(s, user, vault, amount)
<1>1. AfterMove(u, s, user, vault)
  BY MovedKept
<1>2. \A v \in Vault :
          /\ OnlyStats(t, u)
          /\ t.stats.principal = u.stats.principal
          /\ t.stats.users[v] \in Int /\ s.stats.users[v] \in Int
          /\ Cardinality(UsersIn(t.positions, v))
               = Cardinality(UsersIn(s.positions, v)) + (t.stats.users[v] - s.stats.users[v])
  BY UserCounted
<1> HIDE DEF u, t
<1>3. OnlyStats(t, u) /\ t.stats.principal = u.stats.principal
  BY <1>2 DEF Vault
<1>4. /\ GoodStore(s) /\ Backed(s) /\ CoveredStaked(s)
      /\ \A v \in Vault : CountedAtLeast(s, v)
      /\ Counted(s, "staked")
      /\ open => SharedBy(s, User) /\ CoveredFlexible(s) /\ Counted(s, "flexible")
  BY DEF Safe
<1>5. /\ GoodStore(t) /\ Backed(t) /\ NoLoss(t, s)
      /\ RewardsSafe(s) => RewardsSafe(t)
      /\ SharedBy(s, User) => SharedBy(t, User)
  <2>1. NoLoss(t, s)
    BY <1>1, <1>3 DEF AfterMove, OnlyStats, NoLoss, Owned
  <2> QED BY <1>1, <1>3, <1>4, <2>1, SameButStats DEF AfterMove, OnlyStats
<1>6. CoveredStaked(t) /\ (CoveredFlexible(s) => CoveredFlexible(t))
  <2>1. t.positions = u.positions /\ t.totalFlexible = u.totalFlexible
    BY <1>3 DEF OnlyStats
  <2>2. CoveredStaked(u) => CoveredStaked(t)
    BY <1>3, <2>1 DEF CoveredStaked
  <2>3. CoveredFlexible(u) => CoveredFlexible(t)
    BY <1>3, <2>1 DEF CoveredFlexible
  <2> QED BY <1>1, <1>4, <2>2, <2>3 DEF AfterMove
<1>7. ASSUME NEW v \in Vault
      PROVE  /\ CountedAtLeast(s, v) => CountedAtLeast(t, v)
             /\ Counted(s, v) => Counted(t, v)
  <2> DEFINE p == Cardinality(UsersIn(s.positions, v))
             q == Cardinality(UsersIn(t.positions, v))
             a == s.stats.users[v]
             b == t.stats.users[v]
  <2>1. a \in Int /\ b \in Int /\ q = p + (b - a)
    BY <1>2
  <2>2. p \in Nat
    BY <1>4, UsersFinite DEF GoodStore
  <2>3. /\ CountedAtLeast(s, v) <=> a >= p
        /\ CountedAtLeast(t, v) <=> b >= q
        /\ Counted(s, v) <=> a = p
        /\ Counted(t, v) <=> b = q
    BY DEF CountedAtLeast, Counted
  <2> HIDE DEF p, q, a, b
  <2>4. a >= p => b >= q
    BY <2>1, <2>2
  <2>5. a = p => b = q
    BY <2>1, <2>2
  <2> QED BY <2>3, <2>4, <2>5
<1>8. Safe(t, open)
  <2>1. "staked" \in Vault /\ "flexible" \in Vault
    BY DEF Vault
  <2> QED BY <1>4, <1>5, <1>6, <1>7, <2>1 DEF Safe
<1>9. Moves(t.ledger, s.ledger, User, Custody)
  BY <1>1, <1>3 DEF AfterMove, OnlyStats
<1> QED BY <1>5, <1>8, <1>9 DEF t

-----------------------------------------------------------------------------
(* The inductive invariant. *)

\* What holds in every state.
VaultsInv ==
    /\ Safe(VaultsStore, ~ended)
    /\ ended \in BOOLEAN /\ (ended => now > SeasonEnd)
    /\ now \in Time /\ vaultsPaused \in PausedType
    /\ paused \in BOOLEAN /\ burns \in Nat /\ donated \in Nat

\* The Flexible principal is small enough for the rounding of LegacyDec.
Bounded == totalFlexible < 2 * Precision

\* What every step does.
Stepped ==
    /\ VaultsInv'
    /\ NoLoss(VaultsStore', VaultsStore)
    /\ Bounded /\ RewardsSafe(VaultsStore) => RewardsSafe(VaultsStore')

\* What every step but an issuance does besides: only users, and the accounts that
\* hold their coins, pay.
Orderly == Stepped /\ Moves(ledger', ledger, User, Custody)

\* Users hold no coins for the vaults.
LEMMA UsersAreNotCustody == User \in SUBSET (Account \ Custody) /\ User \in SUBSET Account
BY VaultsAssumption, PositionAccounts, CustodyAccounts DEF Custody

\* A handler that harms nobody is orderly.
LEMMA HarmlessMoves ==
  ASSUME NEW t, Harmless(t, VaultsStore), ledger' = t.ledger
  PROVE  Moves(ledger', ledger, User, Custody)
<1>1. Spares(ledger', ledger, Account \ Custody)
  BY DEF Harmless, VaultsStore
<1> QED BY <1>1, UsersAreNotCustody, SparesMoves

\* The books after a handler are the store that it returned.
LEMMA VaultsCommitted ==
  ASSUME NEW s, GoodStore(s), CommitVaults(s)
  PROVE  VaultsStore' = s
<1>1. s = [ledger |-> s.ledger, positions |-> s.positions, totalFlexible |-> s.totalFlexible,
           rewards |-> s.rewards, stats |-> s.stats]
  BY StoreParts
<1> QED BY <1>1 DEF CommitVaults, VaultsStore

\* A handler other than the end of the season.
LEMMA HandlerStep ==
  ASSUME VaultsInv, NEW t, CommitVaults(t), Safe(t, ~ended), NoLoss(t, VaultsStore),
         Bounded /\ RewardsSafe(VaultsStore) => RewardsSafe(t),
         UNCHANGED <<paused, burns, donated, vaultsPaused, ended, now>>
  PROVE  Stepped
<1>1. VaultsStore' = t
  BY VaultsCommitted DEF Safe
<1>2. ended' = ended
  OBVIOUS
<1>3. Safe(VaultsStore', ~ended')
  BY <1>1, <1>2
<1>4. VaultsInv'
  BY <1>3 DEF VaultsInv
<1> QED BY <1>1, <1>4 DEF Stepped

\* What the handlers start from.
LEMMA InvParts ==
  ASSUME VaultsInv
  PROVE  GoodStore(VaultsStore) /\ Safe(VaultsStore, ~ended) /\ (~ended) \in BOOLEAN /\ now \in Time
<1>1. Safe(VaultsStore, ~ended) /\ now \in Time
  BY DEF VaultsInv
<1>2. (~ended) \in BOOLEAN
  BY DEF VaultsInv
<1> QED BY <1>1, <1>2 DEF Safe

\* Locking.
LEMMA LockStep ==
  ASSUME VaultsInv, NEW user \in User, NEW vault \in Vault, NEW amount \in Amounts,
         Lock(user, vault, amount)
  PROVE  Orderly
<1> DEFINE t == Locked(VaultsStore, user, vault, amount)
<1>1. GoodStore(VaultsStore) /\ Safe(VaultsStore, ~ended) /\ now \in Time /\ (~ended) \in BOOLEAN
  BY InvParts
<1>2. amount \in Nat /\ amount > 0
  BY TokenAssumption
<1>3. Lockable(VaultsStore, user, vault, amount)
  BY <1>1, <1>2 DEF Lockable, Lock, CanSend, VaultsStore
<1>4. /\ Safe(t, ~ended) /\ NoLoss(t, VaultsStore)
      /\ RewardsSafe(VaultsStore) => RewardsSafe(t)
      /\ Moves(t.ledger, VaultsStore.ledger, User, Custody)
  BY <1>1, <1>3, LockedSafe
<1>5. CommitVaults(t) /\ UNCHANGED <<paused, burns, donated, vaultsPaused, ended, now>>
  BY DEF Lock
<1> HIDE DEF t
<1>6. Moves(ledger', ledger, User, Custody)
  BY <1>4, <1>5 DEF CommitVaults, VaultsStore
<1>7. Stepped
  BY <1>4, <1>5, HandlerStep
<1> QED BY <1>6, <1>7 DEF Orderly

\* Unlocking: in the Flexible vault it is possible only while the season lasts.
LEMMA UnlockStep ==
  ASSUME VaultsInv, NEW user \in User, NEW vault \in Vault, NEW amount \in Amounts,
         Unlock(user, vault, amount)
  PROVE  Orderly
<1> DEFINE r == Unlocked(VaultsStore, user, vault, amount)
           t == r.store
           open == ~ended
<1>1. r.ok /\ CommitVaults(t) /\ UNCHANGED <<paused, burns, donated, vaultsPaused, ended, now>>
  BY DEF Unlock
<1>2. /\ GoodStore(VaultsStore) /\ Backed(VaultsStore) /\ CoveredStaked(VaultsStore)
      /\ \A v \in Vault : CountedAtLeast(VaultsStore, v)
      /\ Counted(VaultsStore, "staked")
      /\ open => /\ SharedBy(VaultsStore, User) /\ CoveredFlexible(VaultsStore)
                 /\ Counted(VaultsStore, "flexible")
  BY DEF VaultsInv, Safe
<1>3. r.ok \in BOOLEAN /\ AfterUnlock(t, VaultsStore, r.ok, user, vault, User)
  <2>1. amount \in Int
    BY TokenAssumption
  <2> QED BY <1>2, <2>1, UnlockedKept
<1>4. vault = "flexible" => open
  <2>1. vault = "flexible" => now <= SeasonEnd
    BY DEF Unlock
  <2>2. now \in Nat /\ SeasonEnd \in Nat /\ (ended => now > SeasonEnd)
    BY VaultsAssumption DEF VaultsInv
  <2>3. now <= SeasonEnd => ~(now > SeasonEnd)
    BY <2>2
  <2> QED BY <2>1, <2>2, <2>3
<1> HIDE DEF r, t, open
<1>5. /\ GoodStore(t) /\ Backed(t) /\ Harmless(t, VaultsStore)
      /\ \A v \in Vault : CountedAtLeast(VaultsStore, v) => CountedAtLeast(t, v)
      /\ \A v \in Vault : Counted(VaultsStore, v) => Counted(t, v)
      /\ CoveredStaked(VaultsStore) => CoveredStaked(t)
      /\ CoveredFlexible(VaultsStore) => CoveredFlexible(t)
      /\ (vault = "staked" \/ SharedBy(VaultsStore, User)) /\ RewardsSafe(VaultsStore) => RewardsSafe(t)
      /\ SharedBy(VaultsStore, User) => SharedBy(t, User)
  BY <1>1, <1>3 DEF AfterUnlock
<1>6. Safe(t, open)
  <2>1. "staked" \in Vault /\ "flexible" \in Vault
    BY DEF Vault
  <2> QED BY <1>2, <1>5, <2>1 DEF Safe
<1>7. RewardsSafe(VaultsStore) => RewardsSafe(t)
  <2>1. vault = "staked" \/ vault = "flexible"
    BY DEF Vault
  <2> QED BY <1>2, <1>4, <1>5, <2>1
<1>8. Safe(t, ~ended)
  BY <1>6 DEF open
<1>9. Stepped
  BY <1>1, <1>5, <1>7, <1>8, HandlerStep DEF Harmless
<1>10. Moves(ledger', ledger, User, Custody)
  BY <1>1, <1>5, HarmlessMoves DEF CommitVaults
<1> QED BY <1>9, <1>10 DEF Orderly

\* An index payload.
LEMMA UpdateIndexStep ==
  ASSUME VaultsInv, NEW index \in Indices, VaultsUpdateIndex(index)
  PROVE  Stepped
<1> DEFINE t == VaultsUpdateIndexStore(VaultsStore, index).store
<1>1. GoodStore(VaultsStore) /\ Safe(VaultsStore, ~ended) /\ (~ended) \in BOOLEAN /\ index \in Int
  BY TokenAssumption, InvParts
<1>2. Grown(t, VaultsStore)
  <2>1. SupplyShortfall(VaultsStore.ledger, index) >= 0
    BY DEF VaultsUpdateIndex, VaultsStore
  <2> QED BY <1>1, <2>1, UpdateIndexStoreEffect
<1>3. CommitVaults(t) /\ UNCHANGED <<paused, burns, donated, vaultsPaused, ended, now>>
  BY DEF VaultsUpdateIndex
<1>4. Bounded => VaultsStore.totalFlexible < 2 * Precision
  BY DEF Bounded, VaultsStore
<1> HIDE DEF t
<1>5. Safe(t, ~ended) /\ NoLoss(t, VaultsStore)
  BY <1>1, <1>2, GrownSafe
<1>6. Bounded /\ RewardsSafe(VaultsStore) => RewardsSafe(t)
  BY <1>1, <1>2, <1>4, GrownRewards
<1> QED BY <1>3, <1>5, <1>6, HandlerStep

\* Issuance takes nothing from anybody.
IssuedTo(m, l) ==
    /\ Sound(m) /\ m.index >= l.index
    /\ \A a \in Account : m.balance[a] >= l.balance[a]

\* What issuance to an account leaves of the ledger.
LEMMA IssuePays ==
  ASSUME NEW l, Sound(l), NEW r \in Account, NEW amount \in Nat, amount > 0
  PROVE  IssuedTo(MintTo(l, r, amount), l)
<1> DEFINE m    == MintTo(l, r, amount)
           up   == GetPrincipalAmountRoundedUp(amount, l.index)
           down == GetPrincipalAmountRoundedDown(amount, l.index)
<1>1. /\ Sound(m)
      /\ SameExcept(m, l, {"balance", "principal", "supply",
                           "totalPrincipal", "totalHolders"})
      /\ m.supply = l.supply + amount
      /\ m.totalPrincipal = l.totalPrincipal + up
      /\ m.balance = [l.balance EXCEPT ![r] = @ + amount]
      /\ m.principal = [l.principal EXCEPT ![r] = @ + down]
  BY IssueToAccount
<1>2. /\ l.index \in Nat /\ l.balance \in [Address -> Nat] /\ Account \subseteq Address
  BY DEF Sound, LedgerType, Address
<1> HIDE DEF m
<1>3. m.index >= l.index
  BY <1>1, <1>2 DEF SameExcept
<1>4. \A a \in Account : m.balance[a] >= l.balance[a]
  BY <1>1, <1>2
<1> QED BY <1>1, <1>3, <1>4 DEF IssuedTo, m

\* A token payload: its index update may stop halfway and be kept.
LEMMA MintStep ==
  ASSUME VaultsInv, NEW user \in User, NEW amount \in Amounts, NEW index \in Indices,
         VaultsMint(user, amount, index)
  PROVE  Stepped
<1> DEFINE r == VaultsUpdateIndexStore(VaultsStore, index).store
           m == MintTo(r.ledger, user, amount)
           t == [r EXCEPT !.ledger = m]
<1>1. /\ GoodStore(VaultsStore) /\ Safe(VaultsStore, ~ended) /\ (~ended) \in BOOLEAN
      /\ index \in Int /\ amount \in Nat /\ amount > 0
      /\ user \in Account
  BY TokenAssumption, CustodyAccounts, InvParts
<1>2. Grown(r, VaultsStore)
  <2>1. index > VaultsStore.ledger.index => SupplyShortfall(VaultsStore.ledger, index) >= 0
    BY DEF VaultsMint, VaultsStore
  <2> QED BY <1>1, <2>1, UpdateIndexStoreEffect
<1>3. CommitVaults(t) /\ UNCHANGED <<paused, burns, donated, vaultsPaused, ended, now>>
  BY DEF VaultsMint
<1>4. Bounded => VaultsStore.totalFlexible < 2 * Precision
  BY DEF Bounded, VaultsStore
<1> HIDE DEF r
<1>5. Sound(r.ledger)
  BY <1>2 DEF Grown, GoodStore
<1>6. IssuedTo(m, r.ledger)
  <2>1. user \in Account /\ amount \in Nat /\ amount > 0
    BY <1>1
  <2> QED BY <1>5, <2>1, IssuePays
<1>7. Sound(m) /\ m.index >= r.ledger.index
  BY <1>6 DEF IssuedTo
<1>8. \A a \in Account : m.balance[a] >= r.ledger.balance[a]
  BY <1>6 DEF IssuedTo
<1> HIDE DEF m
<1>9. Grown(t, VaultsStore)
  <2>1. Sound(m)
    BY <1>7
  <2> QED BY <1>1, <1>2, <1>7, <1>8, <2>1, LedgerGrows
<1> HIDE DEF t
<1>10. Safe(t, ~ended) /\ NoLoss(t, VaultsStore)
  BY <1>1, <1>9, GrownSafe
<1>11. Bounded /\ RewardsSafe(VaultsStore) => RewardsSafe(t)
  BY <1>1, <1>9, <1>4, GrownRewards
<1> QED BY <1>3, <1>10, <1>11, HandlerStep

\* A claim of yield.
LEMMA ClaimYieldStep ==
  ASSUME VaultsInv, NEW user \in User, VaultsClaimYield(user)
  PROVE  Orderly
<1> DEFINE m == ClaimModuleYield(VaultsStore.ledger, user)
           t == [VaultsStore EXCEPT !.ledger = m]
<1>1. GoodStore(VaultsStore) /\ Safe(VaultsStore, ~ended) /\ (~ended) \in BOOLEAN
  BY InvParts
<1>2. /\ Sound(VaultsStore.ledger) /\ user \in Account /\ CanClaim(VaultsStore.ledger, user)
      /\ Grown(VaultsStore, VaultsStore)
  <2>1. CanClaim(VaultsStore.ledger, user)
    BY DEF VaultsClaimYield, ClaimYield, CanClaim, VaultsStore
  <2>2. Grown(VaultsStore, VaultsStore)
    BY <1>1, GrownStarts
  <2> QED BY <1>1, <2>1, <2>2, CustodyAccounts DEF GoodStore
<1>3. CommitVaults(t) /\ UNCHANGED <<paused, burns, donated, vaultsPaused, ended, now>>
  BY DEF VaultsClaimYield, ClaimYield, CommitVaults, ClaimModuleYield, VaultsStore, vaultsBooks
<1>4. Bounded => VaultsStore.totalFlexible < 2 * Precision
  BY DEF Bounded, VaultsStore
<1>5. /\ Sound(m)
      /\ SameExcept(m, VaultsStore.ledger, {"balance"})
      /\ GetYield(VaultsStore.ledger, user) \in Nat
      /\ m.balance[user] = VaultsStore.ledger.balance[user] + GetYield(VaultsStore.ledger, user)
      /\ \A a \in Account \ {user} : m.balance[a] = VaultsStore.ledger.balance[a]
      /\ Spares(m, VaultsStore.ledger, Account)
  BY <1>2, Claim
<1>6. /\ VaultsStore.ledger.index \in Nat
      /\ \A a \in Account : VaultsStore.ledger.balance[a] \in Nat
  BY <1>1, StoreNumbers
<1>7. ledger' = m /\ VaultsStore.ledger = ledger
  BY DEF VaultsClaimYield, ClaimYield, ClaimModuleYield, VaultsStore
<1> HIDE DEF m
<1>8. m.index >= VaultsStore.ledger.index
  BY <1>5, <1>6 DEF SameExcept
<1>9. \A a \in Account : m.balance[a] >= VaultsStore.ledger.balance[a]
  BY <1>2, <1>5, <1>6
<1>10. Grown(t, VaultsStore)
  <2>1. Sound(m)
    BY <1>5
  <2> QED BY <1>1, <1>2, <1>8, <1>9, <2>1, LedgerGrows
<1> HIDE DEF t
<1>11. Safe(t, ~ended) /\ NoLoss(t, VaultsStore)
  BY <1>1, <1>10, GrownSafe
<1>12. Bounded /\ RewardsSafe(VaultsStore) => RewardsSafe(t)
  BY <1>1, <1>10, <1>4, GrownRewards
<1>13. Stepped
  BY <1>3, <1>11, <1>12, HandlerStep
<1>14. Moves(ledger', ledger, User, Custody)
  <2>1. Spares(ledger', ledger, Account \ Custody)
    BY <1>5, <1>7, SparesFewer
  <2> QED BY <2>1, UsersAreNotCustody, SparesMoves
<1> QED BY <1>13, <1>14 DEF Orderly

\* A message that leaves the books alone.
LEMMA BooksKept ==
  ASSUME VaultsInv, VaultsStore' = VaultsStore
  PROVE  /\ Safe(VaultsStore', ~ended) /\ NoLoss(VaultsStore', VaultsStore)
         /\ RewardsSafe(VaultsStore) => RewardsSafe(VaultsStore')
<1>1. GoodStore(VaultsStore) /\ Safe(VaultsStore, ~ended)
  BY InvParts
<1>2. NoLoss(VaultsStore, VaultsStore)
  BY <1>1, StoreNumbers DEF NoLoss
<1> QED BY <1>1, <1>2

\* A message that touches the pause, or a step of other modules.
LEMMA QuietStep ==
  ASSUME VaultsInv, UNCHANGED <<vars, vaultsBooks, ended, now>>, vaultsPaused' \in PausedType
  PROVE  Orderly
<1>1. VaultsStore' = VaultsStore
  BY DEF VaultsStore, vaultsBooks, vars
<1>2. /\ Safe(VaultsStore', ~ended) /\ NoLoss(VaultsStore', VaultsStore)
      /\ RewardsSafe(VaultsStore) => RewardsSafe(VaultsStore')
  BY <1>1, BooksKept
<1>3. ended' = ended /\ now' = now /\ paused' = paused /\ burns' = burns /\ donated' = donated
  BY DEF vars
<1>4. Safe(VaultsStore', ~ended')
  BY <1>2, <1>3
<1>5. VaultsInv'
  BY <1>3, <1>4 DEF VaultsInv
<1>6. Moves(ledger', ledger, User, Custody)
  <2>1. Harmless(VaultsStore, VaultsStore) /\ ledger' = VaultsStore.ledger
    BY <1>1, InvParts, HarmlessReflexive DEF vars, VaultsStore
  <2> QED BY <2>1, HarmlessMoves
<1> QED BY <1>2, <1>5, <1>6 DEF Stepped, Orderly

\* A new block, with the end of the season or without.
LEMMA BlockStep ==
  ASSUME VaultsInv, BeginBlocker
  PROVE  Orderly
<1>1. /\ now' \in Time /\ now' > now
      /\ ended' = (ended \/ (now' > SeasonEnd /\ ~ended))
      /\ paused' = paused /\ burns' = burns /\ donated' = donated
      /\ vaultsPaused' = vaultsPaused
  BY DEF BeginBlocker
<1>2. /\ ended \in BOOLEAN /\ (ended => now > SeasonEnd)
      /\ now \in Nat /\ now' \in Nat /\ SeasonEnd \in Nat
      /\ vaultsPaused \in PausedType /\ paused \in BOOLEAN /\ burns \in Nat /\ donated \in Nat
  BY <1>1, VaultsAssumption DEF VaultsInv
<1>3. GoodStore(VaultsStore) /\ Safe(VaultsStore, ~ended)
  BY InvParts
<1>4. CASE now' > SeasonEnd /\ ~ended
  <2> DEFINE t == EndVaultsSeasonOne(VaultsStore)
  <2>1. CommitVaults(t) /\ ended' = TRUE
    BY <1>1, <1>4 DEF BeginBlocker
  <2>2. /\ Backed(VaultsStore) /\ CoveredStaked(VaultsStore)
        /\ \A v \in Vault : CountedAtLeast(VaultsStore, v)
        /\ Counted(VaultsStore, "staked") /\ SharedBy(VaultsStore, User)
    BY <1>3, <1>4 DEF Safe
  <2>3. Ending(t, VaultsStore, {})
    BY <1>3, <2>2, SeasonEndKept
  <2> HIDE DEF t
  <2>4. /\ GoodStore(t) /\ Backed(t) /\ Harmless(t, VaultsStore) /\ CoveredStaked(t)
        /\ \A v \in Vault : CountedAtLeast(t, v)
        /\ Counted(t, "staked")
        /\ RewardsSafe(VaultsStore) => RewardsSafe(t)
    BY <2>2, <2>3 DEF Ending
  <2>5. Safe(t, FALSE)
    BY <2>4 DEF Safe
  <2>6. VaultsStore' = t
    BY <2>1, <2>4, VaultsCommitted
  <2>7. Safe(VaultsStore', ~ended')
    BY <2>1, <2>5, <2>6
  <2>8. VaultsInv'
    BY <1>1, <1>2, <1>4, <2>1, <2>7 DEF VaultsInv
  <2>9. Moves(ledger', ledger, User, Custody)
    BY <2>1, <2>4, HarmlessMoves DEF CommitVaults
  <2> QED BY <2>4, <2>6, <2>8, <2>9 DEF Stepped, Orderly, Harmless
<1>5. CASE ~(now' > SeasonEnd /\ ~ended)
  <2>1. CommitVaults(VaultsStore) /\ ended' = ended
    BY <1>1, <1>2, <1>5 DEF BeginBlocker
  <2>2. VaultsStore' = VaultsStore
    BY <1>3, <2>1, VaultsCommitted
  <2>3. /\ Safe(VaultsStore', ~ended) /\ NoLoss(VaultsStore', VaultsStore)
        /\ RewardsSafe(VaultsStore) => RewardsSafe(VaultsStore')
    BY <2>2, BooksKept
  <2>4. Safe(VaultsStore', ~ended')
    BY <2>1, <2>3
  <2>5. ended' => now' > SeasonEnd
    BY <1>1, <1>2, <2>1
  <2>6. VaultsInv'
    BY <1>1, <1>2, <2>1, <2>4, <2>5 DEF VaultsInv
  <2>7. Moves(ledger', ledger, User, Custody)
    <3>1. Harmless(VaultsStore, VaultsStore) /\ ledger' = VaultsStore.ledger
      BY <1>3, <2>1, HarmlessReflexive DEF CommitVaults
    <3> QED BY <3>1, HarmlessMoves
  <2> QED BY <2>3, <2>6, <2>7 DEF Stepped, Orderly
<1> QED BY <1>4, <1>5

\* Every message to the vaults, and every block, is orderly.
LEMMA VaultsTrafficStep == VaultsInv /\ VaultsTraffic => Orderly
<1> SUFFICES ASSUME VaultsInv, VaultsTraffic PROVE Orderly
  OBVIOUS
<1>1. ASSUME NEW user \in User, NEW vault \in Vault, NEW amount \in Amounts,
             Lock(user, vault, amount)
      PROVE  Orderly
  BY <1>1, LockStep
<1>2. ASSUME NEW user \in User, NEW vault \in Vault, NEW amount \in Amounts,
             Unlock(user, vault, amount)
      PROVE  Orderly
  BY <1>2, UnlockStep
<1>3. CASE BeginBlocker
  BY <1>3, BlockStep
<1>4. ASSUME NEW pause \in Pauses, VaultsSetPausedState(pause)
      PROVE  Orderly
  <2>1. UNCHANGED <<vars, vaultsBooks, ended, now>> /\ vaultsPaused' \in PausedType
    BY <1>4, VaultsAssumption DEF VaultsSetPausedState
  <2> QED BY <2>1, QuietStep
<1>5. ASSUME NEW user \in User, VaultsClaimYield(user)
      PROVE  Orderly
  BY <1>5, ClaimYieldStep
<1> QED BY <1>1, <1>2, <1>3, <1>4, <1>5 DEF VaultsTraffic

\* Every step keeps the invariant and costs no user anything.
LEMMA VaultsNextStep == VaultsInv /\ [VaultsNext]_vaultsVars => Stepped
<1> SUFFICES ASSUME VaultsInv, [VaultsNext]_vaultsVars PROVE Stepped
  OBVIOUS
<1>1. CASE VaultsTraffic
  BY <1>1, VaultsTrafficStep DEF Orderly
<1>2. ASSUME NEW index \in Indices, VaultsUpdateIndex(index)
      PROVE  Stepped
  BY <1>2, UpdateIndexStep
<1>3. ASSUME NEW user \in User, NEW amount \in Amounts, NEW index \in Indices,
             VaultsMint(user, amount, index)
      PROVE  Stepped
  BY <1>3, MintStep
<1>4. CASE UNCHANGED vaultsVars
  <2>1. UNCHANGED <<vars, vaultsBooks, ended, now>> /\ vaultsPaused' \in PausedType
    BY <1>4 DEF vaultsVars, VaultsInv
  <2> QED BY <2>1, QuietStep DEF Orderly
<1> QED BY <1>1, <1>2, <1>3, <1>4 DEF VaultsNext

\* The books at genesis: no position, no record, nothing promised.
LEMMA VaultsInitInv == VaultsInit => VaultsInv /\ RewardsSafe(VaultsStore)
<1> SUFFICES ASSUME VaultsInit PROVE VaultsInv /\ RewardsSafe(VaultsStore)
  OBVIOUS
<1> DEFINE st == [users |-> [v \in Vault |-> 0], principal |-> [v \in Vault |-> 0],
                  distributed |-> 0]
<1>1. /\ ledger = Endowed /\ positions = <<>> /\ totalFlexible = 0 /\ rewards = <<>>
      /\ stats = st /\ ended = FALSE /\ vaultsPaused = "none" /\ now \in Time
      /\ paused = FALSE /\ burns = 0 /\ donated = 0
  BY DEF VaultsInit, VaultsGenesis
<1>2. Sound(ledger) /\ ledger.balance \in [Address -> Nat]
  BY <1>1, EndowedFresh DEF Fresh, Sound, LedgerType
<1>3. DOMAIN positions = {} /\ DOMAIN rewards = {}
  BY <1>1
<1>4. Book(positions) /\ Records(rewards, ledger.index)
  <2>1. positions \in [{} -> Position] /\ rewards \in [{} -> RecordType]
    BY <1>1, <1>3
  <2> QED BY <1>3, <2>1, FS_EmptySet DEF Book, Records
<1>5. st \in StatsType
  BY DEF StatsType
<1> HIDE DEF st
<1>6. GoodStore(VaultsStore)
  BY <1>1, <1>2, <1>4, <1>5, MakeStore, SMTT(40) DEF VaultsStore
<1>7. \A K \in SUBSET DOMAIN positions : Held(positions, K) = 0 /\ WorthOf(positions, K) = 0
  BY <1>3, PartEmpty DEF Held, WorthOf
<1>8. \A v : InVault(positions, v) = {} /\ UsersIn(positions, v) = {}
  BY <1>3 DEF InVault, UsersIn
<1>9. Cardinality({}) = 0
  BY FS_EmptySet
<1>10. \A v \in Vault : stats.users[v] = 0 /\ stats.principal[v] = 0
  BY <1>1 DEF st
<1>11. /\ VaultsStore.ledger = ledger /\ VaultsStore.positions = positions /\ VaultsStore.rewards = rewards
       /\ VaultsStore.stats = stats /\ VaultsStore.totalFlexible = 0
  BY <1>1 DEF VaultsStore
<1>12. "staked" \in Vault /\ "flexible" \in Vault
  BY DEF Vault
<1>13. Backed(VaultsStore)
  <2>1. ledger.balance[StakedVault] \in Nat
    BY <1>2, CustodyAccounts DEF Address
  <2> QED BY <1>3, <1>7, <1>8, <1>11, <2>1 DEF Backed
<1>14. CoveredStaked(VaultsStore) /\ CoveredFlexible(VaultsStore)
  BY <1>7, <1>8, <1>10, <1>11, <1>12 DEF CoveredStaked, CoveredFlexible
<1>15. \A v \in Vault : Counted(VaultsStore, v) /\ CountedAtLeast(VaultsStore, v)
  BY <1>8, <1>9, <1>10, <1>11 DEF Counted, CountedAtLeast
<1>16. SharedBy(VaultsStore, User)
  BY <1>3, <1>11 DEF SharedBy
<1>17. RewardsSafe(VaultsStore)
  <2> DEFINE g == [i \in DOMAIN rewards |-> rewards[i].rewards]
  <2>1. g \in [{} -> Int] /\ \A i \in {} : g[i] = 0
    BY <1>3
  <2>2. IsFiniteSet({})
    BY FS_EmptySet
  <2> HIDE DEF g
  <2>3. SumFunction(g) = 0
    BY <2>1, <2>2, SumZero
  <2>4. RewardsOf(VaultsStore) = 0
    BY <1>11, <2>3 DEF RewardsOf, g
  <2>5. ledger.balance[FlexibleVault] \in Nat
    BY <1>2, CustodyAccounts DEF Address
  <2> QED BY <1>3, <1>11, <2>4, <2>5 DEF RewardsSafe
<1>18. Safe(VaultsStore, ~ended)
  BY <1>6, <1>12, <1>13, <1>14, <1>15, <1>16 DEF Safe
<1>19. VaultsInv
  BY <1>1, <1>18 DEF VaultsInv, PausedType
<1> QED BY <1>17, <1>19

-----------------------------------------------------------------------------
(* What the queries on pending rewards say. *)

\* The share of a record that a position is told is pending, zero for a record it
\* takes no part in.
Told(s, k, i) ==
    IF i \in OpenRecords(s, s.positions[k])
    THEN Share(s, i, PrincipalToRemove(s.positions[k], s.positions[k].amount))
    ELSE 0

\* All Flexible positions together are told no more of a record than is left of it.
LEMMA ToldWithinRecord ==
  ASSUME NEW s, GoodStore(s), SharedBy(s, User), RewardsSafe(s), NEW i \in DOMAIN s.rewards,
         NEW K, K = InVault(s.positions, "flexible"),
         NEW c \in [K -> Nat], \A k \in K : c[k] = Told(s, k, i)
  PROVE  SumFunction(c) \in Nat /\ SumFunction(c) <= s.rewards[i].rewards
<1> DEFINE r == s.rewards[i].rewards
           t == s.rewards[i].total
           part == DecQuo(r * Precision, t * Precision)
           E == Earlier(s.positions, User, i)
           w(k) == Worth(s.positions[k])
           worth == [k \in E |-> w(k)]
           share == [k \in E |-> TruncateInt(part * w(k))]
<1>1. /\ IsFiniteSet(K) /\ IsFiniteSet(E) /\ E \in SUBSET K
      /\ \A k \in K : w(k) \in Nat
      /\ WorthOf(s.positions, E) \in Nat
  <2>1. K \in SUBSET DOMAIN s.positions /\ E \in SUBSET K
    BY DEF InVault, Earlier
  <2>2. E \in SUBSET DOMAIN s.positions
    BY <2>1
  <2> QED BY <2>1, <2>2, BookSums DEF GoodStore
<1>2. /\ r \in Nat /\ t \in Int /\ t < 2 * Precision
      /\ t >= WorthOf(s.positions, E)
  BY StoreNumbers DEF RewardsSafe, SharedBy
<1>3. c \in [K -> Int] /\ SumFunction(c) \in Nat
  <2>1. c \in [K -> Int]
    OBVIOUS
  <2> QED BY <1>1, <2>1, SumOfNat
<1>4. \A k \in K : /\ k \in DOMAIN s.positions /\ k[1] \in User /\ k[2] = "flexible"
                   /\ i \in OpenRecords(s, s.positions[k])
                        <=> i > s.positions[k].index /\ t > 0 /\ r > 0
                   /\ Told(s, k, i) = IF i \in OpenRecords(s, s.positions[k])
                                      THEN IF i = s.ledger.index THEN 0
                                           ELSE TruncateInt(part * w(k))
                                      ELSE 0
  <2>1. \A k \in DOMAIN s.positions : k[1] \in User
    BY DEF GoodStore, Book, Keys
  <2> QED BY <2>1 DEF InVault, OpenRecords, Told, Share, PrincipalToRemove, Worth
<1>5. CASE t > 0 /\ r > 0 /\ i # s.ledger.index
  <2>1. part \in Nat /\ \A k \in E : share[k] \in Nat /\ worth[k] \in Nat
    <3>1. part \in Nat
      <4>1. r \in Nat /\ t \in Nat \ {0} /\ 0 \in Nat
        BY <1>2, <1>5
      <4> HIDE DEF r, t
      <4> QED BY <4>1, ShareType
    <3>2. ASSUME NEW k \in E PROVE TruncateInt(part * w(k)) \in Nat /\ w(k) \in Nat
      <4> DEFINE p == w(k)
      <4>1. p \in Nat /\ r \in Nat /\ t \in Nat \ {0}
        BY <1>1, <1>2, <1>5
      <4> HIDE DEF p, r, t
      <4>2. TruncateInt(part * p) \in Nat
        BY <4>1, ShareType
      <4> QED BY <4>1, <4>2 DEF p
    <3> HIDE DEF part, w, E
    <3> QED BY <3>1, <3>2
  <2>2. \A k \in K : c[k] = IF k \in E THEN share[k] ELSE 0
    <3> SUFFICES ASSUME NEW k \in K PROVE c[k] = IF k \in E THEN share[k] ELSE 0
      OBVIOUS
    <3>1. k \in E <=> s.positions[k].index < i
      BY <1>4 DEF Earlier
    <3>2. s.positions[k].index \in Nat /\ i \in Nat
      BY <1>4, StoreNumbers
    <3>3. k \in E <=> i \in OpenRecords(s, s.positions[k])
      BY <1>4, <1>5, <3>1, <3>2
    <3> QED BY <1>4, <1>5, <3>3
  <2>3. \A k \in E : share[k] * Precision <= worth[k] * part
    <3> SUFFICES ASSUME NEW k \in E PROVE share[k] * Precision <= worth[k] * part
      OBVIOUS
    <3> DEFINE a == part * w(k)
    <3>1. w(k) \in Nat /\ a \in Nat /\ Precision \in Nat \ {0}
      BY <1>1, <2>1, VaultsAssumption
    <3>2. a = worth[k] * part
      BY <2>1, <3>1
    <3>3. share[k] = a \div Precision
      BY DEF TruncateInt
    <3> HIDE DEF a, share
    <3>4. a \div Precision \in Nat /\ Precision * (a \div Precision) <= a
      BY <3>1, DivBounds
    <3> QED BY <3>1, <3>2, <3>3, <3>4
  <2>4. share \in [E -> Int] /\ worth \in [E -> Int]
    BY <2>1
  <2>5. SumFunctionOnSet([k \in DOMAIN s.positions |-> Worth(s.positions[k])], E)
          = SumFunction(worth)
    <3> DEFINE f == [k \in DOMAIN s.positions |-> Worth(s.positions[k])]
    <3>1. \A k \in E : f[k] = worth[k]
      BY <1>1, <1>4
    <3> HIDE DEF f, worth
    <3>2. SumFunctionOnSet(f, E) = SumFunction(worth)
      BY <1>1, <2>4, <3>1, SumOnPart
    <3> QED BY <3>2 DEF f
  <2>6. SumFunction(worth) = WorthOf(s.positions, E)
    BY <2>5 DEF WorthOf
  <2> HIDE DEF share, worth, part
  <2>7. SumFunction(c) = SumFunction(share)
    BY <1>1, <1>3, <2>2, <2>4, SumPadded
  <2>8. SumFunction(share) * Precision <= SumFunction(worth) * part
    <3>1. IsFiniteSet(E) /\ Precision \in Int /\ part \in Int
      BY <1>1, <2>1, VaultsAssumption
    <3> HIDE DEF E
    <3> QED BY <2>3, <2>4, <3>1, SumRatio
  <2> DEFINE p == WorthOf(s.positions, E)
             n == SumFunction(c)
  <2>9. p \in Nat /\ n \in Nat /\ n * Precision <= p * part /\ p <= t
    BY <1>1, <1>2, <1>3, <2>6, <2>7, <2>8
  <2> HIDE DEF p, n, r, t, E
  <2>10. n <= TruncateInt(part * p)
    <3> DEFINE a == part * p
    <3>1. a \in Nat /\ n * Precision <= a /\ Precision \in Nat \ {0}
      BY <2>1, <2>9, VaultsAssumption
    <3> HIDE DEF a
    <3> DEFINE q == a \div Precision
    <3>2. q \in Nat /\ a < Precision * q + Precision
      BY <3>1, DivBounds
    <3> HIDE DEF q
    <3>3. n <= q
      <4> SUFFICES ASSUME n >= q + 1 PROVE FALSE
        BY <2>9, <3>2
      <4>1. n * Precision >= (q + 1) * Precision
        BY <2>9, <3>1, <3>2
      <4>2. (q + 1) * Precision = Precision * q + Precision
        BY <3>1, <3>2
      <4> QED BY <2>9, <3>1, <3>2, <4>1, <4>2
    <3> QED BY <3>3 DEF TruncateInt, q, a
  <2>11. TruncateInt(part * p) \in Nat /\ TruncateInt(part * p) <= r
    BY <1>2, <1>5, <2>9, ShareType, ShareWithin DEF part
  <2>12. n <= r
    BY <1>2, <2>9, <2>10, <2>11
  <2> QED BY <1>3, <2>12 DEF n, r
<1>6. CASE ~ (t > 0 /\ r > 0 /\ i # s.ledger.index)
  <2>1. \A k \in K : c[k] = 0
    BY <1>4, <1>6
  <2>2. SumFunction(c) = 0
    BY <1>1, <1>3, <2>1, SumZero
  <2> QED BY <1>2, <1>3, <2>2
<1> QED BY <1>5, <1>6

\* Nor are all users together told more than what all records have left.
LEMMA ToldWithinTotal ==
  ASSUME NEW s, GoodStore(s), SharedBy(s, User), RewardsSafe(s)
  PROVE  SumFunction([u \in User |-> PendingRewardsByProvider(s, u)]) <= PendingRewards(s)
<1> DEFINE R == DOMAIN s.rewards
           K == InVault(s.positions, "flexible")
           m == [k \in K |-> [i \in R |-> Told(s, k, i)]]
           n == [i \in R |-> [k \in K |-> Told(s, k, i)]]
           row == [k \in K |-> PositionRewards(s, s.positions[k])]
           col == [i \in R |-> SumFunction(n[i])]
           left == [i \in R |-> s.rewards[i].rewards]
           owner == [k \in K |-> k[1]]
           told == [u \in User |-> PendingRewardsByProvider(s, u)]
<1>1. /\ IsFiniteSet(R) /\ IsFiniteSet(K) /\ IsFiniteSet(User)
      /\ K \in SUBSET DOMAIN s.positions
      /\ owner \in [K -> User]
  <2>1. K \in SUBSET DOMAIN s.positions
    BY DEF InVault
  <2>2. IsFiniteSet(K)
    BY <2>1, BookSums DEF GoodStore
  <2>3. \A k \in K : k[1] \in User
    BY <2>1 DEF GoodStore, Book, Keys
  <2>4. IsFiniteSet(User)
    BY UsersAreNotCustody, FS_Subset, AccountAssumption
  <2>5. IsFiniteSet(R)
    BY DEF GoodStore, Records
  <2>6. owner \in [K -> User]
    BY <2>3
  <2> QED BY <2>1, <2>2, <2>4, <2>5, <2>6
<1>2. ASSUME NEW k \in K
      PROVE  /\ \A i \in R : Told(s, k, i) \in Nat
             /\ row[k] \in Int /\ row[k] = SumFunction(m[k])
  <2> DEFINE position == s.positions[k]
             principal == PrincipalToRemove(position, position.amount)
             open == OpenRecords(s, position)
             share == [i \in open |-> Share(s, i, principal)]
             padded == m[k]
  <2>1. position \in Position /\ principal \in Nat
    <3>1. k \in DOMAIN s.positions
      BY <1>1
    <3>2. position.amount \in Nat /\ position.index \in Nat \ {0} /\ position \in Position
      BY <3>1, StoreNumbers DEF GoodStore, Book, Position
    <3> QED BY <3>2, RoundedDownBounds DEF PrincipalToRemove
  <2>2. /\ open \in SUBSET R
        /\ share \in [open -> Nat] /\ SumFunction(share) \in Nat
    <3> HIDE DEF position, principal
    <3> QED BY <2>1, SharesType
  <2>3. \A i \in R : Told(s, k, i) = IF i \in open THEN share[i] ELSE 0
    BY DEF Told
  <2>4. PositionRewards(s, position) = SumFunction(share)
    BY DEF PositionRewards
  <2> HIDE DEF share, open
  <2>5. /\ padded \in [R -> Int] /\ share \in [open -> Int]
        /\ \A i \in R : padded[i] = IF i \in open THEN share[i] ELSE 0
    BY <2>2, <2>3
  <2>6. padded = m[k] /\ row[k] = PositionRewards(s, position)
    OBVIOUS
  <2> HIDE DEF padded, m, row, R
  <2>7. SumFunction(padded) = SumFunction(share)
    BY <1>1, <2>2, <2>5, SumPadded
  <2> QED BY <2>2, <2>3, <2>4, <2>6, <2>7 DEF R
<1>3. ASSUME NEW i \in R
      PROVE  n[i] \in [K -> Nat] /\ col[i] \in Nat /\ col[i] <= left[i] /\ left[i] \in Nat
  <2> DEFINE c == n[i]
  <2>1. c \in [K -> Nat] /\ \A k \in K : c[k] = Told(s, k, i)
    BY <1>2
  <2>2. col[i] = SumFunction(c) /\ left[i] = s.rewards[i].rewards
    OBVIOUS
  <2> HIDE DEF c
  <2>3. SumFunction(c) \in Nat /\ SumFunction(c) <= s.rewards[i].rewards
    BY <2>1, ToldWithinRecord
  <2> QED BY <2>1, <2>2, <2>3 DEF c, RewardsSafe
<1>4. m \in [K -> [R -> Int]] /\ n \in [R -> [K -> Int]] /\ Transposed(K, R, m, n)
  <2>1. \A k \in K : \A i \in R : Told(s, k, i) \in Int
    <3> SUFFICES ASSUME NEW k \in K, NEW i \in R PROVE Told(s, k, i) \in Int
      OBVIOUS
    <3>1. Told(s, k, i) \in Nat
      BY <1>2
    <3> QED BY <3>1
  <2> QED BY <2>1 DEF Transposed
<1>5. row \in [K -> Int] /\ Totals(K, row, m)
  <2>1. \A k \in K : row[k] \in Int /\ row[k] = SumFunction(m[k])
    BY <1>2
  <2> HIDE DEF m
  <2> QED BY <2>1 DEF Totals
<1>6. /\ col \in [R -> Int] /\ Totals(R, col, n)
      /\ left \in [R -> Int] /\ \A i \in R : col[i] <= left[i]
  <2>1. \A i \in R : col[i] \in Int /\ left[i] \in Int /\ col[i] <= left[i]
    <3> SUFFICES ASSUME NEW i \in R
                 PROVE  col[i] \in Int /\ left[i] \in Int /\ col[i] <= left[i]
      OBVIOUS
    <3>1. col[i] \in Nat /\ col[i] <= left[i] /\ left[i] \in Nat
      BY <1>3
    <3> HIDE DEF col, left
    <3> QED BY <3>1
  <2> HIDE DEF n
  <2>2. Totals(R, col, n)
    BY DEF Totals
  <2> QED BY <2>1, <2>2
<1>7. \A u \in User : told[u] \in Int /\ told[u] = SumFunctionOnSet(row, {k \in K : owner[k] = u})
  <2> SUFFICES ASSUME NEW u \in User
               PROVE  told[u] \in Int /\ told[u] = SumFunctionOnSet(row, {k \in K : owner[k] = u})
    OBVIOUS
  <2> DEFINE P == {k \in K : owner[k] = u}
             f == [k \in PositionsOf(s, u, "flexible") |-> PositionRewards(s, s.positions[k])]
  <2>1. P = PositionsOf(s, u, "flexible") /\ P \in SUBSET K
    BY DEF PositionsOf, InVault
  <2>2. f \in [P -> Int] /\ \A k \in P : row[k] = f[k]
    BY <1>2, <2>1
  <2>3. told[u] = SumFunction(f)
    BY DEF PendingRewardsByProvider
  <2> HIDE DEF f, row, P, K
  <2>4. IsFiniteSet(P)
    BY <1>1, <2>1, FS_Subset
  <2>5. SumFunctionOnSet(row, P) = SumFunction(f) /\ SumFunction(f) \in Int
    BY <2>2, <2>4, SumOnPart, SumType
  <2> QED BY <2>3, <2>5 DEF P
<1>8. told \in [User -> Int] /\ Groups(K, User, owner, row, told)
  BY <1>7 DEF Groups
<1>9. PendingRewards(s) = SumFunction(left)
  BY DEF PendingRewards
<1> HIDE DEF R, K, m, n, row, col, left, owner, told
<1>10. SumFunction(row) = SumFunction(col)
  <2>1. TableSums(K, R, m, n, row, col)
    BY <1>1, <1>4, <1>5, <1>6 DEF TableSums
  <2> QED BY <2>1, SumExchange
<1>11. SumFunction(col) <= SumFunction(left)
  BY <1>1, <1>6, SumWithin
<1>12. SumFunction(told) = SumFunction(row)
  BY <1>1, <1>8, <1>5, SumGrouped
<1>13. SumFunction(col) \in Int /\ SumFunction(left) \in Int
  BY <1>1, <1>6, SumType
<1>14. SumFunction(told) <= PendingRewards(s)
  BY <1>9, <1>10, <1>11, <1>12, <1>13
<1> QED BY <1>14 DEF told

-----------------------------------------------------------------------------
(* The theorems. *)

\* Every store that Lock, Unlock, ClaimYield, an index update, a Mint whose index
\* update stops halfway, or the BeginBlocker leaves behind is safe; the invariant
\* the others follow from.
THEOREM VaultsInvariance == VaultsSpec => []VaultsInv
<1>1. VaultsInit => VaultsInv
  BY VaultsInitInv
<1>2. VaultsInv /\ [VaultsNext]_vaultsVars => VaultsInv'
  BY VaultsNextStep DEF Stepped
<1> QED BY <1>1, <1>2, PTL DEF VaultsSpec

\* The positions and sums of the properties are those of the store.
LEMMA StoreViews ==
  /\ \A v : KeysIn(v) = InVault(VaultsStore.positions, v)
  /\ \A K : AmountOf(K) = Held(VaultsStore.positions, K)
  /\ \A K : PrincipalOf(K) = WorthOf(VaultsStore.positions, K)
  /\ VaultsStore.ledger = ledger /\ VaultsStore.positions = positions /\ VaultsStore.stats = stats
  /\ VaultsStore.totalFlexible = totalFlexible /\ VaultsStore.rewards = rewards
<1>1. /\ VaultsStore.ledger = ledger /\ VaultsStore.positions = positions /\ VaultsStore.stats = stats
      /\ VaultsStore.totalFlexible = totalFlexible /\ VaultsStore.rewards = rewards
  BY DEF VaultsStore
<1> HIDE DEF VaultsStore
<1>2. \A v : KeysIn(v) = InVault(VaultsStore.positions, v)
  BY <1>1 DEF KeysIn, InVault
<1>3. \A K : AmountOf(K) = Held(VaultsStore.positions, K)
  BY <1>1 DEF AmountOf, Held
<1>4. \A K : PrincipalOf(K) = WorthOf(VaultsStore.positions, K)
  BY <1>1 DEF PrincipalOf, WorthOf, Worth
<1> QED BY <1>1, <1>2, <1>3, <1>4

\* What the invariant says of the properties.
LEMMA VaultsImplications ==
  /\ VaultsInv => PositionsBacked /\ RewardsNotOvershared /\ PrincipalCovered /\ UsersCounted
  /\ RewardsSafe(VaultsStore) => RewardsBacked
<1>1. ASSUME VaultsInv PROVE PositionsBacked
  <2>1. Backed(VaultsStore)
    BY <1>1 DEF VaultsInv, Safe
  <2> QED BY <2>1, StoreViews DEF Backed, PositionsBacked
<1>2. ASSUME VaultsInv PROVE RewardsNotOvershared
  <2> SUFFICES ASSUME ~ended, NEW i \in DOMAIN rewards
               PROVE  rewards[i].total
                        >= PrincipalOf({key \in KeysIn("flexible") : positions[key].index < i})
    BY DEF RewardsNotOvershared
  <2>1. SharedBy(VaultsStore, User) /\ Book(VaultsStore.positions)
    BY <1>2 DEF VaultsInv, Safe, GoodStore
  <2>2. {key \in KeysIn("flexible") : positions[key].index < i}
          = Earlier(VaultsStore.positions, User, i)
    <3>1. \A k \in DOMAIN positions : k[1] \in User
      BY <2>1, StoreViews DEF Book, Keys
    <3> QED BY <3>1, StoreViews DEF Earlier, KeysIn
  <2>3. rewards[i].total >= WorthOf(VaultsStore.positions, Earlier(VaultsStore.positions, User, i))
    BY <2>1, StoreViews DEF SharedBy
  <2> QED BY <2>2, <2>3, StoreViews
<1>3. ASSUME VaultsInv PROVE PrincipalCovered
  <2>1. CoveredStaked(VaultsStore) /\ (~ended => CoveredFlexible(VaultsStore))
    BY <1>3 DEF VaultsInv, Safe
  <2> QED BY <2>1, StoreViews DEF CoveredStaked, CoveredFlexible, PrincipalCovered
<1>4. ASSUME VaultsInv PROVE UsersCounted
  <2> SUFFICES ASSUME NEW v \in Vault, v = "staked" \/ ~ended
               PROVE  stats.users[v] = Cardinality({key[1] : key \in KeysIn(v)})
    BY DEF UsersCounted
  <2>1. Counted(VaultsStore, v)
    BY <1>4 DEF VaultsInv, Safe, Vault
  <2> QED BY <2>1, StoreViews DEF Counted, UsersIn
<1>5. RewardsSafe(VaultsStore) => RewardsBacked
  BY StoreViews DEF RewardsSafe, RewardsOf, RewardsBacked
<1> QED BY <1>1, <1>2, <1>3, <1>4, <1>5

\* Every position can be paid out in full, whatever the handlers and the season
\* end did: the account it is kept in covers it.
THEOREM PositionsBackedAlways == VaultsSpec => []PositionsBacked
<1> QED BY VaultsImplications, VaultsInvariance, PTL

\* While the season lasts, a record is shared over at least the principal that
\* can still claim from it.
THEOREM RewardsNotOversharedAlways == VaultsSpec => []RewardsNotOvershared
<1> QED BY VaultsImplications, VaultsInvariance, PTL

\* The totals the module keeps cover the principal of the positions, and during
\* the season the two totals of the Flexible vault agree.
THEOREM PrincipalCoveredAlways == VaultsSpec => []PrincipalCovered
<1> QED BY VaultsImplications, VaultsInvariance, PTL

\* IncrementVaultUsers and DecrementVaultUsers count: the number of users of a vault
\* is the number of accounts with a position in it.
THEOREM UsersCountedAlways == VaultsSpec => []UsersCounted
<1> QED BY VaultsImplications, VaultsInvariance, PTL

\* No step lowers what a user has in its account and its positions together: what
\* unlock takes off the positions it pays out, and what Lock takes it books.
THEOREM NothingLostAlways == VaultsSpec => NothingLost
<1>1. VaultsInv /\ [VaultsNext]_vaultsVars => [\A u \in User : Wealth(u)' >= Wealth(u)]_vaultsVars
  <2> SUFFICES ASSUME VaultsInv, [VaultsNext]_vaultsVars, NEW u \in User
               PROVE  Wealth(u)' >= Wealth(u)
    OBVIOUS
  <2>1. Owned(VaultsStore', u) >= Owned(VaultsStore, u)
    BY VaultsNextStep DEF Stepped, NoLoss
  <2>2. Wealth(u) = Owned(VaultsStore, u)
    BY StoreViews DEF Wealth, Owned, OfUser
  <2>3. Wealth(u)' = Owned(VaultsStore', u)
    BY DEF Wealth, Owned, OfUser, VaultsStore, AmountOf, Held
  <2> QED BY <2>1, <2>2, <2>3
<1> QED BY <1>1, VaultsInvariance, PTL DEF VaultsSpec, NothingLost

\* The records promise no more than the Flexible vault's account holds, as long
\* as the Flexible principal is small enough for the rounding of LegacyDec.
LEMMA RewardsSafeAlways == VaultsSpec /\ []Bounded => []RewardsSafe(VaultsStore)
<1>1. VaultsInit => RewardsSafe(VaultsStore)
  BY VaultsInitInv
<1>2. VaultsInv /\ Bounded /\ RewardsSafe(VaultsStore) /\ [VaultsNext]_vaultsVars
        => RewardsSafe(VaultsStore)'
  BY VaultsNextStep DEF Stepped
<1> QED BY <1>1, <1>2, VaultsInvariance, PTL DEF VaultsSpec

\* ClaimRewards never lacks the coins for a share.
THEOREM RewardsBackedAlways == VaultsSpec /\ []Bounded => []RewardsBacked
<1> QED BY VaultsImplications, RewardsSafeAlways, PTL

\* Every variable has its type: no count of users and no record of rewards ever
\* falls below zero.
THEOREM VaultsTypeCorrect == VaultsSpec /\ []Bounded => []VaultsTypeOK
<1>1. VaultsInv /\ RewardsSafe(VaultsStore) => VaultsTypeOK
  <2> SUFFICES ASSUME VaultsInv, RewardsSafe(VaultsStore) PROVE VaultsTypeOK
    OBVIOUS
  <2>1. GoodStore(VaultsStore) /\ \A v \in Vault : CountedAtLeast(VaultsStore, v)
    BY DEF VaultsInv, Safe
  <2>2. TypeOK
    BY <2>1, StoreViews DEF VaultsInv, TypeOK, GoodStore, Sound
  <2>3. DOMAIN positions \subseteq User \X Vault \X Time
        /\ \A key \in DOMAIN positions : positions[key] \in Position
    BY <2>1, StoreViews DEF GoodStore, Book, Keys
  <2>4. totalFlexible \in Int
    BY <2>1, StoreNumbers, StoreViews
  <2>5. \A i \in DOMAIN rewards : rewards[i] \in [total : Int, rewards : Nat]
    <3>1. rewards \in [DOMAIN rewards -> RecordType]
      BY <2>1, StoreViews DEF GoodStore, Records
    <3>2. \A i \in DOMAIN rewards : rewards[i].rewards \in Nat
      BY StoreViews DEF RewardsSafe
    <3> QED BY <3>1, <3>2 DEF RecordType
  <2>6. stats \in [users : [Vault -> Nat], principal : [Vault -> Int], distributed : Nat]
    <3>1. stats \in StatsType
      BY <2>1, StoreParts, StoreViews
    <3>2. \A v \in Vault : stats.users[v] \in Nat
      <4> SUFFICES ASSUME NEW v \in Vault PROVE stats.users[v] \in Nat
        OBVIOUS
      <4>1. Cardinality(UsersIn(VaultsStore.positions, v)) \in Nat
        BY <2>1, UsersFinite DEF GoodStore
      <4>2. stats.users[v] >= Cardinality(UsersIn(VaultsStore.positions, v))
        BY <2>1, StoreViews DEF CountedAtLeast
      <4>3. stats.users[v] \in Int
        BY <3>1 DEF StatsType
      <4> QED BY <4>1, <4>2, <4>3
    <3>3. stats.users \in [Vault -> Nat]
      BY <3>1, <3>2 DEF StatsType
    <3> QED BY <3>1, <3>3 DEF StatsType
  <2> QED BY <2>2, <2>3, <2>4, <2>5, <2>6 DEF VaultsTypeOK, VaultsInv
<1> QED BY <1>1, VaultsInvariance, RewardsSafeAlways, PTL

\* The queries agree while the season lasts: what all providers are told is
\* pending for them is within what is reported as pending for all.
THEOREM PendingWithinTotalAlways == VaultsSpec /\ []Bounded => []PendingWithinTotal
<1>1. VaultsInv /\ RewardsSafe(VaultsStore) => PendingWithinTotal
  BY ToldWithinTotal DEF VaultsInv, Safe, PendingWithinTotal
<1> QED BY <1>1, VaultsInvariance, RewardsSafeAlways, PTL

=============================================================================
