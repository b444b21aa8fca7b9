---------------------------- MODULE SumTheorems -----------------------------
(***************************************************************************)
(* Sums of integer functions over finite sets.  SumFunction is a fold, and *)
(* the fold is a CHOOSE of a table of partial sums: the first lemmas show  *)
(* that the table exists, by minimal counterexample, and the others are    *)
(* what the other proofs need.  The main one is SumShift: the sum of       *)
(* [f EXCEPT ![a] = @ + d] is the sum of f plus d.  The last section does  *)
(* the same for folds with any step function.                              *)
(***************************************************************************)
EXTENDS Functions, FiniteSetTheorems, WellFoundedInduction, TLAPS

\* The element the fold takes out of s first.
Pick(s) == CHOOSE x \in s : TRUE

\* The table of partial sums over the subsets of S, one unfolding of it.
SumStep(f, S, g) ==
  [s \in SUBSET S |-> IF s = {} THEN 0 ELSE f[Pick(s)] + g[s \ {Pick(s)}]]

SumTable(f, S) == CHOOSE g : g = SumStep(f, S, g)

\* SumFunctionOnSet reads the last entry of the table of partial sums.
LEMMA SumIsTable ==
  ASSUME NEW f, NEW S
  PROVE  SumFunctionOnSet(f, S) = SumTable(f, S)[S]
BY DEF SumFunctionOnSet, FoldFunctionOnSet, MapThenFoldSet, SumTable, SumStep, Pick

\* Every nonempty set of naturals has a least element.
LEMMA LeastNatural ==
  ASSUME NEW T \in SUBSET Nat, T # {}
  PROVE  \E n \in T : \A m \in T : n <= m
<1>1. IsWellFoundedOn(OpToRel(<, Nat), Nat)
  BY NatLessThanWellFounded
<1>2. PICK n \in T : \A m \in T : ~ (<<m, n>> \in OpToRel(<, Nat))
  BY <1>1, WFMin
<1>3. ASSUME NEW m \in T PROVE n <= m
  <2>1. ~ (<<m, n>> \in OpToRel(<, Nat))
    BY <1>2
  <2>2. ~ (m < n)
    BY <2>1 DEF OpToRel
  <2> QED BY <2>2
<1> QED BY <1>2, <1>3

\* Every nonempty family of subsets of a finite set has a minimal member.
LEMMA SmallestSubset ==
  ASSUME NEW S, IsFiniteSet(S), NEW B \in SUBSET (SUBSET S), B # {}
  PROVE  \E s \in B : \A x \in s : s \ {x} \notin B
<1> DEFINE Sizes == {n \in Nat : \E s \in B : Cardinality(s) = n}
<1>1. \A s \in B : IsFiniteSet(s) /\ Cardinality(s) \in Nat
  BY FS_Subset, FS_CardinalityType
<1>2. Sizes # {}
  BY <1>1
<1>3. PICK n \in Sizes : \A m \in Sizes : n <= m
  BY <1>2, LeastNatural
<1>4. PICK s \in B : Cardinality(s) = n
  BY <1>3
<1>5. ASSUME NEW x \in s, s \ {x} \in B
      PROVE  FALSE
  <2>1. Cardinality(s \ {x}) = n - 1
    BY <1>1, <1>4, FS_RemoveElement
  <2>2. n - 1 \in Sizes
    BY <1>1, <1>5, <2>1
  <2> QED BY <1>3, <2>2
<1> QED BY <1>4, <1>5

\* Every nonempty finite set of naturals has a greatest element.
LEMMA GreatestNatural ==
  ASSUME NEW T \in SUBSET Nat, IsFiniteSet(T), T # {}
  PROVE  \E n \in T : \A m \in T : n >= m
<1> DEFINE Bad == {S \in SUBSET T : S # {} /\ ~ (\E n \in S : \A m \in S : n >= m)}
<1>1. Bad = {}
  <2> SUFFICES ASSUME Bad # {} PROVE FALSE
    OBVIOUS
  <2>1. PICK S \in Bad : \A x \in S : S \ {x} \notin Bad
    BY SmallestSubset
  <2>2. PICK x \in S : TRUE
    BY <2>1
  <2>3. x \in Nat
    BY <2>1
  <2>4. CASE S \ {x} = {}
    <3>1. \A m \in S : m = x
      BY <2>4
    <3>2. \A m \in S : x >= m
      BY <2>3, <3>1
    <3> QED BY <2>1, <2>2, <3>2
  <2>5. CASE S \ {x} # {}
    <3>1. S \ {x} \in SUBSET T /\ S \ {x} \notin Bad
      BY <2>1, <2>2
    <3>2. PICK n \in S \ {x} : \A m \in S \ {x} : n >= m
      BY <2>5, <3>1
    <3>3. n \in Nat /\ \A m \in S : m \in Nat
      BY <2>1
    <3> DEFINE g == IF n >= x THEN n ELSE x
    <3>4. g \in S /\ g >= n /\ g >= x /\ g \in Nat
      BY <2>2, <2>3, <3>3
    <3> HIDE DEF g
    <3>5. \A m \in S : g >= m
      BY <3>2, <3>3, <3>4
    <3> QED BY <2>1, <3>4, <3>5
  <2> QED BY <2>4, <2>5
<1>2. T \in SUBSET T /\ T \notin Bad
  BY <1>1
<1> QED BY <1>2

\* The equation of the table has a solution when the set is finite.
LEMMA SumTableExists ==
  ASSUME NEW S, IsFiniteSet(S), NEW f \in [S -> Int]
  PROVE  \E g \in [SUBSET S -> Int] : g = SumStep(f, S, g)
<1> DEFINE Upto(n) == {s \in SUBSET S : Cardinality(s) <= n}
           Table(n) == \E g \in [Upto(n) -> Int] : \A s \in Upto(n) :
                 g[s] = IF s = {} THEN 0 ELSE f[Pick(s)] + g[s \ {Pick(s)}]
           Bad == {n \in Nat : ~Table(n)}
<1>1. \A s \in SUBSET S : /\ IsFiniteSet(s) /\ Cardinality(s) \in Nat
                         /\ Cardinality(s) <= Cardinality(S)
  BY FS_Subset, FS_CardinalityType
<1>2. \A s \in SUBSET S : s # {} => /\ Pick(s) \in s
                                   /\ s \ {Pick(s)} \in SUBSET S
                                   /\ Cardinality(s \ {Pick(s)}) = Cardinality(s) - 1
  <2> SUFFICES ASSUME NEW s \in SUBSET S, s # {}
               PROVE /\ Pick(s) \in s
                     /\ s \ {Pick(s)} \in SUBSET S
                     /\ Cardinality(s \ {Pick(s)}) = Cardinality(s) - 1
    OBVIOUS
  <2>1. Pick(s) \in s BY DEF Pick
  <2> QED BY <2>1, <1>1, FS_RemoveElement
<1>3. Table(0)
  <2>1. Upto(0) = {{}}
    BY <1>1, FS_EmptySet
  <2>2. [s \in Upto(0) |-> 0] \in [Upto(0) -> Int] OBVIOUS
  <2> QED BY <2>1, <2>2
<1>4. ASSUME NEW n \in Nat, Table(n) PROVE Table(n + 1)
  <2> PICK g \in [Upto(n) -> Int] : \A s \in Upto(n) :
                 g[s] = IF s = {} THEN 0 ELSE f[Pick(s)] + g[s \ {Pick(s)}]
    BY <1>4
  <2> DEFINE h == [s \in Upto(n + 1) |-> IF s \in Upto(n) THEN g[s] ELSE f[Pick(s)] + g[s \ {Pick(s)}]]
  <2>1. \A s \in Upto(n + 1) : s # {} => s \ {Pick(s)} \in Upto(n)
    BY <1>1, <1>2
  <2>2. \A s \in Upto(n + 1) : s \notin Upto(n) => s # {}
    BY <1>1, FS_EmptySet
  <2>3. \A s \in Upto(n) : s \in Upto(n + 1)
    BY <1>1
  <2>4. \A s \in Upto(n+1) : s # {} => f[Pick(s)] \in Int
    BY <1>2
  <2>5. h \in [Upto(n + 1) -> Int]
    <3>1. ASSUME NEW s \in Upto(n+1) PROVE (IF s \in Upto(n) THEN g[s] ELSE f[Pick(s)] + g[s \ {Pick(s)}]) \in Int
      <4> HIDE DEF Upto
      <4> QED BY <2>1, <2>2, <2>4
    <3> HIDE DEF Upto
    <3> QED BY <3>1
  <2>6. \A s \in Upto(n+1) : h[s] = IF s = {} THEN 0 ELSE f[Pick(s)] + h[s \ {Pick(s)}]
    <3> SUFFICES ASSUME NEW s \in Upto(n + 1)
                 PROVE h[s] = IF s = {} THEN 0 ELSE f[Pick(s)] + h[s \ {Pick(s)}]
      OBVIOUS
    <3> HIDE DEF Upto
    <3>1. s # {} => h[s \ {Pick(s)}] = g[s \ {Pick(s)}]
      BY <2>1, <2>3
    <3>2. CASE s \in Upto(n) BY <3>1, <3>2
    <3>3. CASE s \notin Upto(n) BY <3>1, <3>3, <2>2
    <3> QED BY <3>2, <3>3
  <2> HIDE DEF h, Upto
  <2> QED BY <2>5, <2>6
<1>5. \A n \in Nat : Table(n)
  <2> SUFFICES ASSUME Bad # {} PROVE FALSE
    OBVIOUS
  <2>1. PICK n \in Bad : \A m \in Bad : n <= m
    BY LeastNatural
  <2> HIDE DEF Table
  <2>2. n # 0
    BY <1>3
  <2>3. n - 1 \in Nat /\ Table(n - 1)
    BY <2>1, <2>2
  <2>4. Table((n - 1) + 1)
    BY <2>3, <1>4
  <2> QED BY <2>4
<1>6. Cardinality(S) \in Nat
  BY FS_CardinalityType
<1>7. Upto(Cardinality(S)) = SUBSET S
  BY <1>1
<1>8. PICK g \in [SUBSET S -> Int] : \A s \in SUBSET S :
          g[s] = IF s = {} THEN 0 ELSE f[Pick(s)] + g[s \ {Pick(s)}]
  <2>1. Table(Cardinality(S)) BY <1>5, <1>6
  <2> HIDE DEF Upto
  <2> QED BY <2>1, <1>7
<1> QED BY <1>8 DEF SumStep

\* The partial sums of an integer-valued function are integers.
LEMMA SumTableType ==
  ASSUME NEW S, IsFiniteSet(S), NEW f \in [S -> Int]
  PROVE  /\ SumTable(f, S) \in [SUBSET S -> Int]
         /\ SumTable(f, S)[{}] = 0
         /\ \A s \in SUBSET S : s # {} =>
              SumTable(f, S)[s] = f[Pick(s)] + SumTable(f, S)[s \ {Pick(s)}]
<1> DEFINE g == SumTable(f, S)
           NotInt == {s \in SUBSET S : g[s] \notin Int}
<1>1. g = SumStep(f, S, g)
  BY SumTableExists DEF SumTable
<1> HIDE DEF g
<1>2. g = [s \in SUBSET S |-> IF s = {} THEN 0 ELSE f[Pick(s)] + g[s \ {Pick(s)}]]
  BY <1>1 DEF SumStep
<1>3. g[{}] = 0
  BY <1>2
<1>4. \A s \in SUBSET S : s # {} => g[s] = f[Pick(s)] + g[s \ {Pick(s)}]
  BY <1>2
<1>5. NotInt = {}
  <2> SUFFICES ASSUME NotInt # {} PROVE FALSE
    OBVIOUS
  <2>1. PICK s \in NotInt : \A x \in s : s \ {x} \notin NotInt
    BY SmallestSubset
  <2>2. s # {}
    BY <1>3
  <2>3. Pick(s) \in s
    BY <2>2 DEF Pick
  <2>4. g[s \ {Pick(s)}] \in Int /\ f[Pick(s)] \in Int
    BY <2>1, <2>3
  <2>5. g[s] = f[Pick(s)] + g[s \ {Pick(s)}]
    BY <1>4, <2>2
  <2>6. g[s] \in Int
    BY <2>4, <2>5
  <2> QED BY <2>6
<1>6. \A s \in SUBSET S : g[s] \in Int
  BY <1>5
<1>7. g \in [SUBSET S -> Int]
  BY <1>2, <1>6
<1> QED BY <1>3, <1>4, <1>7 DEF g

\* The sum of an integer-valued function over a finite set is an integer.
LEMMA SumType ==
  ASSUME NEW S, IsFiniteSet(S), NEW f \in [S -> Int]
  PROVE  SumFunction(f) \in Int
<1>1. SumTable(f, S) \in [SUBSET S -> Int]
  BY SumTableType
<1>2. SumTable(f, S)[S] \in Int
  BY <1>1
<1>3. SumFunctionOnSet(f, S) = SumTable(f, S)[S]
  BY SumIsTable
<1> QED BY <1>2, <1>3 DEF SumFunction

\* Changing one entry changes the sum by the difference.
LEMMA SumShift ==
  ASSUME NEW S, IsFiniteSet(S), NEW f \in [S -> Int], NEW h \in [S -> Int],
         NEW k \in S, NEW d \in Int, h[k] = f[k] + d,
         \A x \in S : x # k => h[x] = f[x]
  PROVE  SumFunction(h) = SumFunction(f) + d
<1> DEFINE F == SumTable(f, S)
           H == SumTable(h, S)
           Off(s) == IF k \in s THEN d ELSE 0
           Wrong == {s \in SUBSET S : H[s] # F[s] + Off(s)}
<1>1. /\ F \in [SUBSET S -> Int]
      /\ F[{}] = 0
      /\ \A s \in SUBSET S : s # {} => F[s] = f[Pick(s)] + F[s \ {Pick(s)}]
  BY SumTableType
<1>2. /\ H \in [SUBSET S -> Int]
      /\ H[{}] = 0
      /\ \A s \in SUBSET S : s # {} => H[s] = h[Pick(s)] + H[s \ {Pick(s)}]
  BY SumTableType
<1> HIDE DEF F, H
<1>3. Wrong = {}
  <2> SUFFICES ASSUME Wrong # {} PROVE FALSE
    OBVIOUS
  <2>1. PICK s \in Wrong : \A x \in s : s \ {x} \notin Wrong
    BY SmallestSubset
  <2>2. s # {}
    <3>1. {} \notin Wrong
      BY <1>1, <1>2
    <3> QED BY <3>1
  <2>3. Pick(s) \in s
    BY <2>2 DEF Pick
  <2>4. H[s \ {Pick(s)}] = F[s \ {Pick(s)}] + Off(s \ {Pick(s)})
    BY <2>1, <2>3
  <2>5. H[s] = h[Pick(s)] + H[s \ {Pick(s)}] /\ F[s] = f[Pick(s)] + F[s \ {Pick(s)}]
    BY <1>1, <1>2, <2>2
  <2>6. /\ F[s \ {Pick(s)}] \in Int
        /\ f[Pick(s)] \in Int
        /\ h[Pick(s)] \in Int
    BY <1>1, <2>3
  <2>7. H[s] # F[s] + Off(s)
    BY <2>1
  <2>8. CASE Pick(s) = k
    <3>1. Off(s) = d /\ Off(s \ {Pick(s)}) = 0
      BY <2>3, <2>8
    <3> HIDE DEF Off
    <3> QED BY <3>1, <2>4, <2>5, <2>6, <2>7, <2>8
  <2>9. CASE Pick(s) # k
    <3>1. Off(s) = Off(s \ {Pick(s)}) /\ Off(s) \in Int
      BY <2>9
    <3>2. h[Pick(s)] = f[Pick(s)]
      BY <2>3, <2>9
    <3> HIDE DEF Off
    <3> QED BY <3>1, <3>2, <2>4, <2>5, <2>6, <2>7
  <2> QED BY <2>8, <2>9
<1>4. H[S] = F[S] + d
  BY <1>3
<1> QED BY <1>4, SumIsTable DEF SumFunction, F, H

\* The sum of zeros is zero.
LEMMA SumZero ==
  ASSUME NEW S, IsFiniteSet(S), NEW f \in [S -> Int], \A x \in S : f[x] = 0
  PROVE  SumFunction(f) = 0
<1> DEFINE F == SumTable(f, S)
           Nonzero == {s \in SUBSET S : F[s] # 0}
<1>1. /\ F[{}] = 0
      /\ \A s \in SUBSET S : s # {} => F[s] = f[Pick(s)] + F[s \ {Pick(s)}]
  BY SumTableType
<1> HIDE DEF F
<1>2. Nonzero = {}
  <2> SUFFICES ASSUME Nonzero # {} PROVE FALSE
    OBVIOUS
  <2>1. PICK s \in Nonzero : \A x \in s : s \ {x} \notin Nonzero
    BY SmallestSubset
  <2>2. s # {}
    BY <1>1
  <2>3. Pick(s) \in s
    BY <2>2 DEF Pick
  <2>4. F[s \ {Pick(s)}] = 0 /\ f[Pick(s)] = 0
    BY <2>1, <2>3
  <2>5. F[s] = f[Pick(s)] + F[s \ {Pick(s)}]
    BY <1>1, <2>2
  <2>6. F[s] = 0
    BY <2>4, <2>5
  <2> QED BY <2>6
<1>3. F[S] = 0
  BY <1>2
<1> QED BY <1>3, SumIsTable DEF SumFunction, F

\* A sum of natural numbers is a natural number.
LEMMA SumOfNat ==
  ASSUME NEW S, IsFiniteSet(S), NEW f \in [S -> Nat]
  PROVE  SumFunction(f) \in Nat
<1> DEFINE F == SumTable(f, S)
           Negative == {s \in SUBSET S : F[s] \notin Nat}
<1>1. f \in [S -> Int]
  OBVIOUS
<1>2. /\ F[{}] = 0
      /\ \A s \in SUBSET S : s # {} => F[s] = f[Pick(s)] + F[s \ {Pick(s)}]
  BY <1>1, SumTableType
<1> HIDE DEF F
<1>3. Negative = {}
  <2> SUFFICES ASSUME Negative # {} PROVE FALSE
    OBVIOUS
  <2>1. PICK s \in Negative : \A x \in s : s \ {x} \notin Negative
    BY SmallestSubset
  <2>2. s # {}
    <3>1. F[{}] \in Nat
      BY <1>2
    <3> QED BY <3>1
  <2>3. Pick(s) \in s
    BY <2>2 DEF Pick
  <2>4. F[s \ {Pick(s)}] \in Nat /\ f[Pick(s)] \in Nat
    BY <2>1, <2>3
  <2>5. F[s] = f[Pick(s)] + F[s \ {Pick(s)}]
    BY <1>2, <2>2
  <2>6. F[s] \in Nat
    BY <2>4, <2>5
  <2> QED BY <2>6
<1>4. F[S] \in Nat
  BY <1>3
<1> QED BY <1>4, SumIsTable DEF SumFunction, F

\* No entry of a function to the naturals exceeds its sum.
LEMMA SumAboveEntry ==
  ASSUME NEW S, IsFiniteSet(S), NEW f \in [S -> Nat], NEW k \in S
  PROVE  f[k] <= SumFunction(f)
<1> DEFINE g == [f EXCEPT ![k] = 0]
<1>1. g \in [S -> Nat] /\ g \in [S -> Int] /\ f \in [S -> Int]
  OBVIOUS
<1>2. f[k] = g[k] + f[k] /\ \A x \in S : x # k => f[x] = g[x]
  OBVIOUS
<1> HIDE DEF g
<1>3. SumFunction(g) \in Nat
  BY <1>1, SumOfNat
<1>4. f[k] \in Int
  OBVIOUS
<1>5. SumFunction(f) = SumFunction(g) + f[k]
  BY <1>1, <1>2, <1>4, SumShift, SMTT(40)
<1> QED BY <1>3, <1>5, <1>4

\* The order in which elements are taken does not matter.
LEMMA SumAnyOrder ==
  ASSUME NEW S, IsFiniteSet(S), NEW f \in [S -> Int]
  PROVE  \A s \in SUBSET S : \A x \in s :
             SumTable(f, S)[s] = f[x] + SumTable(f, S)[s \ {x}]
<1> DEFINE F == SumTable(f, S)
           Wrong == {s \in SUBSET S : \E x \in s : F[s] # f[x] + F[s \ {x}]}
<1>1. /\ F \in [SUBSET S -> Int]
      /\ \A s \in SUBSET S : s # {} => F[s] = f[Pick(s)] + F[s \ {Pick(s)}]
  BY SumTableType
<1> HIDE DEF F
<1>2. Wrong = {}
  <2> SUFFICES ASSUME Wrong # {} PROVE FALSE
    OBVIOUS
  <2>1. PICK s \in Wrong : \A x \in s : s \ {x} \notin Wrong
    BY SmallestSubset
  <2>2. PICK x \in s : F[s] # f[x] + F[s \ {x}]
    BY <2>1
  <2> DEFINE p == Pick(s)
  <2>3. p \in s
    BY <2>2 DEF Pick
  <2>4. F[s] = f[p] + F[s \ {p}]
    BY <1>1, <2>2
  <2> HIDE DEF p
  <2>5. p # x
    BY <2>2, <2>4
  <2>6. s \in SUBSET S /\ s \ {p} \in SUBSET S /\ s \ {x} \in SUBSET S
    BY <2>1
  <2>7. F[s \ {p}] = f[x] + F[(s \ {p}) \ {x}]
    <3>1. s \ {p} \notin Wrong /\ x \in s \ {p}
      BY <2>1, <2>2, <2>3, <2>5
    <3> QED BY <2>6, <3>1
  <2>8. F[s \ {x}] = f[p] + F[(s \ {x}) \ {p}]
    <3>1. s \ {x} \notin Wrong /\ p \in s \ {x}
      BY <2>1, <2>2, <2>3, <2>5
    <3> QED BY <2>6, <3>1
  <2> DEFINE rest == (s \ {p}) \ {x}
  <2>9. (s \ {x}) \ {p} = rest /\ rest \in SUBSET S
    BY <2>6
  <2>10. F[s \ {p}] = f[x] + F[rest] /\ F[s \ {x}] = f[p] + F[rest]
    BY <2>7, <2>8, <2>9
  <2> HIDE DEF rest
  <2>11. F[rest] \in Int /\ f[p] \in Int /\ f[x] \in Int
    BY <1>1, <2>2, <2>3, <2>6, <2>9
  <2>12. F[s] = f[x] + F[s \ {x}]
    BY <2>4, <2>10, <2>11
  <2> QED BY <2>2, <2>12
<1> QED BY <1>2 DEF F

\* One more element in the domain adds its value to the sum.
LEMMA SumExtend ==
  ASSUME NEW S, IsFiniteSet(S), NEW k, k \notin S,
         NEW f \in [S -> Int], NEW h \in [S \cup {k} -> Int],
         \A x \in S : h[x] = f[x]
  PROVE  SumFunction(h) = SumFunction(f) + h[k]
<1> DEFINE T == S \cup {k}
           F == SumTable(f, S)
           H == SumTable(h, T)
           Wrong == {s \in SUBSET S : H[s] # F[s]}
<1>1. IsFiniteSet(T)
  BY FS_AddElement
<1>2. /\ F \in [SUBSET S -> Int]
      /\ F[{}] = 0
      /\ \A s \in SUBSET S : s # {} => F[s] = f[Pick(s)] + F[s \ {Pick(s)}]
  BY SumTableType
<1>3. /\ H \in [SUBSET T -> Int]
      /\ H[{}] = 0
      /\ \A s \in SUBSET T : s # {} => H[s] = h[Pick(s)] + H[s \ {Pick(s)}]
  BY <1>1, SumTableType
<1>4. \A s \in SUBSET T : \A x \in s : H[s] = h[x] + H[s \ {x}]
  BY <1>1, SumAnyOrder, ZenonT(40)
<1>5. /\ SumFunction(f) = F[S]
      /\ SumFunction(h) = H[T]
  BY SumIsTable DEF SumFunction
<1> HIDE DEF F, H
<1>6. Wrong = {}
  <2> SUFFICES ASSUME Wrong # {} PROVE FALSE
    OBVIOUS
  <2>1. PICK s \in Wrong : \A x \in s : s \ {x} \notin Wrong
    BY SmallestSubset
  <2>2. s # {}
    BY <1>2, <1>3, <2>1
  <2>3. Pick(s) \in s /\ s \in SUBSET S /\ s \in SUBSET T /\ s \ {Pick(s)} \in SUBSET S
    BY <2>1, <2>2 DEF Pick
  <2>4. H[s \ {Pick(s)}] = F[s \ {Pick(s)}]
    BY <2>1, <2>3
  <2>5. h[Pick(s)] = f[Pick(s)]
    BY <2>3
  <2>6. H[s] = F[s]
    BY <1>2, <1>3, <2>2, <2>3, <2>4, <2>5
  <2> QED BY <2>1, <2>6
<1>7. H[S] = F[S]
  BY <1>6
<1>8. H[T] = h[k] + H[S]
  <2>1. T \ {k} = S /\ k \in T /\ T \in SUBSET T
    OBVIOUS
  <2> QED BY <1>4, <2>1
<1>9. F[S] \in Int /\ h[k] \in Int
  BY <1>2
<1> QED BY <1>5, <1>7, <1>8, <1>9

\* The same, with the larger domain named.
LEMMA SumExtendTo ==
  ASSUME NEW S, NEW k, NEW T, NEW f, NEW h,
         IsFiniteSet(S), k \notin S, T = S \cup {k},
         f \in [S -> Int], h \in [T -> Int],
         \A x \in S : h[x] = f[x]
  PROVE  SumFunction(h) = SumFunction(f) + h[k]
BY SumExtend

\* A sequence that grows by one adds its new value to the sum.
LEMMA SumNextEntry ==
  ASSUME NEW n \in Nat, NEW f \in [1 .. n -> Int], NEW h \in [1 .. n + 1 -> Int],
         \A i \in 1 .. n : h[i] = f[i]
  PROVE  SumFunction(h) = SumFunction(f) + h[n + 1]
<1>1. /\ IsFiniteSet(1 .. n)
      /\ n + 1 \notin 1 .. n
      /\ 1 .. n + 1 = 1 .. n \cup {n + 1}
  <2>1. IsFiniteSet(1 .. n)
    BY FS_Interval
  <2>2. n + 1 \notin 1 .. n
    OBVIOUS
  <2>3. \A x : x \in 1 .. n + 1 <=> x \in 1 .. n \/ x = n + 1
    OBVIOUS
  <2>4. 1 .. n + 1 = 1 .. n \cup {n + 1}
    BY <2>3
  <2> QED BY <2>1, <2>2, <2>4
<1> DEFINE S == 1 .. n
           k == n + 1
           T == 1 .. n + 1
<1>2. /\ IsFiniteSet(S) /\ k \notin S /\ T = S \cup {k}
      /\ f \in [S -> Int] /\ h \in [T -> Int]
      /\ \A x \in S : h[x] = f[x]
  BY <1>1
<1> HIDE DEF S, k, T
<1>3. SumFunction(h) = SumFunction(f) + h[k]
  BY <1>2, SumExtendTo
<1> QED BY <1>3 DEF k

\* The sum over part of the domain is the sum of the restricted function.
LEMMA SumOnPart ==
  ASSUME NEW S, IsFiniteSet(S), NEW f, NEW h \in [S -> Int], \A x \in S : f[x] = h[x]
  PROVE  SumFunctionOnSet(f, S) = SumFunction(h)
<1>1. ASSUME NEW g PROVE SumStep(f, S, g) = SumStep(h, S, g)
  <2>1. \A s \in SUBSET S : s # {} => f[Pick(s)] = h[Pick(s)]
    BY DEF Pick
  <2> QED BY <2>1 DEF SumStep
<1>2. SumTable(f, S) = SumTable(h, S)
  BY <1>1 DEF SumTable
<1>3. SumFunction(h) = SumTable(h, S)[S]
  BY SumIsTable DEF SumFunction
<1> QED BY <1>2, <1>3, SumIsTable

\* Sums keep a common bound on the ratio of their entries.
LEMMA SumRatio ==
  ASSUME NEW S, IsFiniteSet(S), NEW f \in [S -> Int], NEW h \in [S -> Int],
         NEW a \in Int, NEW b \in Int, \A x \in S : h[x] * a <= f[x] * b
  PROVE  SumFunction(h) * a <= SumFunction(f) * b
<1> DEFINE F == SumTable(f, S)
           H == SumTable(h, S)
           Wrong == {s \in SUBSET S : ~ (H[s] * a <= F[s] * b)}
<1>1. /\ F \in [SUBSET S -> Int]
      /\ F[{}] = 0
      /\ \A s \in SUBSET S : s # {} => F[s] = f[Pick(s)] + F[s \ {Pick(s)}]
  BY SumTableType
<1>2. /\ H \in [SUBSET S -> Int]
      /\ H[{}] = 0
      /\ \A s \in SUBSET S : s # {} => H[s] = h[Pick(s)] + H[s \ {Pick(s)}]
  BY SumTableType
<1>3. SumFunction(f) = F[S] /\ SumFunction(h) = H[S]
  BY SumIsTable DEF SumFunction
<1> HIDE DEF F, H
<1>4. Wrong = {}
  <2> SUFFICES ASSUME Wrong # {} PROVE FALSE
    OBVIOUS
  <2>1. PICK s \in Wrong : \A x \in s : s \ {x} \notin Wrong
    BY SmallestSubset
  <2>2. s # {}
    <3>1. 0 * a = 0 /\ 0 * b = 0
      OBVIOUS
    <3>2. {} \notin Wrong
      BY <1>1, <1>2, <3>1
    <3> QED BY <2>1, <3>2
  <2> DEFINE x == Pick(s)
             r == s \ {x}
  <2>3. x \in s /\ x \in S /\ s \in SUBSET S /\ r \in SUBSET S
    BY <2>1, <2>2 DEF Pick
  <2>4. /\ F[s] = f[x] + F[r] /\ H[s] = h[x] + H[r]
        /\ H[r] * a <= F[r] * b
        /\ h[x] * a <= f[x] * b
    BY <1>1, <1>2, <2>1, <2>2, <2>3
  <2>5. F[r] \in Int /\ H[r] \in Int /\ f[x] \in Int /\ h[x] \in Int
    BY <1>1, <1>2, <2>3
  <2> HIDE DEF x, r
  <2>6. /\ (h[x] + H[r]) * a = h[x] * a + H[r] * a
        /\ (f[x] + F[r]) * b = f[x] * b + F[r] * b
    BY <2>5
  <2>7. H[s] * a <= F[s] * b
    BY <2>4, <2>5, <2>6
  <2> QED BY <2>1, <2>7
<1> QED BY <1>3, <1>4

\* Taking something from the entries of a part takes its sum from the whole.
LEMMA SumLess ==
  ASSUME NEW S, IsFiniteSet(S), NEW O \in SUBSET S,
         NEW f \in [S -> Int], NEW g \in [O -> Int], NEW h \in [S -> Int],
         \A x \in S : h[x] = IF x \in O THEN f[x] - g[x] ELSE f[x]
  PROVE  SumFunction(h) = SumFunction(f) - SumFunction(g)
<1> DEFINE F == SumTable(f, S)
           G == SumTable(g, O)
           H == SumTable(h, S)
           Wrong == {s \in SUBSET S : H[s] # F[s] - G[s \cap O]}
<1>1. IsFiniteSet(O)
  BY FS_Subset
<1>2. /\ F \in [SUBSET S -> Int]
      /\ F[{}] = 0
      /\ \A s \in SUBSET S : s # {} => F[s] = f[Pick(s)] + F[s \ {Pick(s)}]
  BY SumTableType
<1>3. /\ H \in [SUBSET S -> Int]
      /\ H[{}] = 0
      /\ \A s \in SUBSET S : s # {} => H[s] = h[Pick(s)] + H[s \ {Pick(s)}]
  BY SumTableType
<1>4. G \in [SUBSET O -> Int] /\ G[{}] = 0
  BY <1>1, SumTableType
<1>5. ASSUME NEW s \in SUBSET O, NEW x \in s
      PROVE  G[s] = g[x] + G[s \ {x}]
  <2>1. \A c \in SUBSET O : \A y \in c :
            SumTable(g, O)[c] = g[y] + SumTable(g, O)[c \ {y}]
    BY <1>1, SumAnyOrder, ZenonT(40)
  <2> QED BY <2>1
<1>6. SumFunction(f) = F[S] /\ SumFunction(h) = H[S] /\ SumFunction(g) = G[O]
  BY SumIsTable DEF SumFunction
<1> HIDE DEF F, G, H
<1>7. Wrong = {}
  <2> SUFFICES ASSUME Wrong # {} PROVE FALSE
    OBVIOUS
  <2>1. PICK s \in Wrong : \A x \in s : s \ {x} \notin Wrong
    BY SmallestSubset
  <2>2. s # {}
    <3>1. {} \cap O = {}
      OBVIOUS
    <3>2. {} \notin Wrong
      BY <1>2, <1>3, <1>4, <3>1
    <3> QED BY <2>1, <3>2
  <2> DEFINE x == Pick(s)
             r == s \ {x}
             sO == s \cap O
             rO == r \cap O
  <2>3. x \in s /\ x \in S /\ s \in SUBSET S /\ r \in SUBSET S
    BY <2>1, <2>2 DEF Pick
  <2>4. F[s] = f[x] + F[r] /\ H[s] = h[x] + H[r]
    BY <1>2, <1>3, <2>2, <2>3
  <2>5. H[r] = F[r] - G[rO] /\ H[s] # F[s] - G[sO]
    BY <2>1, <2>3
  <2>6. /\ x \in O => sO \ {x} = rO /\ x \in sO
        /\ x \notin O => sO = rO
        /\ sO \in SUBSET O /\ rO \in SUBSET O
    BY <2>3
  <2>7. F[r] \in Int /\ H[r] \in Int /\ f[x] \in Int /\ G[rO] \in Int
    BY <1>2, <1>3, <1>4, <2>3, <2>6
  <2> HIDE DEF x, r, sO, rO
  <2>8. CASE x \in O
    <3>1. G[sO] = g[x] + G[rO]
      <4>1. sO \in SUBSET O /\ x \in sO /\ sO \ {x} = rO
        BY <2>6, <2>8
      <4>2. G[sO] = g[x] + G[sO \ {x}]
        BY <1>5, <4>1
      <4> QED BY <4>1, <4>2
    <3>2. h[x] = f[x] - g[x] /\ g[x] \in Int
      BY <2>3, <2>8
    <3> QED BY <2>4, <2>5, <2>7, <3>1, <3>2
  <2>9. CASE x \notin O
    <3>1. h[x] = f[x]
      BY <2>3, <2>9
    <3> QED BY <2>4, <2>5, <2>6, <2>7, <2>9, <3>1
  <2> QED BY <2>8, <2>9
<1>8. H[S] = F[S] - G[S \cap O]
  BY <1>7
<1>9. S \cap O = O
  OBVIOUS
<1> QED BY <1>6, <1>8, <1>9

\* Sums over a part of the domain are numbers.
LEMMA PartType ==
  ASSUME NEW K, IsFiniteSet(K), NEW f
  PROVE  /\ (\A x \in K : f[x] \in Int) => SumFunctionOnSet(f, K) \in Int
         /\ (\A x \in K : f[x] \in Nat) => SumFunctionOnSet(f, K) \in Nat
<1> DEFINE g == [x \in K |-> f[x]]
<1>1. ASSUME \A x \in K : f[x] \in Int
      PROVE  SumFunctionOnSet(f, K) \in Int
  <2>1. g \in [K -> Int] /\ \A x \in K : f[x] = g[x]
    BY <1>1
  <2> HIDE DEF g
  <2> QED BY <2>1, SumOnPart, SumType
<1>2. ASSUME \A x \in K : f[x] \in Nat
      PROVE  SumFunctionOnSet(f, K) \in Nat
  <2>1. g \in [K -> Nat] /\ g \in [K -> Int] /\ \A x \in K : f[x] = g[x]
    BY <1>2
  <2> HIDE DEF g
  <2> QED BY <2>1, SumOnPart, SumOfNat
<1> QED BY <1>1, <1>2

\* Nothing sums to zero.
LEMMA PartEmpty ==
  ASSUME NEW f
  PROVE  SumFunctionOnSet(f, {}) = 0
<1> DEFINE g == [x \in {} |-> 0]
<1>1. IsFiniteSet({}) /\ g \in [{} -> Int] /\ (\A x \in {} : f[x] = g[x] /\ g[x] = 0)
  BY FS_EmptySet
<1> HIDE DEF g
<1>2. SumFunctionOnSet(f, {}) = SumFunction(g)
  BY <1>1, SumOnPart
<1>3. SumFunction(g) = 0
  BY <1>1, SumZero
<1> QED BY <1>2, <1>3

\* Functions that agree on a part have the same sum over it.
LEMMA PartSame ==
  ASSUME NEW K, IsFiniteSet(K), NEW f, NEW h,
         \A x \in K : h[x] = f[x] /\ f[x] \in Int
  PROVE  SumFunctionOnSet(h, K) = SumFunctionOnSet(f, K)
<1> DEFINE g == [x \in K |-> f[x]]
<1>1. g \in [K -> Int] /\ \A x \in K : f[x] = g[x] /\ h[x] = g[x]
  OBVIOUS
<1> HIDE DEF g
<1> QED BY <1>1, SumOnPart

\* One more element in the part adds its value.
LEMMA PartAdd ==
  ASSUME NEW K, NEW k, NEW T, NEW f, NEW h,
         IsFiniteSet(K), k \notin K, T = K \cup {k},
         \A x \in K : f[x] \in Int, \A x \in K : h[x] = f[x], h[k] \in Int
  PROVE  SumFunctionOnSet(h, T) = SumFunctionOnSet(f, K) + h[k]
<1> DEFINE g == [x \in K |-> f[x]]
           j == [x \in T |-> h[x]]
<1>1. IsFiniteSet(T)
  BY FS_AddElement
<1>2. /\ g \in [K -> Int] /\ j \in [T -> Int]
      /\ \A x \in K : f[x] = g[x] /\ j[x] = g[x]
      /\ \A x \in T : h[x] = j[x]
      /\ j[k] = h[k]
  OBVIOUS
<1> HIDE DEF g, j
<1>3. SumFunctionOnSet(f, K) = SumFunction(g) /\ SumFunctionOnSet(h, T) = SumFunction(j)
  BY <1>1, <1>2, SumOnPart
<1>4. SumFunction(j) = SumFunction(g) + j[k]
  BY <1>1, <1>2, SumExtendTo
<1> QED BY <1>1, <1>2, <1>3, <1>4

\* One element less takes its value away.
LEMMA PartRemove ==
  ASSUME NEW K, IsFiniteSet(K), NEW k \in K, NEW f, NEW h,
         \A x \in K : f[x] \in Int, \A x \in K \ {k} : h[x] = f[x]
  PROVE  SumFunctionOnSet(h, K \ {k}) = SumFunctionOnSet(f, K) - f[k]
<1> DEFINE R == K \ {k}
<1>1. IsFiniteSet(R) /\ k \notin R /\ K = R \cup {k}
  BY FS_RemoveElement
<1>2. /\ \A x \in R : f[x] = h[x]
      /\ \A x \in R : h[x] \in Int
      /\ f[k] \in Int
  OBVIOUS
<1> HIDE DEF R
<1>3. SumFunctionOnSet(f, K) = SumFunctionOnSet(h, R) + f[k]
  BY <1>1, <1>2, PartAdd
<1>4. SumFunctionOnSet(h, R) \in Int
  BY <1>1, <1>2, PartType
<1>5. SumFunctionOnSet(h, R) = SumFunctionOnSet(f, K) - f[k]
  BY <1>2, <1>3, <1>4
<1> QED BY <1>5 DEF R

\* A change of one value changes the sum by as much.
LEMMA PartChange ==
  ASSUME NEW K, IsFiniteSet(K), NEW k \in K, NEW f, NEW h,
         \A x \in K : f[x] \in Int, h[k] \in Int,
         \A x \in K \ {k} : h[x] = f[x]
  PROVE  SumFunctionOnSet(h, K) = SumFunctionOnSet(f, K) - f[k] + h[k]
<1> DEFINE R == K \ {k}
<1>1. IsFiniteSet(R) /\ k \notin R /\ K = R \cup {k}
  BY FS_RemoveElement
<1>2. SumFunctionOnSet(f, R) = SumFunctionOnSet(f, K) - f[k]
  BY PartRemove
<1>3. (\A x \in R : f[x] \in Int) /\ (\A x \in R : h[x] = f[x])
  OBVIOUS
<1> HIDE DEF R
<1>4. SumFunctionOnSet(h, K) = SumFunctionOnSet(f, R) + h[k]
  BY <1>1, <1>3, PartAdd
<1> QED BY <1>2, <1>4

\* The sum over a part of a part is not larger, as long as nothing is negative.
LEMMA PartWithin ==
  ASSUME NEW L, IsFiniteSet(L), NEW K \in SUBSET L, NEW f, \A x \in L : f[x] \in Nat
  PROVE  SumFunctionOnSet(f, K) <= SumFunctionOnSet(f, L)
<1> DEFINE Sum(P) == SumFunctionOnSet(f, P)
           Bad == {R \in SUBSET L : ~ (Sum(L \ R) <= Sum(L))}
<1>1. \A P \in SUBSET L : IsFiniteSet(P) /\ Sum(P) \in Nat
  BY FS_Subset, PartType
<1>2. ASSUME NEW P \in SUBSET L, NEW x \in P PROVE Sum(P \ {x}) = Sum(P) - f[x]
  <2>1. IsFiniteSet(P) /\ (\A y \in P : f[y] \in Int) /\ (\A y \in P \ {x} : f[y] = f[y])
    BY <1>1
  <2> QED BY <2>1, PartRemove
<1> HIDE DEF Sum
<1>3. Bad = {}
  <2> SUFFICES ASSUME Bad # {} PROVE FALSE
    OBVIOUS
  <2>1. PICK R \in Bad : \A x \in R : R \ {x} \notin Bad
    BY SmallestSubset
  <2>2. R # {}
    <3>1. L \ {} = L /\ Sum(L) \in Nat
      BY <1>1
    <3> QED BY <2>1, <3>1
  <2>3. PICK x \in R : TRUE
    BY <2>2
  <2> DEFINE P == L \ (R \ {x})
  <2>4. P \in SUBSET L /\ x \in P /\ P \ {x} = L \ R /\ R \ {x} \in SUBSET L
    BY <2>1, <2>3
  <2>5. Sum(P) <= Sum(L)
    BY <2>1, <2>3, <2>4
  <2> HIDE DEF P
  <2>6. Sum(L \ R) = Sum(P) - f[x] /\ Sum(P) \in Nat /\ f[x] \in Nat /\ Sum(L) \in Nat
    BY <1>1, <1>2, <2>4
  <2>7. Sum(L \ R) <= Sum(L)
    BY <2>5, <2>6
  <2> QED BY <2>1, <2>7
<1>4. L \ K \in SUBSET L /\ L \ (L \ K) = K
  OBVIOUS
<1>5. Sum(L \ (L \ K)) <= Sum(L)
  BY <1>3, <1>4
<1> QED BY <1>4, <1>5 DEF Sum

\* A sum of smaller values is not larger.
LEMMA SumWithin ==
  ASSUME NEW S, IsFiniteSet(S), NEW f \in [S -> Int], NEW h \in [S -> Int],
         \A x \in S : h[x] <= f[x]
  PROVE  SumFunction(h) <= SumFunction(f)
<1> DEFINE one == 1
<1>1. one \in Int /\ \A x \in S : h[x] * one <= f[x] * one
  OBVIOUS
<1> HIDE DEF one
<1>2. SumFunction(h) * one <= SumFunction(f) * one
  BY <1>1, SumRatio
<1>3. SumFunction(h) \in Int /\ SumFunction(f) \in Int
  BY SumType
<1> QED BY <1>2, <1>3 DEF one

\* What the sums over the parts of a finite set have in common.
LEMMA PartSteps ==
  ASSUME NEW K, IsFiniteSet(K), NEW f \in [K -> Int]
  PROVE  /\ \A P \in SUBSET K : SumFunctionOnSet(f, P) \in Int
         /\ \A P \in SUBSET K : \A x \in P :
               SumFunctionOnSet(f, P \ {x}) = SumFunctionOnSet(f, P) - f[x]
         /\ SumFunctionOnSet(f, {}) = 0
         /\ SumFunctionOnSet(f, K) = SumFunction(f)
<1>1. \A P \in SUBSET K : IsFiniteSet(P) /\ SumFunctionOnSet(f, P) \in Int
  BY FS_Subset, PartType
<1>2. ASSUME NEW P \in SUBSET K, NEW x \in P
      PROVE  SumFunctionOnSet(f, P \ {x}) = SumFunctionOnSet(f, P) - f[x]
  <2>1. IsFiniteSet(P) /\ (\A y \in P : f[y] \in Int) /\ (\A y \in P \ {x} : f[y] = f[y])
    BY <1>1
  <2> QED BY <2>1, PartRemove
<1>3. SumFunctionOnSet(f, {}) = 0
  BY PartEmpty
<1>4. SumFunctionOnSet(f, K) = SumFunction(f)
  BY SumOnPart
<1> QED BY <1>1, <1>2, <1>3, <1>4

\* A function on a finite set whose values are the differences of those of two
\* others.
Minus(S, h, f, g) ==
    /\ IsFiniteSet(S)
    /\ f \in [S -> Int] /\ g \in [S -> Int] /\ h \in [S -> Int]
    /\ \A x \in S : h[x] = f[x] - g[x]

\* The sum of the differences is the difference of the sums.
LEMMA SumMinus ==
  ASSUME NEW S, NEW f, NEW g, NEW h, Minus(S, h, f, g)
  PROVE  /\ SumFunction(h) = SumFunction(f) - SumFunction(g)
         /\ SumFunction(f) \in Int /\ SumFunction(g) \in Int
<1>1. /\ IsFiniteSet(S)
      /\ f \in [S -> Int] /\ g \in [S -> Int] /\ h \in [S -> Int]
      /\ \A x \in S : h[x] = f[x] - g[x]
  BY DEF Minus
<1> DEFINE F(P) == SumFunctionOnSet(f, P)
           G(P) == SumFunctionOnSet(g, P)
           H(P) == SumFunctionOnSet(h, P)
           Bad == {P \in SUBSET S : H(P) # F(P) - G(P)}
<1>2. /\ \A P \in SUBSET S : F(P) \in Int
      /\ \A P \in SUBSET S : \A x \in P : F(P \ {x}) = F(P) - f[x]
      /\ F({}) = 0 /\ F(S) = SumFunction(f)
  BY <1>1, PartSteps
<1>3. /\ \A P \in SUBSET S : G(P) \in Int
      /\ \A P \in SUBSET S : \A x \in P : G(P \ {x}) = G(P) - g[x]
      /\ G({}) = 0 /\ G(S) = SumFunction(g)
  BY <1>1, PartSteps
<1>4. /\ \A P \in SUBSET S : H(P) \in Int
      /\ \A P \in SUBSET S : \A x \in P : H(P \ {x}) = H(P) - h[x]
      /\ H({}) = 0 /\ H(S) = SumFunction(h)
  BY <1>1, PartSteps
<1> HIDE DEF F, G, H
<1>5. Bad = {}
  <2> SUFFICES ASSUME Bad # {} PROVE FALSE
    OBVIOUS
  <2>1. PICK P \in Bad : \A x \in P : P \ {x} \notin Bad
    BY <1>1, SmallestSubset
  <2>2. PICK x \in P : TRUE
    <3>1. H({}) = F({}) - G({})
      BY <1>2, <1>3, <1>4
    <3>2. P # {}
      BY <2>1, <3>1
    <3> QED BY <3>2
  <2> DEFINE Q == P \ {x}
  <2>3. H(Q) = F(Q) - G(Q)
    BY <2>1, <2>2
  <2>4. /\ F(Q) = F(P) - f[x] /\ G(Q) = G(P) - g[x] /\ H(Q) = H(P) - h[x]
        /\ F(P) \in Int /\ G(P) \in Int /\ H(P) \in Int
    BY <1>2, <1>3, <1>4, <2>1, <2>2
  <2>5. f[x] \in Int /\ g[x] \in Int /\ h[x] = f[x] - g[x]
    BY <1>1, <2>1, <2>2
  <2> HIDE DEF Q
  <2>6. H(P) = F(P) - G(P)
    BY <2>3, <2>4, <2>5
  <2> QED BY <2>1, <2>6
<1>6. S \in SUBSET S
  OBVIOUS
<1> QED BY <1>2, <1>3, <1>4, <1>5, <1>6

\* Zeros outside the part do not count.
LEMMA SumPadded ==
  ASSUME NEW S, IsFiniteSet(S), NEW O \in SUBSET S, NEW g \in [O -> Int],
         NEW f \in [S -> Int], \A x \in S : f[x] = IF x \in O THEN g[x] ELSE 0
  PROVE  SumFunction(f) = SumFunction(g)
<1> DEFINE z == [x \in S |-> 0]
<1>1. /\ z \in [S -> Int] /\ (\A x \in S : z[x] = 0)
      /\ \A x \in S : z[x] = IF x \in O THEN f[x] - g[x] ELSE f[x]
  OBVIOUS
<1> HIDE DEF z
<1>2. SumFunction(z) = 0
  BY <1>1, SumZero
<1>3. SumFunction(z) = SumFunction(f) - SumFunction(g)
  BY <1>1, SumLess
<1>4. SumFunction(f) \in Int /\ SumFunction(g) \in Int
  BY FS_Subset, SumType
<1> QED BY <1>2, <1>3, <1>4

\* The sums of the groups that the members of W own.
Groups(K, W, own, f, h) ==
    \A w \in W : h[w] = SumFunctionOnSet(f, {k \in K : own[k] = w})

\* Summing the groups first gives the same sum.
LEMMA SumGrouped ==
  ASSUME NEW K, IsFiniteSet(K), NEW W, IsFiniteSet(W), NEW own \in [K -> W],
         NEW f \in [K -> Int], NEW h \in [W -> Int],
         Groups(K, W, own, f, h)
  PROVE  SumFunction(h) = SumFunction(f)
<1> DEFINE Group(L, w) == {k \in L : own[k] = w}
           Sum(P) == SumFunctionOnSet(f, P)
           Grouped(L) == [w \in W |-> Sum(Group(L, w))]
           Bad == {L \in SUBSET K : SumFunction(Grouped(L)) # Sum(L)}
<1>1. /\ \A P \in SUBSET K : Sum(P) \in Int
      /\ \A P \in SUBSET K : \A x \in P : Sum(P \ {x}) = Sum(P) - f[x]
      /\ Sum({}) = 0
      /\ Sum(K) = SumFunction(f)
  BY PartSteps
<1> HIDE DEF Sum
<1>2. \A L \in SUBSET K : Grouped(L) \in [W -> Int]
  BY <1>1
<1>3. Bad = {}
  <2> SUFFICES ASSUME Bad # {} PROVE FALSE
    OBVIOUS
  <2>1. PICK L \in Bad : \A x \in L : L \ {x} \notin Bad
    BY SmallestSubset
  <2> DEFINE a == Grouped(L)
  <2>2. a \in [W -> Int]
    BY <1>2, <2>1
  <2>3. CASE L = {}
    <3>1. \A w \in W : a[w] = 0
      BY <1>1, <2>3
    <3> HIDE DEF a
    <3>2. SumFunction(a) = 0
      BY <2>2, <3>1, SumZero
    <3> QED BY <1>1, <2>1, <2>3, <3>2 DEF a
  <2>4. CASE L # {}
    <3>1. PICK x \in L : TRUE
      BY <2>4
    <3> DEFINE M == L \ {x}
               b == Grouped(M)
    <3>2. M \in SUBSET K /\ x \in K /\ own[x] \in W /\ f[x] \in Int
      BY <2>1, <3>1
    <3>3. b \in [W -> Int]
      BY <1>2, <3>2
    <3>4. SumFunction(b) = Sum(M)
      BY <2>1, <3>1, <3>2
    <3>5. \A w \in W : w # own[x] => a[w] = b[w]
      <4> SUFFICES ASSUME NEW w \in W, w # own[x] PROVE a[w] = b[w]
        OBVIOUS
      <4>1. Group(L, w) = Group(M, w)
        OBVIOUS
      <4> QED BY <4>1
    <3>6. a[own[x]] = b[own[x]] + f[x]
      <4> DEFINE P == Group(L, own[x])
      <4>1. P \in SUBSET K /\ x \in P /\ Group(M, own[x]) = P \ {x}
        BY <2>1, <3>1
      <4> HIDE DEF P
      <4>2. Sum(P \ {x}) = Sum(P) - f[x] /\ Sum(P) \in Int
        BY <1>1, <4>1
      <4>3. a[own[x]] = Sum(P) /\ b[own[x]] = Sum(P \ {x})
        BY <3>2, <4>1 DEF P
      <4> QED BY <3>2, <4>2, <4>3
    <3> HIDE DEF a, b
    <3>7. SumFunction(a) = SumFunction(b) + f[x]
      BY <2>2, <3>2, <3>3, <3>5, <3>6, SumShift
    <3>8. Sum(M) = Sum(L) - f[x] /\ Sum(L) \in Int
      BY <1>1, <2>1, <3>1
    <3>9. SumFunction(a) = Sum(L)
      BY <3>2, <3>4, <3>7, <3>8
    <3> QED BY <2>1, <3>9 DEF a
  <2> QED BY <2>3, <2>4
<1> DEFINE c == Grouped(K)
<1>4. SumFunction(c) = Sum(K)
  BY <1>3
<1>5. c = h
  BY DEF Sum, Groups
<1> QED BY <1>1, <1>4, <1>5

\* The two tables have the same entries, the one in columns, the other in rows.
Transposed(K, R, m, n) == \A k \in K : \A i \in R : n[i][k] = m[k][i]

\* The sums of the rows of a table.
Totals(K, row, m) == \A k \in K : row[k] = SumFunction(m[k])

\* The totals of the rows of a finite table, and those of its columns.
TableSums(K, R, m, n, row, col) ==
    /\ IsFiniteSet(K) /\ IsFiniteSet(R)
    /\ m \in [K -> [R -> Int]] /\ n \in [R -> [K -> Int]] /\ Transposed(K, R, m, n)
    /\ row \in [K -> Int] /\ Totals(K, row, m)
    /\ col \in [R -> Int] /\ Totals(R, col, n)

\* The sum of the rows of a table is the sum of its columns.
LEMMA SumExchange ==
  ASSUME NEW K, NEW R, NEW m, NEW n, NEW row, NEW col, TableSums(K, R, m, n, row, col)
  PROVE  SumFunction(row) = SumFunction(col)
<1>1. /\ IsFiniteSet(K) /\ IsFiniteSet(R)
      /\ m \in [K -> [R -> Int]] /\ n \in [R -> [K -> Int]] /\ Transposed(K, R, m, n)
      /\ row \in [K -> Int] /\ Totals(K, row, m)
      /\ col \in [R -> Int] /\ Totals(R, col, n)
  BY DEF TableSums
<1> DEFINE Down(i, L) == SumFunctionOnSet(n[i], L)
           Sum(L) == SumFunctionOnSet(row, L)
           Upto(L) == [i \in R |-> Down(i, L)]
           Bad == {L \in SUBSET K : SumFunction(Upto(L)) # Sum(L)}
<1>2. /\ \A P \in SUBSET K : Sum(P) \in Int
      /\ \A P \in SUBSET K : \A x \in P : Sum(P \ {x}) = Sum(P) - row[x]
      /\ Sum({}) = 0
      /\ Sum(K) = SumFunction(row)
  BY <1>1, PartSteps
<1>3. ASSUME NEW i \in R
      PROVE  /\ \A P \in SUBSET K : Down(i, P) \in Int
             /\ \A P \in SUBSET K : \A x \in P : Down(i, P \ {x}) = Down(i, P) - m[x][i]
             /\ Down(i, {}) = 0
             /\ Down(i, K) = col[i]
  <2> DEFINE f == n[i]
  <2>1. f \in [K -> Int] /\ \A x \in K : f[x] = m[x][i]
    BY <1>1 DEF Transposed
  <2>2. col[i] = SumFunction(f)
    BY <1>1 DEF Totals
  <2> HIDE DEF f
  <2>3. /\ \A P \in SUBSET K : SumFunctionOnSet(f, P) \in Int
        /\ \A P \in SUBSET K : \A x \in P :
              SumFunctionOnSet(f, P \ {x}) = SumFunctionOnSet(f, P) - f[x]
        /\ SumFunctionOnSet(f, {}) = 0
        /\ SumFunctionOnSet(f, K) = SumFunction(f)
    BY <1>1, <2>1, PartSteps
  <2> QED BY <2>1, <2>2, <2>3 DEF f
<1> HIDE DEF Sum, Down
<1>4. \A L \in SUBSET K : Upto(L) \in [R -> Int]
  BY <1>3
<1>5. Bad = {}
  <2> SUFFICES ASSUME Bad # {} PROVE FALSE
    OBVIOUS
  <2>1. PICK L \in Bad : \A x \in L : L \ {x} \notin Bad
    BY <1>1, SmallestSubset
  <2> DEFINE a == Upto(L)
  <2>2. a \in [R -> Int]
    BY <1>4, <2>1
  <2>3. CASE L = {}
    <3>1. \A i \in R : a[i] = 0
      BY <1>3, <2>3
    <3> HIDE DEF a
    <3>2. SumFunction(a) = 0
      BY <1>1, <2>2, <3>1, SumZero
    <3> QED BY <1>2, <2>1, <2>3, <3>2 DEF a
  <2>4. CASE L # {}
    <3>1. PICK x \in L : TRUE
      BY <2>4
    <3> DEFINE M == L \ {x}
               b == Upto(M)
               r == m[x]
    <3>2. M \in SUBSET K /\ x \in K
      BY <2>1, <3>1
    <3>3. b \in [R -> Int] /\ r \in [R -> Int]
      BY <1>1, <1>4, <3>2
    <3>4. row[x] = SumFunction(r)
      BY <1>1, <3>2 DEF Totals
    <3>5. SumFunction(b) = Sum(M)
      BY <2>1, <3>1, <3>2
    <3>6. Minus(R, b, a, r)
      BY <1>1, <1>3, <2>1, <2>2, <3>1, <3>3 DEF Minus
    <3> HIDE DEF a, b, r, Bad
    <3>7. SumFunction(b) = SumFunction(a) - SumFunction(r) /\ SumFunction(a) \in Int
      BY <3>6, SumMinus
    <3>8. Sum(M) = Sum(L) - row[x] /\ Sum(L) \in Int /\ row[x] \in Int
      BY <1>1, <1>2, <2>1, <3>1 DEF Bad
    <3>9. SumFunction(a) - row[x] = Sum(L) - row[x]
      BY <3>5, <3>7, <3>8, <3>4
    <3>10. SumFunction(a) = Sum(L)
      <4> DEFINE u == SumFunction(a)
                 v == Sum(L)
                 w == row[x]
      <4>1. u \in Int /\ v \in Int /\ w \in Int /\ u - w = v - w
        BY <3>7, <3>8, <3>9
      <4> HIDE DEF u, v, w
      <4>2. u = v
        BY <4>1
      <4> QED BY <4>2 DEF u, v
    <3> QED BY <2>1, <3>10 DEF a, Bad
  <2> QED BY <2>3, <2>4
<1> DEFINE c == Upto(K)
<1>6. SumFunction(c) = Sum(K)
  BY <1>5
<1>7. c = col
  BY <1>1, <1>3
<1> QED BY <1>2, <1>6, <1>7

-----------------------------------------------------------------------------
(* Folds over other values. *)

\* The rounds of a fold over S, which takes out top[s] of s last, lead from each
\* member of a family of sets of values into the next.
RoundsLead(S, base, F, top, I, V) ==
    /\ IsFiniteSet(S)
    /\ \A s \in SUBSET S : s # {} => top[s] \in s
    /\ base \in I[{}]
    /\ \A s \in SUBSET S : s # {} =>
           \A v \in I[s \ {top[s]}] : F[<<v, top[s]>>] \in I[s]
    /\ \A s \in SUBSET S : I[s] \subseteq V

\* The equation of such a fold's table, and where its entries are.
FoldEntry(g, s, base, F, top, I) ==
    /\ g[s] = IF s = {} THEN base ELSE F[<<g[s \ {top[s]}], top[s]>>]
    /\ g[s] \in I[s]

HasFoldTable(S, base, F, top, I, V) ==
    \E g \in [SUBSET S -> V] : \A s \in SUBSET S : FoldEntry(g, s, base, F, top, I)

\* The equation has a solution.
LEMMA FoldTableExists ==
  ASSUME NEW S, NEW base, NEW F, NEW top, NEW I, NEW V,
         RoundsLead(S, base, F, top, I, V)
  PROVE  HasFoldTable(S, base, F, top, I, V)
<1>1. /\ IsFiniteSet(S)
      /\ \A s \in SUBSET S : s # {} => top[s] \in s
      /\ base \in I[{}]
      /\ \A s \in SUBSET S : s # {} =>
             \A v \in I[s \ {top[s]}] : F[<<v, top[s]>>] \in I[s]
      /\ \A s \in SUBSET S : I[s] \subseteq V
  BY DEF RoundsLead
<1> DEFINE Upto(n) == {s \in SUBSET S : Cardinality(s) <= n}
           Fills(g, A) ==
               /\ g = [s \in A |-> IF s = {} THEN base ELSE F[<<g[s \ {top[s]}], top[s]>>]]
               /\ \A s \in A : g[s] \in I[s]
           Table(n) == \E g : Fills(g, Upto(n))
           Bad == {n \in Nat : ~Table(n)}
<1>2. \A s \in SUBSET S : /\ IsFiniteSet(s) /\ Cardinality(s) \in Nat
                         /\ Cardinality(s) <= Cardinality(S)
  BY <1>1, FS_Subset, FS_CardinalityType
<1>3. \A s \in SUBSET S : s # {} => /\ s \ {top[s]} \in SUBSET S
                                   /\ Cardinality(s \ {top[s]}) = Cardinality(s) - 1
  BY <1>1, <1>2, FS_RemoveElement
<1>4. Table(0)
  <2>1. Upto(0) = {{}}
    BY <1>2, FS_EmptySet
  <2> DEFINE g == [s \in Upto(0) |-> base]
  <2>2. Fills(g, Upto(0))
    BY <1>1, <2>1
  <2> QED BY <2>2
<1>5. ASSUME NEW n \in Nat, Table(n) PROVE Table(n + 1)
  <2>1. PICK g : Fills(g, Upto(n))
    BY <1>5
  <2> DEFINE A == Upto(n)
             B == Upto(n + 1)
             h == [s \in B |-> IF s = {} THEN base ELSE F[<<g[s \ {top[s]}], top[s]>>]]
  <2>2. /\ A \subseteq B
        /\ \A s \in B : s # {} => s \ {top[s]} \in A
        /\ \A s \in B : s \in SUBSET S
    BY <1>2, <1>3
  <2> HIDE DEF A, B
  <2>3. /\ g = [s \in A |-> IF s = {} THEN base ELSE F[<<g[s \ {top[s]}], top[s]>>]]
        /\ \A s \in A : g[s] \in I[s]
    BY <2>1 DEF A
  <2>4. \A s \in A : h[s] = g[s]
    BY <2>2, <2>3
  <2>5. \A s \in B : s # {} => h[s \ {top[s]}] = g[s \ {top[s]}]
    BY <2>2, <2>4
  <2>6. h = [s \in B |-> IF s = {} THEN base ELSE F[<<h[s \ {top[s]}], top[s]>>]]
    <3>1. \A s \in B : h[s] = IF s = {} THEN base ELSE F[<<h[s \ {top[s]}], top[s]>>]
      BY <2>5
    <3>2. h = [s \in B |-> h[s]]
      OBVIOUS
    <3> HIDE DEF h
    <3> QED BY <3>1, <3>2
  <2>7. \A s \in B : h[s] \in I[s]
    BY <1>1, <2>2, <2>3
  <2> HIDE DEF h
  <2>8. Fills(h, B)
    BY <2>6, <2>7
  <2> HIDE DEF Fills
  <2> QED BY <2>8 DEF B
<1>6. \A n \in Nat : Table(n)
  <2> SUFFICES ASSUME Bad # {} PROVE FALSE
    OBVIOUS
  <2>1. PICK n \in Bad : \A m \in Bad : n <= m
    BY LeastNatural
  <2> HIDE DEF Table
  <2>2. n # 0
    BY <1>4
  <2>3. n - 1 \in Nat /\ Table(n - 1)
    BY <2>1, <2>2
  <2>4. Table((n - 1) + 1)
    BY <2>3, <1>5
  <2> QED BY <2>4
<1>7. Cardinality(S) \in Nat
  BY <1>1, FS_CardinalityType
<1>8. Upto(Cardinality(S)) = SUBSET S
  BY <1>2
<1>9. Table(Cardinality(S))
  BY <1>6, <1>7
<1>10. PICK g : Fills(g, SUBSET S)
  BY <1>8, <1>9
<1>11. g \in [SUBSET S -> V]
  BY <1>1, <1>10
<1>12. \A s \in SUBSET S : FoldEntry(g, s, base, F, top, I)
  BY <1>10 DEF FoldEntry
<1> QED BY <1>11, <1>12 DEF HasFoldTable

\* What holds at first and is kept from entry to entry of a table holds of the
\* last entry.
LEMMA TableWithin ==
  ASSUME NEW S, IsFiniteSet(S), NEW T, NEW top, NEW I,
         T[{}] \in I[{}],
         \A s \in SUBSET S : s # {} => top[s] \in s,
         \A s \in SUBSET S : s # {} =>
             (T[s \ {top[s]}] \in I[s \ {top[s]}] => T[s] \in I[s])
  PROVE  T[S] \in I[S]
<1> DEFINE Bad == {s \in SUBSET S : T[s] \notin I[s]}
<1>1. Bad = {}
  <2> SUFFICES ASSUME Bad # {} PROVE FALSE
    OBVIOUS
  <2>1. PICK s \in Bad : \A x \in s : s \ {x} \notin Bad
    BY SmallestSubset
  <2>2. s # {} /\ s \in SUBSET S /\ T[s] \notin I[s]
    BY <2>1
  <2>3. top[s] \in s /\ s \ {top[s]} \in SUBSET S
    BY <2>2
  <2>4. T[s \ {top[s]}] \in I[s \ {top[s]}]
    BY <2>1, <2>3
  <2> QED BY <2>2, <2>4
<1> QED BY <1>1

=============================================================================
