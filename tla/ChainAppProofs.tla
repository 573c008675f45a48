--------------------------- MODULE ChainAppProofs ---------------------------
(***************************************************************************)
(* For all accounts, validators, genesis files and widths of the integers: *)
(* coins, votes and rewards are accounted for, the staking keeper never    *)
(* exceeds max_validators, and a failed transaction other than a           *)
(* redelegation leaves every keeper as it was.                             *)
(***************************************************************************)
EXTENDS ChainApp, FiniteSetTheorems, WellFoundedInduction, TLAPS

(***************************************************************************)
(* int64 arithmetic.                                                       *)
(***************************************************************************)

\* A remainder is the only number in its range that differs by a multiple.
LEMMA Remainder ==
    ASSUME NEW N \in Nat \ {0}, NEW q \in Int, NEW r \in 0 .. N - 1
    PROVE  (q * N + r) % N = r
<1> DEFINE n == q * N + r
           d == n \div N
           m == n % N
<1>1. n \in Int
  OBVIOUS
<1>2. d \in Int /\ m \in 0 .. N - 1 /\ n = N * d + m
  <2> HIDE DEF n
  <2> QED BY <1>1
<1> HIDE DEF d, m
<1>3. (q - d) * N = m - r
  BY <1>2
<1>4. CASE q - d >= 1
  <2>1. (q - d) * N >= N
    BY <1>2, <1>4
  <2> QED BY <1>2, <1>3, <2>1
<1>5. CASE q - d <= -1
  <2>1. (d - q) * N >= N
    BY <1>2, <1>5
  <2>2. (d - q) * N = r - m
    BY <1>2, <1>3
  <2> QED BY <1>2, <2>1, <2>2
<1>6. CASE q = d
  BY <1>2, <1>6 DEF m
<1> QED
  BY <1>2, <1>4, <1>5, <1>6

\* What int64 arithmetic does: results stay in range, are right when they fit,
\* never exceed a true value that is not negative, and may be taken at any stage.
LEMMA WrapRange == ASSUME NEW n \in Int PROVE Wrap(n) \in Int64
  BY ChainBounds DEF Wrap, Int64

LEMMA WrapInt == ASSUME NEW n \in Int PROVE Wrap(n) \in Int
  BY WrapRange, ChainBounds DEF Int64

LEMMA WrapSame == ASSUME NEW n \in Int64 PROVE Wrap(n) = n
  BY ChainBounds DEF Wrap, Int64

LEMMA WrapBelow == ASSUME NEW n \in Nat PROVE Wrap(n) <= n
  BY ChainBounds DEF Wrap

LEMMA WrapShift ==
    ASSUME NEW n \in Int, NEW q \in Int
    PROVE  Wrap(n + q * (2 * MaxInt + 2)) = Wrap(n)
<1> DEFINE N == 2 * MaxInt + 2
           k == n + MaxInt + 1
           d == k \div N
           r == k % N
<1>1. N \in Nat \ {0} /\ k \in Int
  BY ChainBounds
<1>2. d \in Int /\ r \in 0 .. N - 1 /\ k = N * d + r
  <2> HIDE DEF N, k
  <2> QED BY <1>1
<1> HIDE DEF d, r
<1>3. n + q * N + MaxInt + 1 = (q + d) * N + r
  <2>1. n + q * N + MaxInt + 1 = k + q * N
    BY <1>1, ChainBounds
  <2> HIDE DEF k, N
  <2> QED BY <1>1, <1>2, <2>1
<1>4. ((q + d) * N + r) % N = r
  <2> HIDE DEF N
  <2> QED BY <1>1, <1>2, Remainder
<1> QED
  BY <1>3, <1>4, Zenon DEF Wrap, r

LEMMA WrapAdd == ASSUME NEW a \in Int, NEW b \in Int PROVE Wrap(Wrap(a) + b) = Wrap(a + b)
<1> DEFINE N == 2 * MaxInt + 2
           k == a + MaxInt + 1
           d == k \div N
<1>1. N \in Nat \ {0} /\ k \in Int
  BY ChainBounds
<1>2. d \in Int /\ k % N = k - d * N
  <2> HIDE DEF N, k
  <2> QED BY <1>1
<1>3. Wrap(a) = a + (-d) * N
  <2>1. Wrap(a) = (k % N) - (MaxInt + 1)
    BY DEF Wrap
  <2> HIDE DEF d, N
  <2> QED BY <1>1, <1>2, <2>1, ChainBounds
<1> HIDE DEF d, N
<1>4. Wrap(a) + b = (a + b) + (-d) * N
  BY <1>1, <1>2, <1>3
<1> QED
  BY <1>2, <1>4, WrapShift DEF N

(***************************************************************************)
(* Sums.                                                                   *)
(***************************************************************************)

\* What holds at 0, and at a number if it holds at the one below, holds up to n.
LEMMA Ascend ==
    ASSUME NEW n \in Nat, NEW Holds, 0 \in Holds,
           \A m \in Nat : m \in Holds => m + 1 \in Holds
    PROVE  n \in Holds
<1> DEFINE Below == {p \in Nat \X Nat : p[1] < p[2]}
           Fails == {m \in Nat : m \notin Holds}
<1>1. SUFFICES ASSUME Fails # {} PROVE FALSE
  BY Zenon
<1>2. IsWellFoundedOn(Below, Nat)
  BY NatLessThanWellFounded, Zenon DEF OpToRel
<1>3. PICK m \in Fails : \A y \in Fails : <<y, m>> \notin Below
  <2>1. Fails \subseteq Nat
    OBVIOUS
  <2> HIDE DEF Fails, Below
  <2> QED
    BY <1>1, <1>2, <2>1, WFMin, Zenon
<1>4. m \in Nat /\ m \notin Holds /\ m # 0
  OBVIOUS
<1>5. m - 1 \in Nat /\ <<m - 1, m>> \in Below /\ (m - 1) + 1 = m
  BY <1>4
<1>6. m - 1 \in Holds
  BY <1>3, <1>5, Zenon
<1> QED
  BY <1>4, <1>5, <1>6

\* The element that a sum takes first, and one turn of the sum.
First(s) == CHOOSE x \in s : TRUE

AddsUp(g, f, s) == g[s] = IF s = {} THEN 0 ELSE f[First(s)] + g[s \ {First(s)}]

LEMMA FirstSmaller ==
    ASSUME NEW s, IsFiniteSet(s), s # {}
    PROVE  /\ First(s) \in s /\ IsFiniteSet(s \ {First(s)})
           /\ Cardinality(s) \in Nat /\ Cardinality(s) > 0
           /\ Cardinality(s \ {First(s)}) = Cardinality(s) - 1
<1>1. First(s) \in s
  BY Zenon DEF First
<1> HIDE DEF First
<1> QED
  BY <1>1, FS_RemoveElement, FS_CardinalityType, FS_EmptySet

\* The recursion behind a sum over a finite set has a solution.
LEMMA SumExists ==
    ASSUME NEW D, IsFiniteSet(D), NEW f
    PROVE  \E g : \A s \in SUBSET D : AddsUp(g, f, s)
<1> DEFINE Upto(g, n) == \A s \in SUBSET D : Cardinality(s) <= n => AddsUp(g, f, s)
           Defined == {n \in Nat : \E g : Upto(g, n)}
<1>1. \A s \in SUBSET D : /\ IsFiniteSet(s) /\ Cardinality(s) \in Nat
                          /\ Cardinality(s) <= Cardinality(D)
                          /\ (Cardinality(s) = 0 <=> s = {})
  BY FS_Subset, FS_CardinalityType, FS_EmptySet
<1>2. 0 \in Defined
  <2> DEFINE g == [s \in SUBSET D |-> 0]
  <2>1. \A s \in SUBSET D : Cardinality(s) <= 0 => AddsUp(g, f, s)
    BY <1>1 DEF AddsUp
  <2>2. Upto(g, 0)
    BY <2>1
  <2> HIDE DEF Upto, g
  <2> QED
    BY <2>2
<1>3. ASSUME NEW n \in Nat, n \in Defined PROVE n + 1 \in Defined
  <2>1. PICK g : Upto(g, n)
    BY <1>3
  <2> DEFINE h == [s \in SUBSET D |-> IF Cardinality(s) <= n THEN g[s]
                                      ELSE f[First(s)] + g[s \ {First(s)}]]
  <2>2. ASSUME NEW s \in SUBSET D, Cardinality(s) <= n + 1 PROVE AddsUp(h, f, s)
    <3>1. CASE s = {}
      <4>1. Cardinality(s) <= n
        BY <1>1, <3>1
      <4>2. AddsUp(g, f, s)
        BY <2>1, <4>1
      <4> QED
        BY <3>1, <4>1, <4>2 DEF AddsUp
    <3>2. CASE s # {}
      <4> DEFINE r == s \ {First(s)}
      <4>1. r \in SUBSET D /\ Cardinality(r) <= n
        BY <1>1, <2>2, <3>2, FirstSmaller
      <4>2. h[r] = g[r]
        BY <4>1
      <4>3. h[s] = f[First(s)] + g[r]
        <5>1. CASE Cardinality(s) <= n
          <6>1. AddsUp(g, f, s)
            BY <2>1, <5>1
          <6> QED
            BY <3>2, <5>1, <6>1 DEF AddsUp
        <5>2. CASE ~(Cardinality(s) <= n)
          BY <5>2
        <5> QED
          BY <5>1, <5>2
      <4> HIDE DEF h
      <4> QED
        BY <3>2, <4>2, <4>3 DEF AddsUp
    <3> QED
      BY <3>1, <3>2
  <2> HIDE DEF h
  <2>3. Upto(h, n + 1)
    BY <2>2
  <2> HIDE DEF Upto
  <2> QED
    BY <2>3
<1>4. Cardinality(D) \in Defined
  <2>1. Cardinality(D) \in Nat
    BY <1>1
  <2> HIDE DEF Defined
  <2> QED
    BY <1>2, <1>3, <2>1, Ascend
<1>5. PICK g : Upto(g, Cardinality(D))
  BY <1>4
<1> QED
  BY <1>1, <1>5

\* SumFunctionOnSet is the end of that recursion.
LEMMA SumIsLast ==
    ASSUME NEW D, IsFiniteSet(D), NEW f
    PROVE  \E g : (\A s \in SUBSET D : AddsUp(g, f, s)) /\ SumFunctionOnSet(f, D) = g[D]
<1> DEFINE Adding(g) == g = [s \in SUBSET D |-> IF s = {} THEN 0
                                ELSE f[CHOOSE x \in s : TRUE] + g[s \ {CHOOSE x \in s : TRUE}]]
           sum == CHOOSE g : Adding(g)
<1>1. PICK g : \A s \in SUBSET D : AddsUp(g, f, s)
  BY SumExists
<1>2. Adding([s \in SUBSET D |-> g[s]])
  <2> DEFINE h == [s \in SUBSET D |-> g[s]]
  <2>1. ASSUME NEW s \in SUBSET D
        PROVE  h[s] = IF s = {} THEN 0
                      ELSE f[CHOOSE x \in s : TRUE] + h[s \ {CHOOSE x \in s : TRUE}]
    BY <1>1 DEF AddsUp, First
  <2>2. h = [s \in SUBSET D |-> IF s = {} THEN 0
                 ELSE f[CHOOSE x \in s : TRUE] + h[s \ {CHOOSE x \in s : TRUE}]]
    BY <2>1
  <2> HIDE DEF h
  <2>3. Adding(h)
    BY <2>2
  <2> QED
    BY <2>3 DEF h
<1>3. Adding(sum)
  <2> HIDE DEF Adding
  <2> QED
    BY <1>2, Zenon
<1>4. SumFunctionOnSet(f, D) = sum[D]
  BY DEF SumFunctionOnSet, FoldFunctionOnSet, MapThenFoldSet
<1>5. \A s \in SUBSET D : AddsUp(sum, f, s)
  <2> HIDE DEF sum
  <2> QED
    BY <1>3 DEF AddsUp, First
<1> QED
  BY <1>4, <1>5

\* It depends only on the values at the elements that are added up.
LEMMA SumUnique ==
    ASSUME NEW S, IsFiniteSet(S), NEW f, NEW e, \A x \in S : f[x] = e[x],
           NEW g, \A s \in SUBSET S : AddsUp(g, f, s),
           NEW h, \A s \in SUBSET S : AddsUp(h, e, s)
    PROVE  \A s \in SUBSET S : g[s] = h[s]
<1> DEFINE Same == {n \in Nat : \A s \in SUBSET S : Cardinality(s) = n => g[s] = h[s]}
<1>1. \A s \in SUBSET S : /\ IsFiniteSet(s) /\ Cardinality(s) \in Nat
                          /\ (Cardinality(s) = 0 <=> s = {})
  BY FS_Subset, FS_CardinalityType, FS_EmptySet
<1>2. 0 \in Same
  BY <1>1 DEF AddsUp
<1>3. ASSUME NEW n \in Nat, n \in Same PROVE n + 1 \in Same
  <2>1. ASSUME NEW s \in SUBSET S, Cardinality(s) = n + 1 PROVE g[s] = h[s]
    <3> DEFINE r == s \ {First(s)}
    <3>1. s # {}
      BY <1>1, <2>1
    <3>2. r \in SUBSET S /\ Cardinality(r) = n /\ First(s) \in s
      BY <1>1, <2>1, <3>1, FirstSmaller
    <3>3. g[r] = h[r]
      BY <1>3, <3>2
    <3>4. AddsUp(g, f, s) /\ AddsUp(h, e, s) /\ f[First(s)] = e[First(s)]
      BY <3>2
    <3> QED
      BY <3>1, <3>3, <3>4 DEF AddsUp
  <2> QED
    BY <2>1
<1>4. ASSUME NEW s \in SUBSET S PROVE g[s] = h[s]
  <2>1. Cardinality(s) \in Nat
    BY <1>1
  <2>2. Cardinality(s) \in Same
    <3> HIDE DEF Same
    <3> QED BY <1>2, <1>3, <2>1, Ascend
  <2> QED
    BY <2>2
<1> QED
  BY <1>4

LEMMA SumAgree ==
    ASSUME NEW S, IsFiniteSet(S), NEW f, NEW e, \A x \in S : f[x] = e[x]
    PROVE  SumFunctionOnSet(f, S) = SumFunctionOnSet(e, S)
<1>1. PICK g : (\A s \in SUBSET S : AddsUp(g, f, s)) /\ SumFunctionOnSet(f, S) = g[S]
  BY SumIsLast
<1>2. PICK h : (\A s \in SUBSET S : AddsUp(h, e, s)) /\ SumFunctionOnSet(e, S) = h[S]
  BY SumIsLast
<1>3. \A s \in SUBSET S : g[s] = h[s]
  BY <1>1, <1>2, SumUnique
<1> QED
  BY <1>1, <1>2, <1>3

\* A sum over part of a set is reached on the way to the sum over all of it.
LEMMA SumPart ==
    ASSUME NEW D, IsFiniteSet(D), NEW f, NEW g, \A s \in SUBSET D : AddsUp(g, f, s),
           NEW S \in SUBSET D
    PROVE  SumFunctionOnSet(f, S) = g[S]
<1>1. IsFiniteSet(S)
  BY FS_Subset
<1>2. PICK h : (\A s \in SUBSET S : AddsUp(h, f, s)) /\ SumFunctionOnSet(f, S) = h[S]
  BY <1>1, SumIsLast
<1>3. \A s \in SUBSET S : AddsUp(g, f, s)
  OBVIOUS
<1>4. \A s \in SUBSET S : g[s] = h[s]
  BY <1>1, <1>2, <1>3, SumUnique
<1> QED
  BY <1>2, <1>4

\* The first element is added to the sum of the others.
LEMMA SumTurn ==
    ASSUME NEW S, IsFiniteSet(S), NEW f
    PROVE  SumFunctionOnSet(f, S) =
               IF S = {} THEN 0 ELSE f[First(S)] + SumFunctionOnSet(f, S \ {First(S)})
<1>1. PICK g : (\A s \in SUBSET S : AddsUp(g, f, s)) /\ SumFunctionOnSet(f, S) = g[S]
  BY SumIsLast
<1>2. SumFunctionOnSet(f, S \ {First(S)}) = g[S \ {First(S)}]
  BY <1>1, SumPart
<1>3. AddsUp(g, f, S)
  BY <1>1
<1> QED
  BY <1>1, <1>2, <1>3 DEF AddsUp

\* A sum stays where addition does.
LEMMA SumClosed ==
    ASSUME NEW R, 0 \in R, \A u, v \in R : u + v \in R,
           NEW S, IsFiniteSet(S), NEW f, \A x \in S : f[x] \in R
    PROVE  SumFunctionOnSet(f, S) \in R
<1> DEFINE Holds == {n \in Nat : \A s \in SUBSET S :
                        Cardinality(s) = n => SumFunctionOnSet(f, s) \in R}
<1>1. \A s \in SUBSET S : /\ IsFiniteSet(s) /\ Cardinality(s) \in Nat
                          /\ (Cardinality(s) = 0 <=> s = {})
  BY FS_Subset, FS_CardinalityType, FS_EmptySet
<1>2. 0 \in Holds
  BY <1>1, SumTurn
<1>3. ASSUME NEW n \in Nat, n \in Holds PROVE n + 1 \in Holds
  <2>1. ASSUME NEW s \in SUBSET S, Cardinality(s) = n + 1 PROVE SumFunctionOnSet(f, s) \in R
    <3> DEFINE r == s \ {First(s)}
    <3>1. s # {}
      BY <1>1, <2>1
    <3>2. r \in SUBSET S /\ Cardinality(r) = n /\ First(s) \in s
      BY <1>1, <2>1, <3>1, FirstSmaller
    <3>3. SumFunctionOnSet(f, r) \in R /\ f[First(s)] \in R
      BY <1>3, <3>2
    <3>4. SumFunctionOnSet(f, s) = f[First(s)] + SumFunctionOnSet(f, r)
      BY <1>1, <3>1, SumTurn
    <3> QED
      BY <3>3, <3>4
  <2> QED
    BY <2>1
<1>4. Cardinality(S) \in Holds
  <2>1. Cardinality(S) \in Nat
    BY <1>1
  <2> HIDE DEF Holds
  <2> QED
    BY <1>2, <1>3, <2>1, Ascend
<1> QED
  BY <1>4

LEMMA SumInt ==
    ASSUME NEW S, IsFiniteSet(S), NEW f, \A x \in S : f[x] \in Int
    PROVE  SumFunctionOnSet(f, S) \in Int
<1>1. 0 \in Int /\ \A u, v \in Int : u + v \in Int
  OBVIOUS
<1> QED
  BY <1>1, SumClosed

LEMMA SumNat ==
    ASSUME NEW S, IsFiniteSet(S), NEW f, \A x \in S : f[x] \in Nat
    PROVE  SumFunctionOnSet(f, S) \in Nat
<1>1. 0 \in Nat /\ \A u, v \in Nat : u + v \in Nat
  OBVIOUS
<1> QED
  BY <1>1, SumClosed

LEMMA SumZero ==
    ASSUME NEW S, IsFiniteSet(S), NEW f, \A x \in S : f[x] = 0
    PROVE  SumFunctionOnSet(f, S) = 0
<1>1. 0 \in {0} /\ \A u, v \in {0} : u + v \in {0}
  OBVIOUS
<1>2. \A x \in S : f[x] \in {0}
  OBVIOUS
<1>3. SumFunctionOnSet(f, S) \in {0}
  BY <1>1, <1>2, SumClosed
<1> QED
  BY <1>3

\* Any element may be the first.
SumsAnyOrder(f, n) ==
    \A s : (IsFiniteSet(s) /\ Cardinality(s) = n /\ \A x \in s : f[x] \in Int) =>
        \A x \in s : SumFunctionOnSet(f, s) = f[x] + SumFunctionOnSet(f, s \ {x})

LEMMA SumStep ==
    ASSUME NEW f, NEW n \in Nat, SumsAnyOrder(f, n)
    PROVE  SumsAnyOrder(f, n + 1)
<1> SUFFICES ASSUME NEW s, IsFiniteSet(s), Cardinality(s) = n + 1, \A x \in s : f[x] \in Int
             PROVE  \A x \in s : SumFunctionOnSet(f, s) = f[x] + SumFunctionOnSet(f, s \ {x})
  BY DEF SumsAnyOrder
<1>1. s # {}
  BY FS_EmptySet
<1> DEFINE y == First(s)
<1>2. y \in s
  BY <1>1, FirstSmaller
<1>3. SumFunctionOnSet(f, s) = f[y] + SumFunctionOnSet(f, s \ {y})
  BY <1>1, SumTurn
<1> HIDE DEF y
<1>4. ASSUME NEW x \in s, NEW z \in s \ {x}
      PROVE  SumFunctionOnSet(f, s \ {x}) = f[z] + SumFunctionOnSet(f, (s \ {x}) \ {z})
  <2>1. IsFiniteSet(s \ {x}) /\ Cardinality(s \ {x}) = n
    BY FS_RemoveElement
  <2>2. \A w \in s \ {x} : f[w] \in Int
    OBVIOUS
  <2> QED
    BY <2>1, <2>2 DEF SumsAnyOrder
<1>5. ASSUME NEW x \in s, x # y
      PROVE  SumFunctionOnSet(f, s) = f[x] + SumFunctionOnSet(f, s \ {x})
  <2> DEFINE rest == (s \ {y}) \ {x}
  <2>1. SumFunctionOnSet(f, s \ {y}) = f[x] + SumFunctionOnSet(f, rest)
    BY <1>2, <1>4, <1>5
  <2>2. rest = (s \ {x}) \ {y}
    OBVIOUS
  <2>3. SumFunctionOnSet(f, s \ {x}) = f[y] + SumFunctionOnSet(f, rest)
    BY <1>2, <1>4, <1>5, <2>2
  <2>4. SumFunctionOnSet(f, rest) \in Int
    <3>1. IsFiniteSet(rest) /\ \A z \in rest : f[z] \in Int
      BY FS_Subset
    <3> HIDE DEF rest
    <3> QED
      BY <3>1, SumInt
  <2>5. f[x] \in Int /\ f[y] \in Int
    BY <1>2
  <2> HIDE DEF rest
  <2> QED
    BY <1>3, <2>1, <2>3, <2>4, <2>5
<1> QED
  BY <1>3, <1>5

LEMMA SumRemove ==
    ASSUME NEW S, IsFiniteSet(S), NEW f, \A x \in S : f[x] \in Int
    PROVE  \A x \in S : SumFunctionOnSet(f, S) = f[x] + SumFunctionOnSet(f, S \ {x})
<1> DEFINE Holds == {n \in Nat : SumsAnyOrder(f, n)}
<1>1. Cardinality(S) \in Nat
  BY FS_CardinalityType
<1>2. SumsAnyOrder(f, 0)
  BY SumTurn, FS_EmptySet DEF SumsAnyOrder
<1>3. \A n \in Nat : n \in Holds => n + 1 \in Holds
  BY SumStep
<1>4. Cardinality(S) \in Holds
  <2>1. 0 \in Holds
    BY <1>2
  <2> HIDE DEF Holds
  <2> QED
    BY <1>1, <1>3, <2>1, Ascend
<1> QED
  BY <1>4 DEF SumsAnyOrder

\* What one changed value changes in a sum.
LEMMA SumExcept ==
    ASSUME NEW D, IsFiniteSet(D), NEW f \in [D -> Int], NEW x \in D, NEW v \in Int
    PROVE  SumFunction([f EXCEPT ![x] = v]) = SumFunction(f) - f[x] + v
<1> DEFINE e == [f EXCEPT ![x] = v]
           rest == D \ {x}
<1>1. e \in [D -> Int] /\ e[x] = v /\ \A y \in rest : e[y] = f[y]
  OBVIOUS
<1>2. SumFunction(f) = SumFunctionOnSet(f, D) /\ SumFunction(e) = SumFunctionOnSet(e, D)
  <2>1. DOMAIN f = D /\ DOMAIN e = D
    OBVIOUS
  <2> HIDE DEF e
  <2> QED
    BY <2>1 DEF SumFunction
<1> HIDE DEF e
<1>3. IsFiniteSet(rest)
  BY FS_Subset
<1>4. SumFunctionOnSet(f, D) = f[x] + SumFunctionOnSet(f, rest)
  BY SumRemove
<1>5. SumFunctionOnSet(e, D) = e[x] + SumFunctionOnSet(e, rest)
  BY <1>1, SumRemove
<1>6. SumFunctionOnSet(f, rest) \in Int /\ SumFunctionOnSet(f, rest) = SumFunctionOnSet(e, rest)
  BY <1>1, <1>3, SumInt, SumAgree
<1>7. f[x] \in Int
  OBVIOUS
<1> QED
  BY <1>1, <1>2, <1>4, <1>5, <1>6, <1>7 DEF e

\* Of numbers that are not negative, neither one nor two exceed the sum.
LEMMA SumBounds ==
    ASSUME NEW S, IsFiniteSet(S), NEW f, \A x \in S : f[x] \in Nat
    PROVE  /\ SumFunctionOnSet(f, S) \in Nat
           /\ \A x \in S : f[x] <= SumFunctionOnSet(f, S)
           /\ \A x, y \in S : x # y => f[x] + f[y] <= SumFunctionOnSet(f, S)
<1>1. SumFunctionOnSet(f, S) \in Nat
  BY SumNat
<1>2. ASSUME NEW x \in S
      PROVE  /\ SumFunctionOnSet(f, S) = f[x] + SumFunctionOnSet(f, S \ {x})
             /\ SumFunctionOnSet(f, S \ {x}) \in Nat /\ f[x] \in Nat
  <2>1. IsFiniteSet(S \ {x}) /\ \A y \in S : f[y] \in Int
    BY FS_Subset
  <2> QED
    BY <2>1, SumRemove, SumNat
<1>3. ASSUME NEW x \in S, NEW y \in S, x # y PROVE f[x] + f[y] <= SumFunctionOnSet(f, S)
  <2> DEFINE r == S \ {x}
  <2>1. IsFiniteSet(r) /\ IsFiniteSet(r \ {y}) /\ y \in r
        /\ (\A z \in r : f[z] \in Int) /\ (\A z \in r \ {y} : f[z] \in Nat)
    BY <1>3, FS_Subset
  <2>2. SumFunctionOnSet(f, r) = f[y] + SumFunctionOnSet(f, r \ {y})
    BY <2>1, SumRemove
  <2>3. SumFunctionOnSet(f, r \ {y}) \in Nat
    BY <2>1, SumNat
  <2> QED
    BY <1>2, <2>2, <2>3
<1>4. ASSUME NEW x \in S PROVE f[x] <= SumFunctionOnSet(f, S)
  <2> DEFINE others == SumFunctionOnSet(f, S \ {x})
  <2>1. SumFunctionOnSet(f, S) = f[x] + others /\ others \in Nat /\ f[x] \in Nat
    BY <1>2
  <2> HIDE DEF others
  <2> QED
    BY <2>1
<1> QED
  BY <1>1, <1>3, <1>4

(***************************************************************************)
(* The staking keeper.                                                     *)
(***************************************************************************)

Keeper ==
    [maxValidators : Nat, validators : SUBSET Validators,
     delegations : [Addresses -> [Validators -> Int64]]]

\* ValidatorsCapped, for one state of the staking keeper.
Capped(k) ==
    /\ Cardinality(k.validators) <= k.maxValidators
    /\ \A d \in Addresses, v \in Validators : k.delegations[d][v] # 0 => v \in k.validators

StakingInv == staking \in Keeper /\ Capped(staking)

\* Booking an amount for a registered validator keeps the keeper sound.
LEMMA BookKeeps ==
    ASSUME NEW k \in Keeper, Capped(k), NEW d \in Addresses, NEW v \in Validators,
           NEW amount \in Int64, NEW vs \in SUBSET Validators,
           k.validators \subseteq vs, v \in vs, Cardinality(vs) <= k.maxValidators
    PROVE  LET after == [k EXCEPT !.validators = vs, !.delegations[d][v] = amount]
           IN  after \in Keeper /\ Capped(after)
<1> DEFINE after == [k EXCEPT !.validators = vs, !.delegations[d][v] = amount]
<1>1. /\ after.maxValidators = k.maxValidators /\ after.validators = vs
      /\ after.delegations = [k.delegations EXCEPT ![d][v] = amount]
      /\ after \in Keeper
  BY DEF Keeper
<1>2. \A e \in Addresses, w \in Validators :
          after.delegations[e][w] = k.delegations[e][w] \/ w = v
  BY <1>1 DEF Keeper
<1> QED
  BY <1>1, <1>2 DEF Capped

\* Delegate registers a validator only while there is room.
LEMMA DelegateKeeps ==
    ASSUME NEW k \in Keeper, Capped(k), NEW d \in Addresses, NEW v \in Validators,
           NEW amount \in Int
    PROVE  /\ Delegate(k, d, v, amount).keeper \in Keeper
           /\ Capped(Delegate(k, d, v, amount).keeper)
           /\ ~Delegate(k, d, v, amount).ok => Delegate(k, d, v, amount).keeper = k
<1> DEFINE room == Cardinality(k.validators) < k.maxValidators
           vs   == IF room THEN k.validators \cup {v} ELSE k.validators
<1>1. /\ k.validators \in SUBSET Validators /\ k.maxValidators \in Nat
      /\ k.delegations[d][v] \in Int
  BY DEF Keeper, Int64
<1>2. IsFiniteSet(k.validators) /\ Cardinality(k.validators) \in Nat
  BY <1>1, ChainSets, FS_Subset, FS_CardinalityType
<1>3. vs \in SUBSET Validators /\ k.validators \subseteq vs
  BY <1>1
<1>4. Cardinality(vs) <= k.maxValidators
  <2>1. CASE room /\ v \notin k.validators
    <3>1. Cardinality(k.validators \cup {v}) = Cardinality(k.validators) + 1
      BY <1>2, <2>1, FS_AddElement
    <3> QED
      BY <1>1, <1>2, <2>1, <3>1
  <2>2. CASE ~room \/ v \in k.validators
    <3>1. vs = k.validators
      BY <2>2
    <3> QED
      BY <3>1 DEF Capped
  <2> QED
    BY <2>1, <2>2
<1>5. CASE v \in vs
  <2>1. Wrap(k.delegations[d][v] + amount) \in Int64
    BY <1>1, WrapRange
  <2> DEFINE after == [k EXCEPT !.validators = vs,
                                !.delegations[d][v] = Wrap(k.delegations[d][v] + amount)]
  <2>2. after \in Keeper /\ Capped(after)
    <3> HIDE DEF vs
    <3> QED BY <1>3, <1>4, <1>5, <2>1, BookKeeps
  <2>3. Delegate(k, d, v, amount) = Result(TRUE, after)
    BY <1>5 DEF Delegate
  <2> HIDE DEF after
  <2> QED
    BY <2>2, <2>3 DEF Result
<1>6. CASE v \notin vs
  BY <1>6 DEF Delegate, Result
<1> QED
  BY <1>5, <1>6

\* Taking an amount away from a validator never makes a delegation appear.
LEMMA RedelegateKeeps ==
    ASSUME NEW k \in Keeper, Capped(k), NEW d \in Addresses,
           NEW from \in Validators, NEW to \in Validators, NEW amount \in Nat \ {0}
    PROVE  /\ Redelegate(k, d, from, to, amount).keeper \in Keeper
           /\ Capped(Redelegate(k, d, from, to, amount).keeper)
<1>1. CASE k.delegations[d][from] < amount
  BY <1>1 DEF Redelegate, Result
<1>2. CASE ~(k.delegations[d][from] < amount)
  <2>1. k.delegations[d][from] \in Int
    BY DEF Keeper, Int64
  <2>2. from \in k.validators
    BY <1>2, <2>1 DEF Capped
  <2>3. Wrap(k.delegations[d][from] - amount) \in Int64
    BY <2>1, WrapRange
  <2> DEFINE taken == [k EXCEPT !.delegations[d][from] = Wrap(k.delegations[d][from] - amount)]
  <2>4. taken = [k EXCEPT !.validators = k.validators,
                          !.delegations[d][from] = Wrap(k.delegations[d][from] - amount)]
    BY DEF Keeper
  <2>5. k.validators \in SUBSET Validators /\ Cardinality(k.validators) <= k.maxValidators
    BY DEF Keeper, Capped
  <2>6. taken \in Keeper /\ Capped(taken)
    <3> DEFINE left == Wrap(k.delegations[d][from] - amount)
    <3>1. left \in Int64
      BY <2>3
    <3> HIDE DEF left
    <3>2. LET after == [k EXCEPT !.validators = k.validators, !.delegations[d][from] = left]
          IN  after \in Keeper /\ Capped(after)
      BY <2>2, <2>5, <3>1, BookKeeps
    <3> QED
      BY <2>4, <3>2, Zenon DEF left
  <2>7. Redelegate(k, d, from, to, amount) = Delegate(taken, d, to, amount)
    BY <1>2 DEF Redelegate
  <2> HIDE DEF taken
  <2> QED
    BY <2>6, <2>7, DelegateKeeps
<1> QED
  BY <1>1, <1>2

(***************************************************************************)
(* The capacity of the validator set.                                      *)
(***************************************************************************)

\* A keeper without delegations is sound.
LEMMA EmptyKeeper ==
    ASSUME NEW n \in Nat
    PROVE  LET k == [maxValidators |-> n, validators |-> {},
                     delegations |-> [d \in Addresses |-> [v \in Validators |-> 0]]]
           IN  k \in Keeper /\ Capped(k)
  BY FS_EmptySet, ChainBounds DEF Keeper, Capped, Int64

LEMMA InitStaking == Init => StakingInv
  BY EmptyKeeper DEF Init, StakingInv

LEMMA GenesisStaking ==
    ASSUME StakingInv, NEW g \in Geneses, InitFromGenesis(g)
    PROVE  StakingInv'
<1>1. g.maxValidators \in Int
  BY GenesesAssumption DEF Genesis
<1>2. StakingInitGenesis(g).keeper \in Keeper /\ Capped(StakingInitGenesis(g).keeper)
  BY <1>1, EmptyKeeper DEF StakingInitGenesis, Result, StakingInv
<1>3. staking' = staking \/ staking' = StakingInitGenesis(g).keeper
  BY DEF InitFromGenesis
<1> QED
  BY <1>2, <1>3 DEF StakingInv, Capped

LEMMA StakingStep == StakingInv /\ [Next]_chainVars => StakingInv'
<1> SUFFICES ASSUME StakingInv, [Next]_chainVars PROVE StakingInv'
  OBVIOUS
<1> USE DEF StakingInv
<1>1. ASSUME NEW g \in Geneses, InitFromGenesis(g) PROVE StakingInv'
  BY <1>1, GenesisStaking
<1>2. ASSUME NEW d \in Addresses, NEW v \in Validators, NEW amount \in Amounts,
             StakingDelegate(d, v, amount)
      PROVE  StakingInv'
  <2>1. staking' = Delegate(staking, d, v, amount).keeper /\ amount \in Int
    BY <1>2, ChainBounds DEF StakingDelegate
  <2> QED
    BY <2>1, DelegateKeeps DEF Capped
<1>3. ASSUME NEW d \in Addresses, NEW from \in Validators, NEW to \in Validators,
             NEW amount \in Amounts, StakingRedelegate(d, from, to, amount)
      PROVE  StakingInv'
  <2>1. staking' = Redelegate(staking, d, from, to, amount).keeper /\ amount \in Nat \ {0}
    BY <1>3, ChainBounds DEF StakingRedelegate
  <2> QED
    BY <2>1, RedelegateKeeps DEF Capped
<1>4. CASE staking' = staking
  BY <1>4 DEF Capped
<1> QED
  BY <1>1, <1>2, <1>3, <1>4
  DEF Next, chainVars, keepers, Refuse, BankSend, GovSubmit, GovVote, GovTally, RewardsAdd,
      RewardsClaim

\* Never more validators than max_validators, and no delegation to anyone else
\* (Delegate, Redelegate and InitGenesis of x/staking).
THEOREM CapacityCorrect == Spec => []ValidatorsCapped
<1>1. StakingInv => ValidatorsCapped
  BY DEF StakingInv, Capped, ValidatorsCapped
<1> QED
  BY <1>1, InitStaking, StakingStep, PTL DEF Spec

(***************************************************************************)
(* Failed transactions.                                                    *)
(***************************************************************************)

\* The first transaction comes after the genesis, so no failed one precedes it.
FreshResponse == phase = "new" => response.ok

\* What FailureIsClean says of one step.
CleanStep == (~response'.ok /\ response'.type # "staking_redelegate") => UNCHANGED keepers

LEMMA FreshStep == FreshResponse /\ [Next]_chainVars => FreshResponse'
<1> SUFFICES ASSUME FreshResponse, [Next]_chainVars PROVE FreshResponse'
  OBVIOUS
<1>1. CASE UNCHANGED <<phase, response>>
  BY <1>1 DEF FreshResponse
<1>2. ASSUME NEW type, NEW ok, NEW result, Execute(type, ok, result) PROVE FreshResponse'
  BY <1>2 DEF Execute, FreshResponse
<1>3. ASSUME NEW g \in Geneses, InitFromGenesis(g) PROVE FreshResponse'
  BY <1>3 DEF InitFromGenesis, FreshResponse
<1>4. CASE UNCHANGED chainVars
  BY <1>1, <1>4 DEF chainVars
<1> QED
  BY <1>2, <1>3, <1>4
  DEF Next, Refuse, BankSend, StakingDelegate, StakingRedelegate, GovSubmit, GovVote, GovTally,
      RewardsAdd, RewardsClaim

LEMMA CleanSteps ==
    ASSUME StakingInv, FreshResponse, Next
    PROVE  CleanStep
<1>1. ASSUME NEW g \in Geneses, InitFromGenesis(g) PROVE CleanStep
  BY <1>1 DEF InitFromGenesis, FreshResponse, CleanStep
<1>2. CASE Refuse
  BY <1>2 DEF Refuse, CleanStep
<1>3. ASSUME NEW from \in Addresses, NEW to \in Addresses, NEW amount \in Amounts,
             BankSend(from, to, amount)
      PROVE  CleanStep
  <2>1. ~Send(from, to, amount).ok => Send(from, to, amount).keeper = bank
    BY DEF Send, Result
  <2> QED
    BY <1>3, <2>1 DEF BankSend, Execute, CleanStep, keepers
<1>4. ASSUME NEW d \in Addresses, NEW v \in Validators, NEW amount \in Amounts,
             StakingDelegate(d, v, amount)
      PROVE  CleanStep
  <2>1. amount \in Int
    BY ChainBounds
  <2>2. ~Delegate(staking, d, v, amount).ok => Delegate(staking, d, v, amount).keeper = staking
    BY <2>1, DelegateKeeps DEF StakingInv
  <2> QED
    BY <1>4, <2>2 DEF StakingDelegate, Execute, CleanStep, keepers
<1>5. ASSUME NEW d \in Addresses, NEW from \in Validators, NEW to \in Validators,
             NEW amount \in Amounts, StakingRedelegate(d, from, to, amount)
      PROVE  CleanStep
  BY <1>5 DEF StakingRedelegate, Execute, CleanStep
<1>6. CASE GovSubmit
  BY <1>6 DEF GovSubmit, Execute, CleanStep
<1>7. ASSUME NEW id \in 1 .. MaxProposals, NEW option \in Options, NEW weight \in Amounts,
             GovVote(id, option, weight)
      PROVE  CleanStep
  <2>1. ~Vote(id, option, weight).ok => Vote(id, option, weight).keeper = gov
    BY DEF Vote, Result
  <2> QED
    BY <1>7, <2>1 DEF GovVote, Execute, CleanStep, keepers
<1>8. ASSUME NEW id \in 1 .. MaxProposals, NEW votingPower \in Amounts, GovTally(id, votingPower)
      PROVE  CleanStep
  BY <1>8 DEF GovTally, CleanStep
<1>9. ASSUME NEW d \in Addresses, RewardsClaim(d) \/ \E amount \in Amounts : RewardsAdd(d, amount)
      PROVE  CleanStep
  BY <1>9 DEF RewardsClaim, RewardsAdd, Execute, CleanStep
<1> QED
  BY <1>1, <1>2, <1>3, <1>4, <1>5, <1>6, <1>7, <1>8, <1>9 DEF Next

\* ExecuteTx has no rollback, and needs none except for redelegations: Send,
\* Delegate and Vote check before they write.
THEOREM FailuresClean == Spec => FailureIsClean
<1>1. Init => FreshResponse
  BY DEF Init, FreshResponse
<1>2. StakingInv /\ FreshResponse /\ [Next]_chainVars =>
        [(~response'.ok /\ response'.type # "staking_redelegate") => UNCHANGED keepers]_chainVars
  BY CleanSteps DEF CleanStep
<1> QED
  BY <1>1, <1>2, InitStaking, StakingStep, FreshStep, PTL DEF Spec, FailureIsClean

(***************************************************************************)
(* Coins, votes and rewards.                                               *)
(***************************************************************************)

\* Adding up by owner and then over the owners is adding up everything.
LEMMA SumByOwner ==
    ASSUME NEW D, IsFiniteSet(D), NEW n \in Nat, NEW w, \A i \in 1 .. n : w[i] \in Int,
           NEW owner, \A i \in 1 .. n : owner[i] \in D
    PROVE  SumFunction([a \in D |-> SumFunctionOnSet(w, {i \in 1 .. n : owner[i] = a})])
               = SumFunctionOnSet(w, 1 .. n)
<1> DEFINE Of(a, m) == {i \in 1 .. m : owner[i] = a}
           Shares(m) == [a \in D |-> SumFunctionOnSet(w, Of(a, m))]
           Holds == {m \in Nat : m <= n => SumFunction(Shares(m)) = SumFunctionOnSet(w, 1 .. m)}
<1>1. ASSUME NEW m \in Nat, m <= n
      PROVE  /\ IsFiniteSet(1 .. m) /\ (\A i \in 1 .. m : w[i] \in Int)
             /\ \A a \in D : IsFiniteSet(Of(a, m))
             /\ Shares(m) \in [D -> Int]
  <2>1. IsFiniteSet(1 .. m)
    BY FS_Interval
  <2>2. \A i \in 1 .. m : w[i] \in Int
    BY <1>1
  <2>3. ASSUME NEW a \in D PROVE IsFiniteSet(Of(a, m)) /\ SumFunctionOnSet(w, Of(a, m)) \in Int
    <3>1. Of(a, m) \subseteq 1 .. m
      OBVIOUS
    <3>2. IsFiniteSet(Of(a, m)) /\ \A i \in Of(a, m) : w[i] \in Int
      BY <2>1, <2>2, <3>1, FS_Subset
    <3> HIDE DEF Of
    <3> QED
      BY <3>2, SumInt
  <2> HIDE DEF Of
  <2> QED
    BY <2>1, <2>2, <2>3
<1>2. 0 \in Holds
  <2>1. \A a \in D : Of(a, 0) = {} /\ 1 .. 0 = {}
    OBVIOUS
  <2>2. SumFunctionOnSet(w, {}) = 0
    BY FS_EmptySet, SumZero
  <2>3. Shares(0) = [a \in D |-> 0]
    BY <2>1, <2>2
  <2>4. SumFunction([a \in D |-> 0]) = 0
    <3> DEFINE z == [a \in D |-> 0]
    <3>1. DOMAIN z = D /\ \A a \in D : z[a] = 0
      OBVIOUS
    <3> HIDE DEF z
    <3>2. SumFunctionOnSet(z, D) = 0
      BY <3>1, SumZero
    <3>3. SumFunction(z) = 0
      BY <3>1, <3>2 DEF SumFunction
    <3> QED
      BY <3>3 DEF z
  <2>5. 1 .. 0 = {}
    OBVIOUS
  <2> QED
    BY <2>2, <2>3, <2>4, <2>5
<1>3. ASSUME NEW m \in Nat, m \in Holds PROVE m + 1 \in Holds
  <2> SUFFICES ASSUME m + 1 <= n
               PROVE  SumFunction(Shares(m + 1)) = SumFunctionOnSet(w, 1 .. m + 1)
    OBVIOUS
  <2> DEFINE k == m + 1
             o == owner[k]
  <2>1. k \in 1 .. n /\ k \in 1 .. k /\ m <= n /\ (1 .. k) \ {k} = 1 .. m /\ k \in Nat
    OBVIOUS
  <2>2. o \in D /\ w[k] \in Int
    BY <2>1
  <2>3. SumFunctionOnSet(w, 1 .. k) = w[k] + SumFunctionOnSet(w, 1 .. m)
    <3>1. IsFiniteSet(1 .. k) /\ \A i \in 1 .. k : w[i] \in Int
      BY <1>1, <2>1
    <3> HIDE DEF k
    <3>2. SumFunctionOnSet(w, 1 .. k) = w[k] + SumFunctionOnSet(w, (1 .. k) \ {k})
      BY <2>1, <3>1, SumRemove
    <3> QED
      BY <2>1, <3>2, Zenon
  <2>4. \A a \in D \ {o} : Of(a, k) = Of(a, m)
    BY <2>1
  <2>5. SumFunctionOnSet(w, Of(o, k)) = w[k] + SumFunctionOnSet(w, Of(o, m))
    <3>1. k \in Of(o, k) /\ Of(o, k) \ {k} = Of(o, m) /\ Of(o, k) \subseteq 1 .. k
      BY <2>1
    <3>2. IsFiniteSet(Of(o, k)) /\ \A i \in Of(o, k) : w[i] \in Int
      BY <1>1, <2>1, <2>2, <3>1
    <3> HIDE DEF Of, k
    <3> QED
      BY <3>1, <3>2, SumRemove
  <2>6. Shares(k) = [Shares(m) EXCEPT ![o] = Shares(m)[o] + w[k]]
    <3>1. Shares(m)[o] \in Int /\ Shares(m)[o] = SumFunctionOnSet(w, Of(o, m))
      BY <1>1, <2>1, <2>2
    <3>2. \A a \in D : Shares(k)[a] = IF a = o THEN Shares(m)[o] + w[k] ELSE Shares(m)[a]
      <4> HIDE DEF Of, k, o
      <4> QED
        BY <2>2, <2>4, <2>5, <3>1
    <3> HIDE DEF Of, k, o
    <3> QED
      BY <2>2, <3>2
  <2>7. SumFunction(Shares(k)) = SumFunction(Shares(m)) - Shares(m)[o] + (Shares(m)[o] + w[k])
    <3>1. Shares(m) \in [D -> Int]
      BY <1>1, <2>1
    <3>2. Shares(m)[o] + w[k] \in Int
      BY <2>2, <3>1
    <3> HIDE DEF Shares, k, o
    <3>3. SumFunction([Shares(m) EXCEPT ![o] = Shares(m)[o] + w[k]])
              = SumFunction(Shares(m)) - Shares(m)[o] + (Shares(m)[o] + w[k])
      BY <2>2, <3>1, <3>2, SumExcept
    <3> QED
      BY <2>6, <3>3, Zenon
  <2>8. SumFunction(Shares(m)) = SumFunctionOnSet(w, 1 .. m)
    BY <1>3, <2>1
  <2>9. SumFunctionOnSet(w, 1 .. m) \in Int /\ Shares(m)[o] \in Int
    <3>1. IsFiniteSet(1 .. m) /\ (\A i \in 1 .. m : w[i] \in Int) /\ Shares(m) \in [D -> Int]
      BY <1>1, <2>1
    <3> QED
      BY <2>2, <3>1, SumInt
  <2> HIDE DEF Shares, o
  <2> QED
    BY <2>2, <2>3, <2>7, <2>8, <2>9
<1>4. n \in Holds
  <2> HIDE DEF Holds
  <2> QED
    BY <1>2, <1>3, Ascend
<1> QED
  BY <1>4

\* Numbers up to n have a greatest one among them.
LEMMA Greatest ==
    ASSUME NEW n \in Nat, NEW T \in SUBSET (0 .. n), T # {}
    PROVE  \E x \in T : \A y \in T : y <= x
<1> DEFINE Holds == {m \in Nat : \A U \in SUBSET (0 .. m) :
                        U # {} => \E x \in U : \A y \in U : y <= x}
<1>1. 0 \in Holds
  <2>1. ASSUME NEW U \in SUBSET (0 .. 0), U # {} PROVE \E x \in U : \A y \in U : y <= x
    <3>1. \A y \in U : y = 0
      OBVIOUS
    <3>2. 0 \in U
      BY <2>1, <3>1, Zenon
    <3>3. \A y \in U : y <= 0
      BY <3>1
    <3> QED
      BY <3>2, <3>3, Zenon
  <2> QED
    BY <2>1
<1>2. ASSUME NEW m \in Nat, m \in Holds PROVE m + 1 \in Holds
  <2>1. ASSUME NEW U \in SUBSET (0 .. m + 1), U # {} PROVE \E x \in U : \A y \in U : y <= x
    <3>1. CASE m + 1 \in U
      BY <3>1
    <3>2. CASE m + 1 \notin U
      <4>1. U \in SUBSET (0 .. m)
        BY <3>2
      <4> QED
        BY <1>2, <2>1, <4>1
    <3> QED
      BY <3>1, <3>2
  <2> QED
    BY <2>1
<1>3. n \in Holds
  <2> HIDE DEF Holds
  <2> QED
    BY <1>1, <1>2, Ascend
<1> QED
  BY <1>3

\* bank.InitGenesis adds up the entries before the first that is refused.
BankKeeper == [sendEnabled : BOOLEAN, balances : [Addresses -> Int64]]

LEMMA ResultFields ==
    ASSUME NEW ok, NEW k
    PROVE  Result(ok, k).ok = ok /\ Result(ok, k).keeper = k
  BY DEF Result

SupplyOf(g) == SumFunction([i \in DOMAIN g.balances |-> g.balances[i].amount])

LEMMA GenesisBank ==
    ASSUME NEW g \in Geneses
    PROVE  /\ BankInitGenesis(g).keeper \in BankKeeper
           /\ SupplyOf(g) \in Int
           /\ (BankInitGenesis(g).ok /\ SupplyOf(g) <= MaxInt) =>
                /\ \A a \in Addresses : BankInitGenesis(g).keeper.balances[a] >= 0
                /\ SumFunction(BankInitGenesis(g).keeper.balances) = SupplyOf(g)
<1> DEFINE len == Len(g.balances)
           good == {n \in 0 .. len : \A i \in 1 .. n : g.balances[i].amount >= 0}
           last == CHOOSE n \in good : \A m \in good : m <= n
           of(a) == {i \in 1 .. last : g.balances[i].address = a}
           amount == [i \in 1 .. last |-> g.balances[i].amount]
           share(a) == SumFunctionOnSet(amount, of(a))
           keeper == [sendEnabled |-> g.sendEnabled,
                      balances    |-> [a \in Addresses |-> Wrap(share(a))]]
<1>1. /\ g \in Genesis /\ len \in Nat /\ DOMAIN g.balances = 1 .. len
      /\ g.sendEnabled \in BOOLEAN
      /\ \A i \in 1 .. len : g.balances[i].amount \in Int64 /\ g.balances[i].address \in Addresses
  <2>1. g \in Genesis
    BY GenesesAssumption
  <2>2. g.sendEnabled \in BOOLEAN /\ g.balances \in Seq([address : Addresses, amount : Int64])
    BY <2>1 DEF Genesis
  <2> DEFINE Entry == [address : Addresses, amount : Int64]
  <2>3. \A e \in Entry : e.address \in Addresses /\ e.amount \in Int64
    OBVIOUS
  <2>4. len \in Nat /\ DOMAIN g.balances = 1 .. len /\ \A i \in 1 .. len : g.balances[i] \in Entry
    <3> HIDE DEF Entry
    <3>1. g.balances \in Seq(Entry)
      BY <2>2 DEF Entry
    <3> QED
      BY <3>1
  <2> HIDE DEF Entry
  <2> QED
    BY <2>1, <2>2, <2>3, <2>4
<1>2. last \in good /\ last \in 0 .. len
  <2>1. 0 \in good /\ good \in SUBSET (0 .. len)
    BY <1>1
  <2>2. \E x \in good : \A y \in good : y <= x
    <3> HIDE DEF good, len
    <3> QED
      BY <1>1, <2>1, Greatest
  <2> HIDE DEF good
  <2> QED
    BY <2>1, <2>2
<1>3. BankInitGenesis(g) = Result(last = len, keeper)
  BY Zenon DEF BankInitGenesis
<1>4. (BankInitGenesis(g).ok <=> last = len) /\ BankInitGenesis(g).keeper = keeper
  <2> DEFINE ok == last = len
  <2>1. Result(ok, keeper).ok = ok /\ Result(ok, keeper).keeper = keeper
    <3> HIDE DEF ok, keeper
    <3> QED
      BY ResultFields
  <2>2. BankInitGenesis(g) = Result(ok, keeper)
    BY <1>3, Zenon
  <2> HIDE DEF last, len, keeper
  <2> QED
    BY <2>1, <2>2, Zenon
<1>5. last \in Nat /\ \A i \in 1 .. last :
          amount[i] \in Nat /\ amount[i] = g.balances[i].amount /\ g.balances[i].address \in Addresses
  <2>1. \A i \in 1 .. last : g.balances[i].amount >= 0
    BY <1>2
  <2> HIDE DEF last
  <2> QED
    BY <1>1, <1>2, <2>1, ChainBounds DEF Int64
<1> HIDE DEF last, good
<1>6. IsFiniteSet(1 .. last)
  BY <1>5, FS_Interval
<1>7. ASSUME NEW a \in Addresses PROVE share(a) \in Nat
  <2>1. of(a) \subseteq 1 .. last
    OBVIOUS
  <2>2. IsFiniteSet(of(a)) /\ \A i \in of(a) : amount[i] \in Nat
    BY <1>5, <1>6, <2>1, FS_Subset
  <2> HIDE DEF of, amount
  <2> QED
    BY <2>2, SumNat
<1>8. keeper \in BankKeeper
  <2>1. \A a \in Addresses : Wrap(share(a)) \in Int64
    BY <1>7, WrapRange
  <2> HIDE DEF share
  <2> QED
    BY <1>1, <2>1 DEF BankKeeper
<1>9. SupplyOf(g) \in Int
  <2> DEFINE all == [i \in DOMAIN g.balances |-> g.balances[i].amount]
  <2>1. DOMAIN all = 1 .. len /\ IsFiniteSet(1 .. len) /\ \A i \in 1 .. len : all[i] \in Int
    <3>1. IsFiniteSet(1 .. len)
      BY <1>1, FS_Interval
    <3> QED
      BY <1>1, <3>1, ChainBounds DEF Int64
  <2>2. SupplyOf(g) = SumFunction(all)
    BY DEF SupplyOf
  <2> HIDE DEF all
  <2> QED
    BY <2>1, <2>2, SumInt DEF SumFunction
<1>10. ASSUME last = len, SupplyOf(g) <= MaxInt
       PROVE  /\ \A a \in Addresses : keeper.balances[a] >= 0
              /\ SumFunction(keeper.balances) = SupplyOf(g)
  <2> DEFINE owner == [i \in 1 .. last |-> g.balances[i].address]
             shares == [a \in Addresses |-> share(a)]
  <2>1. SupplyOf(g) = SumFunctionOnSet(amount, 1 .. last)
    <3>1. [i \in DOMAIN g.balances |-> g.balances[i].amount] = amount
      BY <1>1, <1>10
    <3>2. DOMAIN amount = 1 .. last
      OBVIOUS
    <3> QED
      BY <3>1, <3>2, Zenon DEF SupplyOf, SumFunction
  <2>2. \A a \in Addresses : of(a) = {i \in 1 .. last : owner[i] = a}
    OBVIOUS
  <2>3. shares = [a \in Addresses |-> SumFunctionOnSet(amount, {i \in 1 .. last : owner[i] = a})]
    <3> HIDE DEF of, owner, amount
    <3> QED
      BY <2>2, Zenon
  <2>4. SumFunction(shares) = SumFunctionOnSet(amount, 1 .. last)
    <3>1. (\A i \in 1 .. last : amount[i] \in Int) /\ \A i \in 1 .. last : owner[i] \in Addresses
      BY <1>5
    <3>2. SumFunction([a \in Addresses |->
                          SumFunctionOnSet(amount, {i \in 1 .. last : owner[i] = a})])
              = SumFunctionOnSet(amount, 1 .. last)
      <4> HIDE DEF amount, owner
      <4> QED
        BY <1>5, <3>1, ChainSets, SumByOwner
    <3> QED
      BY <2>3, <3>2, Zenon
  <2>5. DOMAIN shares = Addresses /\ \A a \in Addresses : shares[a] \in Nat /\ shares[a] = share(a)
    BY <1>7
  <2> HIDE DEF shares
  <2>6. \A a \in Addresses : shares[a] <= SupplyOf(g)
    <3>1. SumFunction(shares) = SumFunctionOnSet(shares, Addresses)
      BY <2>5 DEF SumFunction
    <3>2. IsFiniteSet(Addresses) /\ \A a \in Addresses : shares[a] \in Nat
      BY <2>5, ChainSets
    <3>3. \A a \in Addresses : shares[a] <= SumFunctionOnSet(shares, Addresses)
      BY <3>2, SumBounds
    <3> HIDE DEF amount, owner
    <3> QED
      BY <2>1, <2>4, <3>1, <3>3
  <2>7. \A a \in Addresses : Wrap(share(a)) = shares[a]
    <3>1. \A a \in Addresses : shares[a] \in Int64
      <4> HIDE DEF amount, owner, share, len
      <4> QED
        BY <1>9, <1>10, <2>5, <2>6, ChainBounds DEF Int64
    <3> HIDE DEF share
    <3> QED
      BY <2>5, <3>1, WrapSame
  <2>8. keeper.balances = shares
    <3>1. shares = [a \in Addresses |-> shares[a]]
      BY DEF shares
    <3>2. keeper.balances = [a \in Addresses |-> Wrap(share(a))]
      BY Zenon
    <3> HIDE DEF share, keeper
    <3>3. [a \in Addresses |-> Wrap(share(a))] = [a \in Addresses |-> shares[a]]
      BY <2>7
    <3> QED
      BY <3>1, <3>2, <3>3, Zenon
  <2> HIDE DEF amount, owner, share, keeper
  <2> QED
    BY <2>1, <2>4, <2>5, <2>8
<1> HIDE DEF keeper, len
<1> QED
  BY <1>4, <1>8, <1>9, <1>10

Ledger ==
    [supply : Int, cast : Seq([Options -> Nat]), earned : [Addresses -> Nat],
     paid : [Addresses -> Int]]

Texts == Decimals \cup {NaN}

GovKeeper ==
    [params : Texts, quorum : {ParseFloat(text) : text \in Texts},
     proposals : Seq([Options -> Int64]), nextID : Nat]

\* The quorum is the one of the genesis file.
QuorumParsed == gov.quorum = ParseFloat(gov.params)

\* Each count is the sum of the weights that were cast, as an int64 holds it.
CastKept ==
    /\ Len(gov.proposals) = Len(ledger.cast)
    /\ gov.nextID = Len(ledger.cast) + 1
    /\ \A id \in 1 .. Len(ledger.cast), o \in Options :
         gov.proposals[id][o] = Wrap(ledger.cast[id][o])

\* RewardsPaidOnce, with neither side negative.
EarnedKept ==
    \A d \in Addresses : ledger.earned[d] <= MaxInt =>
        /\ ledger.paid[d] + rewards[d] = ledger.earned[d]
        /\ ledger.paid[d] >= 0 /\ rewards[d] >= 0

\* Nothing was cast or earned before the genesis.
Untouched ==
    phase = "new" =>
        /\ ledger.cast = <<>>
        /\ \A d \in Addresses : ledger.earned[d] = 0 /\ ledger.paid[d] = 0 /\ rewards[d] = 0

BankPart == bank \in BankKeeper /\ SupplyKept
GovPart == gov \in GovKeeper /\ CastKept /\ QuorumParsed
RewardPart == rewards \in [Addresses -> Int64] /\ EarnedKept
Rest == phase \in {"new", "running", "failed"} /\ response.type \in TxTypes

AccountInv == ledger \in Ledger /\ BankPart /\ GovPart /\ RewardPart /\ Untouched /\ Rest

LEMMA AmountsInt64 ==
    /\ Amounts \subseteq Nat \ {0} /\ Int64 \subseteq Int /\ 0 \in Int64
    /\ \A n \in Int : (n >= 0 /\ n <= MaxInt) => n \in Int64
    /\ \A n \in Int64 : n <= MaxInt
  BY ChainBounds DEF Int64

LEMMA InitAccounted == Init => AccountInv
<1> SUFFICES ASSUME Init PROVE AccountInv
  OBVIOUS
<1>1. ledger \in Ledger
  <2>1. <<>> \in Seq([Options -> Nat])
    OBVIOUS
  <2> QED
    BY <2>1 DEF Init, Ledger
<1>2. BankPart
  <2>1. bank \in BankKeeper
    BY AmountsInt64 DEF Init, BankKeeper
  <2> QED
    BY <2>1 DEF Init, BankPart, SupplyKept
<1>3. GovPart
  <2>1. <<>> \in Seq([Options -> Int64]) /\ <<0, 1>> \in Texts /\ <<0, 1>> # NaN
    BY DEF Texts, Decimals, NaN
  <2> DEFINE zero == <<0, 1>>
  <2>4. ParseFloat(zero) = zero /\ zero \in Texts
    BY <2>1 DEF ParseFloat, Float
  <2>5. gov = [params |-> zero, quorum |-> zero, proposals |-> <<>>, nextID |-> 1]
    BY DEF Init
  <2> HIDE DEF zero
  <2>2. gov \in GovKeeper /\ QuorumParsed
    BY <2>1, <2>4, <2>5 DEF GovKeeper, QuorumParsed
  <2>3. gov.proposals = <<>> /\ gov.nextID = 1 /\ ledger.cast = <<>>
    BY DEF Init
  <2> QED
    BY <2>2, <2>3 DEF GovPart, CastKept
<1>4. RewardPart /\ Untouched
  BY AmountsInt64 DEF Init, RewardPart, EarnedKept, Untouched
<1>5. Rest
  BY DEF Init, Rest, TxTypes
<1> QED
  BY <1>1, <1>2, <1>3, <1>4, <1>5 DEF AccountInv

\* Transfers: what one account loses the other gets, and no sum of two balances
\* exceeds the supply.
LEMMA SendKeeps ==
    ASSUME BankPart, phase = "running", ledger.supply \in Int,
           NEW from \in Addresses, NEW to \in Addresses, NEW amount \in Amounts,
           bank' = Send(from, to, amount).keeper, UNCHANGED <<phase, ledger>>
    PROVE  BankPart'
<1> DEFINE b == bank.balances
           less == Wrap(b[from] - amount)
           after == [b EXCEPT ![from] = less]
           more == Wrap(after[to] + amount)
<1>1. bank \in BankKeeper /\ b \in [Addresses -> Int64] /\ amount \in Nat \ {0}
  BY AmountsInt64 DEF BankPart, BankKeeper
<1>2. \A a \in Addresses : b[a] \in Int
  BY <1>1, AmountsInt64
<1>3. CASE bank' = bank
  BY <1>3 DEF BankPart, SupplyKept
<1>4. CASE bank' # bank
  <2>1. /\ from # to /\ b[from] >= amount
        /\ bank' = [bank EXCEPT !.balances = [after EXCEPT ![to] = more]]
    <3>1. from # to /\ ~(b[from] < amount) /\ Send(from, to, amount).keeper # bank
      BY <1>4 DEF Send, Result
    <3>2. Send(from, to, amount).keeper =
            [bank EXCEPT !.balances[from] = Wrap(@ - amount), !.balances[to] = Wrap(@ + amount)]
      BY <3>1 DEF Send, Result
    <3> DEFINE one == [bank EXCEPT !.balances[from] = less]
    <3>3. one = [bank EXCEPT !.balances = after]
      BY <1>1 DEF BankKeeper
    <3>4. one.balances = after
      BY <1>1, <3>3 DEF BankKeeper
    <3>5. Send(from, to, amount).keeper = [one EXCEPT !.balances[to] = Wrap(b[to] + amount)]
      BY <3>2
    <3>6. after[to] = b[to]
      BY <1>1, <3>1
    <3> HIDE DEF after, less
    <3>7. Send(from, to, amount).keeper = [bank EXCEPT !.balances = [after EXCEPT ![to] = more]]
      <4> HIDE DEF one
      <4>1. Send(from, to, amount).keeper = [one EXCEPT !.balances[to] = more]
        BY <3>5, <3>6
      <4> HIDE DEF more
      <4> QED
        BY <1>1, <3>3, <3>4, <4>1 DEF BankKeeper
    <3> QED
      BY <1>1, <1>2, <3>1, <3>7
  <2>2. less \in Int64 /\ after \in [Addresses -> Int64] /\ after[to] = b[to]
    BY <1>1, <1>2, <2>1, WrapRange
  <2>3. more \in Int64
    BY <1>1, <1>2, <2>2, AmountsInt64, WrapRange
  <2>4. bank' \in BankKeeper /\ bank'.balances = [after EXCEPT ![to] = more]
    <3> HIDE DEF less, more, after
    <3> QED
      BY <1>1, <2>1, <2>2, <2>3 DEF BankKeeper
  <2>5. ASSUME ledger.supply <= MaxInt
        PROVE  /\ \A a \in Addresses : bank'.balances[a] >= 0
               /\ SumFunction(bank'.balances) = ledger.supply
    <3>1. (\A a \in Addresses : b[a] >= 0) /\ SumFunction(b) = ledger.supply
      BY <2>5 DEF BankPart, SupplyKept
    <3>2. DOMAIN b = Addresses /\ IsFiniteSet(Addresses) /\ \A a \in Addresses : b[a] \in Nat
      BY <1>1, <1>2, <3>1, ChainSets
    <3>3. b[from] + b[to] <= ledger.supply
      <4>1. SumFunctionOnSet(b, Addresses) = ledger.supply
        BY <3>1, <3>2 DEF SumFunction
      <4>2. \A x, y \in Addresses : x # y => b[x] + b[y] <= SumFunctionOnSet(b, Addresses)
        <5> HIDE DEF b
        <5> QED
          BY <3>2, SumBounds
      <4> QED
        BY <2>1, <4>1, <4>2
    <3>4. less = b[from] - amount
      <4>1. b[from] - amount \in Int64
        <5>1. b[from] \in Int64 /\ b[from] <= MaxInt
          BY <1>1, AmountsInt64
        <5>2. b[from] - amount \in Int /\ b[from] - amount >= 0 /\ b[from] - amount <= MaxInt
          BY <1>1, <2>1, <3>2, <5>1, ChainBounds
        <5> QED
          BY <5>2, AmountsInt64
      <4> QED
        BY <4>1, WrapSame
    <3>5. more = b[to] + amount
      <4>1. b[to] + amount \in Int64
        BY <1>1, <2>1, <2>5, <3>2, <3>3, AmountsInt64, ChainBounds
      <4> QED
        BY <2>2, <4>1, WrapSame
    <3>6. b \in [Addresses -> Int] /\ after \in [Addresses -> Int] /\ less \in Int /\ more \in Int
      BY <1>1, <2>2, <2>3, AmountsInt64
    <3> HIDE DEF less, more
    <3>7. SumFunction(after) = SumFunction(b) - b[from] + less
      BY <3>2, <3>6, SumExcept
    <3> HIDE DEF after
    <3>8. SumFunction(bank'.balances) = SumFunction(after) - after[to] + more
      <4>1. SumFunction([after EXCEPT ![to] = more]) = SumFunction(after) - after[to] + more
        BY <3>2, <3>6, SumExcept
      <4> QED
        BY <2>4, <4>1, Zenon
    <3>9. SumFunction(bank'.balances) = ledger.supply
      BY <1>1, <1>2, <2>2, <3>1, <3>4, <3>5, <3>7, <3>8
    <3>10. \A a \in Addresses : bank'.balances[a] >= 0
      BY <1>1, <2>1, <2>4, <3>2, <3>4, <3>5 DEF after
    <3> QED
      BY <3>9, <3>10
  <2> QED
    BY <2>4, <2>5 DEF BankPart, SupplyKept
<1> QED
  BY <1>3, <1>4

\* The keepers of the genesis, where it succeeds and where it fails half way.
LEMMA GenesisAccounted ==
    ASSUME AccountInv, NEW g \in Geneses, InitFromGenesis(g)
    PROVE  AccountInv'
<1>1. /\ phase = "new" /\ phase' \in {"running", "failed"}
      /\ phase' = "running" => bank' = BankInitGenesis(g).keeper /\ BankInitGenesis(g).ok
      /\ bank' = BankInitGenesis(g).keeper \/ bank' = bank
      /\ rewards' = rewards \/ rewards' = [d \in Addresses |-> 0]
      /\ gov' = gov \/ gov' = GovInitGenesis(g).keeper
      /\ ledger' = [ledger EXCEPT !.supply = SupplyOf(g)] /\ response' = response
  BY DEF InitFromGenesis, SupplyOf
<1>2. SupplyOf(g) \in Int /\ BankInitGenesis(g).keeper \in BankKeeper
  BY GenesisBank
<1>3. /\ ledger' \in Ledger /\ ledger'.supply = SupplyOf(g) /\ ledger'.cast = ledger.cast
      /\ ledger'.earned = ledger.earned /\ ledger'.paid = ledger.paid
  BY <1>1, <1>2 DEF AccountInv, Ledger
<1>4. ledger.cast = <<>> /\ \A d \in Addresses : ledger.earned[d] = 0 /\ ledger.paid[d] = 0
                                                 /\ rewards[d] = 0
  BY <1>1 DEF AccountInv, Untouched
<1>5. BankPart'
  <2>1. bank' \in BankKeeper
    BY <1>1, <1>2 DEF AccountInv, BankPart
  <2>2. ASSUME phase' = "running", ledger'.supply <= MaxInt
        PROVE  /\ \A a \in Addresses : bank'.balances[a] >= 0
               /\ SumFunction(bank'.balances) = ledger'.supply
    BY <1>1, <1>3, <2>2, GenesisBank
  <2> QED
    BY <2>1, <2>2 DEF BankPart, SupplyKept
<1>6. GovPart'
  <2>1. /\ gov.proposals = <<>> /\ gov.nextID = 1 /\ gov \in GovKeeper
        /\ gov.quorum = ParseFloat(gov.params)
    <3>1. /\ gov \in GovKeeper /\ Len(gov.proposals) = 0 /\ gov.nextID = 1
          /\ gov.quorum = ParseFloat(gov.params)
      BY <1>4 DEF AccountInv, GovPart, CastKept, QuorumParsed
    <3> QED
      BY <3>1 DEF GovKeeper
  <2>2. /\ GovInitGenesis(g).keeper \in GovKeeper
        /\ GovInitGenesis(g).keeper.proposals = <<>> /\ GovInitGenesis(g).keeper.nextID = 1
        /\ GovInitGenesis(g).keeper.quorum = ParseFloat(GovInitGenesis(g).keeper.params)
    <3>1. g.quorum \in Texts
      BY GenesesAssumption DEF Genesis, Texts
    <3>2. <<>> \in Seq([Options -> Int64])
      OBVIOUS
    <3> DEFINE new == [params |-> g.quorum, quorum |-> ParseFloat(g.quorum),
                       proposals |-> <<>>, nextID |-> 1]
    <3>3. /\ new \in GovKeeper /\ new.proposals = <<>> /\ new.nextID = 1
          /\ new.quorum = ParseFloat(new.params)
      BY <3>1, <3>2 DEF GovKeeper
    <3>4. GovInitGenesis(g).keeper = new \/ GovInitGenesis(g).keeper = gov
      BY DEF GovInitGenesis, Result
    <3> HIDE DEF new
    <3> QED
      BY <2>1, <3>3, <3>4
  <2>3. /\ gov' \in GovKeeper /\ gov'.proposals = <<>> /\ gov'.nextID = 1
        /\ gov'.quorum = ParseFloat(gov'.params)
    BY <1>1, <2>1, <2>2
  <2> QED
    BY <1>3, <1>4, <2>3 DEF GovPart, CastKept, QuorumParsed
<1>7. RewardPart'
  <2>1. rewards' \in [Addresses -> Int64] /\ \A d \in Addresses : rewards'[d] = 0
    BY <1>1, <1>4, AmountsInt64 DEF AccountInv, RewardPart
  <2> QED
    BY <1>3, <1>4, <2>1 DEF RewardPart, EarnedKept
<1>8. Untouched' /\ Rest'
  BY <1>1 DEF AccountInv, Untouched, Rest
<1> QED
  BY <1>3, <1>5, <1>6, <1>7, <1>8 DEF AccountInv

\* A new proposal starts without votes, and leaves the others' counts alone.
LEMMA SubmitKeeps ==
    ASSUME AccountInv, gov' = SubmitProposal,
           ledger' = [ledger EXCEPT !.cast = Append(@, NoVotes)]
    PROVE  ledger' \in Ledger /\ GovPart'
<1> DEFINE n == Len(ledger.cast)
           votes == [i \in 1 .. n + 1 |-> IF i = n + 1 THEN NoVotes ELSE gov.proposals[i]]
<1>1. /\ ledger \in Ledger /\ ledger.cast \in Seq([Options -> Nat]) /\ n \in Nat
      /\ gov \in GovKeeper /\ gov.nextID = n + 1
      /\ gov.proposals \in Seq([Options -> Int64]) /\ Len(gov.proposals) = n
      /\ NoVotes \in [Options -> Nat] /\ NoVotes \in [Options -> Int64]
      /\ \A o \in Options : NoVotes[o] = 0
  BY AmountsInt64 DEF AccountInv, GovPart, CastKept, GovKeeper, Ledger, NoVotes
<1>2. Wrap(0) = 0
  BY AmountsInt64, WrapSame
<1> HIDE DEF NoVotes
<1>3. ledger' \in Ledger /\ ledger'.cast = Append(ledger.cast, NoVotes)
  <2> DEFINE longer == Append(ledger.cast, NoVotes)
  <2>1. longer \in Seq([Options -> Nat])
    BY <1>1
  <2> HIDE DEF longer
  <2>2. ledger' = [ledger EXCEPT !.cast = longer]
    BY DEF longer
  <2>3. ledger' \in Ledger /\ ledger'.cast = longer
    BY <1>1, <2>1, <2>2 DEF Ledger
  <2> QED
    BY <2>3 DEF longer
<1>4. votes \in Seq([Options -> Int64]) /\ Len(votes) = n + 1
  <2>1. \A i \in 1 .. n + 1 : votes[i] \in [Options -> Int64]
    BY <1>1
  <2>2. votes \in [1 .. n + 1 -> [Options -> Int64]]
    BY <2>1
  <2> HIDE DEF votes, n
  <2> QED
    BY <1>1, <2>2
<1>5. gov' = [gov EXCEPT !.proposals = votes, !.nextID = n + 2]
  BY <1>1 DEF SubmitProposal, GovKeeper
<1>6. /\ gov' \in GovKeeper /\ gov'.proposals = votes /\ gov'.nextID = n + 2
      /\ gov'.params = gov.params /\ gov'.quorum = gov.quorum
  <2> DEFINE next == n + 2
  <2>1. next \in Nat
    BY <1>1
  <2> HIDE DEF votes, n, next
  <2>2. gov' = [gov EXCEPT !.proposals = votes, !.nextID = next]
    BY <1>5 DEF next
  <2>3. /\ gov' \in GovKeeper /\ gov'.proposals = votes /\ gov'.nextID = next
        /\ gov'.params = gov.params /\ gov'.quorum = gov.quorum
    BY <1>1, <1>4, <2>1, <2>2 DEF GovKeeper
  <2> QED
    BY <2>3 DEF next
<1>7. Len(ledger'.cast) = n + 1 /\ \A id \in 1 .. n + 1 :
          ledger'.cast[id] = IF id = n + 1 THEN NoVotes ELSE ledger.cast[id]
  BY <1>1, <1>3
<1>8. ASSUME NEW id \in 1 .. n + 1, NEW o \in Options
      PROVE  votes[id][o] = Wrap(ledger'.cast[id][o])
  <2>1. CASE id = n + 1
    BY <1>1, <1>2, <1>7, <2>1
  <2>2. CASE id # n + 1
    <3>1. id \in 1 .. n
      BY <1>1, <2>2
    <3>2. gov.proposals[id][o] = Wrap(ledger.cast[id][o])
      BY <3>1 DEF AccountInv, GovPart, CastKept
    <3> QED
      BY <1>7, <2>2, <3>2
  <2> QED
    BY <2>1, <2>2
<1> HIDE DEF votes
<1>9. QuorumParsed'
  BY <1>6 DEF AccountInv, GovPart, QuorumParsed
<1> QED
  BY <1>1, <1>3, <1>4, <1>6, <1>7, <1>8, <1>9 DEF GovPart, CastKept

\* A vote adds its weight to one count of one proposal.
LEMMA VoteKeeps ==
    ASSUME AccountInv, NEW id, NEW option \in Options, NEW weight \in Amounts,
           id \in DOMAIN gov.proposals,
           gov' = [gov EXCEPT !.proposals[id][option] = Wrap(@ + weight)],
           ledger' = [ledger EXCEPT !.cast[id][option] = @ + weight]
    PROVE  ledger' \in Ledger /\ GovPart'
<1> DEFINE n == Len(ledger.cast)
           cast == ledger.cast
           votes == gov.proposals
           more == cast[id][option] + weight
           count == Wrap(votes[id][option] + weight)
           castAfter == [cast EXCEPT ![id] = [cast[id] EXCEPT ![option] = more]]
           votesAfter == [votes EXCEPT ![id] = [votes[id] EXCEPT ![option] = count]]
<1>1. /\ ledger \in Ledger /\ cast \in Seq([Options -> Nat]) /\ n \in Nat
      /\ gov \in GovKeeper /\ gov.nextID = n + 1
      /\ votes \in Seq([Options -> Int64]) /\ Len(votes) = n /\ weight \in Nat
  BY AmountsInt64 DEF AccountInv, GovPart, CastKept, GovKeeper, Ledger
<1>2. id \in 1 .. n
  BY <1>1
<1>3. cast[id] \in [Options -> Nat] /\ votes[id] \in [Options -> Int64]
  BY <1>1, <1>2
<1>4. cast[id][option] \in Nat /\ votes[id][option] \in Int /\ more \in Nat
  BY <1>1, <1>3, AmountsInt64
<1>5. votes[id][option] = Wrap(cast[id][option])
  BY <1>2 DEF AccountInv, GovPart, CastKept
<1>6. count \in Int64 /\ count = Wrap(more)
  <2>1. Wrap(votes[id][option] + weight) = Wrap(cast[id][option] + weight)
    BY <1>1, <1>4, <1>5, WrapAdd
  <2> QED
    BY <1>1, <1>4, <2>1, WrapRange
<1>7. gov' = [gov EXCEPT !.proposals = votesAfter]
  BY <1>1 DEF GovKeeper
<1>8. ledger' = [ledger EXCEPT !.cast = castAfter]
  BY <1>1 DEF Ledger
<1> HIDE DEF more, count
<1>9. castAfter \in Seq([Options -> Nat]) /\ Len(castAfter) = n
  <2> DEFINE row == [cast[id] EXCEPT ![option] = more]
  <2>1. row \in [Options -> Nat]
    BY <1>3, <1>4
  <2> HIDE DEF row
  <2>2. [cast EXCEPT ![id] = row] \in Seq([Options -> Nat]) /\ Len([cast EXCEPT ![id] = row]) = n
    BY <1>1, <1>2, <2>1
  <2> QED
    BY <2>2 DEF row
<1>10. votesAfter \in Seq([Options -> Int64]) /\ Len(votesAfter) = n
  <2> DEFINE row == [votes[id] EXCEPT ![option] = count]
  <2>1. row \in [Options -> Int64]
    BY <1>3, <1>6
  <2> HIDE DEF row
  <2>2. [votes EXCEPT ![id] = row] \in Seq([Options -> Int64]) /\ Len([votes EXCEPT ![id] = row]) = n
    BY <1>1, <1>2, <2>1
  <2> QED
    BY <2>2 DEF row
<1>11. ASSUME NEW k \in 1 .. n, NEW o \in Options PROVE votesAfter[k][o] = Wrap(castAfter[k][o])
  <2>1. votes[k][o] = Wrap(cast[k][o])
    BY DEF AccountInv, GovPart, CastKept
  <2>2. castAfter[k][o] = IF k = id /\ o = option THEN more ELSE cast[k][o]
    BY <1>1, <1>2, <1>3
  <2>3. votesAfter[k][o] = IF k = id /\ o = option THEN count ELSE votes[k][o]
    BY <1>1, <1>2, <1>3
  <2> QED
    BY <1>6, <2>1, <2>2, <2>3
<1> HIDE DEF castAfter, votesAfter
<1>12. ledger' \in Ledger /\ ledger'.cast = castAfter
  BY <1>1, <1>8, <1>9 DEF Ledger
<1>13. gov' \in GovKeeper /\ gov'.proposals = votesAfter /\ gov'.nextID = gov.nextID
  BY <1>1, <1>7, <1>10 DEF GovKeeper
<1>14. /\ Len(gov'.proposals) = Len(ledger'.cast) /\ gov'.nextID = Len(ledger'.cast) + 1
       /\ Len(ledger'.cast) = n
  BY <1>1, <1>9, <1>10, <1>12, <1>13
<1>15. \A k \in 1 .. Len(ledger'.cast), o \in Options :
           gov'.proposals[k][o] = Wrap(ledger'.cast[k][o])
  BY <1>11, <1>12, <1>13, <1>14
<1>16. QuorumParsed'
  <2>1. gov'.params = gov.params /\ gov'.quorum = gov.quorum
    BY <1>1, <1>7 DEF GovKeeper
  <2> QED
    BY <2>1 DEF AccountInv, GovPart, QuorumParsed
<1> QED
  BY <1>12, <1>13, <1>14, <1>15, <1>16 DEF GovPart, CastKept

\* What is earned is claimable, and a claim turns all of it into what is paid.
LEMMA AddKeeps ==
    ASSUME AccountInv, NEW d \in Addresses, NEW amount \in Amounts,
           rewards' = [rewards EXCEPT ![d] = Wrap(@ + amount)],
           ledger' = [ledger EXCEPT !.earned[d] = @ + amount]
    PROVE  ledger' \in Ledger /\ RewardPart'
<1> DEFINE total == ledger.earned[d] + amount
           earned == [ledger.earned EXCEPT ![d] = total]
           left == Wrap(rewards[d] + amount)
<1>1. /\ ledger \in Ledger /\ ledger.earned \in [Addresses -> Nat]
      /\ ledger.paid \in [Addresses -> Int]
      /\ rewards \in [Addresses -> Int64] /\ rewards[d] \in Int /\ amount \in Nat
  BY AmountsInt64 DEF AccountInv, Ledger, RewardPart
<1>2. total \in Nat /\ earned \in [Addresses -> Nat] /\ left \in Int64
  BY <1>1, WrapRange
<1>3. ledger' = [ledger EXCEPT !.earned = earned]
  BY <1>1 DEF Ledger
<1> HIDE DEF left
<1>4. ledger' \in Ledger /\ ledger'.earned = earned /\ ledger'.paid = ledger.paid
  <2> HIDE DEF earned
  <2> QED
    BY <1>1, <1>2, <1>3 DEF Ledger
<1>5. rewards' \in [Addresses -> Int64] /\ rewards' = [rewards EXCEPT ![d] = left]
  BY <1>1, <1>2 DEF left
<1>6. ASSUME NEW e \in Addresses, earned[e] <= MaxInt
      PROVE  /\ ledger.paid[e] + rewards'[e] = earned[e]
             /\ ledger.paid[e] >= 0 /\ rewards'[e] >= 0
  <2>1. CASE e # d
    BY <1>1, <1>5, <1>6, <2>1 DEF AccountInv, RewardPart, EarnedKept
  <2>2. CASE e = d
    <3>1. ledger.earned[d] \in Nat /\ ledger.paid[d] \in Int /\ total <= MaxInt
      BY <1>1, <1>6, <2>2
    <3>2. ledger.earned[d] <= MaxInt
      BY <1>1, <3>1, ChainBounds
    <3>3. ledger.paid[d] + rewards[d] = ledger.earned[d] /\ ledger.paid[d] >= 0 /\ rewards[d] >= 0
      BY <3>2 DEF AccountInv, RewardPart, EarnedKept
    <3>4. rewards[d] + amount >= 0 /\ rewards[d] + amount <= MaxInt
      BY <1>1, <3>1, <3>3, ChainBounds
    <3>5. left = rewards[d] + amount
      BY <1>1, <3>4, AmountsInt64, WrapSame DEF left
    <3>6. rewards'[d] = left /\ earned[d] = total
      BY <1>1, <1>5
    <3> QED
      BY <1>1, <2>2, <3>1, <3>3, <3>4, <3>5, <3>6
  <2> QED
    BY <2>1, <2>2
<1> QED
  BY <1>4, <1>5, <1>6 DEF RewardPart, EarnedKept

LEMMA ClaimKeeps ==
    ASSUME AccountInv, NEW d \in Addresses, rewards' = ClaimReward(d),
           ledger' = [ledger EXCEPT !.paid[d] = @ + rewards[d]]
    PROVE  ledger' \in Ledger /\ RewardPart'
<1> DEFINE total == ledger.paid[d] + rewards[d]
           paid == [ledger.paid EXCEPT ![d] = total]
<1>1. /\ ledger \in Ledger /\ ledger.earned \in [Addresses -> Nat]
      /\ ledger.paid \in [Addresses -> Int]
      /\ rewards \in [Addresses -> Int64] /\ rewards[d] \in Int
  BY AmountsInt64 DEF AccountInv, Ledger, RewardPart
<1>2. total \in Int /\ paid \in [Addresses -> Int]
  BY <1>1
<1>3. ledger' = [ledger EXCEPT !.paid = paid]
  BY <1>1 DEF Ledger
<1>4. ledger' \in Ledger /\ ledger'.paid = paid /\ ledger'.earned = ledger.earned
  <2> HIDE DEF paid
  <2> QED
    BY <1>1, <1>2, <1>3 DEF Ledger
<1>5. rewards' \in [Addresses -> Int64] /\ rewards' = [rewards EXCEPT ![d] = 0]
  BY <1>1, AmountsInt64 DEF ClaimReward
<1>6. ASSUME NEW e \in Addresses, ledger.earned[e] <= MaxInt
      PROVE  /\ paid[e] + rewards'[e] = ledger.earned[e]
             /\ paid[e] >= 0 /\ rewards'[e] >= 0
  <2>1. /\ ledger.paid[e] + rewards[e] = ledger.earned[e]
        /\ ledger.paid[e] >= 0 /\ rewards[e] >= 0
        /\ ledger.earned[e] \in Nat
    BY <1>1, <1>6 DEF AccountInv, RewardPart, EarnedKept
  <2>2. CASE e # d
    BY <1>1, <1>5, <2>1, <2>2
  <2>3. CASE e = d
    <3>1. paid[e] = total /\ rewards'[e] = 0
      BY <1>1, <1>5, <2>3
    <3> QED
      BY <1>2, <2>1, <2>3, <3>1
  <2> QED
    BY <2>2, <2>3
<1> QED
  BY <1>4, <1>5, <1>6 DEF RewardPart, EarnedKept

\* Every transaction keeps the accounts.
LEMMA AccountStep == AccountInv /\ [Next]_chainVars => AccountInv'
<1> SUFFICES ASSUME AccountInv, [Next]_chainVars PROVE AccountInv'
  OBVIOUS
<1>1. ledger \in Ledger /\ BankPart /\ GovPart /\ RewardPart /\ Untouched /\ Rest
  BY DEF AccountInv
<1>2. ASSUME UNCHANGED <<bank, phase>>, ledger'.supply = ledger.supply PROVE BankPart'
  BY <1>1, <1>2 DEF BankPart, SupplyKept
<1>3. ASSUME UNCHANGED gov, ledger'.cast = ledger.cast PROVE GovPart'
  BY <1>1, <1>3 DEF GovPart, CastKept, QuorumParsed
<1>4. ASSUME UNCHANGED rewards, ledger'.earned = ledger.earned, ledger'.paid = ledger.paid
      PROVE  RewardPart'
  BY <1>1, <1>4 DEF RewardPart, EarnedKept
<1>5. ASSUME NEW type \in TxTypes, NEW ok, NEW result, Execute(type, ok, result)
      PROVE  phase = "running" /\ phase' = phase /\ Rest' /\ Untouched'
  BY <1>5 DEF Execute, Rest, Untouched
<1>6. ASSUME NEW type \in TxTypes, NEW ok, NEW result, Execute(type, ok, result),
             UNCHANGED <<bank, rewards, gov, ledger>>
      PROVE  AccountInv'
  BY <1>1, <1>2, <1>3, <1>4, <1>5, <1>6 DEF AccountInv
<1>7. ASSUME NEW g \in Geneses, InitFromGenesis(g) PROVE AccountInv'
  BY <1>7, GenesisAccounted
<1>8. CASE Refuse
  <2>1. Execute("invalid", FALSE, NoResult)
    BY <1>8, Zenon DEF Refuse
  <2>2. UNCHANGED <<bank, rewards, gov, ledger>>
    BY <1>8 DEF Refuse, keepers
  <2>3. "invalid" \in TxTypes
    BY DEF TxTypes
  <2> QED
    BY <1>6, <2>1, <2>2, <2>3, Zenon
<1>9. ASSUME NEW from \in Addresses, NEW to \in Addresses, NEW amount \in Amounts,
             BankSend(from, to, amount)
      PROVE  AccountInv'
  <2>1. phase = "running" /\ phase' = phase /\ Rest' /\ Untouched'
    BY <1>5, <1>9 DEF BankSend, TxTypes
  <2>2. bank' = Send(from, to, amount).keeper /\ UNCHANGED <<rewards, gov, ledger>>
    BY <1>9 DEF BankSend
  <2>3. ledger.supply \in Int
    BY <1>1 DEF Ledger
  <2>4. BankPart'
    BY <1>1, <2>1, <2>2, <2>3, SendKeeps
  <2> QED
    BY <1>1, <1>3, <1>4, <2>1, <2>2, <2>4 DEF AccountInv
<1>10. ASSUME NEW d \in Addresses, NEW v \in Validators, NEW amount \in Amounts,
              StakingDelegate(d, v, amount)
       PROVE  AccountInv'
  BY <1>6, <1>10 DEF StakingDelegate, TxTypes
<1>11. ASSUME NEW d \in Addresses, NEW from \in Validators, NEW to \in Validators,
              NEW amount \in Amounts, StakingRedelegate(d, from, to, amount)
       PROVE  AccountInv'
  BY <1>6, <1>11 DEF StakingRedelegate, TxTypes
<1>12. CASE GovSubmit
  <2>1. phase' = phase /\ Rest' /\ Untouched'
    BY <1>5, <1>12 DEF GovSubmit, TxTypes
  <2>2. /\ gov' = SubmitProposal /\ ledger' = [ledger EXCEPT !.cast = Append(@, NoVotes)]
        /\ UNCHANGED <<bank, rewards>>
    BY <1>12 DEF GovSubmit
  <2>3. ledger' \in Ledger /\ GovPart'
    BY <2>2, SubmitKeeps
  <2>4. ledger'.supply = ledger.supply /\ ledger'.earned = ledger.earned /\ ledger'.paid = ledger.paid
    BY <1>1, <2>2 DEF Ledger
  <2> QED
    BY <1>2, <1>4, <2>1, <2>2, <2>3, <2>4 DEF AccountInv
<1>13. ASSUME NEW id \in 1 .. MaxProposals, NEW option \in Options, NEW weight \in Amounts,
              GovVote(id, option, weight)
       PROVE  AccountInv'
  <2>1. phase' = phase /\ Rest' /\ Untouched' /\ UNCHANGED <<bank, rewards>>
    BY <1>5, <1>13 DEF GovVote, TxTypes
  <2>2. CASE id \notin DOMAIN gov.proposals
    <3>1. UNCHANGED <<gov, ledger>>
      BY <1>13, <2>2 DEF GovVote, Vote, Result
    <3> QED
      BY <1>1, <1>2, <1>3, <1>4, <2>1, <3>1 DEF AccountInv
  <2>3. CASE id \in DOMAIN gov.proposals
    <3>1. /\ gov' = [gov EXCEPT !.proposals[id][option] = Wrap(@ + weight)]
          /\ ledger' = [ledger EXCEPT !.cast[id][option] = @ + weight]
      BY <1>13, <2>3 DEF GovVote, Vote, Result
    <3>2. ledger' \in Ledger /\ GovPart'
      BY <2>3, <3>1, VoteKeeps
    <3>3. ledger'.supply = ledger.supply /\ ledger'.earned = ledger.earned /\ ledger'.paid = ledger.paid
      BY <1>1, <3>1 DEF Ledger
    <3> QED
      BY <1>2, <1>4, <2>1, <3>2, <3>3 DEF AccountInv
  <2> QED
    BY <2>2, <2>3
<1>14. ASSUME NEW id \in 1 .. MaxProposals, NEW votingPower \in Amounts, GovTally(id, votingPower)
       PROVE  AccountInv'
  <2>1. \E ok, result : Execute("gov_tally", ok, result)
    BY <1>14 DEF GovTally
  <2> QED
    BY <1>6, <1>14, <2>1 DEF GovTally, keepers, TxTypes
<1>15. ASSUME NEW d \in Addresses, NEW amount \in Amounts, RewardsAdd(d, amount)
       PROVE  AccountInv'
  <2>1. phase' = phase /\ Rest' /\ Untouched'
    BY <1>5, <1>15 DEF RewardsAdd, TxTypes
  <2>2. /\ rewards' = [rewards EXCEPT ![d] = Wrap(@ + amount)]
        /\ ledger' = [ledger EXCEPT !.earned[d] = @ + amount]
        /\ UNCHANGED <<bank, gov>>
    BY <1>15 DEF RewardsAdd
  <2>3. ledger' \in Ledger /\ RewardPart'
    BY <2>2, AddKeeps
  <2>4. ledger'.supply = ledger.supply /\ ledger'.cast = ledger.cast
    BY <1>1, <2>2 DEF Ledger
  <2> QED
    BY <1>2, <1>3, <2>1, <2>2, <2>3, <2>4 DEF AccountInv
<1>16. ASSUME NEW d \in Addresses, RewardsClaim(d) PROVE AccountInv'
  <2>1. phase' = phase /\ Rest' /\ Untouched'
    BY <1>5, <1>16 DEF RewardsClaim, TxTypes
  <2>2. /\ rewards' = ClaimReward(d) /\ ledger' = [ledger EXCEPT !.paid[d] = @ + rewards[d]]
        /\ UNCHANGED <<bank, gov>>
    BY <1>16 DEF RewardsClaim
  <2>3. ledger' \in Ledger /\ RewardPart'
    BY <2>2, ClaimKeeps
  <2>4. ledger'.supply = ledger.supply /\ ledger'.cast = ledger.cast
    BY <1>1, <2>2 DEF Ledger
  <2> QED
    BY <1>2, <1>3, <2>1, <2>2, <2>3, <2>4 DEF AccountInv
<1>17. CASE UNCHANGED chainVars
  BY <1>1, <1>2, <1>3, <1>4, <1>17 DEF chainVars, keepers, AccountInv, Rest, Untouched
<1> QED
  BY <1>7, <1>8, <1>9, <1>10, <1>11, <1>12, <1>13, <1>14, <1>15, <1>16, <1>17 DEF Next

LEMMA OptionsFinite == IsFiniteSet(Options)
<1>1. IsFiniteSet({"yes"})
  BY FS_Singleton
<1>2. Options = (({"yes"} \cup {"no"}) \cup {"abstain"}) \cup {"veto"}
  BY DEF Options
<1>3. IsFiniteSet({"yes"} \cup {"no"})
  BY <1>1, FS_AddElement
<1>4. IsFiniteSet(({"yes"} \cup {"no"}) \cup {"abstain"})
  BY <1>3, FS_AddElement
<1>5. IsFiniteSet((({"yes"} \cup {"no"}) \cup {"abstain"}) \cup {"veto"})
  BY <1>4, FS_AddElement
<1> QED
  BY <1>2, <1>5

LEMMA SumOfVotes ==
    ASSUME NEW f \in [Options -> Int]
    PROVE  SumFunction(f) = f["yes"] + f["no"] + f["abstain"] + f["veto"]
<1> DEFINE A == {"no", "abstain", "veto"}
           B == {"abstain", "veto"}
           C == {"veto"}
           none == {}
<1>1. /\ Options \ {"yes"} = A /\ A \ {"no"} = B /\ B \ {"abstain"} = C /\ C \ {"veto"} = none
      /\ "yes" \in Options /\ "no" \in A /\ "abstain" \in B /\ "veto" \in C
      /\ A \subseteq Options /\ B \subseteq Options /\ C \subseteq Options
  BY DEF Options
<1>2. IsFiniteSet(Options) /\ IsFiniteSet(A) /\ IsFiniteSet(B) /\ IsFiniteSet(C)
  <2> HIDE DEF A, B, C
  <2> QED
    BY <1>1, OptionsFinite, FS_Subset
<1>3. \A o \in Options : f[o] \in Int
  OBVIOUS
<1>4. DOMAIN f = Options
  OBVIOUS
<1> HIDE DEF A, B, C, none
<1>5. SumFunctionOnSet(f, Options) = f["yes"] + SumFunctionOnSet(f, A)
  BY <1>1, <1>2, <1>3, SumRemove
<1>6. SumFunctionOnSet(f, A) = f["no"] + SumFunctionOnSet(f, B)
  <2>1. \A o \in A : f[o] \in Int
    BY <1>1, <1>3
  <2> QED
    BY <1>1, <1>2, <2>1, SumRemove
<1>7. SumFunctionOnSet(f, B) = f["abstain"] + SumFunctionOnSet(f, C)
  <2>1. \A o \in B : f[o] \in Int
    BY <1>1, <1>3
  <2> QED
    BY <1>1, <1>2, <2>1, SumRemove
<1>8. SumFunctionOnSet(f, C) = f["veto"] + SumFunctionOnSet(f, none)
  <2>1. \A o \in C : f[o] \in Int
    BY <1>1, <1>3
  <2> QED
    BY <1>1, <1>2, <2>1, SumRemove
<1>9. SumFunctionOnSet(f, none) = 0
  BY FS_EmptySet, SumZero DEF none
<1>10. f["yes"] \in Int /\ f["no"] \in Int /\ f["abstain"] \in Int /\ f["veto"] \in Int
  BY DEF Options
<1> QED
  BY <1>4, <1>5, <1>6, <1>7, <1>8, <1>9, <1>10 DEF SumFunction

\* Adding up what the counts hold gives, as an int64, the sum of what was cast.
LEMMA VotesWrap ==
    ASSUME NEW cast \in [Options -> Nat], NEW votes \in [Options -> Int64],
           \A o \in Options : votes[o] = Wrap(cast[o])
    PROVE  Wrap(SumFunction(votes)) = Wrap(SumFunction(cast)) /\ SumFunction(cast) \in Nat
<1> DEFINE y == cast["yes"]
           n == cast["no"]
           a == cast["abstain"]
           v == cast["veto"]
<1>1. y \in Nat /\ n \in Nat /\ a \in Nat /\ v \in Nat
  BY DEF Options
<1>2. SumFunction(cast) = y + n + a + v
  <2>1. cast \in [Options -> Int]
    OBVIOUS
  <2> QED
    BY <2>1, SumOfVotes
<1>3. SumFunction(votes) = Wrap(y) + Wrap(n) + Wrap(a) + Wrap(v)
  <2>1. votes \in [Options -> Int]
    BY AmountsInt64
  <2>2. /\ votes["yes"] = Wrap(y) /\ votes["no"] = Wrap(n)
        /\ votes["abstain"] = Wrap(a) /\ votes["veto"] = Wrap(v)
    BY DEF Options
  <2> QED
    BY <2>1, <2>2, SumOfVotes
<1> HIDE DEF y, n, a, v
<1>4. Wrap(y) \in Int /\ Wrap(n) \in Int /\ Wrap(a) \in Int /\ Wrap(v) \in Int
  BY <1>1, WrapInt
<1>5. Wrap(Wrap(y) + (Wrap(n) + Wrap(a) + Wrap(v))) = Wrap(y + (Wrap(n) + Wrap(a) + Wrap(v)))
  <2>1. Wrap(n) + Wrap(a) + Wrap(v) \in Int
    BY <1>1, <1>4
  <2> QED
    BY <1>1, <2>1, WrapAdd
<1>6. Wrap(Wrap(n) + (y + Wrap(a) + Wrap(v))) = Wrap(n + (y + Wrap(a) + Wrap(v)))
  <2>1. y + Wrap(a) + Wrap(v) \in Int
    BY <1>1, <1>4
  <2> QED
    BY <1>1, <2>1, WrapAdd
<1>7. Wrap(Wrap(a) + (y + n + Wrap(v))) = Wrap(a + (y + n + Wrap(v)))
  <2>1. y + n + Wrap(v) \in Int
    BY <1>1, <1>4
  <2> QED
    BY <1>1, <2>1, WrapAdd
<1>8. Wrap(Wrap(v) + (y + n + a)) = Wrap(v + (y + n + a))
  <2>1. y + n + a \in Int
    BY <1>1, <1>4
  <2> QED
    BY <1>1, <2>1, WrapAdd
<1>9. /\ Wrap(y) + Wrap(n) + Wrap(a) + Wrap(v) = Wrap(y) + (Wrap(n) + Wrap(a) + Wrap(v))
      /\ y + (Wrap(n) + Wrap(a) + Wrap(v)) = Wrap(n) + (y + Wrap(a) + Wrap(v))
      /\ n + (y + Wrap(a) + Wrap(v)) = Wrap(a) + (y + n + Wrap(v))
      /\ a + (y + n + Wrap(v)) = Wrap(v) + (y + n + a)
      /\ v + (y + n + a) = y + n + a + v
  BY <1>1, <1>4
<1>10. Wrap(Wrap(y) + Wrap(n) + Wrap(a) + Wrap(v)) = Wrap(y + n + a + v)
  BY <1>5, <1>6, <1>7, <1>8, <1>9, Zenon
<1> QED
  BY <1>1, <1>2, <1>3, <1>10

\* A product grows with its first factor.
LEMMA Larger ==
    ASSUME NEW s \in Int, NEW t \in Int, s <= t, NEW q \in Nat PROVE s * q <= t * q
<1>1. (t - s) * q >= 0
  OBVIOUS
<1>2. (t - s) * q = t * q - s * q
  OBVIOUS
<1> QED
  BY <1>1, <1>2

(***************************************************************************)
(* Floating-point numbers.                                                 *)
(***************************************************************************)
Pos == Nat \ {0}

\* The powers of two are what their definition says.
LEMMA PowersUnfold ==
    ASSUME NEW n \in Nat
    PROVE  Powers(n)[0] = 1 /\ \A k \in 1 .. n : Powers(n)[k] = 2 * Powers(n)[k - 1]
<1> DEFINE Loop(g, p) == g = [k \in 0 .. p |-> IF k = 0 THEN 1 ELSE 2 * g[k - 1]]
           Defined == {p \in Nat : \E g : Loop(g, p)}
<1>1. 0 \in Defined
  <2> DEFINE g == [k \in 0 .. 0 |-> 1]
  <2>1. Loop(g, 0)
    OBVIOUS
  <2> HIDE DEF g, Loop
  <2> QED
    BY <2>1
<1>2. ASSUME NEW m \in Nat, m \in Defined PROVE m + 1 \in Defined
  <2>1. PICK g : Loop(g, m)
    BY <1>2
  <2> DEFINE h == [k \in 0 .. m + 1 |-> IF k < m + 1 THEN g[k] ELSE 2 * g[k - 1]]
  <2>2. ASSUME NEW k \in 0 .. m + 1 PROVE h[k] = IF k = 0 THEN 1 ELSE 2 * h[k - 1]
    <3>1. CASE k = 0
      BY <2>1, <3>1
    <3>2. CASE k # 0 /\ k < m + 1
      <4>1. k \in 0 .. m /\ k - 1 \in 0 .. m + 1 /\ k - 1 < m + 1
        BY <3>2
      <4>2. g[k] = 2 * g[k - 1]
        BY <2>1, <3>2, <4>1
      <4> QED
        BY <3>2, <4>1, <4>2
    <3>3. CASE k # 0 /\ k = m + 1
      BY <3>3
    <3> QED
      BY <3>1, <3>2, <3>3
  <2>3. Loop(h, m + 1)
    BY <2>2
  <2> HIDE DEF h, Loop
  <2> QED
    BY <2>3
<1>3. n \in Defined
  <2> HIDE DEF Defined
  <2> QED
    BY <1>1, <1>2, Ascend
<1>4. \E g : g = [k \in 0 .. n |-> IF k = 0 THEN 1 ELSE 2 * g[k - 1]]
  BY <1>3
<1>5. Powers(n) = [k \in 0 .. n |-> IF k = 0 THEN 1 ELSE 2 * Powers(n)[k - 1]]
  BY <1>4, Zenon DEF Powers
<1> QED
  BY <1>5

\* They grow beyond every number.
LEMMA PowersGrow ==
    ASSUME NEW n \in Nat
    PROVE  \A k \in 0 .. n : Powers(n)[k] \in Nat /\ Powers(n)[k] > k
<1> DEFINE Holds == {k \in Nat : k <= n => Powers(n)[k] \in Nat /\ Powers(n)[k] > k}
<1>1. 0 \in Holds
  BY PowersUnfold
<1>2. ASSUME NEW k \in Nat, k \in Holds PROVE k + 1 \in Holds
  <2>1. CASE k + 1 <= n
    <3>1. k + 1 \in 1 .. n /\ k + 1 - 1 = k
      BY <2>1
    <3>2. Powers(n)[k + 1] = 2 * Powers(n)[k]
      BY <3>1, PowersUnfold
    <3>3. Powers(n)[k] \in Nat /\ Powers(n)[k] > k
      BY <1>2, <2>1
    <3> QED
      BY <3>2, <3>3
  <2> QED
    BY <2>1
<1> HIDE DEF Holds
<1>3. \A k \in Nat : k \in Holds
  BY <1>1, <1>2, Ascend
<1> QED
  BY <1>3 DEF Holds

\* There is a power of two that takes m to n, but not beyond.
LEMMA ScaleFits ==
    ASSUME NEW m \in Pos, NEW n \in Nat, m <= n
    PROVE  Scale(m, n) \in Pos /\ m * Scale(m, n) <= n /\ n < 2 * (m * Scale(m, n))
<1> DEFINE p == Powers(n)
           Small == {k \in 0 .. n : m * p[k] <= n}
           Fits(k) == m * p[k] <= n /\ n < 2 * (m * p[k])
<1>1. /\ \A k \in 0 .. n : p[k] \in Nat /\ p[k] > k
      /\ p[0] = 1 /\ \A k \in 1 .. n : p[k] = 2 * p[k - 1]
  BY PowersGrow, PowersUnfold
<1> HIDE DEF p
<1>2. Small \in SUBSET (0 .. n) /\ 0 \in Small
  BY <1>1 DEF Pos
<1>3. PICK x \in Small : \A y \in Small : y <= x
  <2> HIDE DEF Small
  <2> QED
    BY <1>2, Greatest
<1>4. x # n
  <2>1. p[n] \in Nat /\ p[n] > n
    BY <1>1
  <2>2. m * p[n] >= p[n]
    <3> DEFINE a == p[n]
    <3>1. a \in Nat
      BY <2>1
    <3> HIDE DEF a
    <3>2. m * a >= a
      BY <3>1 DEF Pos
    <3> QED
      BY <3>2 DEF a
  <2>3. m * p[n] \in Nat
    BY <2>1 DEF Pos
  <2> QED
    BY <1>3, <2>1, <2>2, <2>3
<1>5. x \in 0 .. n /\ x + 1 \in 1 .. n /\ x + 1 - 1 = x /\ x + 1 \notin Small
  BY <1>3, <1>4
<1>6. p[x] \in Nat /\ p[x + 1] = 2 * p[x]
  BY <1>1, <1>5
<1>7. n < 2 * (m * p[x])
  <2>1. m * p[x + 1] > n
    BY <1>1, <1>5 DEF Pos
  <2> QED
    BY <1>6, <2>1 DEF Pos
<1>8. Fits(x) /\ x \in 0 .. n
  BY <1>3, <1>5, <1>7
<1> DEFINE c == CHOOSE k \in 0 .. n : Fits(k)
<1>9. c \in 0 .. n /\ Fits(c)
  <2> HIDE DEF Fits
  <2> QED
    BY <1>8, Zenon
<1>10. Scale(m, n) = p[c]
  BY Zenon DEF Scale, p
<1> HIDE DEF c
<1>11. p[c] \in Pos
  BY <1>1, <1>9 DEF Pos
<1> QED
  BY <1>9, <1>10, <1>11

\* A rounded integer is off by one half at most.
LEMMA RoundNear ==
    ASSUME NEW n \in Nat, NEW d \in Pos
    PROVE  /\ RoundHalfEven(n, d) \in Nat
           /\ 2 * (RoundHalfEven(n, d) * d) <= 2 * n + d
           /\ 2 * n <= 2 * (RoundHalfEven(n, d) * d) + d
<1> DEFINE q == n \div d
           r == n % d
           m == RoundHalfEven(n, d)
<1>1. q \in Nat /\ r \in 0 .. d - 1 /\ n = q * d + r
  BY DEF Pos
<1>2. (m = q /\ 2 * r <= d) \/ (m = q + 1 /\ 2 * r >= d)
  BY <1>1 DEF RoundHalfEven, Pos
<1> HIDE DEF q, r, m
<1>3. CASE m = q /\ 2 * r <= d
  <2>1. m * d = q * d /\ q * d \in Nat
    BY <1>1, <1>3 DEF Pos
  <2> QED
    BY <1>1, <1>3, <2>1 DEF m, Pos
<1>4. CASE m = q + 1 /\ 2 * r >= d
  <2>1. m * d = q * d + d /\ q * d \in Nat
    BY <1>1, <1>4 DEF Pos
  <2> QED
    BY <1>1, <1>4, <2>1 DEF m, Pos
<1> QED
  BY <1>2, <1>3, <1>4

\* x is n / d but for one rounding.
Near(x, n, d) ==
    /\ x \in Int \X Pos
    /\ (x[1] * d) * Exact <= (n * x[2]) * (Exact + 1)
    /\ (n * x[2]) * (Exact - 1) <= (x[1] * d) * Exact

LEMMA NearestNear ==
    ASSUME NEW n \in Pos, NEW d \in Pos
    PROVE  Near(Nearest(n, d), n, d)
<1>1. Half \in Pos /\ Half * d \in Pos /\ Half * d - 1 \in Nat
  <2>1. Half \in Nat /\ Half >= 1 /\ d \in Nat /\ d >= 1
    BY HalfAssumption DEF Pos
  <2>2. Half * d \in Nat /\ Half * d >= 1
    BY <2>1
  <2> QED
    BY <2>1, <2>2 DEF Pos
<1>2. CASE n >= Half * d
  <2> DEFINE s == Scale(Half * d, n)
             m == RoundHalfEven(n, d * s)
  <2>1. s \in Pos /\ (Half * d) * s <= n
    BY <1>1, <1>2, ScaleFits DEF Pos
  <2>2. Nearest(n, d) = <<m * s, 1>>
    BY <1>2 DEF Nearest
  <2> HIDE DEF s
  <2>3. d * s \in Pos
    <3>1. d \in Nat /\ d >= 1 /\ s \in Nat /\ s >= 1
      BY <2>1 DEF Pos
    <3>2. d * s \in Nat /\ d * s >= 1
      BY <3>1
    <3> QED
      BY <3>2 DEF Pos
  <2>4. m \in Nat /\ 2 * (m * (d * s)) <= 2 * n + d * s /\ 2 * n <= 2 * (m * (d * s)) + d * s
    BY <2>3, RoundNear DEF Pos
  <2> HIDE DEF m
  <2> DEFINE u == m * (d * s)
             v == d * s
  <2>5. u \in Nat /\ v \in Nat /\ Half * v <= n
    BY <1>1, <2>1, <2>3, <2>4 DEF Pos
  <2>6. 2 * u <= 2 * n + v /\ 2 * n <= 2 * u + v
    BY <2>4
  <2>7. ((m * s) * d) * (2 * Half) = Half * (2 * u)
    BY <1>1, <2>1, <2>4 DEF Pos
  <2> HIDE DEF u, v
  <2>8. Half * (2 * u) <= Half * (2 * n) + n /\ Half * (2 * n) <= Half * (2 * u) + n
    <3>1. Half * (2 * u) <= Half * (2 * n + v) /\ Half * (2 * n) <= Half * (2 * u + v)
      BY <1>1, <2>5, <2>6 DEF Pos
    <3>2. /\ Half * (2 * n + v) = Half * (2 * n) + Half * v
          /\ Half * (2 * u + v) = Half * (2 * u) + Half * v
      BY <1>1, <2>5 DEF Pos
    <3>3. /\ Half * (2 * n) \in Nat /\ Half * (2 * u) \in Nat /\ Half * v \in Nat
      BY <1>1, <2>5 DEF Pos
    <3> QED
      BY <2>5, <3>1, <3>2, <3>3 DEF Pos
  <2>9. /\ (n * 1) * (2 * Half + 1) = Half * (2 * n) + n
        /\ (n * 1) * (2 * Half - 1) = Half * (2 * n) - n
    BY <1>1 DEF Pos
  <2>10. m * s \in Int /\ 1 \in Pos
    BY <2>1, <2>4 DEF Pos
  <2>11. Half * (2 * u) \in Nat /\ Half * (2 * n) \in Nat
    BY <1>1, <2>5 DEF Pos
  <2>12. /\ ((m * s) * d) * (2 * Half) <= (n * 1) * (2 * Half + 1)
         /\ (n * 1) * (2 * Half - 1) <= ((m * s) * d) * (2 * Half)
    BY <2>7, <2>8, <2>9, <2>11 DEF Pos
  <2> QED
    BY <2>2, <2>10, <2>12 DEF Near, Exact
<1>3. CASE ~(n >= Half * d)
  <2> DEFINE h == Scale(n, Half * d - 1)
             s == 2 * h
             m == RoundHalfEven(n * s, d)
  <2>1. h \in Pos /\ Half * d - 1 < 2 * (n * h)
    <3>1. n <= Half * d - 1
      BY <1>1, <1>3 DEF Pos
    <3> QED
      BY <1>1, <3>1, ScaleFits
  <2>2. Nearest(n, d) = <<m, s>>
    BY <1>3 DEF Nearest
  <2> HIDE DEF h
  <2> DEFINE u == m * d
             w == n * s
  <2>3. s \in Pos /\ w \in Nat /\ Half * d <= w
    <3>1. n \in Nat /\ h \in Nat /\ h >= 1 /\ Half * d \in Nat
      BY <1>1, <2>1 DEF Pos
    <3>2. n * h \in Nat /\ n * (2 * h) = 2 * (n * h)
      BY <3>1
    <3> QED
      BY <2>1, <3>1, <3>2 DEF Pos
  <2> HIDE DEF s
  <2>4. m \in Nat /\ 2 * u <= 2 * w + d /\ 2 * w <= 2 * u + d
    BY <2>3, RoundNear
  <2> HIDE DEF m
  <2>5. u \in Nat
    BY <2>4 DEF Pos
  <2> HIDE DEF u, w
  <2>6. Half * (2 * u) <= Half * (2 * w) + w /\ Half * (2 * w) <= Half * (2 * u) + w
    <3>1. Half * (2 * u) <= Half * (2 * w + d) /\ Half * (2 * w) <= Half * (2 * u + d)
      BY <1>1, <2>3, <2>4, <2>5 DEF Pos
    <3>2. /\ Half * (2 * w + d) = Half * (2 * w) + Half * d
          /\ Half * (2 * u + d) = Half * (2 * u) + Half * d
      BY <1>1, <2>3, <2>5 DEF Pos
    <3>3. /\ Half * (2 * w) \in Nat /\ Half * (2 * u) \in Nat /\ Half * d \in Nat
      BY <1>1, <2>3, <2>5 DEF Pos
    <3> QED
      BY <2>3, <3>1, <3>2, <3>3
  <2>7. /\ u * (2 * Half) = Half * (2 * u)
        /\ w * (2 * Half + 1) = Half * (2 * w) + w
        /\ w * (2 * Half - 1) = Half * (2 * w) - w
    BY <1>1, <2>3, <2>5 DEF Pos
  <2>8. Half * (2 * u) \in Nat /\ Half * (2 * w) \in Nat
    BY <1>1, <2>3, <2>5 DEF Pos
  <2>9. u * (2 * Half) <= w * (2 * Half + 1) /\ w * (2 * Half - 1) <= u * (2 * Half)
    BY <2>3, <2>6, <2>7, <2>8
  <2>10. (m * d) * (2 * Half) <= (n * s) * (2 * Half + 1) /\ (n * s) * (2 * Half - 1) <= (m * d) * (2 * Half)
    BY <2>9 DEF u, w
  <2> QED
    BY <2>2, <2>3, <2>4, <2>10 DEF Near, Exact
<1> QED
  BY <1>2, <1>3

\* A float64 has the sign of the number and is off by one rounding.
LEMMA FloatNear ==
    ASSUME NEW n \in Int, NEW d \in Pos
    PROVE  /\ Float(n, d) \in Int \X Pos
           /\ n = 0 => Float(n, d) = <<0, 1>>
           /\ n > 0 => Float(n, d)[1] \in Pos /\ Near(Float(n, d), n, d)
           /\ n < 0 => Float(n, d)[1] < 0
<1>1. ASSUME NEW m \in Pos PROVE Near(Nearest(m, d), m, d) /\ Nearest(m, d)[1] \in Pos
  <2> DEFINE x == Nearest(m, d)
  <2>1. Near(x, m, d)
    BY NearestNear
  <2> HIDE DEF x
  <2>2. x[1] \in Int /\ x[2] \in Nat /\ x[2] >= 1
    BY <2>1 DEF Near, Pos
  <2>3. Exact \in Nat /\ Exact >= 2 /\ m \in Nat /\ m >= 1 /\ d \in Nat /\ d >= 1
    BY HalfAssumption DEF Exact, Pos
  <2>4. m * x[2] >= 1 /\ m * x[2] \in Nat
    BY <2>2, <2>3
  <2>5. (m * x[2]) * (Exact - 1) >= 1 /\ (m * x[2]) * (Exact - 1) \in Nat
    <3> DEFINE a == m * x[2]
               b == Exact - 1
    <3>1. a \in Nat /\ a >= 1 /\ b \in Nat /\ b >= 1
      BY <2>3, <2>4
    <3> HIDE DEF a, b
    <3>2. a * b >= 1 /\ a * b \in Nat
      BY <3>1
    <3> QED
      BY <3>2 DEF a, b
  <2>6. (x[1] * d) * Exact >= 1
    <3>1. (m * x[2]) * (Exact - 1) <= (x[1] * d) * Exact
      BY <2>1 DEF Near
    <3>2. (x[1] * d) * Exact \in Int
      BY <2>2, <2>3
    <3> QED
      BY <2>5, <3>1, <3>2
  <2>7. ASSUME x[1] <= 0 PROVE FALSE
    <3>1. x[1] * d <= 0 /\ x[1] * d \in Int
      BY <2>2, <2>3, <2>7
    <3>2. (x[1] * d) * Exact <= 0
      <4> DEFINE a == x[1] * d
      <4>1. a \in Int /\ a <= 0
        BY <3>1
      <4> HIDE DEF a
      <4>2. a * Exact <= 0
        BY <2>3, <4>1
      <4> QED
        BY <4>2 DEF a
    <3>3. (x[1] * d) * Exact \in Int
      BY <2>2, <2>3
    <3> QED
      BY <2>6, <3>2, <3>3
  <2>8. x[1] \in Pos
    BY <2>2, <2>7 DEF Pos
  <2> QED
    BY <2>1, <2>8 DEF x
<1>2. CASE n = 0
  BY <1>2 DEF Float, Pos
<1>3. CASE n > 0
  <2>1. n \in Pos /\ Float(n, d) = Nearest(n, d)
    BY <1>3 DEF Float, Pos
  <2> QED
    BY <1>1, <1>3, <2>1 DEF Near
<1>4. CASE n < 0
  <2> DEFINE x == Nearest(-n, d)
  <2>1. -n \in Pos /\ Float(n, d) = <<-x[1], x[2]>>
    BY <1>4 DEF Float, Pos
  <2>2. x \in Int \X Pos /\ x[1] \in Pos
    BY <1>1, <2>1 DEF Near
  <2> HIDE DEF x
  <2>3. -x[1] \in Int /\ -x[1] < 0 /\ x[2] \in Pos
    BY <2>2 DEF Pos
  <2> QED
    BY <1>4, <2>1, <2>3
<1> QED
  BY <1>2, <1>3, <1>4

\* Products of natural numbers keep the order, and a factor can be cancelled.
LEMMA Products ==
    ASSUME NEW a \in Nat, NEW b \in Nat, NEW c \in Nat, NEW d \in Nat, a <= b, c <= d
    PROVE  a * c <= b * d
<1>1. a * c <= b * c
  BY Larger
<1>2. c * b <= d * b
  BY Larger
<1> QED
  BY <1>1, <1>2

LEMMA Cancel ==
    ASSUME NEW a \in Int, NEW b \in Int, NEW c \in Pos, a * c <= b * c PROVE a <= b
<1>1. ASSUME a > b PROVE FALSE
  <2>1. (a - b) * c >= 1
    BY <1>1 DEF Pos
  <2>2. (a - b) * c = a * c - b * c
    BY DEF Pos
  <2> QED
    BY <2>1, <2>2 DEF Pos
<1> QED
  BY <1>1

\* t votes, a power of p and a quorum of n / d with what Tally makes of them: x, y
\* and q are their float64, r the float64 of x / y.
Rounded(t, p, n, d, x, y, r, q) ==
    /\ {t, p, n, d} \subseteq Pos /\ {x, y, r, q} \subseteq Pos \X Pos
    /\ Near(x, t, 1) /\ Near(y, p, 1) /\ Near(r, x[1] * y[2], x[2] * y[1]) /\ Near(q, n, d)

\* A quorum that lies at or below the rounded quotient of rounded votes and power
\* lies at or below their quotient, but for the roundings; and the other way.
LEMMA RoundedOrder ==
    ASSUME NEW t, NEW p, NEW n, NEW d, NEW x, NEW y, NEW r, NEW q, Rounded(t, p, n, d, x, y, r, q)
    PROVE  /\ q[1] * r[2] <= r[1] * q[2] => AboutAtLeast(t, p, n, d)
           /\ r[1] * q[2] <= q[1] * r[2] => AboutAtLeast(n, d, t, p)
<1> DEFINE M == Exact
           K == M - 1
           L == M + 1
<1>a. /\ t \in Pos /\ p \in Pos /\ n \in Pos /\ d \in Pos
      /\ x \in Pos \X Pos /\ y \in Pos \X Pos /\ r \in Pos \X Pos /\ q \in Pos \X Pos
  BY DEF Rounded
<1>b. /\ M \in Pos /\ K \in Pos /\ L \in Pos /\ M = Exact /\ K = M - 1 /\ L = M + 1
      /\ K = Exact - 1 /\ L = Exact + 1
  BY HalfAssumption DEF Exact, Pos
<1> HIDE DEF M, K, L
<1> DEFINE x1 == x[1]
           x2 == x[2]
           y1 == y[1]
           y2 == y[2]
           r1 == r[1]
           r2 == r[2]
           q1 == q[1]
           q2 == q[2]
<1>1. /\ x1 \in Pos /\ x2 \in Pos /\ y1 \in Pos /\ y2 \in Pos
      /\ r1 \in Pos /\ r2 \in Pos /\ q1 \in Pos /\ q2 \in Pos
  BY <1>a
<1>2. /\ (x1 * 1) * M <= (t * x2) * L /\ (t * x2) * K <= (x1 * 1) * M
      /\ (y1 * 1) * M <= (p * y2) * L /\ (p * y2) * K <= (y1 * 1) * M
      /\ (r1 * (x2 * y1)) * M <= ((x1 * y2) * r2) * L
      /\ ((x1 * y2) * r2) * K <= (r1 * (x2 * y1)) * M
      /\ (q1 * d) * M <= (n * q2) * L /\ (n * q2) * K <= (q1 * d) * M
  BY <1>b DEF Rounded, Near
<1> HIDE DEF x1, x2, y1, y2, r1, r2, q1, q2
<1> USE DEF Pos
<1>3. ASSUME q1 * r2 <= r1 * q2 PROVE (n * p) * (K * K) <= (t * d) * (L * L)
  <2>1. ((n * q2) * K) * ((p * y2) * K) <= ((q1 * d) * M) * ((y1 * 1) * M)
    <3> DEFINE a == (n * q2) * K
               b == (q1 * d) * M
               e == (p * y2) * K
               f == (y1 * 1) * M
    <3>1. a \in Nat /\ b \in Nat /\ e \in Nat /\ f \in Nat
      BY <1>a, <1>b, <1>1
    <3>2. a <= b /\ e <= f
      BY <1>2
    <3> HIDE DEF a, b, e, f
    <3>3. a * e <= b * f
      BY <3>1, <3>2, Products
    <3> QED
      BY <3>3 DEF a, b, e, f
  <2>2. (((n * q2) * K) * ((p * y2) * K)) * (r2 * x2) <= (((q1 * d) * M) * ((y1 * 1) * M)) * (r2 * x2)
    BY <1>a, <1>b, <1>1, <2>1, Larger
  <2>3. (q1 * r2) * ((d * M) * ((y1 * M) * x2)) <= (r1 * q2) * ((d * M) * ((y1 * M) * x2))
    BY <1>a, <1>b, <1>1, <1>3, Larger
  <2>4. ((r1 * (x2 * y1)) * M) * ((q2 * d) * M) <= (((x1 * y2) * r2) * L) * ((q2 * d) * M)
    BY <1>a, <1>b, <1>1, <1>2, Larger
  <2>5. ((x1 * 1) * M) * (((y2 * r2) * L) * (q2 * d)) <= ((t * x2) * L) * (((y2 * r2) * L) * (q2 * d))
    BY <1>a, <1>b, <1>1, <1>2, Larger
  <2> DEFINE c == (q2 * y2) * (r2 * x2)
             a == (n * p) * (K * K)
             b == (t * d) * (L * L)
  <2>6. a \in Int /\ b \in Int /\ c \in Nat
    BY <1>a, <1>b, <1>1
  <2>7. a * c <= b * c
    <3>1. a * c = (((n * q2) * K) * ((p * y2) * K)) * (r2 * x2)
      BY <1>a, <1>b, <1>1
    <3>2. (((q1 * d) * M) * ((y1 * 1) * M)) * (r2 * x2) = (q1 * r2) * ((d * M) * ((y1 * M) * x2))
      BY <1>a, <1>b, <1>1
    <3>3. (r1 * q2) * ((d * M) * ((y1 * M) * x2)) = ((r1 * (x2 * y1)) * M) * ((q2 * d) * M)
      BY <1>a, <1>b, <1>1
    <3>4. (((x1 * y2) * r2) * L) * ((q2 * d) * M) = ((x1 * 1) * M) * (((y2 * r2) * L) * (q2 * d))
      BY <1>a, <1>b, <1>1
    <3>5. ((t * x2) * L) * (((y2 * r2) * L) * (q2 * d)) = b * c
      BY <1>a, <1>b, <1>1
    <3> DEFINE e1 == (((n * q2) * K) * ((p * y2) * K)) * (r2 * x2)
               e2 == (q1 * r2) * ((d * M) * ((y1 * M) * x2))
               e3 == (r1 * q2) * ((d * M) * ((y1 * M) * x2))
               e4 == (((x1 * y2) * r2) * L) * ((q2 * d) * M)
               e5 == ((t * x2) * L) * (((y2 * r2) * L) * (q2 * d))
    <3>6. e1 \in Int /\ e2 \in Int /\ e3 \in Int /\ e4 \in Int /\ e5 \in Int
      BY <1>a, <1>b, <1>1
    <3>7. e1 <= e2 /\ e2 <= e3 /\ e3 <= e4 /\ e4 <= e5
      BY <2>2, <2>3, <2>4, <2>5, <3>2, <3>3, <3>4
    <3>8. a * c = e1 /\ b * c = e5
      BY <3>1, <3>5
    <3> HIDE DEF a, b, c, e1, e2, e3, e4, e5
    <3> QED
      BY <3>6, <3>7, <3>8
  <2>8. c \in Pos
    <3>1. q2 * y2 \in Pos /\ r2 * x2 \in Pos
      BY <1>a, <1>b, <1>1
    <3> QED
      BY <3>1
  <2> HIDE DEF a, b, c
  <2>9. a <= b
    BY <2>6, <2>7, <2>8, Cancel
  <2> QED
    BY <2>9 DEF a, b
<1>4. ASSUME r1 * q2 <= q1 * r2 PROVE (t * d) * (K * K) <= (n * p) * (L * L)
  <2>1. ((q1 * d) * M) * ((y1 * 1) * M) <= ((n * q2) * L) * ((p * y2) * L)
    <3> DEFINE a == (q1 * d) * M
               b == (n * q2) * L
               e == (y1 * 1) * M
               f == (p * y2) * L
    <3>1. a \in Nat /\ b \in Nat /\ e \in Nat /\ f \in Nat
      BY <1>a, <1>b, <1>1
    <3>2. a <= b /\ e <= f
      BY <1>2
    <3> HIDE DEF a, b, e, f
    <3>3. a * e <= b * f
      BY <3>1, <3>2, Products
    <3> QED
      BY <3>3 DEF a, b, e, f
  <2>2. (((q1 * d) * M) * ((y1 * 1) * M)) * (r2 * x2) <= (((n * q2) * L) * ((p * y2) * L)) * (r2 * x2)
    BY <1>a, <1>b, <1>1, <2>1, Larger
  <2>3. (r1 * q2) * ((d * M) * ((y1 * M) * x2)) <= (q1 * r2) * ((d * M) * ((y1 * M) * x2))
    BY <1>a, <1>b, <1>1, <1>4, Larger
  <2>4. (((x1 * y2) * r2) * K) * ((q2 * d) * M) <= ((r1 * (x2 * y1)) * M) * ((q2 * d) * M)
    BY <1>a, <1>b, <1>1, <1>2, Larger
  <2>5. ((t * x2) * K) * (((y2 * r2) * K) * (q2 * d)) <= ((x1 * 1) * M) * (((y2 * r2) * K) * (q2 * d))
    BY <1>a, <1>b, <1>1, <1>2, Larger
  <2> DEFINE c == (q2 * y2) * (r2 * x2)
             a == (t * d) * (K * K)
             b == (n * p) * (L * L)
  <2>6. a \in Int /\ b \in Int /\ c \in Nat
    BY <1>a, <1>b, <1>1
  <2>7. a * c <= b * c
    <3>1. a * c = ((t * x2) * K) * (((y2 * r2) * K) * (q2 * d))
      BY <1>a, <1>b, <1>1
    <3>2. ((x1 * 1) * M) * (((y2 * r2) * K) * (q2 * d)) = (((x1 * y2) * r2) * K) * ((q2 * d) * M)
      BY <1>a, <1>b, <1>1
    <3>3. ((r1 * (x2 * y1)) * M) * ((q2 * d) * M) = (r1 * q2) * ((d * M) * ((y1 * M) * x2))
      BY <1>a, <1>b, <1>1
    <3>4. (q1 * r2) * ((d * M) * ((y1 * M) * x2)) = (((q1 * d) * M) * ((y1 * 1) * M)) * (r2 * x2)
      BY <1>a, <1>b, <1>1
    <3>5. (((n * q2) * L) * ((p * y2) * L)) * (r2 * x2) = b * c
      BY <1>a, <1>b, <1>1
    <3> DEFINE e1 == ((t * x2) * K) * (((y2 * r2) * K) * (q2 * d))
               e2 == (((x1 * y2) * r2) * K) * ((q2 * d) * M)
               e3 == (r1 * q2) * ((d * M) * ((y1 * M) * x2))
               e4 == (q1 * r2) * ((d * M) * ((y1 * M) * x2))
               e5 == (((n * q2) * L) * ((p * y2) * L)) * (r2 * x2)
    <3>6. e1 \in Int /\ e2 \in Int /\ e3 \in Int /\ e4 \in Int /\ e5 \in Int
      BY <1>a, <1>b, <1>1
    <3>7. e1 <= e2 /\ e2 <= e3 /\ e3 <= e4 /\ e4 <= e5
      BY <2>2, <2>3, <2>4, <2>5, <3>2, <3>3, <3>4
    <3>8. a * c = e1 /\ b * c = e5
      BY <3>1, <3>5
    <3> HIDE DEF a, b, c, e1, e2, e3, e4, e5
    <3> QED
      BY <3>6, <3>7, <3>8
  <2>8. c \in Pos
    <3>1. q2 * y2 \in Pos /\ r2 * x2 \in Pos
      BY <1>a, <1>b, <1>1
    <3> QED
      BY <3>1
  <2> HIDE DEF a, b, c
  <2>9. a <= b
    BY <2>6, <2>7, <2>8, Cancel
  <2> QED
    BY <2>9 DEF a, b
<1>5. /\ AboutAtLeast(t, p, n, d) <=> (t * d) * (L * L) >= (n * p) * (K * K)
      /\ AboutAtLeast(n, d, t, p) <=> (n * p) * (L * L) >= (t * d) * (K * K)
  BY <1>b DEF AboutAtLeast
<1>6. /\ (t * d) * (L * L) \in Int /\ (n * p) * (K * K) \in Int
      /\ (n * p) * (L * L) \in Int /\ (t * d) * (K * K) \in Int
  BY <1>a, <1>b
<1> QED
  BY <1>3, <1>4, <1>5, <1>6 DEF r1, r2, q1, q2

\* What Tally compares: total votes out of power against the quorum that the
\* text says.
Meets(total, power, text) ==
    AtLeast(Quotient(Float(total, 1), Float(power, 1)), ParseFloat(text))

LEMMA NoNaN == ASSUME NEW x \in Int \X Pos PROVE x # NaN
  BY DEF NaN, Pos

LEMMA MeetsRounded ==
    ASSUME NEW total \in Int, NEW power \in Pos, NEW text \in Decimals
    PROVE  /\ (Meets(total, power, text) /\ text[1] > 0) =>
                 total > 0 /\ AboutAtLeast(total, power, text[1], text[2])
           /\ (~Meets(total, power, text) /\ total >= 0) =>
                 AboutAtLeast(text[1], text[2], total, power)
<1> DEFINE x == Float(total, 1)
           y == Float(power, 1)
           a == x[1] * y[2]
           b == x[2] * y[1]
           r == Quotient(x, y)
           q == ParseFloat(text)
           n == text[1]
           d == text[2]
<1>1. n \in Nat /\ d \in Pos /\ 1 \in Pos /\ power \in Int /\ power > 0 /\ text # NaN
  BY DEF Decimals, Pos, NaN
<1>2. /\ x \in Int \X Pos /\ (total = 0 => x = <<0, 1>>)
      /\ (total > 0 => x[1] \in Pos /\ Near(x, total, 1)) /\ (total < 0 => x[1] < 0)
  BY <1>1, FloatNear
<1>3. y \in Int \X Pos /\ y[1] \in Pos /\ Near(y, power, 1)
  BY <1>1, FloatNear
<1>4. r = Float(a, b) /\ q = Float(n, d)
  BY <1>1, Zenon DEF Quotient, ParseFloat
<1>5. Meets(total, power, text) = AtLeast(r, q)
  BY DEF Meets
<1> HIDE DEF x, y
<1>6. a \in Int /\ b \in Pos
  BY <1>2, <1>3 DEF Pos
<1>7. (total > 0 => a \in Pos) /\ (total = 0 => a = 0) /\ (total < 0 => a < 0)
  BY <1>2, <1>3 DEF Pos
<1> HIDE DEF a, b, r, q, n, d
<1>8. /\ r \in Int \X Pos /\ (a = 0 => r = <<0, 1>>)
      /\ (a > 0 => r[1] \in Pos /\ Near(r, a, b)) /\ (a < 0 => r[1] < 0)
  BY <1>4, <1>6, FloatNear
<1>9. n \in Int
  BY <1>1
<1>10. /\ q \in Int \X Pos /\ (n = 0 => q = <<0, 1>>)
       /\ (n > 0 => q[1] \in Pos /\ Near(q, n, d))
  BY <1>1, <1>4, <1>9, FloatNear
<1>11. AtLeast(r, q) <=> r[1] * q[2] >= q[1] * r[2]
  BY <1>8, <1>10, NoNaN, Zenon DEF AtLeast
<1>12. /\ r[1] \in Int /\ r[2] \in Pos /\ q[1] \in Int /\ q[2] \in Pos
       /\ q[1] * r[2] \in Int /\ r[1] * q[2] \in Int
  BY <1>8, <1>10 DEF Pos
<1>13. ASSUME total > 0, n > 0
       PROVE  /\ q[1] * r[2] <= r[1] * q[2] => AboutAtLeast(total, power, n, d)
              /\ r[1] * q[2] <= q[1] * r[2] => AboutAtLeast(n, d, total, power)
  <2>2. a \in Pos
    BY <1>7, <1>13
  <2>3. /\ x \in Pos \X Pos /\ y \in Pos \X Pos /\ r \in Pos \X Pos /\ q \in Pos \X Pos
        /\ Near(x, total, 1) /\ Near(r, a, b) /\ Near(q, n, d)
    BY <1>2, <1>3, <1>8, <1>10, <1>13, <2>2 DEF Pos
  <2>4. total \in Pos /\ n \in Pos
    BY <1>1, <1>13 DEF Pos
  <2>5. Near(r, x[1] * y[2], x[2] * y[1])
    BY <2>3 DEF a, b
  <2>6. Rounded(total, power, n, d, x, y, r, q)
    BY <1>1, <1>3, <2>3, <2>4, <2>5 DEF Rounded
  <2> QED
    BY <2>6, RoundedOrder
<1>14. ASSUME n > 0, r[1] * q[2] >= q[1] * r[2] PROVE total > 0
  <2>1. q[1] * r[2] > 0
    BY <1>10, <1>12, <1>14 DEF Pos
  <2>2. r[1] > 0
    BY <1>12, <1>14, <2>1 DEF Pos
  <2>3. ~(total < 0) /\ ~(total = 0)
    BY <1>7, <1>8, <1>12, <2>2
  <2> QED
    BY <2>3
<1>15. ASSUME ~(r[1] * q[2] >= q[1] * r[2]), total >= 0 PROVE total = 0 \/ n > 0
  <2>1. SUFFICES ASSUME total > 0, n = 0 PROVE FALSE
    BY <1>1, <1>15
  <2>2. r[1] \in Pos /\ q = <<0, 1>>
    BY <1>7, <1>8, <1>10, <2>1 DEF Pos
  <2>3. q[1] = 0 /\ q[2] = 1
    BY <2>2
  <2>4. r[1] * q[2] = r[1] /\ q[1] * r[2] = 0
    BY <1>12, <2>3 DEF Pos
  <2> QED
    BY <1>15, <2>2, <2>4 DEF Pos
<1>16. ASSUME total = 0 PROVE AboutAtLeast(n, d, total, power)
  <2>1. Exact - 1 \in Nat /\ Exact + 1 \in Nat
    BY HalfAssumption DEF Exact
  <2> DEFINE K == Exact - 1
             L == Exact + 1
  <2>2. K \in Nat /\ L \in Nat
    BY <2>1
  <2> HIDE DEF K, L
  <2>3. (n * power) * (L * L) >= (0 * d) * (K * K)
    BY <1>1, <2>2 DEF Pos
  <2> QED
    BY <1>16, <2>3 DEF AboutAtLeast, K, L
<1>17. ASSUME AtLeast(r, q), n > 0 PROVE total > 0 /\ AboutAtLeast(total, power, n, d)
  <2>1. r[1] * q[2] >= q[1] * r[2]
    BY <1>11, <1>17
  <2>2. q[1] * r[2] <= r[1] * q[2]
    BY <1>12, <2>1
  <2> QED
    BY <1>13, <1>14, <1>17, <2>1, <2>2
<1>18. ASSUME ~AtLeast(r, q), total >= 0 PROVE AboutAtLeast(n, d, total, power)
  <2>1. ~(r[1] * q[2] >= q[1] * r[2])
    BY <1>11, <1>18
  <2>2. r[1] * q[2] <= q[1] * r[2]
    BY <1>12, <2>1
  <2>3. total = 0 \/ (total > 0 /\ n > 0)
    BY <1>15, <1>18, <2>1
  <2> QED
    BY <1>13, <1>16, <2>2, <2>3
<1> QED
  BY <1>5, <1>17, <1>18 DEF n, d

LEMMA VotesAccounted == AccountInv => VotesCounted /\ QuorumWasCast
<1> SUFFICES ASSUME AccountInv PROVE VotesCounted /\ QuorumWasCast
  OBVIOUS
<1> DEFINE n == Len(ledger.cast)
<1>1. /\ n \in Nat /\ DOMAIN ledger.cast = 1 .. n /\ DOMAIN gov.proposals = 1 .. n
      /\ gov.params \in Texts /\ gov.quorum = ParseFloat(gov.params)
      /\ \A id \in 1 .. n : /\ ledger.cast[id] \in [Options -> Nat]
                            /\ gov.proposals[id] \in [Options -> Int64]
                            /\ \A o \in Options : gov.proposals[id][o] = Wrap(ledger.cast[id][o])
  <2>1. ledger.cast \in Seq([Options -> Nat])
    BY DEF AccountInv, Ledger
  <2>2. /\ gov.proposals \in Seq([Options -> Int64]) /\ gov.params \in Texts
        /\ gov.quorum = ParseFloat(gov.params)
    BY DEF AccountInv, GovPart, GovKeeper, QuorumParsed
  <2>3. Len(gov.proposals) = n /\ \A id \in 1 .. n, o \in Options :
            gov.proposals[id][o] = Wrap(ledger.cast[id][o])
    BY DEF AccountInv, GovPart, CastKept
  <2> QED
    BY <2>1, <2>2, <2>3
<1> HIDE DEF n
<1>2. ASSUME NEW id \in 1 .. n, SumFunction(ledger.cast[id]) <= MaxInt
      PROVE  gov.proposals[id] = ledger.cast[id]
  <2> DEFINE cast == ledger.cast[id]
             votes == gov.proposals[id]
  <2>1. /\ cast \in [Options -> Nat] /\ votes \in [Options -> Int64]
        /\ \A o \in Options : votes[o] = Wrap(cast[o])
    BY <1>1
  <2>2. SumFunction(cast) <= MaxInt
    BY <1>2
  <2> HIDE DEF cast, votes
  <2>3. IsFiniteSet(Options) /\ SumFunction(cast) = SumFunctionOnSet(cast, Options)
    <3>1. DOMAIN cast = Options
      BY <2>1
    <3> QED
      BY <3>1, OptionsFinite DEF SumFunction
  <2>4. \A o \in Options : cast[o] \in Nat
    BY <2>1
  <2>5. \A o \in Options : cast[o] <= SumFunctionOnSet(cast, Options)
    BY <2>3, <2>4, SumBounds
  <2>6. SumFunctionOnSet(cast, Options) \in Nat
    BY <2>3, <2>4, SumNat
  <2>7. ASSUME NEW o \in Options PROVE votes[o] = cast[o]
    <3>1. cast[o] \in Int64
      BY <2>2, <2>3, <2>4, <2>5, <2>6, ChainBounds DEF Int64
    <3> QED
      BY <2>1, <3>1, WrapSame
  <2>8. votes = cast
    BY <2>1, <2>7
  <2> QED
    BY <2>8 DEF votes, cast
<1>3. ASSUME NEW id \in 1 .. n, NEW votingPower \in 1 .. MaxInt
      PROVE  LET cast == SumFunction(ledger.cast[id])
                 met  == Tally(id, votingPower).quorumMet
                 text == gov.params
             IN  /\ met => text # NaN /\ AboutAtLeast(cast, votingPower, text[1], text[2])
                 /\ ~met => \/ text = NaN \/ cast > MaxInt
                            \/ AboutAtLeast(text[1], text[2], cast, votingPower)
  <2> DEFINE total == Wrap(SumFunction(gov.proposals[id]))
             sum == SumFunction(ledger.cast[id])
             met == Tally(id, votingPower).quorumMet
             text == gov.params
  <2>1. total = Wrap(sum) /\ sum \in Nat
    BY <1>1, VotesWrap
  <2>2. met = Meets(total, votingPower, text)
    BY <1>1 DEF Tally, Meets
  <2>3. votingPower \in Pos /\ text \in Texts
    BY <1>1, ChainBounds DEF Pos
  <2> HIDE DEF total, sum, met, text
  <2>4. total \in Int /\ total <= sum /\ (sum <= MaxInt => total = sum)
    BY <2>1, AmountsInt64, WrapBelow, WrapInt, WrapSame
  <2>5. CASE text = NaN
    <3>1. ~met
      BY <2>2, <2>5, Zenon DEF Meets, AtLeast, ParseFloat
    <3> QED
      BY <2>5, <3>1 DEF met, text
  <2>6. CASE text \in Decimals
    <3>1. /\ (met /\ text[1] > 0) => total > 0 /\ AboutAtLeast(total, votingPower, text[1], text[2])
          /\ (~met /\ total >= 0) => AboutAtLeast(text[1], text[2], total, votingPower)
      BY <2>2, <2>3, <2>4, <2>6, MeetsRounded
    <3>2. text # NaN /\ text[1] \in Nat /\ text[2] \in Nat
      BY <2>6 DEF Decimals, NaN
    <3> DEFINE K == Exact - 1
               L == Exact + 1
    <3>3. K * K \in Nat /\ L * L \in Nat
      <4>1. K \in Nat /\ L \in Nat
        BY HalfAssumption DEF Exact
      <4> HIDE DEF K, L
      <4> QED
        BY <4>1
    <3>4. ASSUME met PROVE AboutAtLeast(sum, votingPower, text[1], text[2])
      <4> DEFINE k == K * K
                 l == L * L
                 a == text[1]
                 b == text[2]
      <4>1. a \in Nat /\ b \in Nat /\ k \in Nat /\ l \in Nat /\ votingPower \in Nat
        BY <2>3, <3>2, <3>3 DEF Pos
      <4>2. a > 0 => (total * b) * l >= (a * votingPower) * k
        BY <3>1, <3>4 DEF AboutAtLeast
      <4> HIDE DEF k, l, a, b
      <4>3. (sum * b) * l >= (a * votingPower) * k
        <5>1. CASE a = 0
          <6>1. (a * votingPower) * k = 0 /\ sum * b \in Nat
            BY <2>1, <4>1, <5>1
          <6>2. (sum * b) * l >= 0
            BY <4>1, <6>1
          <6> QED
            BY <6>1, <6>2
        <5>2. CASE a > 0
          <6>1. total * b <= sum * b /\ total * b \in Int /\ sum * b \in Int
            BY <2>1, <2>4, <4>1, Larger
          <6>2. (total * b) * l <= (sum * b) * l
            BY <4>1, <6>1, Larger
          <6>3. (total * b) * l \in Int /\ (sum * b) * l \in Int /\ (a * votingPower) * k \in Int
            BY <2>1, <2>4, <4>1
          <6> QED
            BY <4>2, <5>2, <6>2, <6>3
        <5> QED
          BY <4>1, <5>1, <5>2
      <4> QED
        BY <4>3 DEF AboutAtLeast, k, l, a, b
    <3>5. ASSUME ~met, sum <= MaxInt PROVE AboutAtLeast(text[1], text[2], sum, votingPower)
      <4>1. total = sum /\ total >= 0
        BY <2>1, <2>4, <3>5
      <4> QED
        BY <3>1, <3>5, <4>1
    <3> HIDE DEF K, L
    <3>6. sum <= MaxInt \/ sum > MaxInt
      BY <2>1, ChainBounds
    <3> QED
      BY <3>2, <3>4, <3>5, <3>6, Zenon DEF sum, met, text
  <2> QED
    BY <2>3, <2>5, <2>6 DEF Texts
<1> QED
  BY <1>1, <1>2, <1>3 DEF VotesCounted, QuorumWasCast

\* Coins, votes and rewards are accounted for whatever is executed: Send neither
\* makes nor loses coins, Vote counts what was cast, Tally reports a quorum that
\* was cast and no other, but for the rounding of float64, and a reward is paid
\* once.
THEOREM AccountsCorrect == Spec => []KeepersAccounted
<1>1. StakingInv /\ AccountInv => KeepersAccounted
  <2> SUFFICES ASSUME StakingInv, AccountInv PROVE KeepersAccounted
    OBVIOUS
  <2>1. VotesCounted /\ QuorumWasCast
    BY VotesAccounted
  <2>2. RewardsPaidOnce
    BY DEF AccountInv, RewardPart, EarnedKept, RewardsPaidOnce
  <2>3. SupplyKept
    BY DEF AccountInv, BankPart
  <2>4. ChainTypeOK
    <3>1. /\ gov.proposals \in Seq([Options -> Int64]) /\ gov.nextID = Len(gov.proposals) + 1
          /\ Len(gov.proposals) \in Nat
      <4>1. gov.proposals \in Seq([Options -> Int64])
        BY DEF AccountInv, GovPart, GovKeeper
      <4>2. gov.nextID = Len(gov.proposals) + 1
        BY DEF AccountInv, GovPart, CastKept
      <4> QED
        BY <4>1, <4>2
    <3>2. /\ DOMAIN gov.proposals = 1 .. gov.nextID - 1
          /\ \A id \in DOMAIN gov.proposals : gov.proposals[id] \in [Options -> Int64]
      BY <3>1
    <3> QED
      BY <3>2 DEF ChainTypeOK, AccountInv, Rest, BankPart, BankKeeper, StakingInv, Keeper, RewardPart
  <2> QED
    BY <2>1, <2>2, <2>3, <2>4 DEF KeepersAccounted
<1> QED
  BY <1>1, InitStaking, StakingStep, InitAccounted, AccountStep, PTL DEF Spec
=============================================================================
