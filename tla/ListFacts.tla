----------------------------- MODULE ListFacts -----------------------------
(***************************************************************************)
(* Facts that several proofs need: least and greatest elements of sets of  *)
(* natural numbers, from the well-foundedness of their order; the orders   *)
(* of Lists; sums.  An induction over a set is written with the least      *)
(* cardinality of a subset for which the claim fails (NatMin).             *)
(***************************************************************************)
EXTENDS Lists, Sequences, TLAPS, FiniteSetTheorems, WellFoundedInduction

-----------------------------------------------------------------------------
(* Sets of naturals                                                        *)

\* A set of naturals that is not empty has a least element.
LEMMA NatMin ==
  ASSUME NEW T \in SUBSET Nat, T # {}
  PROVE  \E x \in T : \A y \in T : x <= y
<1> DEFINE R == OpToRel(<, Nat)
<1>1. IsWellFoundedOn(R, Nat)
  BY NatLessThanWellFounded
<1>2. \E x \in T : \A y \in T : ~(<<y, x>> \in R)
  <2> HIDE DEF R
  <2> QED BY <1>1, WFMin
<1>3. \A x \in T, y \in T : <<y, x>> \in R <=> y < x
  BY DEF OpToRel
<1> HIDE DEF R
<1>4. PICK x \in T : \A y \in T : ~(<<y, x>> \in R)
  BY <1>2
<1>5. \A y \in T : ~(y < x)
  BY <1>3, <1>4
<1>6. \A y \in T : x <= y
  BY <1>5
<1> QED BY <1>6

\* A bounded set of naturals that is not empty has a greatest element.
LEMMA NatMax ==
  ASSUME NEW T \in SUBSET Nat, T # {}, NEW b \in Nat, \A x \in T : x <= b
  PROVE  \E x \in T : \A y \in T : y <= x
<1> DEFINE D == {b - x : x \in T}
<1>0. PICK t \in T : TRUE
  OBVIOUS
<1>1. D \in SUBSET Nat
  OBVIOUS
<1>2. b - t \in D
  OBVIOUS
<1>3. PICK d \in D : \A e \in D : d <= e
  <2> HIDE DEF D
  <2> QED BY <1>1, <1>2, NatMin
<1>4. PICK x \in T : d = b - x
  OBVIOUS
<1>5. \A y \in T : y <= x
  <2> TAKE y \in T
  <2>1. d <= b - y
    BY <1>3
  <2> QED BY <1>4, <2>1
<1> QED BY <1>5

\* A finite set of naturals is bounded.
LEMMA FiniteBound ==
  ASSUME NEW T \in SUBSET Nat, IsFiniteSet(T)
  PROVE  \E b \in Nat : \A x \in T : x <= b
<1>1. PICK n \in Nat : ExistsSurjection(1..n, T)
  BY FS_NatSurjection
<1>2. PICK f : f \in Surjection(1..n, T)
  BY <1>1 DEF ExistsSurjection
<1>3. f \in [1..n -> T] /\ \A x \in T : \E i \in 1..n : f[i] = x
  BY <1>2 DEF Surjection
<1> DEFINE Bounded(k) == \E b \in Nat : \A i \in 1..k : f[i] <= b
           Bad == {k \in 0..n : ~Bounded(k)}
<1>4. Bad = {}
  <2> SUFFICES ASSUME Bad # {} PROVE FALSE
    OBVIOUS
  <2>1. PICK k \in Bad : \A j \in Bad : k <= j
    <3>1. Bad \in SUBSET Nat
      BY <1>1
    <3> QED BY <3>1, NatMin
  <2>2. k \in 0..n /\ ~Bounded(k)
    BY <2>1
  <2>3. Bounded(0)
    <3>1. \A i \in 1..0 : f[i] <= 0
      OBVIOUS
    <3>2. 0 \in Nat
      OBVIOUS
    <3> QED BY <3>1, <3>2
  <2>4. k # 0 /\ k - 1 \in 0..n
    BY <2>2, <2>3, <1>1
  <2>5. Bounded(k - 1)
    <3> SUFFICES ASSUME ~Bounded(k - 1) PROVE FALSE
      OBVIOUS
    <3>1. k - 1 \in Bad
      BY <2>4
    <3> HIDE DEF Bad
    <3> QED BY <2>1, <2>2, <3>1, <1>1
  <2>6. PICK b \in Nat : \A i \in 1..(k - 1) : f[i] <= b
    BY <2>5
  <2>a. \A i \in 1..n : f[i] \in Nat
    BY <1>3
  <2>b. k \in 1..n
    BY <2>2, <2>4, <1>1
  <2>7. f[k] \in Nat
    BY <2>a, <2>b
  <2>8. \A i \in 1..k : f[i] <= b + f[k]
    <3> TAKE i \in 1..k
    <3>1. CASE i = k
      BY <3>1, <2>7
    <3>2. CASE i # k
      <4>1. i \in 1..(k - 1) /\ i \in 1..n
        BY <3>2, <2>b, <1>1
      <4>2. f[i] \in Nat /\ f[i] <= b
        BY <4>1, <2>a, <2>6
      <4> QED BY <4>2, <2>7
    <3> QED BY <3>1, <3>2
  <2>9. b + f[k] \in Nat
    BY <2>7
  <2> QED BY <2>2, <2>8, <2>9
<1>5. Bounded(n)
  <2>1. n \in 0..n
    BY <1>1
  <2> QED BY <1>4, <2>1
<1> QED BY <1>3, <1>5

\* A finite set of naturals that is not empty has a greatest element.
LEMMA FiniteMax ==
  ASSUME NEW T \in SUBSET Nat, IsFiniteSet(T), T # {}
  PROVE  \E x \in T : \A y \in T : y <= x
<1>1. PICK b \in Nat : \A x \in T : x <= b
  BY FiniteBound
<1> QED BY <1>1, NatMax

-----------------------------------------------------------------------------
(* Orders                                                                  *)

\* A set of distinct keys listed in their order.
Enumerates(key, S, n, s) ==
  /\ s \in [1..n -> S]
  /\ \A x \in S : \E i \in 1..n : s[i] = x
  /\ \A i, j \in 1..n : i < j => key[s[i]] < key[s[j]]

\* An order of S in which the keys do not descend.
IsOrder(key, S, s) ==
  /\ s \in [1..Cardinality(S) -> S]
  /\ IsInjective(s)
  /\ \A i, j \in 1..Cardinality(S) : i < j => key[s[i]] <= key[s[j]]

\* An element with the greatest key can be put behind the others.
LEMMA OrderExtends ==
  ASSUME NEW key, NEW S, IsFiniteSet(S), \A x \in S : key[x] \in Nat,
         NEW m \in S, \A x \in S : key[x] <= key[m],
         NEW s, IsOrder(key, S \ {m}, s)
  PROVE  \E t : IsOrder(key, S, t)
<1> DEFINE n == Cardinality(S)
           t == [i \in 1..n |-> IF i = n THEN m ELSE s[i]]
<1>1. n \in Nat /\ n # 0 /\ Cardinality(S \ {m}) = n - 1
  BY FS_CardinalityType, FS_RemoveElement, FS_EmptySet
<1>2. s \in [1..(n - 1) -> S \ {m}]
  BY <1>1 DEF IsOrder
<1>3. \A i \in 1..n : i # n => i \in 1..(n - 1)
  BY <1>1
<1>4. t \in [1..n -> S]
  BY <1>2, <1>3
<1>5. \A i \in 1..(n - 1) : i \in 1..n /\ i # n /\ t[i] = s[i] /\ s[i] \in S \ {m}
  BY <1>1, <1>2
<1>6. n \in 1..n /\ t[n] = m
  BY <1>1
<1> HIDE DEF t
<1>7. \A i, j \in 1..(n - 1) : i < j => key[s[i]] <= key[s[j]]
  BY <1>1, <1>2 DEF IsOrder
<1>a. \A i, j \in DOMAIN s : s[i] = s[j] => i = j
  BY DEF IsOrder, IsInjective
<1>8. IsInjective(t)
  <2>1. SUFFICES ASSUME NEW i \in 1..n, NEW j \in 1..n, t[i] = t[j] PROVE i = j
    BY <1>4 DEF IsInjective
  <2>2. CASE i = n \/ j = n
    BY <2>1, <2>2, <1>3, <1>5, <1>6
  <2>3. CASE i # n /\ j # n
    <3>1. i \in 1..(n - 1) /\ j \in 1..(n - 1)
      BY <2>3, <1>3
    <3>2. s[i] = s[j]
      BY <2>1, <3>1, <1>5
    <3>3. i \in DOMAIN s /\ j \in DOMAIN s
      BY <3>1, <1>2
    <3> QED BY <3>2, <3>3, <1>a
  <2> QED BY <2>2, <2>3
<1>9. \A i, j \in 1..n : i < j => key[t[i]] <= key[t[j]]
  <2> SUFFICES ASSUME NEW i \in 1..n, NEW j \in 1..n, i < j PROVE key[t[i]] <= key[t[j]]
    OBVIOUS
  <2>1. i \in 1..(n - 1)
    BY <1>1
  <2>2. CASE j = n
    BY <2>1, <2>2, <1>5, <1>6
  <2>3. CASE j # n
    <3>1. j \in 1..(n - 1)
      BY <2>3, <1>3
    <3> QED BY <2>1, <3>1, <1>5, <1>7
  <2> QED BY <2>2, <2>3
<1>10. IsOrder(key, S, t)
  BY <1>4, <1>8, <1>9 DEF IsOrder
<1> QED BY <1>10

\* A finite set with a number as the key of each element has an order.
LEMMA OrderExists ==
  ASSUME NEW key, NEW U, IsFiniteSet(U), \A x \in U : key[x] \in Nat
  PROVE  \E s : IsOrder(key, U, s)
<1> DEFINE Has(S) == \E s : IsOrder(key, S, s)
           Bad == {n \in Nat : \E S \in SUBSET U : Cardinality(S) = n /\ ~Has(S)}
<1>1. Bad = {}
  <2> SUFFICES ASSUME Bad # {} PROVE FALSE
    OBVIOUS
  <2>1. PICK n \in Bad : \A k \in Bad : n <= k
    <3>1. Bad \in SUBSET Nat
      OBVIOUS
    <3> HIDE DEF Bad
    <3> QED BY <3>1, NatMin
  <2>2. PICK S \in SUBSET U : Cardinality(S) = n /\ ~Has(S)
    BY <2>1
  <2>3. IsFiniteSet(S) /\ n \in Nat
    BY <2>1, FS_Subset
  <2>4. CASE S = {}
    <3>1. Cardinality(S) = 0
      BY <2>4, FS_EmptySet
    <3>2. 1..0 = {}
      OBVIOUS
    <3>3. IsOrder(key, S, [i \in 1..0 |-> 0])
      BY <2>4, <3>1, <3>2 DEF IsOrder, IsInjective
    <3> QED BY <3>3, <2>2
  <2>5. CASE S # {}
    <3> DEFINE K == {key[x] : x \in S}
    <3>1. K \in SUBSET Nat /\ K # {}
      BY <2>5
    <3>2. IsFiniteSet(K)
      <4> DEFINE f == [x \in S |-> key[x]]
      <4>1. f \in Surjection(S, K)
        BY DEF Surjection
      <4> HIDE DEF f, K
      <4> QED BY <4>1, <2>3, FS_Surjection
    <3>3. PICK k \in K : \A y \in K : y <= k
      <4> HIDE DEF K
      <4> QED BY <3>1, <3>2, FiniteMax
    <3>4. PICK m \in S : k = key[m]
      OBVIOUS
    <3>5. \A x \in S : key[x] <= key[m]
      BY <3>3, <3>4
    <3>6. Cardinality(S \ {m}) = n - 1 /\ n - 1 \in Nat
      <4> HIDE DEF K, Bad, Has
      <4>1. Cardinality(S \ {m}) = Cardinality(S) - 1
        BY <2>3, FS_RemoveElement
      <4>2. Cardinality(S) # 0
        BY <2>3, <2>5, FS_EmptySet
      <4> QED BY <4>1, <4>2, <2>2, <2>3
    <3>7. Has(S \ {m})
      <4> SUFFICES ASSUME ~Has(S \ {m}) PROVE FALSE
        OBVIOUS
      <4>1. S \ {m} \in SUBSET U
        OBVIOUS
      <4>2. n - 1 \in Bad
        BY <3>6, <4>1
      <4> HIDE DEF Bad
      <4> QED BY <2>1, <2>3, <4>2
    <3>8. PICK s : IsOrder(key, S \ {m}, s)
      BY <3>7
    <3>9. \A x \in S : key[x] \in Nat
      OBVIOUS
    <3>10. Has(S)
      <4> HIDE DEF K
      <4> QED BY <2>3, <3>5, <3>8, <3>9, OrderExtends
    <3> QED BY <3>10, <2>2
  <2> QED BY <2>4, <2>5
<1>2. Cardinality(U) \in Nat
  BY FS_CardinalityType
<1> QED BY <1>1, <1>2

\* What Ascending chooses is an order.
LEMMA AscendingIsOrder ==
  ASSUME NEW key, IsFiniteSet(DOMAIN key), \A x \in DOMAIN key : key[x] \in Nat
  PROVE  IsOrder(key, DOMAIN key, Ascending(key))
<1> DEFINE S == DOMAIN key
           P(s) == /\ IsInjective(s)
                   /\ \A i, j \in DOMAIN s : i < j => key[s[i]] <= key[s[j]]
<1>1. PICK s : IsOrder(key, S, s)
  BY OrderExists
<1>2. s \in [1..Cardinality(S) -> S] /\ P(s)
  BY <1>1 DEF IsOrder
<1>3. Ascending(key) = CHOOSE order \in [1..Cardinality(S) -> S] : P(order)
  BY DEF Ascending
<1>4. Ascending(key) \in [1..Cardinality(S) -> S] /\ P(Ascending(key))
  <2> HIDE DEF P
  <2> QED BY <1>2, <1>3
<1> QED BY <1>4 DEF IsOrder

\* When the keys are distinct, it lists the whole set in strict order.
LEMMA AscendingEnumerates ==
  ASSUME NEW key, IsFiniteSet(DOMAIN key), \A x \in DOMAIN key : key[x] \in Nat,
         \A x, y \in DOMAIN key : key[x] = key[y] => x = y
  PROVE  /\ Enumerates(key, DOMAIN key, Cardinality(DOMAIN key), Ascending(key))
         /\ Cardinality(DOMAIN key) \in Nat
<1> DEFINE S == DOMAIN key
           n == Cardinality(S)
           s == Ascending(key)
<1>1. IsOrder(key, S, s)
  BY AscendingIsOrder
<1>2. n \in Nat
  BY FS_CardinalityType
<1>3. s \in [1..n -> S] /\ IsInjective(s)
  BY <1>1 DEF IsOrder
<1>4. IsFiniteSet(1..n) /\ Cardinality(1..n) = n
  BY <1>2, FS_Interval
<1>5. s \in Injection(1..n, S)
  BY <1>3 DEF Injection
<1>6. s \in Surjection(1..n, S)
  <2> HIDE DEF s, n
  <2> QED BY <1>4, <1>5, FS_Injection DEF n
<1>7. \A x \in S : \E i \in 1..n : s[i] = x
  BY <1>6 DEF Surjection
<1>8. \A i, j \in 1..n : i < j => key[s[i]] < key[s[j]]
  <2> SUFFICES ASSUME NEW i \in 1..n, NEW j \in 1..n, i < j PROVE key[s[i]] < key[s[j]]
    OBVIOUS
  <2>1. key[s[i]] <= key[s[j]]
    BY <1>1 DEF IsOrder
  <2>2. s[i] \in S /\ s[j] \in S
    BY <1>3
  <2>3. s[i] # s[j]
    BY <1>2, <1>3 DEF IsInjective
  <2> HIDE DEF s
  <2>4. key[s[i]] \in Nat /\ key[s[j]] \in Nat /\ key[s[i]] # key[s[j]]
    BY <2>2, <2>3
  <2> QED BY <2>1, <2>4
<1> QED BY <1>2, <1>3, <1>7, <1>8 DEF Enumerates

\* One of two such lists is no longer than the other and agrees with it.
LEMMA OneOrder ==
  ASSUME NEW key, NEW S, \A x \in S : key[x] \in Nat, NEW m \in Nat, NEW n \in Nat,
         NEW s, Enumerates(key, S, m, s), NEW t, Enumerates(key, S, n, t)
  PROVE  \A i \in 1..m : i <= n /\ s[i] = t[i]
<1> DEFINE Bad == {i \in 1..m : ~(i <= n /\ s[i] = t[i])}
<1> SUFFICES ASSUME Bad # {} PROVE FALSE
  OBVIOUS
<1>1. PICK i \in Bad : \A k \in Bad : i <= k
  <2>1. Bad \in SUBSET Nat
    OBVIOUS
  <2> HIDE DEF Bad
  <2> QED BY <2>1, NatMin
<1>2. i \in 1..m /\ i \in Nat
  BY <1>1
<1>3. \A j \in 1..m : j < i => j <= n /\ s[j] = t[j]
  <2> TAKE j \in 1..m
  <2> HAVE j < i
  <2>1. j \notin Bad
    <3> HIDE DEF Bad
    <3> QED BY <1>1, <1>2
  <2> QED BY <2>1
<1>4. /\ \A a \in 1..m : s[a] \in S /\ key[s[a]] \in Nat
      /\ \A a \in 1..n : t[a] \in S /\ key[t[a]] \in Nat
  BY DEF Enumerates
<1>5. /\ \A a, b \in 1..m : a < b => key[s[a]] < key[s[b]]
      /\ \A a, b \in 1..n : a < b => key[t[a]] < key[t[b]]
  BY DEF Enumerates
<1>6. PICK k \in 1..n : t[k] = s[i]
  BY <1>2, <1>4 DEF Enumerates
<1>7. i <= k
  <2> SUFFICES ASSUME k < i PROVE FALSE
    BY <1>2
  <2>1. k \in 1..m /\ s[k] = t[k]
    BY <1>2, <1>3
  <2>2. key[s[k]] < key[s[i]]
    BY <2>1, <1>2, <1>5
  <2> QED BY <2>1, <2>2, <1>2, <1>4, <1>6
<1>8. i \in 1..n
  BY <1>2, <1>7
<1>9. PICK l \in 1..m : s[l] = t[i]
  BY <1>8, <1>4 DEF Enumerates
<1>10. i <= l
  <2> SUFFICES ASSUME l < i PROVE FALSE
    BY <1>2
  <2>1. l \in 1..n /\ s[l] = t[l]
    BY <1>8, <1>3
  <2>2. key[t[l]] < key[t[i]]
    BY <2>1, <1>8, <1>5
  <2> QED BY <2>1, <2>2, <1>8, <1>4, <1>9
<1>11. key[s[i]] <= key[s[l]]
  <2>1. CASE i = l
    BY <2>1, <1>2, <1>4
  <2>2. CASE i # l
    BY <2>2, <1>2, <1>4, <1>5, <1>10
  <2> QED BY <2>1, <2>2
<1>12. i = k
  <2> SUFFICES ASSUME i # k PROVE FALSE
    OBVIOUS
  <2>1. key[t[i]] < key[t[k]]
    BY <1>5, <1>7, <1>8
  <2> QED BY <2>1, <1>2, <1>4, <1>6, <1>8, <1>9, <1>11
<1> QED BY <1>1, <1>6, <1>8, <1>12

\* A set is listed in the order of its keys in one way only.
LEMMA SameOrder ==
  ASSUME NEW key, NEW S, \A x \in S : key[x] \in Nat, NEW m \in Nat, NEW n \in Nat,
         NEW s, Enumerates(key, S, m, s), NEW t, Enumerates(key, S, n, t)
  PROVE  m = n /\ s = t
<1>1. \A i \in 1..m : i <= n /\ s[i] = t[i]
  BY OneOrder
<1>2. \A i \in 1..n : i <= m /\ t[i] = s[i]
  BY OneOrder
<1>3. m = n
  <2>1. m # 0 => m \in 1..m
    OBVIOUS
  <2>2. n # 0 => n \in 1..n
    OBVIOUS
  <2> QED BY <1>1, <1>2, <2>1, <2>2
<1>4. s = t
  BY <1>1, <1>3 DEF Enumerates
<1> QED BY <1>3, <1>4

-----------------------------------------------------------------------------
(* Picked and Sorted                                                       *)

Positions(P) == Ascending([p \in P |-> p])

\* The order that Picked reads a list in.
LEMMA PositionsOrder ==
  ASSUME NEW P \in SUBSET Nat, IsFiniteSet(P)
  PROVE  /\ Cardinality(P) \in Nat
         /\ Positions(P) \in [1..Cardinality(P) -> P]
         /\ \A p \in P : \E i \in 1..Cardinality(P) : Positions(P)[i] = p
         /\ \A i, j \in 1..Cardinality(P) : i < j => Positions(P)[i] < Positions(P)[j]
<1> DEFINE key == [p \in P |-> p]
<1>1. DOMAIN key = P /\ \A p \in P : key[p] = p
  OBVIOUS
<1>2. Positions(P) = Ascending(key)
  BY DEF Positions
<1> HIDE DEF key
<1>3. Enumerates(key, P, Cardinality(P), Positions(P)) /\ Cardinality(P) \in Nat
  BY <1>1, <1>2, AscendingEnumerates
<1>4. Positions(P) \in [1..Cardinality(P) -> P]
  BY <1>3 DEF Enumerates
<1>5. \A p \in P : \E i \in 1..Cardinality(P) : Positions(P)[i] = p
  BY <1>3 DEF Enumerates
<1>6. \A i, j \in 1..Cardinality(P) : i < j => Positions(P)[i] < Positions(P)[j]
  <2> SUFFICES ASSUME NEW i \in 1..Cardinality(P), NEW j \in 1..Cardinality(P), i < j
               PROVE  Positions(P)[i] < Positions(P)[j]
    OBVIOUS
  <2>1. key[Positions(P)[i]] < key[Positions(P)[j]]
    BY <1>3 DEF Enumerates
  <2>2. Positions(P)[i] \in P /\ Positions(P)[j] \in P
    BY <1>4
  <2> QED BY <1>1, <2>1, <2>2
<1> QED BY <1>3, <1>4, <1>5, <1>6

\* Picked reads the list in that order.
LEMMA PickedIs ==
  ASSUME NEW list, NEW P \in SUBSET Nat, IsFiniteSet(P)
  PROVE  Picked(list, P) = [i \in 1..Cardinality(P) |-> list[Positions(P)[i]]]
<1> DEFINE o == Ascending([p \in P |-> p])
<1>1. Positions(P) = o
  BY DEF Positions
<1>2. DOMAIN o = 1..Cardinality(P)
  BY <1>1, PositionsOrder
<1>3. Picked(list, P) = [i \in DOMAIN o |-> list[o[i]]]
  BY DEF Picked
<1> HIDE DEF o
<1> QED BY <1>1, <1>2, <1>3

\* What is picked from a list in strict order is in strict order.
LEMMA PickedEnumerates ==
  ASSUME NEW key, NEW S, NEW n \in Nat, NEW s, Enumerates(key, S, n, s),
         NEW P \in SUBSET (1..n)
  PROVE  /\ Enumerates(key, {s[p] : p \in P}, Cardinality(P), Picked(s, P))
         /\ Cardinality(P) \in Nat
<1> DEFINE T == {s[p] : p \in P}
           m == Cardinality(P)
           o == Positions(P)
           t == Picked(s, P)
<1>0. IsFiniteSet(1..n)
  BY FS_Interval
<1>1. P \in SUBSET Nat /\ IsFiniteSet(P)
  <2>1. P \in SUBSET Nat
    OBVIOUS
  <2>2. IsFiniteSet(P)
    BY <1>0, FS_Subset
  <2> QED BY <2>1, <2>2
<1>2. /\ m \in Nat /\ o \in [1..m -> P]
      /\ \A p \in P : \E i \in 1..m : o[i] = p
      /\ \A i, j \in 1..m : i < j => o[i] < o[j]
  BY <1>1, PositionsOrder
<1>3. t = [i \in 1..m |-> s[o[i]]]
  BY <1>1, PickedIs
<1> HIDE DEF m, o, t
<1>4. t \in [1..m -> T]
  BY <1>2, <1>3
<1>5. \A x \in T : \E i \in 1..m : t[i] = x
  BY <1>2, <1>3
<1>6. \A i, j \in 1..m : i < j => key[t[i]] < key[t[j]]
  <2> SUFFICES ASSUME NEW i \in 1..m, NEW j \in 1..m, i < j PROVE key[t[i]] < key[t[j]]
    OBVIOUS
  <2>1. o[i] \in 1..n /\ o[j] \in 1..n /\ o[i] < o[j] /\ t[i] = s[o[i]] /\ t[j] = s[o[j]]
    BY <1>2, <1>3
  <2> QED BY <2>1 DEF Enumerates
<1> QED BY <1>2, <1>4, <1>5, <1>6 DEF Enumerates, m, t

\* A list of n elements, all those of S, that have distinct keys: k gives the
\* key that is at each position.
Keyed(key, S, n, list, k) ==
  /\ n \in Nat
  /\ list \in [1..n -> S]
  /\ \A x \in S : \E p \in 1..n : list[p] = x
  /\ \A x \in S : key[x] \in Nat
  /\ \A p, q \in 1..n : key[list[p]] = key[list[q]] => p = q
  /\ k = [p \in 1..n |-> key[list[p]]]

\* Such a list, sorted, is in strict order.
LEMMA SortedEnumerates ==
  ASSUME NEW key, NEW n, NEW list, NEW S, NEW k, Keyed(key, S, n, list, k)
  PROVE  Enumerates(key, S, n, Sorted(list, k))
<1> DEFINE o == Ascending(k)
           t == Sorted(list, k)
<1> USE DEF Keyed
<1>1. DOMAIN k = 1..n /\ \A p \in 1..n : k[p] = key[list[p]] /\ k[p] \in Nat
  OBVIOUS
<1>2. IsFiniteSet(1..n) /\ Cardinality(1..n) = n
  BY FS_Interval
<1>3. Enumerates(k, 1..n, n, o)
  BY <1>1, <1>2, AscendingEnumerates
<1>4. /\ o \in [1..n -> 1..n] /\ \A p \in 1..n : \E i \in 1..n : o[i] = p
      /\ \A i, j \in 1..n : i < j => k[o[i]] < k[o[j]]
  BY <1>3 DEF Enumerates
<1>5. t = [i \in 1..n |-> list[o[i]]]
  BY <1>4 DEF Sorted
<1> HIDE DEF o, t
<1>6. t \in [1..n -> S]
  BY <1>4, <1>5
<1>7. \A x \in S : \E i \in 1..n : t[i] = x
  <2> TAKE x \in S
  <2>1. PICK p \in 1..n : list[p] = x
    OBVIOUS
  <2>2. PICK i \in 1..n : o[i] = p
    BY <1>4
  <2> QED BY <2>1, <2>2, <1>5
<1>8. \A i, j \in 1..n : i < j => key[t[i]] < key[t[j]]
  BY <1>1, <1>4, <1>5
<1>9. Enumerates(key, S, n, t)
  BY <1>6, <1>7, <1>8 DEF Enumerates
<1> QED BY <1>9 DEF t

-----------------------------------------------------------------------------
(* Sums                                                                    *)

\* A function that gives the sum of f over every subset of U.
SumsUp(f, U, h) ==
  /\ h \in [SUBSET U -> Nat]
  /\ h[{}] = 0
  /\ \A S \in SUBSET U : \A x \in S : h[S] = f[x] + h[S \ {x}]

\* One element more.
LEMMA SumsExtend ==
  ASSUME NEW f, NEW U, NEW y, y \notin U, \A x \in U \cup {y} : f[x] \in Nat,
         NEW h, SumsUp(f, U, h)
  PROVE  \E g : SumsUp(f, U \cup {y}, g)
<1> DEFINE V == U \cup {y}
           g == [S \in SUBSET V |-> IF y \in S THEN f[y] + h[S \ {y}] ELSE h[S]]
<1>0. h \in [SUBSET U -> Nat] /\ h[{}] = 0
  BY DEF SumsUp
<1>1. \A S \in SUBSET V : S \ {y} \in SUBSET U /\ (y \notin S => S \in SUBSET U)
  OBVIOUS
<1>2. \A S \in SUBSET U : h[S] \in Nat
  BY <1>0
<1>3. g \in [SUBSET V -> Nat]
  BY <1>1, <1>2
<1>4. g[{}] = 0
  BY <1>0
<1>5. \A S \in SUBSET V : g[S] = IF y \in S THEN f[y] + h[S \ {y}] ELSE h[S]
  OBVIOUS
<1> HIDE DEF g
<1>6. \A S \in SUBSET V : \A x \in S : g[S] = f[x] + g[S \ {x}]
  <2> SUFFICES ASSUME NEW S \in SUBSET V, NEW x \in S PROVE g[S] = f[x] + g[S \ {x}]
    OBVIOUS
  <2>0. S \ {x} \in SUBSET V
    OBVIOUS
  <2>1. CASE x = y
    <3>1. g[S] = f[y] + h[S \ {y}]
      BY <2>1, <1>5
    <3>2. g[S \ {y}] = h[S \ {y}]
      BY <2>1, <2>0, <1>5
    <3> QED BY <2>1, <3>1, <3>2
  <2>2. CASE x # y /\ y \in S
    <3>1. g[S] = f[y] + h[S \ {y}]
      BY <2>2, <1>5
    <3>2. g[S \ {x}] = f[y] + h[(S \ {x}) \ {y}]
      BY <2>0, <2>2, <1>5
    <3>3. h[S \ {y}] = f[x] + h[(S \ {y}) \ {x}]
      <4>1. S \ {y} \in SUBSET U /\ x \in S \ {y}
        BY <2>2
      <4> QED BY <4>1 DEF SumsUp
    <3>4. (S \ {y}) \ {x} = (S \ {x}) \ {y}
      OBVIOUS
    <3>5. (S \ {y}) \ {x} \in SUBSET U
      OBVIOUS
    <3>6. h[(S \ {y}) \ {x}] \in Nat /\ h[S \ {y}] \in Nat
      BY <3>5, <1>1, <1>2
    <3> DEFINE a == h[(S \ {y}) \ {x}]
    <3>7. g[S] = f[y] + (f[x] + a) /\ g[S \ {x}] = f[y] + a
      BY <3>1, <3>2, <3>3, <3>4
    <3>8. f[x] \in Int
      BY <2>2
    <3> QED BY <3>6, <3>7, <3>8
  <2>3. CASE y \notin S
    <3>1. g[S] = h[S] /\ g[S \ {x}] = h[S \ {x}]
      BY <2>0, <2>3, <1>5
    <3>2. S \in SUBSET U
      BY <2>3
    <3> QED BY <3>1, <3>2 DEF SumsUp
  <2> QED BY <2>1, <2>2, <2>3
<1>7. SumsUp(f, V, g)
  BY <1>3, <1>4, <1>6 DEF SumsUp
<1> QED BY <1>7

\* Over a finite set there is such a function.
LEMMA SumsExist ==
  ASSUME NEW f, NEW U, IsFiniteSet(U), \A x \in U : f[x] \in Nat
  PROVE  \E h : SumsUp(f, U, h)
<1> DEFINE Has(S) == \E h : SumsUp(f, S, h)
           Bad == {n \in Nat : \E S \in SUBSET U : Cardinality(S) = n /\ ~Has(S)}
<1>1. Bad = {}
  <2> SUFFICES ASSUME Bad # {} PROVE FALSE
    OBVIOUS
  <2>1. PICK n \in Bad : \A k \in Bad : n <= k
    <3>1. Bad \in SUBSET Nat
      OBVIOUS
    <3> HIDE DEF Bad
    <3> QED BY <3>1, NatMin
  <2>2. PICK S \in SUBSET U : Cardinality(S) = n /\ ~Has(S)
    BY <2>1
  <2>3. IsFiniteSet(S) /\ n \in Nat
    BY <2>1, FS_Subset
  <2>4. CASE S = {}
    <3> DEFINE h == [s \in SUBSET {} |-> 0]
    <3>1. h \in [SUBSET S -> Nat] /\ h[{}] = 0
      BY <2>4
    <3>2. \A s \in SUBSET S : \A x \in s : FALSE
      BY <2>4
    <3> HIDE DEF h
    <3>3. SumsUp(f, S, h)
      BY <3>1, <3>2 DEF SumsUp
    <3> QED BY <3>3, <2>2
  <2>5. CASE S # {}
    <3>1. PICK y \in S : TRUE
      BY <2>5
    <3>2. Cardinality(S \ {y}) = n - 1 /\ n - 1 \in Nat
      <4> HIDE DEF Bad, Has
      <4>1. Cardinality(S \ {y}) = Cardinality(S) - 1
        BY <2>3, FS_RemoveElement
      <4>2. Cardinality(S) # 0
        BY <2>3, <2>5, FS_EmptySet
      <4> QED BY <4>1, <4>2, <2>2, <2>3
    <3>3. Has(S \ {y})
      <4> SUFFICES ASSUME ~Has(S \ {y}) PROVE FALSE
        OBVIOUS
      <4>1. S \ {y} \in SUBSET U
        OBVIOUS
      <4>2. n - 1 \in Bad
        BY <3>2, <4>1
      <4> HIDE DEF Bad
      <4> QED BY <2>1, <2>3, <4>2
    <3>4. PICK h : SumsUp(f, S \ {y}, h)
      BY <3>3
    <3>5. (S \ {y}) \cup {y} = S /\ y \notin S \ {y}
      OBVIOUS
    <3>6. \A x \in (S \ {y}) \cup {y} : f[x] \in Nat
      OBVIOUS
    <3>7. \E g : SumsUp(f, (S \ {y}) \cup {y}, g)
      BY <3>4, <3>5, <3>6, SumsExtend
    <3> QED BY <3>5, <3>7, <2>2
  <2> QED BY <2>4, <2>5
<1>2. Cardinality(U) \in Nat
  BY FS_CardinalityType
<1> QED BY <1>1, <1>2

\* The library's sum is what any such function gives.
LEMMA SumIs ==
  ASSUME NEW f, NEW U, IsFiniteSet(U), NEW h, SumsUp(f, U, h)
  PROVE  SumFunctionOnSet(f, U) = h[U]
<1> DEFINE c(s) == CHOOSE x \in s : TRUE
           F(g) == [s \in SUBSET U |-> IF s = {} THEN 0 ELSE f[c(s)] + g[s \ {c(s)}]]
           iter == CHOOSE g : g = F(g)
<1>1. SumFunctionOnSet(f, U) = iter[U]
  BY DEF SumFunctionOnSet, FoldFunctionOnSet, MapThenFoldSet
<1>2. \A s \in SUBSET U : s # {} => c(s) \in s
  OBVIOUS
<1>3. h = F(h)
  <2>1. h \in [SUBSET U -> Nat] /\ h[{}] = 0
    BY DEF SumsUp
  <2>2. \A s \in SUBSET U : h[s] = IF s = {} THEN 0 ELSE f[c(s)] + h[s \ {c(s)}]
    <3> HIDE DEF c
    <3> QED BY <2>1, <1>2 DEF SumsUp
  <2> HIDE DEF c
  <2> QED BY <2>1, <2>2
<1>4. iter = F(iter)
  <2> HIDE DEF F
  <2> QED BY <1>3
<1> HIDE DEF iter
<1>5. \A s \in SUBSET U : iter[s] = IF s = {} THEN 0 ELSE f[c(s)] + iter[s \ {c(s)}]
  <2> HIDE DEF c
  <2> QED BY <1>4
<1> DEFINE Bad == {n \in Nat : \E s \in SUBSET U : Cardinality(s) = n /\ iter[s] # h[s]}
<1>6. Bad = {}
  <2> SUFFICES ASSUME Bad # {} PROVE FALSE
    OBVIOUS
  <2>1. PICK n \in Bad : \A k \in Bad : n <= k
    <3>1. Bad \in SUBSET Nat
      OBVIOUS
    <3> HIDE DEF Bad
    <3> QED BY <3>1, NatMin
  <2>2. PICK s \in SUBSET U : Cardinality(s) = n /\ iter[s] # h[s]
    BY <2>1
  <2>3. IsFiniteSet(s) /\ n \in Nat
    BY <2>1, FS_Subset
  <2>4. s # {}
    <3> HIDE DEF c
    <3> QED BY <2>2, <1>5 DEF SumsUp
  <2> DEFINE x == c(s)
             r == s \ {x}
  <2>5. x \in s
    BY <2>4
  <2> HIDE DEF c
  <2>6. iter[s] = f[x] + iter[r]
    BY <2>4, <1>5
  <2>7. h[s] = f[x] + h[r]
    BY <2>5 DEF SumsUp
  <2> HIDE DEF x
  <2>8. iter[r] # h[r]
    BY <2>2, <2>6, <2>7
  <2>9. Cardinality(r) = n - 1 /\ n - 1 \in Nat
    <3> HIDE DEF Bad
    <3>1. Cardinality(s \ {x}) = Cardinality(s) - 1
      BY <2>3, <2>5, FS_RemoveElement
    <3>2. Cardinality(s) # 0
      BY <2>3, <2>4, FS_EmptySet
    <3> QED BY <3>1, <3>2, <2>2, <2>3
  <2>10. r \in SUBSET U
    OBVIOUS
  <2> HIDE DEF r
  <2>11. n - 1 \in Bad
    BY <2>8, <2>9, <2>10
  <2> HIDE DEF Bad
  <2> QED BY <2>1, <2>3, <2>11
<1>7. Cardinality(U) \in Nat
  BY FS_CardinalityType
<1>8. iter[U] = h[U]
  BY <1>6, <1>7
<1> QED BY <1>1, <1>8

\* The sum over a finite set of numbers: nothing, and one element more.
LEMMA SumOver ==
  ASSUME NEW f, NEW S, IsFiniteSet(S), \A x \in S : f[x] \in Nat
  PROVE  /\ SumFunctionOnSet(f, S) \in Nat
         /\ S = {} => SumFunctionOnSet(f, S) = 0
         /\ \A x \in S : SumFunctionOnSet(f, S) = f[x] + SumFunctionOnSet(f, S \ {x})
<1>1. PICK h : SumsUp(f, S, h)
  BY SumsExist
<1>2. SumFunctionOnSet(f, S) = h[S]
  BY <1>1, SumIs
<1>3. h[S] \in Nat
  BY <1>1 DEF SumsUp
<1>4. S = {} => h[S] = 0
  BY <1>1 DEF SumsUp
<1>5. ASSUME NEW x \in S
      PROVE  SumFunctionOnSet(f, S) = f[x] + SumFunctionOnSet(f, S \ {x})
  <2> DEFINE R == S \ {x}
             g == [T \in SUBSET R |-> h[T]]
  <2>1. g \in [SUBSET R -> Nat] /\ g[{}] = 0
    BY <1>1 DEF SumsUp
  <2>2. \A T \in SUBSET R : \A y \in T : g[T] = f[y] + g[T \ {y}]
    <3> SUFFICES ASSUME NEW T \in SUBSET R, NEW y \in T PROVE g[T] = f[y] + g[T \ {y}]
      OBVIOUS
    <3>1. T \ {y} \in SUBSET R /\ T \in SUBSET S
      OBVIOUS
    <3> QED BY <3>1, <1>1 DEF SumsUp
  <2> HIDE DEF g
  <2>3. SumsUp(f, R, g)
    BY <2>1, <2>2 DEF SumsUp
  <2>4. IsFiniteSet(R)
    BY FS_Subset
  <2>5. SumFunctionOnSet(f, R) = g[R]
    <3> HIDE DEF R
    <3> QED BY <2>3, <2>4, SumIs
  <2>6. g[R] = h[R]
    BY DEF g
  <2>7. h[S] = f[x] + h[R]
    BY <1>1 DEF SumsUp
  <2> QED BY <1>2, <2>5, <2>6, <2>7
<1> QED BY <1>2, <1>3, <1>4, <1>5

\* Functions whose values at o[x] and x agree, where o is one-to-one from S
\* onto T, have the same sum over T and over S.
LEMMA SumReindexed ==
  ASSUME NEW f, NEW g, NEW S, IsFiniteSet(S), NEW T, NEW o, o \in [S -> T],
         \A y \in T : \E x \in S : o[x] = y,
         \A x, y \in S : o[x] = o[y] => x = y,
         \A y \in T : f[y] \in Nat, \A x \in S : g[x] = f[o[x]]
  PROVE  SumFunctionOnSet(f, T) = SumFunctionOnSet(g, S)
<1> DEFINE Image(R) == {o[x] : x \in R}
           Same(R) == SumFunctionOnSet(f, Image(R)) = SumFunctionOnSet(g, R)
           Bad == {n \in Nat : \E R \in SUBSET S : Cardinality(R) = n /\ ~Same(R)}
<1>0. \A R \in SUBSET S : IsFiniteSet(R) /\ IsFiniteSet(Image(R))
  <2> TAKE R \in SUBSET S
  <2>1. IsFiniteSet(R)
    BY FS_Subset
  <2> DEFINE q == [x \in R |-> o[x]]
  <2>2. q \in Surjection(R, Image(R))
    BY DEF Surjection
  <2> HIDE DEF q, Image
  <2> QED BY <2>1, <2>2, FS_Surjection
<1>1. \A R \in SUBSET S : /\ \A x \in R : g[x] \in Nat
                          /\ \A y \in Image(R) : f[y] \in Nat
  OBVIOUS
<1>2. Bad = {}
  <2> SUFFICES ASSUME Bad # {} PROVE FALSE
    OBVIOUS
  <2>1. PICK n \in Bad : \A k \in Bad : n <= k
    <3>1. Bad \in SUBSET Nat
      OBVIOUS
    <3> HIDE DEF Bad
    <3> QED BY <3>1, NatMin
  <2>2. PICK R \in SUBSET S : Cardinality(R) = n /\ ~Same(R)
    BY <2>1
  <2>3. IsFiniteSet(R) /\ IsFiniteSet(Image(R)) /\ n \in Nat
    BY <1>0, <2>1
  <2>4. R # {}
    <3> SUFFICES ASSUME R = {} PROVE FALSE
      OBVIOUS
    <3>1. Image(R) = {}
      OBVIOUS
    <3>2. SumFunctionOnSet(g, {}) = 0 /\ SumFunctionOnSet(f, {}) = 0
      BY FS_EmptySet, SumOver
    <3> QED BY <2>2, <3>1, <3>2
  <2>5. PICK x \in R : TRUE
    BY <2>4
  <2> DEFINE Q == R \ {x}
  <2>6. Image(Q) = Image(R) \ {o[x]}
    <3>1. \A y \in R : y # x => o[y] # o[x]
      OBVIOUS
    <3> QED BY <3>1
  <2>7. SumFunctionOnSet(g, R) = g[x] + SumFunctionOnSet(g, Q)
    <3> HIDE DEF Image
    <3> QED BY <2>3, <1>1, SumOver
  <2>8. SumFunctionOnSet(f, Image(R)) = f[o[x]] + SumFunctionOnSet(f, Image(Q))
    <3>1. o[x] \in Image(R)
      OBVIOUS
    <3>2. \A y \in Image(R) : f[y] \in Nat
      BY <1>1
    <3> HIDE DEF Image, Bad, Same
    <3>3. \A y \in Image(R) : SumFunctionOnSet(f, Image(R)) =
                               f[y] + SumFunctionOnSet(f, Image(R) \ {y})
      BY <2>3, <3>2, SumOver
    <3> HIDE DEF Q
    <3> QED BY <2>6, <3>1, <3>3
  <2>9. ~Same(Q)
    <3>1. g[x] = f[o[x]]
      OBVIOUS
    <3>2. SumFunctionOnSet(g, R) # SumFunctionOnSet(f, Image(R))
      BY <2>2
    <3> HIDE DEF Image, Q
    <3>3. SumFunctionOnSet(f, Image(Q)) # SumFunctionOnSet(g, Q)
      BY <3>1, <3>2, <2>7, <2>8
    <3> QED BY <3>3
  <2>10. Cardinality(Q) = n - 1 /\ n - 1 \in Nat
    <3> HIDE DEF Bad, Image
    <3>1. Cardinality(R \ {x}) = Cardinality(R) - 1
      BY <2>3, FS_RemoveElement
    <3>2. Cardinality(R) # 0
      BY <2>3, <2>4, FS_EmptySet
    <3> QED BY <3>1, <3>2, <2>2, <2>3
  <2>11. Q \in SUBSET S
    OBVIOUS
  <2> HIDE DEF Q
  <2>12. n - 1 \in Bad
    BY <2>9, <2>10, <2>11
  <2> HIDE DEF Bad
  <2> QED BY <2>1, <2>3, <2>12
<1>3. Same(S)
  <2>1. Cardinality(S) \in Nat
    BY FS_CardinalityType
  <2> QED BY <1>2, <2>1
<1>4. Image(S) = T
  OBVIOUS
<1> QED BY <1>3, <1>4

\* The sum depends on the values over the set only.
LEMMA SumSame ==
  ASSUME NEW f, NEW g, NEW S, IsFiniteSet(S),
         \A x \in S : f[x] \in Nat, \A x \in S : g[x] = f[x]
  PROVE  SumFunctionOnSet(f, S) = SumFunctionOnSet(g, S)
<1> DEFINE o == [x \in S |-> x]
<1>1. o \in [S -> S] /\ \A x \in S : o[x] = x
  OBVIOUS
<1> HIDE DEF o
<1>2. /\ \A y \in S : \E x \in S : o[x] = y
      /\ \A x, y \in S : o[x] = o[y] => x = y
      /\ \A x \in S : g[x] = f[o[x]]
  BY <1>1
<1> QED BY <1>1, <1>2, SumReindexed

\* The sum over a set is that over a part of it and that over the rest.
LEMMA SumSplit ==
  ASSUME NEW f, NEW S, IsFiniteSet(S), \A x \in S : f[x] \in Nat, NEW A \in SUBSET S
  PROVE  SumFunctionOnSet(f, S) = SumFunctionOnSet(f, A) + SumFunctionOnSet(f, S \ A)
<1> DEFINE Sum(R) == SumFunctionOnSet(f, R)
           Same(R) == Sum(S) = Sum(R) + Sum(S \ R)
           Bad == {n \in Nat : \E R \in SUBSET S : Cardinality(R) = n /\ ~Same(R)}
<1>1. \A R \in SUBSET S : /\ IsFiniteSet(R)
                          /\ Sum(R) \in Nat
                          /\ R = {} => Sum(R) = 0
                          /\ \A x \in R : Sum(R) = f[x] + Sum(R \ {x})
  <2> TAKE R \in SUBSET S
  <2>1. IsFiniteSet(R)
    BY FS_Subset
  <2>2. \A x \in R : f[x] \in Nat
    OBVIOUS
  <2> QED BY <2>1, <2>2, SumOver
<1> HIDE DEF Sum
<1>2. Bad = {}
  <2> SUFFICES ASSUME Bad # {} PROVE FALSE
    OBVIOUS
  <2>1. PICK n \in Bad : \A k \in Bad : n <= k
    <3>1. Bad \in SUBSET Nat
      OBVIOUS
    <3> HIDE DEF Bad
    <3> QED BY <3>1, NatMin
  <2>2. PICK R \in SUBSET S : Cardinality(R) = n /\ ~Same(R)
    BY <2>1
  <2>3. IsFiniteSet(R) /\ n \in Nat
    BY <1>1, <2>1
  <2>4. R # {}
    <3> SUFFICES ASSUME R = {} PROVE FALSE
      OBVIOUS
    <3>1. S \ R = S
      OBVIOUS
    <3>2. Sum(R) = 0 /\ Sum(S) \in Nat
      BY <1>1
    <3>3. Same(R)
      BY <3>1, <3>2
    <3> QED BY <2>2, <3>3
  <2>5. PICK x \in R : TRUE
    BY <2>4
  <2> DEFINE Q == R \ {x}
  <2>6. (S \ Q) \ {x} = S \ R /\ x \in S \ Q /\ x \in S
    OBVIOUS
  <2>7. Q \in SUBSET S /\ S \ Q \in SUBSET S /\ S \ R \in SUBSET S
    OBVIOUS
  <2>8. Sum(R) = f[x] + Sum(Q) /\ f[x] \in Nat /\ Sum(Q) \in Nat
    BY <1>1, <2>6, <2>7
  <2>9. Sum(S \ Q) = f[x] + Sum(S \ R) /\ Sum(S \ R) \in Nat
    <3>1. Sum(S \ Q) = f[x] + Sum((S \ Q) \ {x})
      BY <1>1, <2>6, <2>7
    <3> QED BY <3>1, <1>1, <2>6, <2>7
  <2>10. Cardinality(Q) = n - 1 /\ n - 1 \in Nat
    <3> HIDE DEF Bad
    <3>1. Cardinality(R \ {x}) = Cardinality(R) - 1
      BY <2>3, FS_RemoveElement
    <3>2. Cardinality(R) # 0
      BY <2>3, <2>4, FS_EmptySet
    <3> QED BY <3>1, <3>2, <2>2, <2>3
  <2> HIDE DEF Q
  <2>11. ~Same(Q)
    BY <2>2, <2>8, <2>9
  <2>12. n - 1 \in Bad
    BY <2>7, <2>10, <2>11
  <2> HIDE DEF Bad
  <2> QED BY <2>1, <2>3, <2>12
<1>3. Same(A)
  <2>1. Cardinality(A) \in Nat
    BY <1>1, FS_CardinalityType
  <2> QED BY <1>2, <2>1
<1> QED BY <1>3 DEF Sum

-----------------------------------------------------------------------------
(* Beginnings                                                              *)

UpTo(Q, m) == {p \in Q : p <= m}

\* The order in which a beginning of the positions is read is a beginning of
\* the order in which all are read.
LEMMA PositionsBeginning ==
  ASSUME NEW m \in Nat, NEW n \in Nat, NEW Q \in SUBSET (1..n)
  PROVE  /\ Cardinality(UpTo(Q, m)) <= Cardinality(Q)
         /\ \A i \in 1..Cardinality(UpTo(Q, m)) : Positions(UpTo(Q, m))[i] = Positions(Q)[i]
<1> DEFINE P == UpTo(Q, m)
           c == Cardinality(P)
           d == Cardinality(Q)
           key == [p \in 1..n |-> p]
           o == Positions(Q)
           Low == {i \in 1..d : o[i] <= m}
<1>1. P \in SUBSET (1..n) /\ P \in SUBSET Nat /\ Q \in SUBSET Nat /\ \A p \in Q : p \in Nat
  <2>1. \A p \in 1..n : p \in Nat
    OBVIOUS
  <2>2. \A p \in P : p \in Q
    BY DEF UpTo
  <2> HIDE DEF P
  <2> QED BY <2>1, <2>2
<1>2. \A p \in P : key[p] \in Nat /\ key[p] = p
  BY <1>1
<1>3. IsFiniteSet(P) /\ IsFiniteSet(Q)
  <2>1. IsFiniteSet(1..n)
    BY FS_Interval
  <2> HIDE DEF P
  <2> QED BY <1>1, <2>1, FS_Subset
<1>4. /\ d \in Nat /\ o \in [1..d -> Q]
      /\ \A p \in Q : \E i \in 1..d : o[i] = p
      /\ \A i, j \in 1..d : i < j => o[i] < o[j]
  BY <1>1, <1>3, PositionsOrder
<1>5. /\ c \in Nat /\ Positions(P) \in [1..c -> P]
      /\ \A p \in P : \E i \in 1..c : Positions(P)[i] = p
      /\ \A i, j \in 1..c : i < j => Positions(P)[i] < Positions(P)[j]
  <2> HIDE DEF P
  <2> QED BY <1>1, <1>3, PositionsOrder
<1>6. Enumerates(key, P, c, Positions(P))
  <2> HIDE DEF P, c, key
  <2>1. \A i, j \in 1..c : i < j => key[Positions(P)[i]] < key[Positions(P)[j]]
    BY <1>2, <1>5
  <2> QED BY <2>1, <1>5 DEF Enumerates
<1> HIDE DEF o, d
<1>7. PICK r \in 0..d : \A i \in 1..d : i <= r <=> o[i] <= m
  <2>1. CASE Low = {}
    <3>1. \A i \in 1..d : ~(i <= 0) /\ ~(o[i] <= m)
      BY <2>1
    <3>2. 0 \in 0..d
      BY <1>4
    <3> HIDE DEF Low
    <3> QED BY <3>1, <3>2
  <2>2. CASE Low # {}
    <3>1. Low \in SUBSET Nat /\ \A i \in Low : i <= d
      BY <1>4
    <3>2. PICK r \in Low : \A i \in Low : i <= r
      <4> HIDE DEF Low
      <4> QED BY <2>2, <3>1, <1>4, NatMax
    <3>3. \A i \in 1..d : o[i] \in Nat
      BY <1>1, <1>4
    <3>4. r \in 1..d /\ o[r] <= m /\ o[r] \in Nat
      BY <3>2, <3>3
    <3>5. \A i \in 1..d : i <= r => o[i] <= m
      BY <3>3, <3>4, <1>4
    <3>6. \A i \in 1..d : o[i] <= m => i <= r
      BY <3>2
    <3>7. r \in 0..d
      BY <3>4, <1>4
    <3> HIDE DEF Low
    <3> QED BY <3>5, <3>6, <3>7
  <2> QED BY <2>1, <2>2
<1> DEFINE t == [i \in 1..r |-> o[i]]
<1>8. r \in Nat /\ r <= d /\ \A i \in 1..r : i \in 1..d /\ o[i] <= m
  BY <1>4, <1>7
<1>9. t \in [1..r -> P]
  BY <1>4, <1>8 DEF UpTo
<1>10. \A p \in P : \E i \in 1..r : t[i] = p
  <2> TAKE p \in P
  <2>1. p \in Q /\ p <= m
    BY DEF UpTo
  <2>2. PICK i \in 1..d : o[i] = p
    BY <2>1, <1>4
  <2>3. i \in 1..r
    BY <2>1, <2>2, <1>4, <1>7, <1>8
  <2> QED BY <2>2, <2>3
<1>11. \A i, j \in 1..r : i < j => t[i] < t[j]
  BY <1>4, <1>8
<1> HIDE DEF P, key, t, c
<1>12. \A i, j \in 1..r : i < j => key[t[i]] < key[t[j]]
  BY <1>2, <1>9, <1>11
<1>13. Enumerates(key, P, r, t)
  BY <1>9, <1>10, <1>12 DEF Enumerates
<1>14. \A p \in P : key[p] \in Nat
  BY <1>2
<1>15. c = r /\ Positions(P) = t
  BY <1>5, <1>6, <1>8, <1>13, <1>14, SameOrder
<1>16. \A i \in 1..c : Positions(P)[i] = o[i]
  BY <1>15 DEF t
<1> QED BY <1>8, <1>15, <1>16 DEF P, c, d, o

=============================================================================
