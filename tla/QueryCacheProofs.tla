-------------------------- MODULE QueryCacheProofs --------------------------
(***************************************************************************)
(* CacheFaithful holds of QueryCache for every set of generations, plans   *)
(* and results, every size and every limit.                                *)
(*                                                                         *)
(* Every list that the cache goes through is read from another one at a    *)
(* set of its positions (Reads): what Picked keeps, what SubSeq cuts off,  *)
(* what is behind a new first entry.  The bytes of a list are then those   *)
(* of the positions that one part reads and those of the rest.             *)
(***************************************************************************)
EXTENDS QueryCache, ListFacts, TLAPS, FiniteSetTheorems

Weights(list) == [p \in DOMAIN list |-> list[p].bytes]

\* The list t has the elements of a list at the positions P, each once, the
\* i-th from position o[i].
Reads(t, list, P, o) ==
  /\ list \in Seq(Entry) /\ t \in Seq(Entry)
  /\ P \in SUBSET DOMAIN list
  /\ o \in [DOMAIN t -> P]
  /\ \A p \in P : \E i \in DOMAIN t : o[i] = p
  /\ \A i, j \in DOMAIN t : o[i] = o[j] => i = j
  /\ \A i \in DOMAIN t : t[i] = list[o[i]]

DistinctKeys(list) == \A i, j \in DOMAIN list : list[i].key = list[j].key => i = j

Beginning(a, b) == Len(a) <= Len(b) /\ \A i \in 1..Len(a) : a[i] = b[i]

\* A list of entries has a finite domain and entries of natural size.
LEMMA ListType ==
  ASSUME NEW list \in Seq(Entry)
  PROVE  /\ Len(list) \in Nat
         /\ DOMAIN list = 1..Len(list)
         /\ IsFiniteSet(DOMAIN list)
         /\ \A p \in DOMAIN list : list[p] \in Entry
         /\ \A p \in DOMAIN list : Weights(list)[p] = list[p].bytes /\ Weights(list)[p] \in Nat
         /\ DOMAIN Weights(list) = DOMAIN list
         /\ BytesOf(list) = SumFunctionOnSet(Weights(list), DOMAIN list)
<1>1. Len(list) \in Nat /\ DOMAIN list = 1..Len(list)
  OBVIOUS
<1>2. IsFiniteSet(DOMAIN list)
  <2>1. IsFiniteSet(1..Len(list))
    BY <1>1, FS_Interval
  <2> QED BY <1>1, <2>1
<1>3. \A p \in DOMAIN list : list[p] \in Entry
  OBVIOUS
<1>4. \A p \in DOMAIN list : Weights(list)[p] = list[p].bytes /\ Weights(list)[p] \in Nat
  BY <1>3 DEF Weights, Entry
<1>5. DOMAIN Weights(list) = DOMAIN list
  BY DEF Weights
<1>6. BytesOf(list) = SumFunctionOnSet(Weights(list), DOMAIN list)
  <2>1. BytesOf(list) = SumFunctionOnSet(Weights(list), DOMAIN Weights(list))
    BY DEF BytesOf, SumFunction, Weights
  <2> QED BY <2>1, <1>5
<1> QED BY <1>1, <1>2, <1>3, <1>4, <1>5, <1>6

\* The bytes of a list are natural, and those of the positions it reads.
LEMMA ReadsBytes ==
  ASSUME NEW t, NEW list, NEW P, NEW o, Reads(t, list, P, o)
  PROVE  /\ BytesOf(t) = SumFunctionOnSet(Weights(list), P)
         /\ BytesOf(t) \in Nat
<1>1. list \in Seq(Entry) /\ t \in Seq(Entry) /\ P \in SUBSET DOMAIN list
  BY DEF Reads
<1> DEFINE f == Weights(list)
           g == Weights(t)
           S == DOMAIN t
<1>2. IsFiniteSet(S) /\ \A x \in S : g[x] = t[x].bytes /\ g[x] \in Nat
  BY <1>1, ListType
<1>3. \A p \in DOMAIN list : f[p] = list[p].bytes /\ f[p] \in Nat
  BY <1>1, ListType
<1>4. BytesOf(t) = SumFunctionOnSet(g, S)
  BY <1>1, ListType
<1>5. /\ o \in [S -> P]
      /\ \A p \in P : \E i \in S : o[i] = p
      /\ \A i, j \in S : o[i] = o[j] => i = j
      /\ \A i \in S : t[i] = list[o[i]]
  BY DEF Reads
<1> HIDE DEF f, g, S
<1>6. \A i \in S : g[i] = f[o[i]]
  BY <1>1, <1>2, <1>3, <1>5
<1>7. \A p \in P : f[p] \in Nat
  BY <1>1, <1>3
<1>8. SumFunctionOnSet(f, P) = SumFunctionOnSet(g, S)
  BY <1>2, <1>5, <1>6, <1>7, SumReindexed
<1>9. SumFunctionOnSet(g, S) \in Nat
  BY <1>2, SumOver
<1> QED BY <1>4, <1>8, <1>9 DEF f

\* Two lists that share out the positions of a third share out its bytes.
LEMMA ReadsRest ==
  ASSUME NEW t, NEW u, NEW list, NEW P, NEW Q, NEW o, NEW q,
         Reads(t, list, P, o), Reads(u, list, Q, q), Q = DOMAIN list \ P
  PROVE  /\ BytesOf(list) = BytesOf(t) + BytesOf(u)
         /\ BytesOf(t) \in Nat /\ BytesOf(u) \in Nat
<1>1. list \in Seq(Entry) /\ P \in SUBSET DOMAIN list
  BY DEF Reads
<1> DEFINE f == Weights(list)
           S == DOMAIN list
<1>2. IsFiniteSet(S) /\ \A x \in S : f[x] \in Nat
  BY <1>1, ListType
<1>3. BytesOf(list) = SumFunctionOnSet(f, S)
  BY <1>1, ListType
<1>4. BytesOf(t) = SumFunctionOnSet(f, P) /\ BytesOf(t) \in Nat
  BY ReadsBytes
<1>5. BytesOf(u) = SumFunctionOnSet(f, S \ P) /\ BytesOf(u) \in Nat
  BY ReadsBytes
<1>6. P \in SUBSET S
  BY <1>1
<1> HIDE DEF f, S
<1>7. SumFunctionOnSet(f, S) = SumFunctionOnSet(f, P) + SumFunctionOnSet(f, S \ P)
  BY <1>2, <1>6, SumSplit
<1> QED BY <1>3, <1>4, <1>5, <1>7

\* The keys of a list are those of the positions it reads, and distinct if
\* they are distinct there.
LEMMA ReadsKeys ==
  ASSUME NEW t, NEW list, NEW P, NEW o, Reads(t, list, P, o)
  PROVE  /\ KeysOf(t) = {list[p].key : p \in P}
         /\ DistinctKeys(list) => DistinctKeys(t)
<1>1. KeysOf(t) = {list[p].key : p \in P}
  BY DEF KeysOf, Reads
<1>2. DistinctKeys(list) => DistinctKeys(t)
  BY DEF DistinctKeys, Reads
<1> QED BY <1>1, <1>2

\* What Picked keeps.
LEMMA PickedReads ==
  ASSUME NEW list \in Seq(Entry), NEW P \in SUBSET DOMAIN list
  PROVE  /\ Reads(Picked(list, P), list, P, Positions(P))
         /\ Len(Picked(list, P)) = Cardinality(P)
<1> DEFINE c == Cardinality(P)
           o == Positions(P)
           t == Picked(list, P)
<1>1. DOMAIN list = 1..Len(list) /\ Len(list) \in Nat /\ IsFiniteSet(DOMAIN list)
  BY ListType
<1>2. P \in SUBSET Nat
  BY <1>1
<1>3. IsFiniteSet(P)
  BY <1>1, FS_Subset
<1>4. /\ c \in Nat /\ o \in [1..c -> P]
      /\ \A p \in P : \E i \in 1..c : o[i] = p
      /\ \A i, j \in 1..c : i < j => o[i] < o[j]
  BY <1>2, <1>3, PositionsOrder
<1>5. t = [i \in 1..c |-> list[o[i]]]
  BY <1>2, <1>3, PickedIs
<1> HIDE DEF c, o, t
<1>6. t \in Seq(Entry) /\ Len(t) = c /\ DOMAIN t = 1..c
  <2>1. \A i \in 1..c : list[o[i]] \in Entry
    BY <1>4
  <2> QED BY <2>1, <1>4, <1>5
<1>7. \A i, j \in 1..c : o[i] = o[j] => i = j
  <2> SUFFICES ASSUME NEW i \in 1..c, NEW j \in 1..c, o[i] = o[j] PROVE i = j
    OBVIOUS
  <2>1. o[i] \in Nat /\ o[j] \in Nat
    BY <1>2, <1>4
  <2>2. ~(i < j) /\ ~(j < i)
    BY <2>1, <1>4
  <2> QED BY <2>2, <1>4
<1>8. Reads(t, list, P, o)
  BY <1>4, <1>5, <1>6, <1>7 DEF Reads
<1> QED BY <1>6, <1>8 DEF t, o, c

\* What SubSeq cuts out.
LEMMA SubSeqReads ==
  ASSUME NEW list \in Seq(Entry), NEW a \in Nat \ {0}, NEW b \in Nat,
         a <= b + 1, b <= Len(list)
  PROVE  /\ Reads(SubSeq(list, a, b), list, a..b, [i \in 1..(b - a + 1) |-> i + a - 1])
         /\ Len(SubSeq(list, a, b)) = b - a + 1
<1> DEFINE n == b - a + 1
           t == SubSeq(list, a, b)
           o == [i \in 1..n |-> i + a - 1]
<1>1. n \in Nat
  OBVIOUS
<1>2. t = [i \in 1..n |-> list[i + a - 1]]
  OBVIOUS
<1>3. \A i \in 1..n : i + a - 1 \in a..b /\ i + a - 1 \in 1..Len(list)
  OBVIOUS
<1>4. a..b \in SUBSET DOMAIN list
  OBVIOUS
<1> HIDE DEF t
<1>5. t \in Seq(Entry) /\ Len(t) = n /\ DOMAIN t = 1..n
  <2>1. \A i \in 1..n : list[i + a - 1] \in Entry
    BY <1>3
  <2> HIDE DEF n
  <2> QED BY <2>1, <1>1, <1>2
<1>6. /\ o \in [1..n -> a..b]
      /\ \A i, j \in 1..n : o[i] = o[j] => i = j
  BY <1>3
<1>7. \A p \in a..b : \E i \in 1..n : o[i] = p
  <2> TAKE p \in a..b
  <2>1. p - a + 1 \in 1..n
    OBVIOUS
  <2>2. o[p - a + 1] = p
    BY <2>1
  <2> HIDE DEF o, n
  <2> QED BY <2>1, <2>2
<1>8. \A i \in 1..n : t[i] = list[o[i]]
  BY <1>2
<1> HIDE DEF o, n
<1>9. Reads(t, list, a..b, o)
  BY <1>4, <1>5, <1>6, <1>7, <1>8 DEF Reads
<1> QED BY <1>5, <1>9 DEF t, o, n

-----------------------------------------------------------------------------
(* A new first entry                                                       *)

\* The bytes of a list of one.
LEMMA OneBytes ==
  ASSUME NEW x \in Entry
  PROVE  BytesOf(<<x>>) = x.bytes /\ x.bytes \in Nat
<1> DEFINE t == <<x>>
           f == Weights(t)
<1>1. t \in Seq(Entry) /\ Len(t) = 1 /\ t[1] = x
  OBVIOUS
<1> HIDE DEF t
<1>2. DOMAIN t = {1}
  BY <1>1
<1>3. /\ \A p \in {1} : f[p] \in Nat
      /\ f[1] = x.bytes
      /\ BytesOf(t) = SumFunctionOnSet(f, {1})
  BY <1>1, <1>2, ListType
<1> HIDE DEF f
<1>4. IsFiniteSet({1}) /\ IsFiniteSet({})
  BY FS_Singleton, FS_EmptySet
<1>5. SumFunctionOnSet(f, {1}) = f[1] + SumFunctionOnSet(f, {1} \ {1})
  BY <1>3, <1>4, SumOver
<1>6. SumFunctionOnSet(f, {}) = 0
  BY <1>4, SumOver
<1>7. {1} \ {1} = {}
  OBVIOUS
<1>8. SumFunctionOnSet(f, {1}) = f[1] + 0
  BY <1>5, <1>6, <1>7, Zenon
<1>9. f[1] \in Nat
  BY <1>3
<1>10. SumFunctionOnSet(f, {1}) = f[1]
  BY <1>8, <1>9
<1> QED BY <1>3, <1>9, <1>10 DEF t

\* What is behind the first entry.
LEMMA TailReads ==
  ASSUME NEW x \in Entry, NEW rest \in Seq(Entry)
  PROVE  LET all == <<x>> \o rest
         IN /\ Reads(<<x>>, all, {1}, [i \in {1} |-> 1])
            /\ Reads(rest, all, 2..Len(all), [i \in 1..Len(rest) |-> i + 1])
            /\ all \in Seq(Entry) /\ Len(all) = Len(rest) + 1
            /\ DOMAIN all \ {1} = 2..Len(all)
<1> DEFINE all == <<x>> \o rest
           n == Len(rest)
           o == [i \in 1..n |-> i + 1]
           one == <<x>>
           p == [i \in {1} |-> 1]
<1>1. /\ all \in Seq(Entry) /\ Len(all) = n + 1 /\ DOMAIN all = 1..(n + 1)
      /\ all[1] = x /\ n \in Nat /\ DOMAIN rest = 1..n
  OBVIOUS
<1>2. \A i \in 1..n : rest[i] = all[i + 1]
  OBVIOUS
<1>3. one \in Seq(Entry) /\ DOMAIN one = {1} /\ one[1] = x
  OBVIOUS
<1> HIDE DEF all, n, one
<1>4. DOMAIN all \ {1} = 2..Len(all)
  BY <1>1
<1>5. {1} \in SUBSET DOMAIN all /\ 2..Len(all) \in SUBSET DOMAIN all
  BY <1>1
<1>6. Reads(one, all, {1}, p)
  BY <1>1, <1>3, <1>5 DEF Reads
<1>7. /\ o \in [1..n -> 2..Len(all)]
      /\ \A i, j \in 1..n : o[i] = o[j] => i = j
      /\ \A i \in 1..n : rest[i] = all[o[i]]
  BY <1>1, <1>2
<1>8. \A k \in 2..Len(all) : \E i \in 1..n : o[i] = k
  <2> TAKE k \in 2..Len(all)
  <2>1. k - 1 \in 1..n
    BY <1>1
  <2>2. o[k - 1] = k
    BY <2>1
  <2> HIDE DEF o
  <2> QED BY <2>1, <2>2
<1> HIDE DEF o
<1>9. Reads(rest, all, 2..Len(all), o)
  BY <1>1, <1>5, <1>7, <1>8 DEF Reads
<1> QED BY <1>1, <1>4, <1>6, <1>9 DEF all, n, one, o, p

\* The bytes and the keys of a list with a new first entry.
LEMMA ConsIs ==
  ASSUME NEW x \in Entry, NEW rest \in Seq(Entry)
  PROVE  /\ BytesOf(<<x>> \o rest) = x.bytes + BytesOf(rest)
         /\ BytesOf(rest) \in Nat
         /\ KeysOf(<<x>> \o rest) = KeysOf(rest) \cup {x.key}
         /\ x.key \notin KeysOf(rest) /\ DistinctKeys(rest) => DistinctKeys(<<x>> \o rest)
<1> DEFINE all == <<x>> \o rest
           one == <<x>>
           p == [i \in {1} |-> 1]
           o == [i \in 1..Len(rest) |-> i + 1]
<1>1. /\ Reads(one, all, {1}, p)
      /\ Reads(rest, all, 2..Len(all), o)
      /\ all \in Seq(Entry) /\ Len(all) = Len(rest) + 1
      /\ DOMAIN all \ {1} = 2..Len(all)
  BY TailReads
<1>2. /\ DOMAIN all = 1..(Len(rest) + 1) /\ all[1] = x /\ Len(rest) \in Nat
      /\ DOMAIN rest = 1..Len(rest)
      /\ \A i \in 1..Len(rest) : rest[i] = all[i + 1]
  OBVIOUS
<1>3. BytesOf(one) = x.bytes /\ x.bytes \in Nat
  BY OneBytes
<1> HIDE DEF all, one, p, o
<1>4. BytesOf(all) = BytesOf(one) + BytesOf(rest) /\ BytesOf(rest) \in Nat
  BY <1>1, ReadsRest
<1>5. \A i \in DOMAIN all : i = 1 \/ (i - 1 \in DOMAIN rest /\ all[i] = rest[i - 1])
  BY <1>2
<1>6. \A i \in DOMAIN rest : i + 1 \in DOMAIN all /\ all[i + 1] = rest[i]
  BY <1>2
<1>7. 1 \in DOMAIN all
  BY <1>2
<1>8. KeysOf(all) = KeysOf(rest) \cup {x.key}
  <2>1. ASSUME NEW k \in KeysOf(all) PROVE k \in KeysOf(rest) \cup {x.key}
    <3>1. PICK i \in DOMAIN all : k = all[i].key
      BY DEF KeysOf
    <3> QED BY <3>1, <1>2, <1>5 DEF KeysOf
  <2>2. ASSUME NEW k \in KeysOf(rest) PROVE k \in KeysOf(all)
    <3>1. PICK i \in DOMAIN rest : k = rest[i].key
      BY DEF KeysOf
    <3>2. i + 1 \in DOMAIN all /\ k = all[i + 1].key
      BY <3>1, <1>6
    <3> QED BY <3>2 DEF KeysOf
  <2>3. x.key \in KeysOf(all)
    BY <1>2, <1>7 DEF KeysOf
  <2> QED BY <2>1, <2>2, <2>3
<1>9. ASSUME x.key \notin KeysOf(rest), DistinctKeys(rest)
      PROVE  DistinctKeys(all)
  <2> SUFFICES ASSUME NEW i \in DOMAIN all, NEW j \in DOMAIN all, all[i].key = all[j].key
               PROVE  i = j
    BY DEF DistinctKeys
  <2>1. i \in Int /\ j \in Int
    BY <1>2
  <2>2. CASE i = 1 /\ j # 1
    BY <2>2, <1>2, <1>5, <1>9 DEF KeysOf
  <2>3. CASE i # 1 /\ j = 1
    BY <2>3, <1>2, <1>5, <1>9 DEF KeysOf
  <2>4. CASE i # 1 /\ j # 1
    <3>1. i - 1 = j - 1
      BY <2>4, <1>5, <1>9 DEF DistinctKeys
    <3> QED BY <3>1, <2>1
  <2> QED BY <2>2, <2>3, <2>4
<1> QED BY <1>3, <1>4, <1>8, <1>9 DEF all, one

-----------------------------------------------------------------------------
(* The steps                                                               *)

\* What is known of the list, the map's keys, the byte count and the list of
\* a cache without a limit, but for the limit itself.
Holds(list, keys, total, all) ==
  /\ list \in Seq(Entry) /\ all \in Seq(Entry)
  /\ Beginning(list, all) /\ DistinctKeys(all)
  /\ total = BytesOf(list)
  /\ keys = KeysOf(list)

CacheInv == Holds(entries, lookup, bytes, uses) /\ bytes <= MaximumBytes

\* A beginning of a list with distinct keys has distinct keys.
LEMMA BeginningDistinct ==
  ASSUME NEW list \in Seq(Entry), NEW all \in Seq(Entry),
         Beginning(list, all), DistinctKeys(all)
  PROVE  /\ DistinctKeys(list)
         /\ DOMAIN list \in SUBSET DOMAIN all
         /\ \A p \in DOMAIN list : all[p] = list[p]
<1>1. \A p \in DOMAIN list : p \in DOMAIN all /\ all[p] = list[p]
  BY DEF Beginning
<1> QED BY <1>1 DEF DistinctKeys

\* P has the positions in a list that Q has in one that it begins.
SamePositions(P, list, Q, all) == Q \in SUBSET DOMAIN all /\ P = UpTo(Q, Len(list))

\* Both lists read at these positions, and the bytes of what is erased.
Erased(list, total, all, P, Q) ==
  LET left == Picked(list, P)
      gone == Picked(list, DOMAIN list \ P)
  IN /\ Holds(left, {list[p].key : p \in P}, BytesOf(left), Picked(all, Q))
     /\ total = BytesOf(left) + BytesOf(gone)
     /\ BytesOf(left) \in Nat /\ BytesOf(gone) \in Nat

\* Erasing the same entries keeps a beginning a beginning.
LEMMA ErasedHolds ==
  ASSUME NEW list, NEW keys, NEW total, NEW all, Holds(list, keys, total, all),
         NEW P, NEW Q, SamePositions(P, list, Q, all)
  PROVE  Erased(list, total, all, P, Q)
<1> DEFINE left == Picked(list, P)
           more == Picked(all, Q)
           R == DOMAIN list \ P
           gone == Picked(list, R)
           m == Len(list)
           n == Len(all)
<1>0. Q \in SUBSET DOMAIN all /\ P = UpTo(Q, Len(list))
  BY DEF SamePositions
<1>1. /\ list \in Seq(Entry) /\ all \in Seq(Entry)
      /\ Beginning(list, all) /\ DistinctKeys(all)
      /\ total = BytesOf(list)
  BY DEF Holds
<1>2. /\ m \in Nat /\ n \in Nat /\ DOMAIN list = 1..m /\ DOMAIN all = 1..n
      /\ m <= n /\ \A i \in 1..m : list[i] = all[i]
  BY <1>1 DEF Beginning
<1>3. Q \in SUBSET (1..n)
  BY <1>0, <1>2
<1>4. P \in SUBSET DOMAIN list
  BY <1>0, <1>2, <1>3 DEF UpTo
<1>5. R \in SUBSET DOMAIN list
  OBVIOUS
<1>6. Reads(left, list, P, Positions(P)) /\ Len(left) = Cardinality(P)
  BY <1>1, <1>4, PickedReads
<1>7. Reads(gone, list, R, Positions(R))
  <2> HIDE DEF R
  <2> QED BY <1>1, <1>5, PickedReads
<1>8. Reads(more, all, Q, Positions(Q)) /\ Len(more) = Cardinality(Q)
  BY <1>0, <1>1, PickedReads
<1>9. /\ Cardinality(P) <= Cardinality(Q)
      /\ \A i \in 1..Cardinality(P) : Positions(P)[i] = Positions(Q)[i]
  BY <1>0, <1>2, <1>3, PositionsBeginning
<1> HIDE DEF left, more, gone, m, n
<1>10. BytesOf(list) = BytesOf(left) + BytesOf(gone) /\ BytesOf(left) \in Nat /\ BytesOf(gone) \in Nat
  <2>1. R = DOMAIN list \ P
    OBVIOUS
  <2> HIDE DEF R
  <2> QED BY <2>1, <1>6, <1>7, ReadsRest
<1>11. left \in Seq(Entry) /\ more \in Seq(Entry)
  BY <1>6, <1>8 DEF Reads
<1>12. KeysOf(left) = {list[p].key : p \in P}
  BY <1>6, ReadsKeys
<1>13. DistinctKeys(more)
  BY <1>1, <1>8, ReadsKeys
<1>14. Beginning(left, more)
  <2> SUFFICES ASSUME NEW i \in 1..Len(left) PROVE left[i] = more[i]
    BY <1>6, <1>8, <1>9 DEF Beginning
  <2>1. i \in DOMAIN left /\ i \in DOMAIN more
    BY <1>6, <1>8, <1>9, <1>11
  <2>2. left[i] = list[Positions(P)[i]] /\ Positions(P)[i] \in P
    BY <2>1, <1>6 DEF Reads
  <2>3. more[i] = all[Positions(Q)[i]]
    BY <2>1, <1>8 DEF Reads
  <2>4. Positions(P)[i] = Positions(Q)[i]
    BY <1>6, <1>9
  <2> QED BY <2>2, <2>3, <2>4, <1>2, <1>4
<1>15. Holds(left, {list[p].key : p \in P}, BytesOf(left), more)
  BY <1>11, <1>12, <1>13, <1>14 DEF Holds
<1> QED BY <1>1, <1>10, <1>15 DEF left, more, gone, R, Erased

\* Adding an entry in front, under a key that is not there.
LEMMA ConsHolds ==
  ASSUME NEW list, NEW keys, NEW total, NEW all, Holds(list, keys, total, all),
         NEW x \in Entry, x.key \notin KeysOf(all)
  PROVE  Holds(<<x>> \o list, keys \cup {x.key}, x.bytes + total, <<x>> \o all)
<1> DEFINE s == <<x>> \o list
           t == <<x>> \o all
<1>1. /\ list \in Seq(Entry) /\ all \in Seq(Entry)
      /\ Beginning(list, all) /\ DistinctKeys(all)
      /\ total = BytesOf(list) /\ keys = KeysOf(list)
  BY DEF Holds
<1>2. BytesOf(s) = x.bytes + total /\ KeysOf(s) = keys \cup {x.key}
  BY <1>1, ConsIs
<1>3. DistinctKeys(t)
  BY <1>1, ConsIs
<1>4. /\ s \in Seq(Entry) /\ t \in Seq(Entry)
      /\ Len(s) = Len(list) + 1 /\ Len(t) = Len(all) + 1
      /\ Len(list) \in Nat /\ Len(all) \in Nat
  BY <1>1
<1>5. Beginning(s, t)
  <2>1. Len(list) <= Len(all) /\ \A i \in 1..Len(list) : list[i] = all[i]
    BY <1>1 DEF Beginning
  <2>2. s[1] = x /\ t[1] = x
    BY <1>1
  <2>3. \A i \in 1..Len(s) : i # 1 => i - 1 \in 1..Len(list) /\ s[i] = list[i - 1]
    BY <1>1
  <2>4. \A i \in 1..Len(t) : i # 1 => t[i] = all[i - 1]
    BY <1>1
  <2>5. \A i \in 1..Len(s) : i \in 1..Len(t)
    BY <1>4, <2>1
  <2> HIDE DEF s, t
  <2>6. \A i \in 1..Len(s) : s[i] = t[i]
    BY <2>1, <2>2, <2>3, <2>4, <2>5
  <2> QED BY <2>1, <2>6, <1>4 DEF Beginning
<1> HIDE DEF s, t
<1>6. Holds(s, keys \cup {x.key}, x.bytes + total, t)
  BY <1>2, <1>3, <1>4, <1>5 DEF Holds
<1> QED BY <1>6 DEF s, t

\* Dropping the entries behind the first k.
LEMMA CutHolds ==
  ASSUME NEW list, NEW keys, NEW total, NEW all, Holds(list, keys, total, all),
         NEW k \in 0..Len(list)
  PROVE  LET kept == SubSeq(list, 1, k)
             dropped == SubSeq(list, k + 1, Len(list))
         IN /\ Holds(kept, keys \ KeysOf(dropped), total - BytesOf(dropped), all)
            /\ Len(kept) = k
            /\ total \in Nat /\ BytesOf(dropped) \in Nat
<1> DEFINE n == Len(list)
           kept == SubSeq(list, 1, k)
           dropped == SubSeq(list, k + 1, n)
           o == [i \in 1..(k - 1 + 1) |-> i + 1 - 1]
           q == [i \in 1..(n - (k + 1) + 1) |-> i + (k + 1) - 1]
<1>1. /\ list \in Seq(Entry) /\ all \in Seq(Entry)
      /\ Beginning(list, all) /\ DistinctKeys(all)
      /\ total = BytesOf(list) /\ keys = KeysOf(list)
  BY DEF Holds
<1>2. n \in Nat /\ DOMAIN list = 1..n /\ k \in Nat /\ k <= n
  BY <1>1
<1>3. Reads(kept, list, 1..k, o) /\ Len(kept) = k - 1 + 1
  <2>1. 1 \in Nat \ {0} /\ 1 <= k + 1
    BY <1>2
  <2> QED BY <2>1, <1>1, <1>2, SubSeqReads
<1>4. Reads(dropped, list, (k + 1)..n, q)
  <2>1. k + 1 \in Nat \ {0} /\ k + 1 <= n + 1
    BY <1>2
  <2> QED BY <2>1, <1>1, <1>2, SubSeqReads
<1>5. (k + 1)..n = DOMAIN list \ (1..k)
  BY <1>2
<1> HIDE DEF kept, dropped, o, q, n
<1>6. total = BytesOf(kept) + BytesOf(dropped) /\ BytesOf(kept) \in Nat /\ BytesOf(dropped) \in Nat
  BY <1>1, <1>3, <1>4, <1>5, ReadsRest
<1>7. Len(kept) = k
  BY <1>2, <1>3
<1>8. kept \in Seq(Entry) /\ \A i \in 1..k : kept[i] = list[i]
  <2>1. kept \in Seq(Entry)
    BY <1>3 DEF Reads
  <2>2. \A i \in 1..k : kept[i] = list[i]
    BY <1>1, <1>2 DEF kept
  <2> QED BY <2>1, <2>2
<1>9. Beginning(kept, all)
  BY <1>1, <1>2, <1>7, <1>8 DEF Beginning, n
<1>10. DistinctKeys(list)
  BY <1>1, BeginningDistinct
<1>11. KeysOf(kept) = keys \ KeysOf(dropped)
  <2>1. KeysOf(kept) = {list[p].key : p \in 1..k}
    BY <1>3, ReadsKeys
  <2>2. KeysOf(dropped) = {list[p].key : p \in DOMAIN list \ (1..k)}
    <3> DEFINE B == DOMAIN list \ (1..k)
    <3>1. Reads(dropped, list, B, q)
      BY <1>4, <1>5
    <3> HIDE DEF B
    <3>2. KeysOf(dropped) = {list[p].key : p \in B}
      BY <3>1, ReadsKeys
    <3> QED BY <3>2 DEF B
  <2>3. 1..k \in SUBSET DOMAIN list
    BY <1>3 DEF Reads
  <2> DEFINE A == 1..k
  <2> HIDE DEF A
  <2>4. KeysOf(kept) = {list[p].key : p \in A} /\ KeysOf(dropped) = {list[p].key : p \in DOMAIN list \ A}
    BY <2>1, <2>2 DEF A
  <2>5. A \in SUBSET DOMAIN list
    BY <2>3 DEF A
  <2>6. keys = {list[p].key : p \in DOMAIN list}
    BY <1>1 DEF KeysOf
  <2>7. \A p, r \in DOMAIN list : list[p].key = list[r].key => p = r
    BY <1>10 DEF DistinctKeys
  <2> QED BY <2>4, <2>5, <2>6, <2>7
<1>12. BytesOf(kept) = total - BytesOf(dropped) /\ total \in Nat
  BY <1>6
<1>13. Holds(kept, keys \ KeysOf(dropped), total - BytesOf(dropped), all)
  BY <1>1, <1>8, <1>9, <1>11, <1>12 DEF Holds
<1> QED BY <1>6, <1>7, <1>12, <1>13 DEF kept, dropped, n

\* An entry that is not above the limit is never evicted by its own put, and
\* what is left with it is within the limit.
LEMMA RoomFits ==
  ASSUME NEW x \in Entry, NEW rest \in Seq(Entry), x.bytes <= MaximumBytes
  PROVE  LET all == <<x>> \o rest
             total == x.bytes + BytesOf(rest)
             k == Room(total, all)
         IN /\ k \in 1..Len(all)
            /\ total - BytesOf(SubSeq(all, k + 1, Len(all))) <= MaximumBytes
<1> DEFINE all == <<x>> \o rest
           m == Len(all)
           total == x.bytes + BytesOf(rest)
           fits(n) == total - BytesOf(SubSeq(all, n + 1, m)) <= MaximumBytes
           N == {n \in 1..m : fits(n)}
           T == {0} \cup N
           k == Room(total, all)
<1>1. x.bytes \in Nat /\ MaximumBytes \in Nat /\ BytesOf(rest) \in Nat
  BY ConsIs, OneBytes, CacheAssumption
<1>2. /\ m = Len(rest) + 1 /\ Len(rest) \in Nat
      /\ all \in Seq(Entry)
  OBVIOUS
<1>3. SubSeq(all, 2, m) = rest
  <2> DEFINE t == SubSeq(all, 2, m)
  <2>1. t = [i \in 1..Len(rest) |-> all[i + 1]]
    OBVIOUS
  <2>2. rest = [i \in 1..Len(rest) |-> rest[i]]
    OBVIOUS
  <2>3. \A i \in 1..Len(rest) : all[i + 1] = rest[i]
    OBVIOUS
  <2> HIDE DEF t, all, m
  <2>4. t = [i \in 1..Len(rest) |-> rest[i]]
    BY <2>1, <2>3
  <2> QED BY <2>2, <2>4 DEF t
<1>4. 1 \in N
  <2>1. SubSeq(all, 1 + 1, m) = rest
    BY <1>3
  <2> HIDE DEF all
  <2>2. total - BytesOf(rest) <= MaximumBytes
    BY <1>1
  <2>3. fits(1)
    BY <2>1, <2>2
  <2>4. 1 \in 1..m
    BY <1>2
  <2> HIDE DEF fits
  <2> QED BY <2>3, <2>4
<1>5. k = Max(T)
  BY DEF Room
<1> HIDE DEF fits, all, k, total
<1>6. T \in SUBSET Nat /\ T # {} /\ m \in Nat /\ \A n \in T : n <= m
  BY <1>2
<1>7. k \in T /\ \A n \in T : n <= k
  <2> HIDE DEF T, m
  <2>1. \E n \in T : \A y \in T : y <= n
    BY <1>6, NatMax
  <2>2. \E n \in T : \A y \in T : n >= y
    BY <2>1, <1>6
  <2>3. Max(T) \in T /\ \A y \in T : Max(T) >= y
    BY <2>2 DEF Max
  <2> QED BY <1>5, <2>3, <1>6
<1>8. k \in N
  BY <1>4, <1>7
<1>9. k \in 1..m /\ fits(k)
  BY <1>8
<1> QED BY <1>9 DEF fits, all, k, total

\* Erasing the entries of a key, as in put.
LEMMA WithoutHolds ==
  ASSUME NEW list, NEW keys, NEW total, NEW all, Holds(list, keys, total, all), NEW key
  PROVE  LET left == Without(list, key)
         IN /\ Holds(left, keys \ {key}, total - BytesOf(Under(list, key)), Without(all, key))
            /\ total - BytesOf(Under(list, key)) <= total
            /\ key \notin KeysOf(Without(all, key))
            /\ left \in Seq(Entry)
<1> DEFINE P == {p \in DOMAIN list : list[p].key # key}
           Q == {p \in DOMAIN all : all[p].key # key}
           R == DOMAIN list \ P
           left == Picked(list, P)
           gone == Picked(list, R)
           more == Picked(all, Q)
<1>1. /\ list \in Seq(Entry) /\ all \in Seq(Entry) /\ keys = KeysOf(list)
      /\ Beginning(list, all) /\ DistinctKeys(all)
  BY DEF Holds
<1>2. Q \in SUBSET DOMAIN all
  OBVIOUS
<1>3. P = UpTo(Q, Len(list))
  <2>1. /\ Len(list) <= Len(all) /\ \A i \in 1..Len(list) : list[i] = all[i]
        /\ DOMAIN list = 1..Len(list) /\ DOMAIN all = 1..Len(all)
        /\ Len(list) \in Nat /\ Len(all) \in Nat
    BY <1>1 DEF Beginning
  <2> QED BY <2>1 DEF UpTo
<1>4. R = {p \in DOMAIN list : list[p].key = key}
  OBVIOUS
<1>5. left = Without(list, key) /\ gone = Under(list, key) /\ more = Without(all, key)
  BY <1>4 DEF Without, Under
<1>6. {list[p].key : p \in P} = keys \ {key}
  <2>1. keys = {list[p].key : p \in DOMAIN list}
    BY <1>1 DEF KeysOf
  <2> QED BY <2>1, Zenon
<1>7. key \notin KeysOf(more)
  <2>1. KeysOf(more) = {all[p].key : p \in Q}
    <3> HIDE DEF Q
    <3>1. Reads(more, all, Q, Positions(Q))
      BY <1>1, <1>2, PickedReads
    <3> HIDE DEF more
    <3> QED BY <3>1, ReadsKeys
  <2> QED BY <2>1
<1> HIDE DEF P, Q
<1>8. /\ Holds(left, {list[p].key : p \in P}, BytesOf(left), more)
      /\ total = BytesOf(left) + BytesOf(gone)
      /\ BytesOf(left) \in Nat /\ BytesOf(gone) \in Nat
  <2>1. SamePositions(P, list, Q, all)
    BY <1>2, <1>3 DEF SamePositions
  <2>2. Erased(list, total, all, P, Q)
    BY <2>1, ErasedHolds, Zenon
  <2> QED BY <2>2 DEF Erased
<1> HIDE DEF left, gone, more
<1>9. BytesOf(left) = total - BytesOf(gone) /\ total - BytesOf(gone) <= total
  BY <1>8
<1>10. Holds(left, keys \ {key}, total - BytesOf(gone), more)
  BY <1>6, <1>8, <1>9
<1>11. left \in Seq(Entry)
  BY <1>8 DEF Holds
<1> QED BY <1>5, <1>7, <1>9, <1>10, <1>11

\* Erasing the entries of older generations, as invalidate_before does.
LEMMA NotBeforeHolds ==
  ASSUME NEW list, NEW keys, NEW total, NEW all, Holds(list, keys, total, all), NEW g
  PROVE  LET left == NotBefore(list, g)
         IN /\ Holds(left, {k \in keys : k.generation >= g}, BytesOf(left), NotBefore(all, g))
            /\ BytesOf(left) <= total
            /\ total = BytesOf(list) /\ total \in Nat /\ BytesOf(left) \in Nat
<1> DEFINE P == {p \in DOMAIN list : list[p].key.generation >= g}
           Q == {p \in DOMAIN all : all[p].key.generation >= g}
           left == Picked(list, P)
           gone == Picked(list, DOMAIN list \ P)
           more == Picked(all, Q)
<1>1. /\ list \in Seq(Entry) /\ all \in Seq(Entry) /\ keys = KeysOf(list)
      /\ Beginning(list, all) /\ total = BytesOf(list)
  BY DEF Holds
<1>2. Q \in SUBSET DOMAIN all
  OBVIOUS
<1>3. P = UpTo(Q, Len(list))
  <2>1. /\ Len(list) <= Len(all) /\ \A i \in 1..Len(list) : list[i] = all[i]
        /\ DOMAIN list = 1..Len(list) /\ DOMAIN all = 1..Len(all)
        /\ Len(list) \in Nat /\ Len(all) \in Nat
    BY <1>1 DEF Beginning
  <2> QED BY <2>1 DEF UpTo
<1>4. left = NotBefore(list, g) /\ more = NotBefore(all, g)
  BY DEF NotBefore
<1>5. {list[p].key : p \in P} = {k \in keys : k.generation >= g}
  <2>1. keys = {list[p].key : p \in DOMAIN list}
    BY <1>1 DEF KeysOf
  <2> QED BY <2>1, Zenon
<1> HIDE DEF P, Q
<1>6. /\ Holds(left, {list[p].key : p \in P}, BytesOf(left), more)
      /\ total = BytesOf(left) + BytesOf(gone)
      /\ BytesOf(left) \in Nat /\ BytesOf(gone) \in Nat
  <2>1. SamePositions(P, list, Q, all)
    BY <1>2, <1>3 DEF SamePositions
  <2>2. Erased(list, total, all, P, Q)
    BY <2>1, ErasedHolds, Zenon
  <2> QED BY <2>2 DEF Erased
<1> HIDE DEF left, gone, more
<1>7. BytesOf(left) <= total /\ total \in Nat
  BY <1>6
<1> QED BY <1>1, <1>4, <1>5, <1>6, <1>7

\* What a list with distinct keys has under the key of one of its entries.
LEMMA UnderIs ==
  ASSUME NEW list \in Seq(Entry), DistinctKeys(list), NEW e \in DOMAIN list
  PROVE  Under(list, list[e].key) = <<list[e]>>
<1> DEFINE P == {p \in DOMAIN list : list[p].key = list[e].key}
           t == Picked(list, {e})
           o == Positions({e})
<1>1. P = {e}
  BY DEF DistinctKeys
<1>2. Under(list, list[e].key) = t
  BY <1>1 DEF Under
<1>3. {e} \in SUBSET DOMAIN list
  OBVIOUS
<1>4. Cardinality({e}) = 1
  BY FS_Singleton
<1>5. Reads(t, list, {e}, o) /\ Len(t) = Cardinality({e})
  BY <1>3, PickedReads
<1> HIDE DEF t, o
<1>6. t \in Seq(Entry) /\ Len(t) = 1
  BY <1>4, <1>5 DEF Reads
<1>7. 1 \in DOMAIN t
  BY <1>6
<1>8. t[1] = list[e]
  <2>1. t[1] = list[o[1]] /\ o[1] \in {e}
    BY <1>5, <1>7 DEF Reads
  <2>2. o[1] = e
    BY <2>1
  <2> QED BY <2>1, <2>2, Zenon
<1>9. t = <<list[e]>>
  <2> DEFINE x == list[e]
             u == <<x>>
  <2>1. x \in Entry
    OBVIOUS
  <2> HIDE DEF x
  <2>2. u \in Seq(Entry) /\ Len(u) = 1 /\ u[1] = x
    BY <2>1
  <2> HIDE DEF u
  <2>3. t = [i \in 1..1 |-> x]
    <3>1. t[1] = x
      BY <1>8 DEF x
    <3> QED BY <3>1, <1>6
  <2>4. u = [i \in 1..1 |-> x]
    BY <2>2
  <2> QED BY <2>3, <2>4 DEF u, x
<1> QED BY <1>2, <1>9

\* A hit: the entry moves to the front, in the list and in the one without a
\* limit, and nothing else changes.
LEMMA HitHolds ==
  ASSUME NEW list, NEW keys, NEW total, NEW all, Holds(list, keys, total, all),
         NEW key \in keys
  PROVE  Holds(Under(list, key) \o Without(list, key), keys, total,
               Under(all, key) \o Without(all, key))
<1> DEFINE left == Without(list, key)
           more == Without(all, key)
           rest == total - BytesOf(Under(list, key))
<1>1. /\ list \in Seq(Entry) /\ all \in Seq(Entry) /\ keys = KeysOf(list)
      /\ Beginning(list, all) /\ DistinctKeys(all) /\ total = BytesOf(list)
  BY DEF Holds
<1>2. PICK e \in DOMAIN list : list[e].key = key
  BY <1>1 DEF KeysOf
<1>3. /\ DistinctKeys(list) /\ e \in DOMAIN all /\ all[e] = list[e]
  BY <1>1, <1>2, BeginningDistinct
<1> DEFINE x == list[e]
<1>4. x \in Entry
  BY <1>1
<1>5. Under(list, key) = <<x>>
  BY <1>1, <1>2, <1>3, UnderIs
<1>6. Under(all, key) = <<x>>
  <2>1. Under(all, all[e].key) = <<all[e]>>
    BY <1>1, <1>3, UnderIs
  <2> QED BY <2>1, <1>2, <1>3
<1>7. Holds(left, keys \ {key}, rest, more) /\ key \notin KeysOf(more)
  BY WithoutHolds
<1>8. x.key = key
  BY <1>2
<1> HIDE DEF left, more, rest, x
<1>9. Holds(<<x>> \o left, (keys \ {key}) \cup {x.key}, x.bytes + rest, <<x>> \o more)
  BY <1>4, <1>7, <1>8, ConsHolds
<1>10. (keys \ {key}) \cup {x.key} = keys
  BY <1>8
<1>11. x.bytes + rest = total
  <2>1. BytesOf(<<x>>) = x.bytes /\ x.bytes \in Nat
    BY <1>4, OneBytes
  <2>2. BytesOf(left) = rest /\ left \in Seq(Entry)
    BY <1>7 DEF Holds
  <2>3. BytesOf(left) \in Nat
    BY <1>4, <2>2, ConsIs
  <2>4. rest = total - x.bytes
    BY <1>5, <2>1 DEF rest
  <2>5. total \in Nat
    BY <1>1, <1>4, ConsIs
  <2> QED BY <2>1, <2>4, <2>5
<1>12. Holds(<<x>> \o left, keys, total, <<x>> \o more)
  BY <1>9, <1>10, <1>11
<1> QED BY <1>5, <1>6, <1>12 DEF left, more

\* Nothing is held at first.
LEMMA CacheInit == Init => CacheInv
<1> SUFFICES ASSUME Init PROVE CacheInv
  OBVIOUS
<1>1. entries = <<>> /\ lookup = {} /\ bytes = 0 /\ uses = <<>>
  BY DEF Init
<1> DEFINE none == <<>>
<1>2. none \in Seq(Entry) /\ Len(none) = 0 /\ DOMAIN none = {}
  OBVIOUS
<1> HIDE DEF none
<1>3. BytesOf(none) = 0
  <2>1. BytesOf(none) = SumFunctionOnSet(Weights(none), {})
    BY <1>2, ListType
  <2>2. IsFiniteSet({})
    BY FS_EmptySet
  <2>3. SumFunctionOnSet(Weights(none), {}) = 0
    BY <2>2, SumOver
  <2> QED BY <2>1, <2>3
<1>4. KeysOf(none) = {}
  BY <1>2 DEF KeysOf
<1>5. Beginning(none, none) /\ DistinctKeys(none)
  BY <1>2 DEF Beginning, DistinctKeys
<1>6. Holds(none, {}, 0, none)
  BY <1>2, <1>3, <1>4, <1>5 DEF Holds
<1>7. 0 <= MaximumBytes
  BY CacheAssumption
<1> QED BY <1>1, <1>6, <1>7 DEF CacheInv, none

\* get keeps the invariant.
LEMMA GetKeeps ==
  ASSUME CacheInv, NEW key \in QueryCacheKey, Get(key)
  PROVE  CacheInv'
<1>1. Holds(entries, lookup, bytes, uses) /\ bytes <= MaximumBytes
  BY DEF CacheInv
<1>2. CASE Miss(key)
  <2>1. entries' = entries /\ lookup' = lookup /\ bytes' = bytes /\ uses' = uses
    BY <1>2 DEF Miss
  <2> QED BY <1>1, <2>1 DEF CacheInv
<1>3. CASE Hit(key)
  <2>1. /\ key \in lookup /\ lookup' = lookup /\ bytes' = bytes
        /\ entries' = Under(entries, key) \o Without(entries, key)
        /\ uses' = Under(uses, key) \o Without(uses, key)
    BY <1>3 DEF Hit
  <2>2. Holds(Under(entries, key) \o Without(entries, key), lookup, bytes,
              Under(uses, key) \o Without(uses, key))
    BY <1>1, <2>1, HitHolds
  <2> QED BY <1>1, <2>1, <2>2 DEF CacheInv
<1> QED BY <1>2, <1>3 DEF Get

\* put keeps the invariant: a result too large leaves nothing under its key,
\* another one is in front, and the last ones go until all fit.
LEMMA PutKeeps ==
  ASSUME CacheInv, NEW key \in QueryCacheKey, NEW result \in Results, Put(key, result)
  PROVE  CacheInv'
<1> DEFINE rest == Without(entries, key)
           others == Without(uses, key)
           bytesLeft == bytes - Released(key)
           entry == [key |-> key, result |-> result, bytes |-> measure(key, result)]
           all == <<entry>> \o rest
           total == bytesLeft + entry.bytes
           kept == SubSeq(all, 1, Room(total, all))
           dropped == SubSeq(all, Len(kept) + 1, Len(all))
<1>1. Holds(entries, lookup, bytes, uses) /\ bytes <= MaximumBytes
  BY DEF CacheInv
<1>2. /\ Holds(rest, lookup \ {key}, bytesLeft, others)
      /\ bytesLeft <= bytes
      /\ key \notin KeysOf(others)
      /\ rest \in Seq(Entry)
  BY <1>1, WithoutHolds DEF Released
<1>3. measure(key, result) \in Nat
  <2>1. key.plan \in Plans
    BY DEF QueryCacheKey
  <2> QED BY <2>1, CacheAssumption DEF measure
<1>4. entry \in Entry /\ entry.key = key /\ entry.bytes \in Nat
  BY <1>3 DEF Entry
<1>5. bytesLeft = BytesOf(rest) /\ bytesLeft \in Nat
  <2>1. bytesLeft = BytesOf(rest)
    BY <1>2 DEF Holds
  <2> HIDE DEF rest, entry, bytesLeft
  <2>2. BytesOf(rest) \in Nat
    BY <1>2, <1>4, ConsIs
  <2> QED BY <2>1, <2>2
<1>6. bytes \in Nat /\ MaximumBytes \in Nat
  <2>1. bytes = BytesOf(entries) /\ entries \in Seq(Entry)
    BY <1>1 DEF Holds
  <2> HIDE DEF entry
  <2>2. BytesOf(entries) \in Nat
    BY <1>4, <2>1, ConsIs
  <2> QED BY <2>1, <2>2, CacheAssumption
<1>7. CASE entry.bytes > MaximumBytes
  <2>1. /\ entries' = rest /\ lookup' = lookup \ {key} /\ bytes' = bytesLeft
        /\ uses' = others
    BY <1>7 DEF Put
  <2> HIDE DEF rest, others, bytesLeft, entry
  <2>2. bytesLeft <= MaximumBytes
    BY <1>1, <1>2, <1>5, <1>6
  <2> QED BY <1>2, <2>1, <2>2 DEF CacheInv
<1>8. CASE ~(entry.bytes > MaximumBytes)
  <2>1. /\ entries' = kept
        /\ lookup' = (lookup \cup {key}) \ KeysOf(dropped)
        /\ bytes' = bytesLeft + entry.bytes - BytesOf(dropped)
        /\ uses' = <<entry>> \o others
    BY <1>8 DEF Put
  <2> DEFINE k == Room(total, all)
             keys == (lookup \ {key}) \cup {key}
  <2> HIDE DEF rest, others, bytesLeft, entry
  <2>2. total = entry.bytes + bytesLeft /\ total = entry.bytes + BytesOf(rest)
    BY <1>4, <1>5
  <2>3. Holds(all, keys, total, <<entry>> \o others)
    <3>1. Holds(<<entry>> \o rest, (lookup \ {key}) \cup {entry.key}, entry.bytes + bytesLeft,
                <<entry>> \o others)
      BY <1>2, <1>4, ConsHolds
    <3> QED BY <3>1, <1>4, <2>2
  <2>4. k \in 1..Len(all) /\ total - BytesOf(SubSeq(all, k + 1, Len(all))) <= MaximumBytes
    <3>1. entry.bytes <= MaximumBytes
      BY <1>4, <1>6, <1>8
    <3> DEFINE sum == entry.bytes + BytesOf(rest)
               r == Room(sum, all)
    <3>2. /\ r \in 1..Len(all)
          /\ sum - BytesOf(SubSeq(all, r + 1, Len(all))) <= MaximumBytes
      BY <3>1, <1>2, <1>4, RoomFits
    <3>3. total = sum
      BY <2>2
    <3>4. k = r
      BY <3>3, Zenon
    <3> HIDE DEF sum, total, r, k, all
    <3> QED BY <3>2, <3>3, <3>4
  <2>5. kept = SubSeq(all, 1, k)
    OBVIOUS
  <2>6. k \in 0..Len(all)
    <3> HIDE DEF k, all
    <3> QED BY <2>4
  <2> DEFINE cut == SubSeq(all, k + 1, Len(all))
  <2>7. /\ Holds(SubSeq(all, 1, k), keys \ KeysOf(cut), total - BytesOf(cut), <<entry>> \o others)
        /\ Len(SubSeq(all, 1, k)) = k /\ BytesOf(cut) \in Nat
    <3> DEFINE whole == <<entry>> \o others
    <3>1. Holds(all, keys, total, whole)
      BY <2>3
    <3> HIDE DEF k, all, total, keys, whole
    <3>2. /\ Holds(SubSeq(all, 1, k), keys \ KeysOf(cut), total - BytesOf(cut), whole)
          /\ Len(SubSeq(all, 1, k)) = k /\ BytesOf(cut) \in Nat
      BY <3>1, <2>6, CutHolds
    <3> QED BY <3>2 DEF whole
  <2>8. Len(kept) = k
    BY <2>7, <2>5, Zenon
  <2>9. dropped = cut
    BY <2>8, Zenon
  <2>10. keys = lookup \cup {key}
    OBVIOUS
  <2> DEFINE whole == <<entry>> \o others
  <2>11. Holds(kept, keys \ KeysOf(cut), total - BytesOf(cut), whole)
    BY <2>5, <2>7, Zenon
  <2>12. entries' = kept /\ lookup' = keys \ KeysOf(cut) /\ uses' = whole
    BY <2>1, <2>9, <2>10, Zenon
  <2>13. total - BytesOf(cut) <= MaximumBytes
    BY <2>4
  <2>14. bytes' = total - BytesOf(cut)
    <3>1. bytes' = bytesLeft + entry.bytes - BytesOf(cut)
      BY <2>1, <2>9, Zenon
    <3>2. BytesOf(cut) \in Nat
      BY <2>7
    <3> HIDE DEF cut
    <3> QED BY <3>1, <3>2, <1>4, <1>5
  <2> HIDE DEF kept, keys, total, cut, whole
  <2> QED BY <2>11, <2>12, <2>13, <2>14 DEF CacheInv
<1> QED BY <1>7, <1>8

\* invalidate_before keeps the invariant.
LEMMA InvalidateKeeps ==
  ASSUME CacheInv, NEW g \in Generations, InvalidateBefore(g)
  PROVE  CacheInv'
<1> DEFINE left == NotBefore(entries, g)
<1>1. Holds(entries, lookup, bytes, uses) /\ bytes <= MaximumBytes
  BY DEF CacheInv
<1>2. /\ Holds(left, {k \in lookup : k.generation >= g}, BytesOf(left), NotBefore(uses, g))
      /\ BytesOf(left) <= bytes
      /\ bytes = BytesOf(entries) /\ bytes \in Nat /\ BytesOf(left) \in Nat
  BY <1>1, NotBeforeHolds
<1>3. /\ entries' = left /\ lookup' = {k \in lookup : k.generation >= g}
      /\ bytes' = bytes - (BytesOf(entries) - BytesOf(left))
      /\ uses' = NotBefore(uses, g)
  BY DEF InvalidateBefore
<1> HIDE DEF left
<1>4. bytes' = BytesOf(left)
  BY <1>2, <1>3
<1>5. BytesOf(left) <= MaximumBytes
  BY <1>1, <1>2, CacheAssumption
<1> QED BY <1>2, <1>3, <1>4, <1>5 DEF CacheInv

\* The invariant says what CacheFaithful says.
LEMMA CacheInvFaithful == CacheInv => CacheFaithful
<1> SUFFICES ASSUME CacheInv PROVE CacheFaithful
  OBVIOUS
<1>1. /\ entries \in Seq(Entry) /\ uses \in Seq(Entry)
      /\ Beginning(entries, uses) /\ DistinctKeys(uses)
      /\ bytes = BytesOf(entries) /\ bytes <= MaximumBytes /\ lookup = KeysOf(entries)
  BY DEF CacheInv, Holds
<1>2. entries = SubSeq(uses, 1, Len(entries))
  <2> DEFINE n == Len(entries)
  <2>1. n \in Nat /\ n <= Len(uses) /\ \A i \in 1..n : entries[i] = uses[i]
    BY <1>1 DEF Beginning
  <2>2. entries = [i \in 1..n |-> entries[i]]
    BY <1>1
  <2>3. SubSeq(uses, 1, n) = [i \in 1..n |-> uses[i]]
    BY <1>1, <2>1
  <2> HIDE DEF n
  <2>4. [i \in 1..n |-> entries[i]] = [i \in 1..n |-> uses[i]]
    BY <2>1
  <2>5. entries = SubSeq(uses, 1, n)
    BY <2>2, <2>3, <2>4, Zenon
  <2> QED BY <2>5 DEF n
<1> QED BY <1>1, <1>2 DEF CacheFaithful, DistinctKeys

\* THEOREM: through every sequence of gets, puts and invalidations the byte
\* count, the map and the list agree, the limit is kept, every entry is the
\* last result put under its key, and eviction goes by last use.
THEOREM CacheIsFaithful == Spec => []CacheFaithful
<1>1. Init => CacheInv
  BY CacheInit
<1>2. CacheInv /\ [Next]_vars => CacheInv'
  <2> SUFFICES ASSUME CacheInv, [Next]_vars PROVE CacheInv'
    OBVIOUS
  <2>1. CASE UNCHANGED vars
    <3>1. entries' = entries /\ lookup' = lookup /\ bytes' = bytes /\ uses' = uses
      BY <2>1 DEF vars
    <3> QED BY <3>1 DEF CacheInv
  <2>2. ASSUME NEW key \in QueryCacheKey, Get(key) PROVE CacheInv'
    BY <2>2, GetKeeps
  <2>3. ASSUME NEW key \in QueryCacheKey, NEW result \in Results, Put(key, result)
        PROVE  CacheInv'
    BY <2>3, PutKeeps
  <2>4. ASSUME NEW g \in Generations, InvalidateBefore(g) PROVE CacheInv'
    BY <2>4, InvalidateKeeps
  <2> QED BY <2>1, <2>2, <2>3, <2>4 DEF Next
<1>3. CacheInv => CacheFaithful
  BY CacheInvFaithful
<1> QED BY <1>1, <1>2, <1>3, PTL DEF Spec

=============================================================================
